-------------------------------- MODULE MCJobs -------------------------------
(***************************************************************************)
(* What the jobs produce: ticks over two gated jobs ("forward" may run in  *)
(* any tick that starts a unit later, "retention" only three units later), *)
(* the scores of the opportunity board with the trades its requests answer *)
(* and the cache in front of it, a recording that a backtest reads, the    *)
(* daily snapshot, the board of signals, and requests for the universe of  *)
(* markets while scans publish it.  The names of the ticks also stand for  *)
(* the tasks of the cache.  A behaviour moves one part, the others rest in *)
(* their first state.                                                      *)
(***************************************************************************)
EXTENDS SchedulerTick, OpportunityScore, BoardCache, Backtest, DailySnapshot,
        SignalBoard, ExploreCache, TLC

CONSTANT Parts \* the parts that the run explores

VARIABLE part \* the part that moves in this behaviour

MCJobOrder == <<"forward", "retention">>
MCInterval == [j \in {"forward", "retention"} |-> IF j = "forward" THEN 1 ELSE 3]

(* Two markets: a market may have the analyses of both outcomes, of one that is *)
(* inconclusive, of one with little evidence, or none.                          *)
Sig(token, direction, strength, price, book, quality, complete, implied, change) ==
    [token |-> token, direction |-> direction, strength |-> strength, price |-> price,
     book |-> book, quality |-> quality, complete |-> complete, implied |-> implied,
     change |-> change]
MCAnalyses ==
    {<<>>,
     <<Sig("yes", "up", 60, 80, 20, 90, 3, 30, "rose"),
       Sig("no", "down", 50, 80, 60, 90, 3, 70, "fell")>>,
     <<Sig("yes", "none", 30, 0, 60, 50, 1, 20, "none")>>,
     <<Sig("yes", "down", 20, 3, 10, 80, 2, -1, "fell")>>}

Traded(token, side, size, price, wallet, at) ==
    [token |-> token, side |-> side, size |-> size, price |-> price,
     wallet |-> wallet, at |-> at]
MCTradePage ==
    {<<>>,
     <<Traded("yes", "BUY", 1, 3, "w1", 1), Traded("yes", "BUY", 1, 3, "w2", 8),
       Traded("yes", "BUY", 9, 3, "w1", 9)>>,
     <<Traded("no", "BUY", 2, 7, "w1", 2), Traded("no", "BUY", 2, 7, "w2", 3),
       Traded("no", "BUY", 3, 7, "w3", 4)>>}
MCMarketFacts == {[liquidity |-> 10, spread |-> 1, age |-> 0, start |-> 0, end |-> 10],
                  [liquidity |-> -1, spread |-> -1, age |-> 30, start |-> -1, end |-> -1]}

(* Frames that hold everything, nothing, and a mid without a trade. *)
Shot(last, mid, volume, lean) ==
    [last |-> last, mid |-> mid, volume |-> volume, lean |-> lean]
MCFrameKind == {Shot(50, 51, 1, 60), Shot(-1, -1, -1, -1), Shot(-1, 56, 5, -1)}
MCUnpriced == -1

Says(direction, strength, priority, category, hours) ==
    [direction |-> direction, strength |-> strength, priority |-> priority,
     category |-> category, hours |-> hours]
MCRow == {Says("up", 1, 2, "politics", 1), Says("down", 3, 1, "politics", 9),
              Says("up", 2, 2, "crypto", 9)}
MCRequest ==
    [kind : {"opportunities"}, scope : {"any"}, category : {"All", "politics"},
     window : {"all", "within_6h"}, sort : {"any"}]
    \cup [kind : {"signals"}, scope : {"full", "public"}, category : {"All"},
          window : {"all"}, sort : {"strength_asc"}]
MCDisplayLimit == [c \in {"All", "politics"} |-> 1]
MCBackTo == <<3, 6>>

JobSymmetry == Permutations(Tick) \cup Permutations(Req)

-----------------------------------------------------------------------------
PartsInit ==
    /\ part \in Parts
    /\ TickInit
    /\ OInit
    /\ BInit
    /\ FInit
    /\ DInit
    /\ GInit
    /\ XInit
    /\ part # "explore" => ~prod

PartsNext ==
    \/ part = "ticks" /\ TickNext /\ UNCHANGED <<part, oVars, bVars, fVars, dVars,
                                                 gVars, xVars>>
    \/ part = "board" /\ ONext /\ UNCHANGED <<part, vars, bVars, fVars, dVars,
                                              gVars, xVars>>
    \/ part = "cache" /\ BNext /\ UNCHANGED <<part, vars, oVars, fVars, dVars,
                                              gVars, xVars>>
    \/ part = "backtest" /\ FNext /\ UNCHANGED <<part, vars, oVars, bVars, dVars,
                                                 gVars, xVars>>
    \/ part = "daily" /\ DNext /\ UNCHANGED <<part, vars, oVars, bVars, fVars,
                                              gVars, xVars>>
    \/ part = "signals" /\ GNext /\ UNCHANGED <<part, vars, oVars, bVars, fVars,
                                                dVars, xVars>>
    \/ part = "explore" /\ XNext /\ UNCHANGED <<part, vars, oVars, bVars, fVars,
                                                dVars, gVars>>

allVars == <<part, vars, oVars, bVars, fVars, dVars, gVars, xVars>>

PartsSpec == PartsInit /\ [][PartsNext]_allVars
=============================================================================
