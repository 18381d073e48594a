------------------------------ MODULE MCCohorts ------------------------------
(***************************************************************************)
(* What the research rests on: a scheduled freezer and one by hand against *)
(* a retention pass while scans age past the window, the rows that the     *)
(* research readers compare, the historical screen, and the weekly cohort  *)
(* with overlapping commands: its list with batches of every size, and the *)
(* record of a frozen week after rank runs of one market.  A behaviour     *)
(* moves one part, the others rest in their first state.                   *)
(***************************************************************************)
EXTENDS CohortFreeze, ResearchReplay, HistoricalScreen, WeeklyCohort, TLC

CONSTANT Parts \* the parts that the run explores

VARIABLE part \* the part that moves in this behaviour

MCCadencePeriod == [c \in {"6h", "daily"} |-> IF c = "6h" THEN 1 ELSE 3]
MCHorizonOf == [h \in {"1h"} |-> 1]

(* Screens where the price speaks alone, the book against it, and the book *)
(* with a price that stood still.                                          *)
Reads(z, book, flow, mid, spread, depth, top) ==
    [z |-> z, book |-> book, flow |-> flow, mid |-> mid, spread |-> spread,
     depth |-> depth, top |-> top]
MCScreen == {Reads(1, -1, 0, 2, 2, 4, TRUE), Reads(-1, -1, 1, 1, -1, -1, FALSE),
             Reads(0, 1, 0, 2, 0, 4, FALSE)}
MCQuote == {[mid |-> 3, spread |-> 2, depth |-> 2, closed |-> FALSE],
            [mid |-> -1, spread |-> -1, depth |-> -1, closed |-> TRUE]}

MCMarketOf == [t \in {"a1", "b1"} |-> IF t = "b1" THEN "B" ELSE "A"]

(* Both sides of one market, and signals of two others. *)
MCSnap == {[market |-> "A", token |-> "y", strength |-> 1, ref |-> 1, priced |-> TRUE],
           [market |-> "A", token |-> "n", strength |-> 2, ref |-> 2, priced |-> TRUE],
           [market |-> "C", token |-> "y", strength |-> 3, ref |-> 3, priced |-> TRUE],
           [market |-> "D", token |-> "y", strength |-> 2, ref |-> 4, priced |-> TRUE]}

(* In the record part the rank runs are given signals of one market. *)
MCRecordBatch == {{}} \cup {{s} : s \in {t \in MCSnap : t.market = "A"}}

MarketSymmetry == Permutations(Market)

-----------------------------------------------------------------------------
PartsInit ==
    /\ part \in Parts
    /\ Init
    /\ PInit
    /\ HInit
    /\ KInit
    /\ part # "screen" => active = <<"A", "B">>

PartsNext ==
    \/ part = "freeze" /\ Next /\ UNCHANGED <<part, pVars, hVars, kVars>>
    \/ part = "replay" /\ PNext /\ UNCHANGED <<part, vars, hVars, kVars>>
    \/ part = "screen" /\ HNext /\ UNCHANGED <<part, vars, pVars, kVars>>
    \/ part = "list" /\ KNext /\ UNCHANGED <<part, vars, pVars, hVars, trackVars>>
    \/ /\ part = "record" /\ KNext /\ UNCHANGED <<part, vars, pVars, hVars>>
       /\ \A r \in RankRun : ranking'[r].batch \in MCRecordBatch

allVars == <<part, vars, pVars, hVars, kVars>>

PartsSpec == PartsInit /\ [][PartsNext]_allVars
=============================================================================
