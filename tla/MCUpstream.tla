------------------------------ MODULE MCUpstream -----------------------------
(***************************************************************************)
(* What comes from upstream: a scan that walks pages while markets open and *)
(* close, the order-book stream, requests for books, and the records that   *)
(* pages are normalised into.  A behaviour moves one part, the others rest  *)
(* in their first state.                                                    *)
(*                                                                          *)
(* Discovery has three markets of the range and one beyond it that only the *)
(* verification path delivers.  With a page of one item and a guard of two  *)
(* pages the whole range cannot be walked while three of its markets are    *)
(* open, so the windows are visited.  Two markets of equal priority share a *)
(* window and a bucket, and the event of one of them is not listed: only    *)
(* the primary path has it.                                                 *)
(***************************************************************************)
EXTENDS Discovery, BookStream, ClobRequests, MarketRecord

CONSTANT Parts \* the parts that the run explores

VARIABLE part \* the part that moves in this behaviour

F(c) == [closes |-> c, dated |-> TRUE, liquid |-> TRUE, parsed |-> TRUE,
         tokens |-> TRUE, tradable |-> TRUE]

MCMarket == 1 .. 4
MCEvent == 1 .. 2
MCEventOf == <<1, 0, 2, 1>>
MCFact == <<F(1), F(3), F(2), F(6)>>
MCPriority == <<1, 2, 2, 1>>
MCWindows == {[lo |-> 0, hi |-> 1], [lo |-> 1, hi |-> 4]}
MCEdges == {1, 4}

(* A price of 10 is one; a number may be missing or too large for a float.    *)
MCNoNumber == -1
MCImmense == 1000
MCCategoryOrder == <<"Sports", "Politics", "Economy">>
MCKeywordsOf == [Sports |-> {"nba"}, Politics |-> {"election", "trade war"},
                 Economy |-> {"rates", "trade war"}]

Raw(id, tokens, names, prices, volumes) ==
    [id |-> id, question |-> "asked", active |-> TRUE, closed |-> FALSE, archived |-> FALSE,
     tokens |-> tokens, names |-> names, prices |-> prices, volumes |-> volumes]
RawMarkets == {Raw("m1", ts, ns, ps, vs) :
                 ts \in {<<"y", "n">>, <<"", "n">>, <<"y", "", "d">>},
                 ns \in {<<"Yes", "No">>, <<"Yes">>},
                 ps \in {<<3, 7>>, <<-1, 7, 12>>, <<3, 1000>>},
                 vs \in {<<-1, 5>>, <<1000>>, <<>>}}
RawTrades == [wallet : {"w", ""}, asset : {"y"}, at : {5, -1, 101, 1000},
              size : {2}, price : {3, 12}]
Points == [at : {5, 101, 1000, -1}, price : {3, -1, 1000}]
RawLevels == [price : {3, 12, -1}, size : {0, 4}]
Upto2(S) == {<<>>} \cup {<<x>> : x \in S} \cup {<<x, y>> : x \in S, y \in S}
MCPage ==
    {[kind |-> "markets", tags |-> ts, rows |-> <<r>> \o s] :
        ts \in {<<>>, <<"", "nba">>, <<"odd", "trade war", "nba">>}, r \in RawMarkets,
        s \in {<<>>, <<Raw("m2", <<"z">>, <<"Maybe">>, <<5>>, <<4>>)>>,
               <<[Raw("m3", <<>>, <<>>, <<>>, <<>>) EXCEPT !.closed = TRUE]>>}}
    \cup {[kind |-> "trades", rows |-> s] : s \in Upto2(RawTrades)}
    \cup {[kind |-> "history", rows |-> s] : s \in Upto2(Points)}
    \cup {[kind |-> "book", bids |-> s, asks |-> t, at |-> a] :
             s \in Upto2(RawLevels), t \in Upto2(RawLevels), a \in {5, -1}}

-----------------------------------------------------------------------------
PartsInit ==
    /\ part \in Parts
    /\ Init
    /\ WInit
    /\ QInit
    /\ NInit
    /\ part # "scan" => listing = [m \in Market |-> "open"]
    /\ part # "books" => wanted = <<>>

PartsNext ==
    \/ part = "scan" /\ Next /\ UNCHANGED <<part, wVars, qVars, nVars>>
    \/ part = "stream" /\ WNext /\ UNCHANGED <<part, vars, qVars, nVars>>
    \/ part = "books" /\ QNext /\ UNCHANGED <<part, vars, wVars, nVars>>
    \/ part = "records" /\ NNext /\ UNCHANGED <<part, vars, wVars, qVars>>

allVars == <<part, vars, wVars, qVars, nVars>>

PartsSpec == PartsInit /\ [][PartsNext]_allVars

(* A scan that runs keeps running. *)
PartsFairSpec == PartsSpec /\ WF_vars(part = "scan" /\ Work)

(* Every scan ends, in a result or in an error. *)
ScanEnds == part = "scan" ~> phase \in {"done", "raised"}
=============================================================================
