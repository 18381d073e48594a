--------------------------- MODULE HistoricalScreen ---------------------------
(***************************************************************************)
(* The reconstructed screen (evaluation/historical.py): for a past cutoff  *)
(* it recomputes the signals of the markets that are active today from     *)
(* their price history, ranks them and scores them against the prices that *)
(* came later.  Histories grow, activity reorders the universe and markets *)
(* close between two requests for the same cutoff.                         *)
(***************************************************************************)
EXTENDS ResearchScores, Sequences, SequencesExt

CONSTANTS Token,       \* outcome tokens
          MarketOf,    \* the market of each token
          Price,       \* the prices a token may trade at
          AsOf,        \* as_of
          Day,         \* the 24h horizon
          MinHistory,  \* MIN_HISTORY
          NearMid,     \* the prices strictly away from the extremes
          MinStrength, \* DEFAULT_MIN_STRENGTH
          TopN,        \* the size of the screen
          HHorizon     \* bound on the clock

ASSUME ScreenAssumption == AsOf \in Nat /\ Day \in Nat /\ MinHistory \in Nat \ {0}

VARIABLES now,     \* today
          history, \* per token, its trades so far: [t, p]
          active   \* the open markets, most traded today first

hVars == <<now, history, active>>

AllMarkets == {MarketOf[k] : k \in Token}

HInit == /\ now = 0 /\ history = [k \in Token |-> <<>>]
         /\ active \in SetToSeqs(AllMarkets)

Trade(k, p) ==
    /\ MarketOf[k] \in ToSet(active)
    /\ \A q \in ToSet(history[k]) : q.t < now
    /\ history' = [history EXCEPT ![k] = Append(@, [t |-> now, p |-> p])]
    /\ UNCHANGED <<now, active>>

(* Today's activity changes: another order, or a market closed. *)
Reorder(order) == active' = order /\ order # active /\ UNCHANGED <<now, history>>

HAdvance == now < HHorizon /\ now' = now + 1 /\ UNCHANGED <<history, active>>

HNext ==
    \/ HAdvance
    \/ \E k \in Token, p \in Price : Trade(k, p)
    \/ \E open \in SUBSET ToSet(active) : \E order \in SetToSeqs(open) : Reorder(order)

-----------------------------------------------------------------------------
(* run_live_historical: every outcome of the active markets, in their order. *)
Candidates == {k \in Token : MarketOf[k] \in ToSet(active)}
Position(k) == CHOOSE i \in DOMAIN active : active[i] = MarketOf[k]

(* Histories are in the order of time, so what happened up to a time comes first. *)
PlacesUpTo(s, t) == Cardinality({i \in DOMAIN s : s[i].t <= t})

(* A prefix that includes what happened after the cutoff. *)
PrefixToday(k) == SubSeq(history[k], 1, PlacesUpTo(history[k], now))

(* The history is cut at as_of. *)
UpToCutoff(s) == SubSeq(s, 1, PlacesUpTo(s, AsOf))
AfterCutoff(s) == SubSeq(s, PlacesUpTo(s, AsOf) + 1, Len(s))
Prefix(k) == UpToCutoff(history[k])
Suffix(k) == AfterCutoff(history[k])
EntryPrice(k) == Last(Prefix(k)).p

SignOfMove(x) == IF x > 0 THEN "up" ELSE IF x < 0 THEN "down" ELSE "none"

(* The signal of a prefix: its direction is the sign of the latest return, its *)
(* strength stands for the composite score.  Momentum is the sign of the short *)
(* trailing move, price-only that of the whole lookback.                       *)
LastReturn(s) == IF Len(s) < 2 THEN 0 ELSE Last(s).p - s[Len(s) - 1].p
Trailing(s, n) == Last(s).p - s[Len(s) - Min({n, Len(s)}) + 1].p
Strength(k) == Size(LastReturn(Prefix(k)))
Reading(k) ==
    LET s == Prefix(k)
    IN  [entry |-> Last(s).p, strength |-> Size(LastReturn(s)),
         direction |-> SignOfMove(LastReturn(s)), momentum |-> SignOfMove(Trailing(s, 4)),
         priceOnly |-> SignOfMove(Trailing(s, Len(s))),
         implied |-> IF Last(s).p > Half THEN "up" ELSE "down"]

(* The tests of a candidate, in order. *)
Qualifies(k) ==
    LET s == Prefix(k)
    IN  /\ Len(s) >= MinHistory /\ Suffix(k) # <<>>
        /\ Last(s).p \in NearMid
        /\ Size(LastReturn(s)) >= MinStrength

(* Strongest first, in candidate order among equals; a market's strongest *)
(* outcome stands for it, and the first TopN are the screen.              *)
Above(j, k) == Strength(j) > Strength(k)
               \/ (Strength(j) = Strength(k) /\ Position(j) < Position(k))
Deduped ==
    LET good == {k \in Candidates : Qualifies(k)}
    IN  {k \in good : ~\E j \in good \ {k} : MarketOf[j] = MarketOf[k]
                                             /\ Strength(j) > Strength(k)}
Top ==
    LET best == Deduped
    IN  {k \in best : Cardinality({MarketOf[j] : j \in {x \in best : Above(x, k)}}) < TopN}

(* _price_at_or_after falls back to the last known price. *)
PriceAtOrAfter(s, t) ==
    LET reached == {i \in DOMAIN s : s[i].t >= t}
    IN IF reached # {} THEN s[Min(reached)].p ELSE Last(s).p
DayObs(k) ==
    [entry |-> [mid |-> EntryPrice(k)], mid |-> PriceAtOrAfter(Suffix(k), AsOf + Day)]

(* compare_baselines: every predictor is scored on the same day moves. *)
ScreenScores ==
    LET scored == Top
        With(p, o) == {k \in scored : Outcome(Reading(k)[p], DayObs(k)) = o}
    IN  [p \in {"direction", "momentum", "priceOnly", "implied"} |->
            [correct |-> Cardinality(With(p, "correct")),
             incorrect |-> Cardinality(With(p, "incorrect")),
             flat |-> Cardinality(With(p, "flat"))]]

-----------------------------------------------------------------------------
(* "There is no look-ahead": what happens after the cutoff never changes what *)
(* the screen reads of a token it already considered - its entry, its signal, *)
(* its baselines, whether it qualifies, which of two is the stronger - and a  *)
(* move measured at the day is never measured again, so a screen of the same  *)
(* tokens keeps its scores.                                                   *)
Measured == \A k \in Top : Last(Suffix(k)).t >= AsOf + Day
ReadingsStand ==
    /\ \A k \in Candidates \cap Candidates' : Suffix(k) # <<>> /\ Prefix(k) # <<>> =>
          /\ Reading(k)' = Reading(k) /\ Qualifies(k)' = Qualifies(k)
          /\ Last(Suffix(k)).t >= AsOf + Day => DayObs(k)' = DayObs(k)
    /\ \A j, k \in Deduped \cap (Deduped)' :
          Strength(j) # Strength(k) => (Above(j, k)' <=> Above(j, k))
ScoresStand == Measured /\ Top' = Top => ScreenScores' = ScreenScores
NoLookAhead == [][now > AsOf => ReadingsStand /\ ScoresStand]_hVars

=============================================================================
