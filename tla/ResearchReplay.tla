---------------------------- MODULE ResearchReplay ----------------------------
(***************************************************************************)
(* The Replay and research-status readers (evaluation/research_replay.py,  *)
(* research_service.py) over the rows the scheduled jobs write: cohorts    *)
(* frozen from complete scans (discovery/cohort_from_scan.py), forward     *)
(* observations and resolutions.  The writers are taken in the outline the *)
(* readers need; CohortFreeze and ForwardCollect hold their detail.        *)
(* Several cohorts see the same market, so each reader must choose which   *)
(* of its entries speaks for it.                                           *)
(***************************************************************************)
EXTENDS ResearchScores, Sequences

CONSTANTS Market,        \* the markets of every scan
          Screen,        \* what a scan may measure: [z, book, flow, mid, spread, depth, top]
          Cadence,       \* the configured cadences
          CadencePeriod, \* the length of each cadence's period
          HorizonOf,     \* RESEARCH_HORIZONS: the age of each horizon
          Quote,         \* what a collector may store: [mid, spread, depth, closed]
          LatenessMax,   \* LATENESS_MAX_SECONDS
          MaxScans,      \* bound on the number of scans
          MaxCohorts,    \* bound on the number of cohorts
          PHorizon       \* bound on the clock

Measure == Nat \cup {None}

ASSUME ReplayAssumption ==
    /\ IsFiniteSet(Market)
    /\ CadencePeriod \in [Cadence -> Nat \ {0}]
    /\ Screen \subseteq [z : Int, book : Int, flow : Int, mid : Measure, spread : Measure,
                         depth : Measure, top : BOOLEAN]
    /\ Quote \subseteq [mid : Measure, spread : Measure, depth : Measure, closed : BOOLEAN]

VARIABLES hour,          \* the time
          storedScans,   \* the complete scans: [at, screens]
          frozenCohorts, \* the frozen cohorts, in the order they were frozen
          forward        \* forward rows: [cohort, market, horizon, quote]

pVars == <<hour, storedScans, frozenCohorts, forward>>

PInit == hour = 0 /\ storedScans = {} /\ frozenCohorts = <<>> /\ forward = {}

-----------------------------------------------------------------------------
(* _sign: a missing or zero reading gives no direction. *)
SignOf(x) == IF x > 0 THEN "up" ELSE IF x < 0 THEN "down" ELSE "none"

(* A composite that fell back on the book when the price stood still. *)
CompositeOfAll(s) == IF s.z # 0 THEN SignOf(s.z) ELSE SignOf(s.book)

(* composite_anomaly_score takes its direction from the z-score alone. *)
CompositeDirection(s) ==
    CASE s.z > 0 -> "up" [] s.z < 0 -> "down" [] OTHER -> "none"

(* _role_for and _entry_input: one entry per stored snapshot. *)
RoleFor(s) ==
    IF CompositeDirection(s) \in Call THEN IF s.top THEN "public" ELSE "shadow"
    ELSE "observation"
EntryInput(s) ==
    [role |-> RoleFor(s), direction |-> CompositeDirection(s), momentum |-> SignOf(s.z),
     book |-> SignOf(s.book), flow |-> SignOf(s.flow),
     price |-> s.mid, mid |-> s.mid, spread |-> s.spread, depth |-> s.depth]

(* A complete scan of every market.  Scans do not overlap. *)
Scan(screens) ==
    /\ Cardinality(storedScans) < MaxScans
    /\ \A s \in storedScans : s.at < hour
    /\ storedScans' = storedScans \cup {[at |-> hour, screens |-> screens]}
    /\ UNCHANGED <<hour, frozenCohorts, forward>>

(* freeze_cohort: the cohort of the scan's own period, as of its start. *)
CutoffOf(c, t) == t - (t % CadencePeriod[c])
CohortOf(c, s) ==
    [cadence |-> c, cutoff |-> CutoffOf(c, s.at), origin |-> s.at,
     excessivelyLate |-> s.at - CutoffOf(c, s.at) > LatenessMax,
     entries |-> [m \in Market |-> EntryInput(s.screens[m])]]

(* freeze_cohort_from_scan: by hand any stored scan may be named, at any time, *)
(* so an older scan may be frozen after a newer one; the tick names the latest *)
(* scan of the current period, one of these cases.                             *)
Freeze(c, s) ==
    /\ Len(frozenCohorts) < MaxCohorts
    /\ \A i \in DOMAIN frozenCohorts :
          frozenCohorts[i].cadence # c \/ frozenCohorts[i].cutoff # CutoffOf(c, s.at)
    /\ frozenCohorts' = Append(frozenCohorts, CohortOf(c, s))
    /\ UNCHANGED <<hour, storedScans, forward>>

(* A collector stores one observation per due horizon of an entry, for good. *)
Recorded(i, m, h) == {f \in forward : f.cohort = i /\ f.market = m /\ f.horizon = h}
Collect(i, m, h, q) ==
    /\ hour >= frozenCohorts[i].origin + HorizonOf[h]
    /\ Recorded(i, m, h) = {}
    /\ forward' = forward \cup {[cohort |-> i, market |-> m, horizon |-> h, quote |-> q]}
    /\ UNCHANGED <<hour, storedScans, frozenCohorts>>

PAdvance == hour < PHorizon /\ hour' = hour + 1
            /\ UNCHANGED <<storedScans, frozenCohorts, forward>>

PNext ==
    \/ PAdvance
    \/ \E screens \in [Market -> Screen] : Scan(screens)
    \/ \E c \in Cadence, s \in storedScans : Freeze(c, s)
    \/ \E i \in DOMAIN frozenCohorts, m \in Market, h \in DOMAIN HorizonOf, q \in Quote :
          Collect(i, m, h, q)

-----------------------------------------------------------------------------
(* The readers.                                                            *)

(* _selectable_cohorts: every frozen cohort that is not excessively late. *)
Selectable == {i \in DOMAIN frozenCohorts : ~frozenCohorts[i].excessivelyLate}

(* mutant of ResultState: every rise is the expected move *)
ResultStateRising(e, rows) ==
    IF e.direction \notin Call THEN "invalid"
    ELSE IF rows = {} THEN "pending"
    ELSE LET o == [entry |-> e, mid |-> (CHOOSE f \in rows : TRUE).quote.mid]
         IN IF ~HasMove(o) THEN "unavailable"
            ELSE IF Move(o) = 0 THEN "no_change"
            ELSE IF Move(o) > 0 THEN "moved_expected" ELSE "moved_against"

(* replay_result_state: no materiality floor here, any move counts. *)
ResultState(e, rows) ==
    IF e.direction \notin Call THEN "invalid"
    ELSE IF rows = {} THEN "pending"
    ELSE LET q == (CHOOSE f \in rows : TRUE).quote
             o == [entry |-> e, mid |-> q.mid]
         IN IF q.closed /\ ~Known(q.mid) THEN "closed_before_horizon"
            ELSE IF ~HasMove(o) THEN "unavailable"
            ELSE IF Move(o) = 0 THEN "no_change"
            ELSE IF (Move(o) > 0) = (e.direction = "up") THEN "moved_expected"
            ELSE "moved_against"

(* _directional_entries and _breakdown of one cohort and role. *)
InScope(i, roles) ==
    {m \in Market : /\ frozenCohorts[i].entries[m].direction \in Call
                    /\ frozenCohorts[i].entries[m].role \in roles}
Breakdown(i, roles, h, state) ==
    Cardinality({m \in InScope(i, roles) :
        ResultState(frozenCohorts[i].entries[m], Recorded(i, m, h)) = state})

(* dependence_aware_headline: cohorts by origin, the newer cutoff first among *)
(* equals, and the first call on a market speaks for it.  Cohorts equal in    *)
(* both come in no fixed order, so the pick is a set.                         *)
CallsOn(m) == {i \in Selectable : frozenCohorts[i].entries[m].direction \in Call}
Earlier(i, j) ==
    \/ frozenCohorts[i].origin < frozenCohorts[j].origin
    \/ /\ frozenCohorts[i].origin = frozenCohorts[j].origin
       /\ frozenCohorts[i].cutoff > frozenCohorts[j].cutoff

(* The same headline over the newest cohorts first, as list_cohorts returns them. *)
HeadlinePicksNewest(m) == {i \in CallsOn(m) : \A j \in CallsOn(m) : ~Earlier(i, j)}

HeadlinePicks(m) == {i \in CallsOn(m) : \A j \in CallsOn(m) : ~Earlier(j, i)}

(* horizon_analysis: of the entries of a market with a call and a price, the   *)
(* one of the latest origin; among equals the newer cutoff, then the lower id. *)
Evaluable(m, h) ==
    {i \in CallsOn(m) : \E f \in Recorded(i, m, h) : Known(f.quote.mid)}
Newer(i, j) ==
    \/ frozenCohorts[i].origin > frozenCohorts[j].origin
    \/ /\ frozenCohorts[i].origin = frozenCohorts[j].origin
       /\ \/ frozenCohorts[i].cutoff > frozenCohorts[j].cutoff
          \/ frozenCohorts[i].cutoff = frozenCohorts[j].cutoff /\ i < j

(* _obs_for_horizon: an entry with the quote stored for it. *)
Observation(i, m, h) ==
    LET q == (CHOOSE f \in Recorded(i, m, h) : TRUE).quote
    IN [entry |-> frozenCohorts[i].entries[m],
        mid |-> q.mid, spread |-> q.spread, depth |-> q.depth]
Sample(h) ==
    [m \in {x \in Market : Evaluable(x, h) # {}} |->
        LET i == CHOOSE i \in Evaluable(m, h) : \A j \in Evaluable(m, h) : i = j \/ Newer(i, j)
        IN Observation(i, m, h)]

-----------------------------------------------------------------------------
(* Counting a market once by its earliest call only avoids hindsight if that *)
(* call can never be exchanged for a later one: once a market is counted in  *)
(* the headline, scans, freezes and observations leave the call it is judged *)
(* by alone, except that a cohort frozen by hand from a scan older than that *)
(* call's takes the market over.                                             *)
SpeaksFor(m) == {frozenCohorts[i].entries[m] : i \in HeadlinePicks(m)}
TakenOver(m) ==
    \E i \in DOMAIN frozenCohorts' \ DOMAIN frozenCohorts :
        /\ HeadlinePicks(m)' = {i}
        /\ \A j \in HeadlinePicks(m) : frozenCohorts'[i].origin < frozenCohorts[j].origin
HeadlineKeepsFirstCall ==
    [][\A m \in Market :
          SpeaksFor(m) # {} => SpeaksFor(m)' = SpeaksFor(m) \/ TakenOver(m)]_pVars

(* "A directional edge OVER momentum is not achievable with the current model" *)
(* (research_service.py): through freezing, observing, deduplication and       *)
(* scoring, the status never reports Arepo beating momentum or the price score *)
(* and never an added value of the full model, and the two always agree.       *)
MomentumNeverBeaten ==
    \A h \in DOMAIN HorizonOf :
        LET obs == Sample(h)
            same == Agreement(Calls(Baselines, "full_arepo", obs),
                              Calls(Baselines, "momentum", obs))
        IN /\ {"beats_momentum", "beats_price_only", "ablation_adds_value"} \subseteq Unmet(obs)
           /\ same.agree = same.of

(* Replay and the research tables judge one observation by separate code with *)
(* different floors.  For every cohort they agree: what the tables count as   *)
(* correct or incorrect Replay shows as moved as expected or against, what    *)
(* Replay shows as unmoved the tables hold flat, for Arepo as for the "no     *)
(* change" predictor, and both count the same rows.                           *)
VerdictsAgree ==
    \A i \in Selectable, h \in DOMAIN HorizonOf :
        LET obs == [m \in {x \in InScope(i, {"public", "shadow"}) : Recorded(i, x, h) # {}} |->
                        Observation(i, m, h)]
            score == BaselineScore("full_arepo", obs)
            shown(k) == Breakdown(i, {"public"}, h, k) + Breakdown(i, {"shadow"}, h, k)
        IN /\ score.correct <= shown("moved_expected")
           /\ score.incorrect <= shown("moved_against")
           /\ shown("no_change") <= score.flat /\ score.flat = ScoreNoChange(obs).correct
           /\ score.evaluated + score.flat =
                 shown("moved_expected") + shown("moved_against") + shown("no_change")

-----------------------------------------------------------------------------
Entry == {EntryInput(s) : s \in Screen}

ReplayTypeOK ==
    /\ hour \in Nat
    /\ storedScans \subseteq [at : Nat, screens : [Market -> Screen]]
    /\ frozenCohorts \in Seq([cadence : Cadence, cutoff : Int, origin : Nat,
                              excessivelyLate : BOOLEAN, entries : [Market -> Entry]])
    /\ forward \subseteq [cohort : DOMAIN frozenCohorts, market : Market,
                          horizon : DOMAIN HorizonOf, quote : Quote]

(* A cohort holds what the scan at its origin measured, and no scan comes twice. *)
FrozenFromScans ==
    /\ \A s \in storedScans : s.at <= hour
    /\ \A s, u \in storedScans : s.at = u.at => s = u
    /\ \A i \in DOMAIN frozenCohorts : \E s \in storedScans :
          /\ frozenCohorts[i].origin = s.at
          /\ frozenCohorts[i].entries = [m \in Market |-> EntryInput(s.screens[m])]

ReplayInv == ReplayTypeOK /\ FrozenFromScans
=============================================================================
