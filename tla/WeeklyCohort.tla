----------------------------- MODULE WeeklyCohort -----------------------------
(***************************************************************************)
(* The weekly study (evaluation/engine.py, ranking.py, repository.py,      *)
(* tracking.py and the runner in service.py): rank runs keep a provisional *)
(* top list of one week, a freeze makes it permanent, and tracking runs    *)
(* add forward prices, resolutions and verdicts to it.  Every command      *)
(* commits once, at its end, and reads what others have committed in the   *)
(* meantime, so two commands overlap between their reads and their commit. *)
(***************************************************************************)
EXTENDS Integers, FiniteSets, Orders

CONSTANTS Snap,        \* the signals of the week: [market, token, strength, ref, priced]
          RankRun,     \* rank commands that may overlap
          TrackRun,    \* forward, resolve and evaluate commands that may overlap
          TargetSize,  \* COHORT_TARGET_SIZE
          MinRankStrength, \* MIN_STRENGTH
          ForwardHorizon, \* FORWARD_HORIZONS as ages of the frozen cohort
          MovementAt,  \* HORIZON_24H, an element of ForwardHorizon
          MaxRank      \* bound on the number of rank commands

(* The references that break ties are hashes of the signals. *)
ASSUME WeekAssumption ==
    /\ IsFiniteSet(Snap) /\ TargetSize \in Nat \ {0} /\ MinRankStrength \in Int
    /\ \A s \in Snap : s.strength \in Int /\ s.ref \in Int
    /\ \A s, t \in Snap : s.ref = t.ref => s = t

VARIABLES cohort,    \* the row of the week: "absent", "open" or "frozen"
          entries,   \* its entries: [id, snap, rank, frozen]
          nextEntry, \* the next entry id
          ranked,    \* number of rank commands begun
          seen,      \* history: the signals committed rank runs were given
          ranking,   \* per rank run: what it has read and what it means to write
          crossed,   \* history: a rank run committed over entries that another had
                     \* changed after it had looked at them
          freezing,  \* the freeze under way: the entries it has read
          overtaken, \* history: the rank runs a freeze overtook, and the evaluations
                     \* that another evaluation overtook
          age,       \* time since the freeze
          winner,    \* upstream: the token a market closed at, or "none"
          prices,    \* forward observations: [entry, horizon, price]
          resolved,  \* the settled resolution rows: <<market, token>>
          verdict,   \* evaluation rows: entry id -> verdict
          tracking   \* per tracking run: what it has read, fetched or computed

kVars == <<cohort, entries, nextEntry, ranked, seen, ranking, crossed, freezing,
           overtaken, age, winner, prices, resolved, verdict, tracking>>
rankVars == <<cohort, entries, nextEntry, ranked, seen, ranking, crossed, freezing,
              overtaken>>
trackVars == <<age, winner, prices, resolved, verdict, tracking>>

WeekMarket == {s.market : s \in Snap}
LaterPrice == {"up", "flat", "down"}   \* a later price against the entry price

(* The session of a rank run: the signals still to place, the entries it holds *)
(* as it read or wrote them, the ids of those it has inserted, updated and     *)
(* deleted, and whether another rank run has committed since it looked.        *)
Idle == [stage |-> "idle", saw |-> "absent", batch |-> {}, todo |-> {}, held |-> {},
         new |-> {}, changed |-> {}, gone |-> {}, late |-> FALSE]
NotFreezing == {[id |-> 0]}
NoTracking == [stage |-> "idle", new |-> {}]

KInit ==
    /\ cohort = "absent" /\ entries = {} /\ nextEntry = 10 /\ ranked = 0 /\ seen = {}
    /\ ranking = [r \in RankRun |-> Idle] /\ crossed = FALSE /\ freezing = NotFreezing /\ overtaken = {}
    /\ age = 0 /\ winner = [m \in WeekMarket |-> "none"] /\ prices = {}
    /\ resolved = {} /\ verdict = <<>>
    /\ tracking = [t \in TrackRun |-> NoTracking]

-----------------------------------------------------------------------------
(* is_eligible: priced, and strong enough. *)
Eligible(s) == s.priced /\ s.strength >= MinRankStrength

(* selection_key: the stronger first, then the smaller tie-break.  A signal is *)
(* compared by its reference and an entry by its id; entry ids start at 10, so *)
(* a reference below 10 is a hash that sorts before every id.                  *)
SnapKey(s) == [strength |-> s.strength, tie |-> s.ref]
EntryKey(e) == [strength |-> e.snap.strength, tie |-> e.id]

(* Mutant of Before: the strength without its minus sign. *)
BeforeAscending(a, b) ==
    a.strength < b.strength \/ (a.strength = b.strength /\ a.tie < b.tie)

Before(a, b) == a.strength > b.strength \/ (a.strength = b.strength /\ a.tie < b.tie)

EntriesBefore(es) == {p \in es \X es : Before(EntryKey(p[1]), EntryKey(p[2]))}

(* _rerank, and the ranks a freeze assigns. *)
Renumbered(es) ==
    {[e EXCEPT !.rank = Cardinality(UpToIn(EntriesBefore(es), es, e))] : e \in es}

RankIn(order, e) == (CHOOSE f \in order : f.id = e.id).rank

IdsOf(rows) == {e.id : e \in rows}
Ids == IdsOf(entries)

(* update_rankings reads the cohort and returns when the week is frozen. *)
MayAlwaysRank(row) == row \in {"absent", "open", "frozen"}  \* mutant: the check left out
MayRank(row) == row # "frozen"

BeginRank(r) ==
    /\ ranking[r].stage = "idle" /\ ranked < MaxRank
    /\ MayRank(cohort)
    /\ \E batch \in (SUBSET Snap) \ {{}} :
          ranking' = [ranking EXCEPT ![r] =
             [Idle EXCEPT !.stage = "read", !.saw = cohort, !.batch = batch,
                          !.todo = {s \in batch : Eligible(s)}]]
    /\ ranked' = ranked + 1
    /\ UNCHANGED <<cohort, entries, nextEntry, seen, crossed, freezing, overtaken,
                   trackVars>>

(* What a SELECT of the week's entries gives a run: the committed rows and its *)
(* own, a row it holds as the session holds it, without the rows it deleted.   *)
Sees(run, rows) ==
    {h \in run.held : h.id \in IdsOf(rows) \cup run.new}
    \cup {e \in rows : e.id \notin run.gone /\ \A h \in run.held : h.id # e.id}

Holding(run, es) == [run EXCEPT !.held = @ \cup es]

(* replace_entry_snapshot: the entry of a market gets the market's other signal. *)
Retargeted(run, e, s) ==
    [run EXCEPT !.held = (@ \ {e}) \cup {[e EXCEPT !.snap = s]},
                !.changed = @ \cup ({e.id} \ run.new)]

(* add_entry, and remove_entry. *)
Added(run, s, rank, id) ==
    [run EXCEPT !.held = @ \cup {[id |-> id, snap |-> s, rank |-> rank, frozen |-> FALSE]},
                !.new = @ \cup {id}]
Removed(run, e) ==
    [run EXCEPT !.held = @ \ {e}, !.new = @ \ {e.id}, !.changed = @ \ {e.id},
                !.gone = @ \cup {e.id}]

(* The strongest signal left of a run's batch against the entries it sees: its *)
(* market's entry keeps the stronger signal; a market without one gets a free  *)
(* place, or that of the weakest entry when it is stronger.                    *)
PlaceNext(r) ==
    /\ ranking[r].stage # "idle"
    /\ \E s \in ranking[r].todo :
          /\ \A t \in ranking[r].todo \ {s} : Before(SnapKey(s), SnapKey(t))
          /\ LET run == [ranking[r] EXCEPT !.stage = "placing", !.todo = @ \ {s}]
                 list == Sees(run, entries)
                 atMarket == {e \in list : e.snap.market = s.market}
                 read == Holding(run, list)
             IN  \/ \E e \in atMarket :
                       /\ ranking' = [ranking EXCEPT ![r] =
                             IF Before(SnapKey(s), EntryKey(e))
                             THEN Retargeted(Holding(run, {e}), e, s) ELSE Holding(run, {e})]
                       /\ UNCHANGED nextEntry
                 \/ /\ atMarket = {} /\ Cardinality(list) < TargetSize
                    /\ ranking' = [ranking EXCEPT ![r] =
                                     Added(read, s, Cardinality(list) + 1, nextEntry)]
                    /\ nextEntry' = nextEntry + 1
                 \/ /\ atMarket = {} /\ Cardinality(list) >= TargetSize
                    /\ \E w \in list :
                          /\ \A f \in list \ {w} : Before(EntryKey(f), EntryKey(w))
                          /\ IF Before(SnapKey(s), EntryKey(w))
                             THEN /\ ranking' = [ranking EXCEPT ![r] =
                                                   Added(Removed(read, w), s, w.rank, nextEntry)]
                                  /\ nextEntry' = nextEntry + 1
                             ELSE /\ ranking' = [ranking EXCEPT ![r] = read]
                                  /\ UNCHANGED nextEntry
    /\ UNCHANGED <<cohort, entries, ranked, seen, crossed, freezing, overtaken, trackVars>>

(* The committed rows with a run's writes over them: an update writes the      *)
(* columns it changed, and a delete of a row that is gone only warns.          *)
Written(run, rows) ==
    {IF e.id \in run.changed
     THEN [e EXCEPT !.snap = (CHOOSE h \in run.held : h.id = e.id).snap] ELSE e
     : e \in {f \in rows : f.id \notin run.gone}}
    \cup {h \in run.held : h.id \in run.new}

(* The re-ranking and the commit.  _guard looks at the row of the week that    *)
(* the run has read.  The row of the week and a token's entry are unique, and  *)
(* an updated row must still be there: otherwise the run fails (LoseRank).     *)
CommitRank(r) ==
    /\ ranking[r].stage # "idle" /\ ranking[r].todo = {}
    /\ ranking[r].saw = "absent" => cohort = "absent"
    /\ ranking[r].changed \subseteq Ids
    /\ LET after == Written(ranking[r], entries)
           order == Renumbered(Sees(ranking[r], entries))
       IN  /\ \A e, f \in after :
                 e.snap.market = f.snap.market /\ e.snap.token = f.snap.token => e = f
           /\ entries' = {[e EXCEPT !.rank = RankIn(order, e)] : e \in after}
    /\ cohort' = IF cohort = "absent" THEN "open" ELSE cohort
    /\ seen' = seen \cup ranking[r].batch
    /\ crossed' = (crossed \/ ranking[r].late)
    /\ ranking' = [u \in RankRun |->
          IF u = r THEN Idle
          ELSE [ranking[u] EXCEPT !.late = @ \/ ranking[u].stage = "placing"]]
    /\ UNCHANGED <<nextEntry, ranked, freezing, overtaken, trackVars>>

(* A unique row, an update of a deleted row, a dead process or a failing *)
(* statement: nothing is kept.                                           *)
LoseRank(r) ==
    /\ ranking[r].stage # "idle"
    /\ ranking' = [ranking EXCEPT ![r] = Idle]
    /\ UNCHANGED <<cohort, entries, nextEntry, ranked, seen, crossed, freezing, overtaken,
                   trackVars>>

(* freeze_cohort reads the open cohort and its entries ... *)
ReadToFreeze ==
    /\ cohort = "open" /\ freezing = NotFreezing
    /\ freezing' = entries
    /\ UNCHANGED <<cohort, entries, nextEntry, ranked, seen, ranking, crossed, overtaken,
                   trackVars>>

(* ... ranks and locks the entries it has read, unless one of them has been *)
(* deleted meanwhile: then its update matches no row and the freeze fails.  *)
CommitFreeze ==
    /\ freezing # NotFreezing
    /\ freezing' = NotFreezing
    /\ LET order == Renumbered(freezing)
           readIds == {e.id : e \in freezing}
       IN  \/ /\ readIds \subseteq {e.id : e \in entries}
              /\ entries' = {IF e.id \in readIds
                             THEN [e EXCEPT !.rank = RankIn(order, e), !.frozen = TRUE] ELSE e
                             : e \in entries}
              /\ cohort' = "frozen"
              /\ overtaken' = {r \in RankRun : ranking[r].stage # "idle"}
           \/ UNCHANGED <<entries, cohort, overtaken>>
    /\ UNCHANGED <<nextEntry, ranked, seen, ranking, crossed, trackVars>>

-----------------------------------------------------------------------------
AgeOn ==
    /\ cohort = "frozen" /\ \E h \in ForwardHorizon : age < h
    /\ age' = age + 1
    /\ UNCHANGED <<rankVars, winner, prices, resolved, verdict, tracking>>

(* Upstream a market closes at one of its tokens. *)
CloseCohort ==
    /\ cohort = "frozen"
    /\ \E e \in entries, s \in Snap :
          /\ s.market = e.snap.market /\ winner[s.market] = "none"
          /\ winner' = [winner EXCEPT ![s.market] = s.token]
    /\ UNCHANGED <<rankVars, age, prices, resolved, verdict, tracking>>

OutcomeKept(id, h) == \E o \in prices : o.entry = id /\ o.horizon = h

(* collect_forward_prices: the due and missing horizons, those that get a price. *)
DueOutcomes == {[entry |-> e.id, horizon |-> h] : e \in entries, h \in {k \in ForwardHorizon : k <= age}}
Missing == {d \in DueOutcomes : ~OutcomeKept(d.entry, d.horizon)}

FetchForward(t) ==
    /\ tracking[t].stage = "idle" /\ cohort = "frozen"
    /\ \E due \in (SUBSET Missing) \ {{}}, price \in LaterPrice :
          tracking' = [tracking EXCEPT ![t] =
             [stage |-> "forward",
              new |-> {[entry |-> d.entry, horizon |-> d.horizon, price |-> price] : d \in due}]]
    /\ UNCHANGED <<rankVars, age, winner, prices, resolved, verdict>>

(* add_forward leaves a rival's row of the same entry and horizon alone. *)
CommitForward(t) ==
    /\ tracking[t].stage = "forward"
    /\ prices' = prices \cup {o \in tracking[t].new : ~OutcomeKept(o.entry, o.horizon)}
    /\ tracking' = [tracking EXCEPT ![t] = NoTracking]
    /\ UNCHANGED <<rankVars, age, winner, resolved, verdict>>

(* record_resolutions: the frozen markets without a settled row, and what the *)
(* resolver says of them now; it has no answer about an open market.          *)
FetchResolutions(t) ==
    /\ tracking[t].stage = "idle" /\ cohort = "frozen"
    /\ LET open == {m \in WeekMarket : /\ \E e \in entries : e.snap.market = m
                                   /\ ~(\E p \in resolved : p[1] = m)
                                   /\ winner[m] # "none"}
       IN  /\ open # {}
           /\ tracking' = [tracking EXCEPT ![t] =
                 [stage |-> "resolve", new |-> {<<m, winner[m]>> : m \in open}]]
    /\ UNCHANGED <<rankVars, age, winner, prices, resolved, verdict>>

(* upsert_resolution writes over a row that a rival has committed meanwhile. *)
CommitResolutions(t) ==
    /\ tracking[t].stage = "resolve"
    /\ LET new == tracking[t].new
       IN  resolved' = {q \in resolved : \A p \in new : p[1] # q[1]} \cup new
    /\ tracking' = [tracking EXCEPT ![t] = NoTracking]
    /\ UNCHANGED <<rankVars, age, winner, prices, verdict>>

(* A rival's row inserted between a run's look and its own insert, a failing *)
(* statement or a dead process: nothing of the run is kept.                  *)
LoseTracking(t) ==
    /\ tracking[t].stage # "idle"
    /\ tracking' = [tracking EXCEPT ![t] = NoTracking]
    /\ UNCHANGED <<rankVars, age, winner, prices, resolved, verdict>>

(* classify_directional of the movement at the fixed horizon; every signal *)
(* points up.                                                              *)
Movement(id) ==
    LET at == {o.price : o \in {p \in prices : p.entry = id /\ p.horizon = MovementAt}}
    IN  CASE at = {} -> "pending"
          [] "up" \in at -> "correct"
          [] "down" \in at -> "incorrect"
          [] OTHER -> "flat"

(* The final view: whether the market settled at the entry's token. *)
Final(e) ==
    LET tokens == {p[2] : p \in {q \in resolved : q[1] = e.snap.market}}
    IN  CASE tokens = {} -> "pending"
          [] e.snap.token \in tokens -> "correct"
          [] OTHER -> "incorrect"

(* The verdict evaluate_all writes for an entry: the movement, the final *)
(* resolution, and how value_position books the position.                *)
Verdict(e) ==
    [move   |-> Movement(e.id),
     final  |-> Final(e),
     status |-> CASE Final(e) # "pending" -> "completed"
                  [] Final(e) = "pending" /\ \E o \in prices : o.entry = e.id -> "open"
                  [] OTHER -> "pending"]

EntryOf(id) == CHOOSE e \in entries : e.id = id

(* evaluate_all judges every entry from the rows it reads ... *)
ReadToEvaluate(t) ==
    /\ tracking[t].stage = "idle" /\ cohort = "frozen"
    /\ tracking' = [tracking EXCEPT ![t] =
          [stage |-> "evaluate", new |-> [id \in Ids |-> Verdict(EntryOf(id))]]]
    /\ UNCHANGED <<rankVars, age, winner, prices, resolved, verdict>>

(* ... and commits its verdicts over those that are there. *)
CommitEvaluation(t) ==
    /\ tracking[t].stage = "evaluate"
    /\ verdict' = tracking[t].new
    /\ overtaken' = overtaken \cup {u \in TrackRun \ {t} : tracking[u].stage = "evaluate"}
    /\ tracking' = [tracking EXCEPT ![t] = NoTracking]
    /\ UNCHANGED <<cohort, entries, nextEntry, ranked, seen, ranking, crossed, freezing,
                   age, winner, prices, resolved>>

KNext ==
    \/ \E r \in RankRun : BeginRank(r) \/ PlaceNext(r) \/ CommitRank(r) \/ LoseRank(r)
    \/ ReadToFreeze \/ CommitFreeze
    \/ AgeOn \/ CloseCohort
    \/ \E t \in TrackRun : \/ FetchForward(t) \/ CommitForward(t)
                           \/ FetchResolutions(t) \/ CommitResolutions(t)
                           \/ ReadToEvaluate(t) \/ CommitEvaluation(t) \/ LoseTracking(t)

KSpec == KInit /\ [][KNext]_kVars

-----------------------------------------------------------------------------
(* The list is what it claims to be, whatever the order of the batches and     *)
(* however runs are lost: no qualifying signal that a committed run was given  *)
(* is stronger than the entry of its market or, when its market has no entry,  *)
(* than any entry of a full list; the list is not overfull, and a market has   *)
(* one entry.  It holds until a rank run commits although another committed    *)
(* after it had looked at the entries: nothing in the database stops two such  *)
(* runs from overfilling the list or from entering both tokens of a market.    *)
SlotsHoldTheStrongest == ~crossed =>
    /\ \A s \in {x \in seen : Eligible(x)} :
          LET held == {e \in entries : e.snap.market = s.market}
          IN  IF held # {} THEN \A e \in held : e.snap.strength >= s.strength
              ELSE /\ Cardinality(entries) = TargetSize
                   /\ \A e \in entries : e.snap.strength >= s.strength
    /\ Cardinality(entries) <= TargetSize
    /\ \A e, f \in entries : e.snap.market = f.snap.market => e = f

(* A frozen week is a permanent record: its entries never change, and neither *)
(* does a verdict it has reached, unless a rank run had read the week as open *)
(* before the freeze committed, or an evaluation had read its rows before     *)
(* another committed.                                                         *)
FrozenRecordKept ==
    [][cohort = "frozen" /\ overtaken = {} =>
          /\ entries' = entries
          /\ \A id \in DOMAIN verdict :
                /\ id \in DOMAIN verdict'
                /\ verdict[id].move # "pending" => verdict'[id].move = verdict[id].move
                /\ verdict[id].final # "pending" => verdict'[id].final = verdict[id].final]_kVars

-----------------------------------------------------------------------------
WeekTypeOK ==
    /\ ranking = [r \in RankRun |-> ranking[r]]
    /\ tracking = [t \in TrackRun |-> tracking[t]]
    /\ winner = [m \in WeekMarket |-> winner[m]]

(* Once the week is frozen nobody freezes it again, and whoever still means to *)
(* rank it has been overtaken; before that there is nothing to track.          *)
FreezeIsLast ==
    /\ cohort = "frozen" => freezing = NotFreezing
    /\ \A r \in RankRun : cohort = "frozen" /\ ranking[r].stage # "idle" => r \in overtaken
    /\ cohort # "frozen" => verdict = <<>> /\ \A t \in TrackRun : tracking[t].stage = "idle"

(* Whatever is settled, or about to be, is settled at the token that won. *)
AtWinner(rows) == \A p \in rows : /\ p[1] \in WeekMarket /\ p[2] # "none"
                                  /\ winner[p[1]] = p[2]
SettledAtWinner ==
    /\ AtWinner(resolved)
    /\ \A t \in TrackRun : tracking[t].stage = "resolve" => AtWinner(tracking[t].new)

(* A verdict reached is the one the rows give now. *)
StandsFor(id, v) == /\ id \in Ids
                    /\ v.move # "pending" => v.move = Movement(id)
                    /\ v.final # "pending" => v.final = Final(EntryOf(id))
Follows(v, w) == /\ v.move # "pending" => w.move = v.move
                 /\ v.final # "pending" => w.final = v.final

VerdictsStand ==
    cohort = "frozen" /\ overtaken = {} =>
        /\ \A id \in DOMAIN verdict : StandsFor(id, verdict[id])
        /\ \A t \in TrackRun : tracking[t].stage = "evaluate" =>
              /\ \A id \in DOMAIN tracking[t].new : StandsFor(id, tracking[t].new[id])
              /\ \A id \in DOMAIN verdict : id \in DOMAIN tracking[t].new
                                         /\ Follows(verdict[id], tracking[t].new[id])

WeekInv == WeekTypeOK /\ FreezeIsLast /\ SettledAtWinner /\ VerdictsStand

-----------------------------------------------------------------------------
(* What the property says of a list, and what it needs to: the entries differ *)
(* in id and market, so one of them is the weakest.                           *)
WeekEntry == [id : Nat, snap : {s \in Snap : Eligible(s)}, rank : Nat, frozen : BOOLEAN]

Slots(es, next, given) ==
    /\ es \subseteq WeekEntry /\ IsFiniteSet(es) /\ Cardinality(es) <= TargetSize
    /\ next \in Nat /\ \A e \in es : e.id < next
    /\ \A e, f \in es : e.id = f.id \/ e.snap.market = f.snap.market => e = f
    /\ \A s \in given : Eligible(s) =>
          \/ \E e \in es : e.snap.market = s.market /\ e.snap.strength >= s.strength
          \/ Cardinality(es) = TargetSize /\ \A e \in es : e.snap.strength >= s.strength

(* The session of a run that has seen every commit of a rank run since it     *)
(* first looked: the rows it holds are its own or committed ones, as they are *)
(* but for what it has changed itself.                                        *)
SessionCurrent(run, rows, next) ==
    /\ \A h \in run.held : /\ h.id \notin run.gone
                           /\ \/ h.id \in run.new
                              \/ \E e \in rows :
                                    /\ e.id = h.id
                                    /\ h.id \notin run.changed => e.snap = h.snap
    /\ run.new \cup run.changed \subseteq {h.id : h \in run.held}
    /\ run.new \cap (IdsOf(rows) \cup run.changed) = {}
    /\ \A g \in run.gone : g \in Nat /\ g < next

Session(stage, saw, batch, todo, held, new, changed, gone, late) ==
    [stage |-> stage, saw |-> saw, batch |-> batch, todo |-> todo, held |-> held,
     new |-> new, changed |-> changed, gone |-> gone, late |-> late]

(* Until it is late, what a run would make of the list is sound for what the  *)
(* committed runs were given and what it has placed itself.                   *)
SessionSound(run, rows, next, given) ==
    /\ run = Session(run.stage, run.saw, run.batch, run.todo, run.held, run.new,
                     run.changed, run.gone, run.late)
    /\ run.batch \subseteq Snap /\ run.todo \subseteq {s \in run.batch : Eligible(s)}
    /\ run.stage # "placing" => /\ run.todo = {s \in run.batch : Eligible(s)}
                                /\ run.held = {} /\ run.new = {}
                                /\ run.changed = {} /\ run.gone = {}
    /\ ~run.late => /\ SessionCurrent(run, rows, next)
                    /\ Slots(Sees(run, rows), next, given \cup (run.batch \ run.todo))

SlotsInv ==
    /\ ranking = [r \in RankRun |-> ranking[r]]
    /\ ~crossed =>
          /\ Slots(entries, nextEntry, seen) /\ seen \subseteq Snap
          /\ freezing # NotFreezing => freezing \subseteq WeekEntry /\ IsFiniteSet(freezing)
          /\ \A r \in RankRun : SessionSound(ranking[r], entries, nextEntry, seen)
=============================================================================
