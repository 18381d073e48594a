---------------------------- MODULE Cohorts_proofs -----------------------------
(***************************************************************************)
(* Proofs about the frozen cohorts of research, their readers, the weekly  *)
(* cohort and the reconstructed screen: what was frozen stays, read alike. *)
(***************************************************************************)
EXTENDS CohortFreeze, ResearchReplay, WeeklyCohort, HistoricalScreen,
        SequenceTheorems, Counting, TLAPS

-----------------------------------------------------------------------------
(***************************************************************************)
(* Proofs about frozen cohorts and retention, for any number of freezers,  *)
(* hand-run freezes and retention passes, and any cadence, deadline and    *)
(* window that satisfy WindowAssumption.                                   *)
(***************************************************************************)

(* A period's boundary is at most one period back. *)
LEMMA CutoffBounds ==
  ASSUME NEW t \in Nat
  PROVE  Cutoff(t) \in Nat /\ Cutoff(t) <= t /\ t < Cutoff(t) + Period
<1>1. t % Period \in 0 .. Period - 1
  BY WindowAssumption
<1>2. t % Period <= t
  BY WindowAssumption
<1>3. QED
  BY <1>1, <1>2, WindowAssumption DEF Cutoff

(* Every reachable state is well typed. *)
LEMMA TypeInit == Init => TypeOK
BY DEF Init, TypeOK

LEMMA TypeStep == TypeOK /\ [Next]_vars => TypeOK'
<1> SUFFICES ASSUME TypeOK, [Next]_vars PROVE TypeOK'
  OBVIOUS
<1> USE DEF TypeOK, scanVars, freezeVars, pruneVars
<1>1. CASE Advance
  BY <1>1 DEF Advance
<1>2. CASE RecordScan
  <2>1. PICK s \in 0 .. clock :
          /\ scans' = scans \cup {s}
          /\ \/ complete' = complete \cup {s} /\ newest' \in {s, newest}
             \/ complete' = complete /\ newest' = newest
    BY <1>2 DEF RecordScan
  <2>2. UNCHANGED <<clock, cohorts, fpc, fnow, pick, rpc, rnow, protected, doomed>>
    BY <1>2 DEF RecordScan
  <2>3. s \in Nat /\ newest' \in Nat \cup {-1}
    BY <2>1
  <2>4. scans' \in SUBSET Nat /\ complete' \in SUBSET Nat
    BY <2>1, <2>3
  <2>5. QED
    BY <2>2, <2>3, <2>4
<1>3. ASSUME NEW f \in Freezer,
             \/ StartTick(f) \/ CheckDue(f) \/ PickScan(f) \/ LoadRows(f)
             \/ Commit(f) \/ AbortFreeze(f)
      PROVE  TypeOK'
  <2>1. CASE StartTick(f)
    <3>1. \E to \in {"pick", "check"} : fpc' = [fpc EXCEPT ![f] = to]
      BY <2>1 DEF StartTick
    <3>2. fnow' = [fnow EXCEPT ![f] = clock]
      BY <2>1 DEF StartTick
    <3>3. UNCHANGED <<clock, scans, complete, newest, cohorts, pick, rpc, rnow,
                      protected, doomed>>
      BY <2>1 DEF StartTick
    <3>4. QED
      BY <3>1, <3>2, <3>3
  <2>5. CASE CheckDue(f)
    BY <2>5 DEF CheckDue, EndFreeze
  <2>6. CASE LoadRows(f)
    BY <2>6 DEF LoadRows, EndFreeze
  <2>7. CASE AbortFreeze(f)
    BY <2>7 DEF AbortFreeze, EndFreeze
  <2>2. CASE PickScan(f)
    BY <2>2 DEF PickScan, EndFreeze, Stored
  <2>3. CASE Commit(f)
    <3>1. NewCohort(f) \in Cohort
      BY CutoffBounds DEF NewCohort, Cohort
    <3>2. QED
      BY <2>3, <3>1 DEF Commit, EndFreeze
  <2>4. QED
    BY <1>3, <2>1, <2>2, <2>3, <2>5, <2>6, <2>7
<1>4. ASSUME NEW r \in Pruner,
             \/ StartRetention(r) \/ ReadReferences(r) \/ ReadLatest(r)
             \/ SelectCandidates(r) \/ Prune(r) \/ AbortRetention(r)
      PROVE  TypeOK'
  <2>1. CASE StartRetention(r)
    BY <2>1 DEF StartRetention
  <2>7. CASE AbortRetention(r)
    BY <2>7 DEF AbortRetention, EndRetention
  <2>2. CASE ReadReferences(r)
    <3>1. Referenced \in SUBSET Nat
      BY DEF Referenced, Cohort
    <3>2. QED
      BY <2>2, <3>1 DEF ReadReferences
  <2>3. CASE ReadLatest(r)
    BY <2>3 DEF ReadLatest, Current
  <2>4. CASE SelectCandidates(r)
    BY <2>4 DEF SelectCandidates
  <2>5. CASE Prune(r)
    BY <2>5 DEF Prune, EndRetention
  <2>6. QED
    BY <1>4, <2>1, <2>2, <2>3, <2>4, <2>5, <2>7
<1>5. CASE UNCHANGED vars
  BY <1>5 DEF vars
<1>6. QED
  BY <1>1, <1>2, <1>3, <1>4, <1>5 DEF Next

-----------------------------------------------------------------------------
(* A scan a scheduled freezer may still use is younger than the window that *)
(* any retention pass prunes by.                                            *)
LEMMA CurrentIsYoung ==
  ASSUME TypeOK, FreezersCurrent, NEW f \in Freezer \ Manual, Freezing(f),
         NEW s \in Nat, s >= Cutoff(fnow[f])
  PROVE  s >= clock - Window
<1>1. fnow[f] \in Nat /\ clock \in Nat /\ clock <= fnow[f] + Deadline
  BY DEF TypeOK, FreezersCurrent
<1>2. fnow[f] < Cutoff(fnow[f]) + Period /\ Cutoff(fnow[f]) \in Nat
  BY <1>1, CutoffBounds
<1>3. QED
  BY <1>1, <1>2, WindowAssumption

(* What a retention pass deletes is older than its window. *)
LEMMA PrunedIsOld ==
  ASSUME TypeOK, PrunersAware, NEW r \in Pruner, rpc[r] = "prune",
         NEW s \in doomed[r]
  PROVE  s < clock - Window
BY WindowAssumption DEF TypeOK, PrunersAware

(* No step but a retention pass removes a scan, and completeness is for good.  *)
LEMMA ScansStep ==
  ASSUME TypeOK, PrunersAware, [Next]_vars
  PROVE  /\ complete \subseteq complete'
         /\ \A s \in scans : s >= clock - Window => s \in scans'
         /\ \A s \in complete' \ complete : s \in scans' /\ s >= clock - Deadline
<1> USE DEF scanVars, freezeVars, pruneVars
<1>1. CASE RecordScan
  <2>1. PICK s \in 0 .. clock :
          /\ clock - s <= Deadline
          /\ scans' = scans \cup {s}
          /\ complete' = complete \cup {s} \/ complete' = complete
    BY <1>1 DEF RecordScan
  <2>2. QED
    BY <2>1, WindowAssumption DEF TypeOK
<1>2. ASSUME NEW r \in Pruner, Prune(r)
      PROVE  /\ complete' = complete
             /\ \A s \in scans : s >= clock - Window => s \in scans'
  <2>1. \A s \in doomed[r] : s < clock - Window
    BY <1>2, PrunedIsOld DEF Prune
  <2>2. \A s \in scans \ doomed[r] : s \in scans'
    BY <1>2 DEF Prune
  <2>3. QED
    BY <1>2, <2>1, <2>2, WindowAssumption DEF Prune, TypeOK
<1>3. CASE UNCHANGED <<scans, complete>>
  BY <1>3
<1>4. RecordScan \/ (\E r \in Pruner : Prune(r)) \/ UNCHANGED <<scans, complete>>
  BY DEF Next, vars, Advance, StartTick, CheckDue, PickScan, LoadRows, Commit,
     AbortFreeze, StartRetention, ReadReferences, ReadLatest, SelectCandidates,
     AbortRetention
<1>5. QED
  BY <1>1, <1>2, <1>3, <1>4

(* The steps of a freezer leave the others alone. *)
LEMMA FreezerLocal ==
  ASSUME TypeOK, [Next]_vars, NEW f \in Freezer, Freezing(f)'
  PROVE  \/ /\ fpc[f] = fpc'[f] /\ fnow'[f] = fnow[f] /\ pick'[f] = pick[f]
            /\ \/ clock' = clock
               \/ Advance
         \/ StartTick(f) \/ CheckDue(f) \/ PickScan(f) \/ LoadRows(f)
<1> USE DEF scanVars, freezeVars, pruneVars, TypeOK
<1>1. CASE Advance \/ RecordScan \/ UNCHANGED vars
  BY <1>1 DEF Advance, RecordScan, vars
<1>2. ASSUME NEW g \in Freezer,
             \/ StartTick(g) \/ CheckDue(g) \/ PickScan(g) \/ LoadRows(g)
             \/ Commit(g) \/ AbortFreeze(g)
      PROVE  \/ /\ fpc[f] = fpc'[f] /\ fnow'[f] = fnow[f] /\ pick'[f] = pick[f]
                /\ clock' = clock
             \/ StartTick(f) \/ CheckDue(f) \/ PickScan(f) \/ LoadRows(f)
  <2>1. CASE g = f
    BY <1>2, <2>1 DEF Commit, AbortFreeze, EndFreeze, Freezing
  <2>2. CASE g # f
    BY <1>2, <2>2 DEF StartTick, CheckDue, PickScan, LoadRows, Commit, AbortFreeze,
       EndFreeze
  <2>3. QED
    BY <2>1, <2>2
<1>3. ASSUME NEW r \in Pruner,
             \/ StartRetention(r) \/ ReadReferences(r) \/ ReadLatest(r)
             \/ SelectCandidates(r) \/ Prune(r) \/ AbortRetention(r)
      PROVE  fpc' = fpc /\ fnow' = fnow /\ pick' = pick /\ clock' = clock
  BY <1>3 DEF StartRetention, ReadReferences, ReadLatest, SelectCandidates, Prune,
     AbortRetention
<1>4. QED
  BY <1>1, <1>2, <1>3 DEF Next

-----------------------------------------------------------------------------
LEMMA FreezersStep ==
  TypeOK /\ FreezersCurrent /\ PrunersAware /\ [Next]_vars => FreezersCurrent'
<1> SUFFICES ASSUME TypeOK, FreezersCurrent, PrunersAware, [Next]_vars,
                    NEW f \in Freezer \ Manual, Freezing(f)'
             PROVE  /\ fnow'[f] <= clock' /\ clock' <= fnow'[f] + Deadline
                    /\ fpc'[f] = "pick" => \E s \in Stored' : s >= Cutoff(fnow'[f])
                    /\ fpc'[f] \in {"load", "commit"} =>
                         pick'[f] \in Stored' /\ pick'[f] >= Cutoff(fnow'[f])
  BY DEF FreezersCurrent, Freezing
<1>1. CASE StartTick(f)
  BY <1>1, WindowAssumption DEF StartTick, TypeOK
<1>2. CASE CheckDue(f)
  <2>1. fpc'[f] = "pick" /\ \E s \in Stored : s >= Cutoff(fnow[f])
    BY <1>2 DEF CheckDue, EndFreeze, Freezing, IsLatest, Due, TypeOK
  <2>2. UNCHANGED <<clock, scans, complete, fnow>> /\ Freezing(f)
    BY <1>2, <2>1 DEF CheckDue, EndFreeze, Freezing, scanVars, TypeOK
  <2>3. QED
    BY <2>1, <2>2 DEF FreezersCurrent, Stored
<1>3. CASE PickScan(f)
  <2>1. fpc'[f] = "load" /\ Freezing(f)
        /\ UNCHANGED <<clock, scans, complete, fnow>>
    BY <1>3 DEF PickScan, EndFreeze, Freezing, scanVars, TypeOK
  <2>2. IsLatest(pick'[f])
    BY <1>3, <2>1 DEF PickScan, EndFreeze, TypeOK
  <2>3. PICK s \in Stored : s >= Cutoff(fnow[f])
    BY <1>3 DEF PickScan, FreezersCurrent
  <2>4. pick'[f] \in Stored /\ pick'[f] >= s
    BY <2>2 DEF IsLatest
  <2>5. fnow[f] \in Nat /\ s \in Nat /\ pick'[f] \in Nat /\ Cutoff(fnow[f]) \in Nat
    BY <2>4, CutoffBounds DEF TypeOK, Stored
  <2>6. pick'[f] >= Cutoff(fnow[f])
    BY <2>3, <2>4, <2>5
  <2>7. QED
    BY <2>1, <2>4, <2>6 DEF FreezersCurrent, Stored
<1>4. CASE LoadRows(f)
  <2>1. fpc[f] = "load" /\ fpc'[f] = "commit" /\ Freezing(f)
        /\ UNCHANGED <<clock, scans, complete, fnow, pick>>
    BY <1>4 DEF LoadRows, EndFreeze, Freezing, scanVars, TypeOK
  <2>2. QED
    BY <2>1 DEF FreezersCurrent, Stored
<1>5. ASSUME fpc[f] = fpc'[f], fnow'[f] = fnow[f], pick'[f] = pick[f],
             clock' = clock \/ Advance
      PROVE  /\ fnow'[f] <= clock' /\ clock' <= fnow'[f] + Deadline
             /\ fpc'[f] = "pick" => \E s \in Stored' : s >= Cutoff(fnow'[f])
             /\ fpc'[f] \in {"load", "commit"} =>
                  pick'[f] \in Stored' /\ pick'[f] >= Cutoff(fnow'[f])
  <2>1. Freezing(f)
    BY <1>5 DEF Freezing
  <2>2. fnow[f] <= clock' /\ clock' <= fnow[f] + Deadline
    BY <1>5, <2>1, WindowAssumption DEF FreezersCurrent, Advance, Freezing, TypeOK
  <2>3. ASSUME NEW s \in Stored, s >= Cutoff(fnow[f]) PROVE s \in Stored'
    <3>1. s \in Nat /\ s >= clock - Window
      BY <2>1, <2>3, CurrentIsYoung DEF TypeOK, Stored
    <3>2. QED
      BY <3>1, ScansStep DEF Stored
  <2>4. QED
    BY <1>5, <2>1, <2>2, <2>3 DEF FreezersCurrent
<1>6. QED
  BY <1>1, <1>2, <1>3, <1>4, <1>5, FreezerLocal

-----------------------------------------------------------------------------
(* newest is the latest complete scan; with the window it is never pruned. *)
LEMMA NewestStep ==
  ASSUME TypeOK, NewestIsLatest, PrunersAware, NewestKept, [Next]_vars
  PROVE  NewestIsLatest' /\ NewestKept'
<1> USE DEF scanVars, freezeVars, pruneVars
<1>1. CASE RecordScan
  <2>1. PICK s \in 0 .. clock :
          /\ scans' = scans \cup {s}
          /\ \/ /\ complete' = complete \cup {s}
                /\ newest' = IF s > newest THEN s ELSE newest
             \/ complete' = complete /\ newest' = newest
    BY <1>1 DEF RecordScan
  <2>2. s \in Nat /\ newest \in Int /\ \A u \in complete : u \in Int
    BY DEF TypeOK
  <2>3. CASE complete' = complete /\ newest' = newest
    BY <2>1, <2>3 DEF NewestIsLatest, NewestKept
  <2>4. CASE complete' = complete \cup {s} /\ s > newest
    <3>1. newest' = s
      <4>1. complete' = complete => s \in complete
        BY <2>4
      <4>2. s \notin complete
        BY <2>2, <2>4 DEF NewestIsLatest
      <4>3. QED
        BY <2>1, <2>2, <2>4, <4>1, <4>2
    <3>2. \A u \in complete' : u <= newest'
      BY <2>2, <2>4, <3>1 DEF NewestIsLatest
    <3>3. QED
      BY <2>1, <2>4, <3>1, <3>2 DEF NewestIsLatest, NewestKept
  <2>5. CASE complete' = complete \cup {s} /\ ~(s > newest)
    <3>1. newest' = newest
      BY <2>1, <2>5
    <3>2. \A u \in complete' : u <= newest'
      BY <2>2, <2>5, <3>1 DEF NewestIsLatest
    <3>3. QED
      BY <2>1, <2>5, <3>1, <3>2 DEF NewestIsLatest, NewestKept
  <2>6. QED
    BY <2>1, <2>3, <2>4, <2>5
<1>2. ASSUME NEW r \in Pruner, Prune(r) PROVE NewestIsLatest' /\ NewestKept'
  <2>1. newest \notin doomed[r] /\ UNCHANGED <<complete, newest>>
    BY <1>2 DEF PrunersAware, Prune
  <2>2. \A s \in scans \ doomed[r] : s \in scans'
    BY <1>2 DEF Prune
  <2>3. QED
    BY <2>1, <2>2 DEF NewestIsLatest, NewestKept
<1>3. CASE UNCHANGED <<scans, complete, newest>>
  BY <1>3 DEF NewestIsLatest, NewestKept
<1>4. \/ RecordScan \/ (\E r \in Pruner : Prune(r))
      \/ UNCHANGED <<scans, complete, newest>>
  BY DEF Next, vars, Advance, StartTick, CheckDue, PickScan, LoadRows, Commit,
     AbortFreeze, StartRetention, ReadReferences, ReadLatest, SelectCandidates,
     AbortRetention
<1>5. QED
  BY <1>1, <1>2, <1>3, <1>4

LEMMA NewCohortIs ==
  ASSUME NEW f \in Freezer
  PROVE  /\ NewCohort(f).scan = pick[f] /\ NewCohort(f).cutoff = Cutoff(pick[f])
         /\ NewCohort(f).scheduled => f \notin Manual
<1>1. NewCohort(f).scan = pick[f] /\ NewCohort(f).cutoff = Cutoff(pick[f])
  BY DEF NewCohort
<1>2. NewCohort(f).scheduled = (f \notin Manual)
  BY DEF NewCohort
<1>3. QED
  BY <1>1, <1>2

(* The only new cohort of a step is one a commit files; if it is scheduled its *)
(* scan is stored and still younger than the window.                           *)
LEMMA CohortStep ==
  ASSUME TypeOK, FreezersCurrent, [Next]_vars
  PROVE  \/ cohorts' = cohorts
         \/ \E f \in Freezer :
              /\ ~Frozen(Cutoff(pick[f])) /\ cohorts' = cohorts \cup {NewCohort(f)}
              /\ UNCHANGED <<clock, scans, complete, newest, rpc, rnow, protected,
                             doomed>>
              /\ f \notin Manual => pick[f] \in scans /\ pick[f] >= clock - Window
<1> USE DEF scanVars, freezeVars, pruneVars
<1>1. ASSUME NEW f \in Freezer, Commit(f), cohorts' # cohorts
      PROVE  /\ ~Frozen(Cutoff(pick[f])) /\ cohorts' = cohorts \cup {NewCohort(f)}
             /\ UNCHANGED <<clock, scans, complete, newest, rpc, rnow, protected,
                            doomed>>
             /\ f \notin Manual => pick[f] \in scans /\ pick[f] >= clock - Window
  <2>1. ASSUME f \notin Manual
        PROVE  pick[f] \in scans /\ pick[f] >= clock - Window
    <3>1. f \in Freezer \ Manual /\ fpc[f] = "commit" /\ Freezing(f)
      BY <1>1, <2>1 DEF Commit, Freezing
    <3>2. pick[f] \in scans /\ pick[f] >= Cutoff(fnow[f]) /\ pick[f] \in Nat
      BY <3>1 DEF FreezersCurrent, Stored, TypeOK
    <3>3. QED
      BY <3>1, <3>2, CurrentIsYoung
  <2>2. QED
    BY <1>1, <2>1 DEF Commit, MayCreate
<1>2. cohorts' = cohorts \/ \E f \in Freezer : Commit(f)
  BY DEF Next, vars, Advance, RecordScan, StartTick, CheckDue, PickScan, LoadRows,
     AbortFreeze, StartRetention, ReadReferences, ReadLatest, SelectCandidates, Prune,
     AbortRetention
<1>3. QED
  BY <1>1, <1>2

(* What a retention pass knows stays true while others freeze and record.      *)
LEMMA PrunersStep ==
  ASSUME TypeOK, FreezersCurrent, NewestIsLatest, NewestKept, ProvenanceKept,
         PrunersAware, [Next]_vars
  PROVE  PrunersAware'
<1> USE DEF scanVars, freezeVars, pruneVars
<1>1. CASE RecordScan
  <2>1. UNCHANGED <<clock, cohorts, rpc, rnow, protected, doomed>>
    BY <1>1 DEF RecordScan
  <2>2. PICK s \in 0 .. clock : clock - s <= Deadline /\ newest' \in {s, newest}
    BY <1>1 DEF RecordScan
  <2>3. s \in Nat /\ s >= clock - Window /\ clock \in Nat
    BY <2>2, WindowAssumption DEF TypeOK
  <2>4. ASSUME NEW r \in Pruner, rpc[r] = "select", newest' # -1
        PROVE  Spared(r, newest')
    <3>1. s >= rnow[r] - Window
      BY <2>3, <2>4, WindowAssumption DEF PrunersAware, TypeOK
    <3>2. QED
      BY <2>2, <2>4, <3>1 DEF PrunersAware, Spared
  <2>5. ASSUME NEW r \in Pruner, rpc[r] = "prune"
        PROVE  newest' \notin doomed[r]
    <3>1. s \notin doomed[r]
      BY <2>3, <2>5, PrunedIsOld, WindowAssumption
    <3>2. QED
      BY <2>2, <2>5, <3>1 DEF PrunersAware
  <2>6. QED
    BY <2>1, <2>4, <2>5 DEF PrunersAware, Spared
<1>2. ASSUME NEW f \in Freezer,
             \/ StartTick(f) \/ CheckDue(f) \/ PickScan(f) \/ LoadRows(f)
             \/ Commit(f) \/ AbortFreeze(f)
      PROVE  PrunersAware'
  <2>1. UNCHANGED <<clock, newest, rpc, rnow, protected, doomed>>
    BY <1>2 DEF StartTick, CheckDue, PickScan, LoadRows, Commit, AbortFreeze
  <2>2. CASE cohorts' = cohorts
    BY <2>1, <2>2 DEF PrunersAware, Spared
  <2>3. CASE cohorts' # cohorts
    <3>1. PICK g \in Freezer :
            /\ cohorts' = cohorts \cup {NewCohort(g)}
            /\ g \notin Manual => pick[g] \in scans /\ pick[g] >= clock - Window
      BY <2>3, CohortStep
    <3>2. ASSUME NEW r \in Pruner, g \notin Manual, rpc[r] # "idle"
          PROVE  /\ pick[g] >= rnow[r] - Window
                 /\ rpc[r] = "prune" => pick[g] \notin doomed[r]
      <4>1. pick[g] \in Nat /\ rnow[r] \in Nat /\ clock \in Nat /\ rnow[r] <= clock
        BY <3>2 DEF PrunersAware, TypeOK
      <4>2. pick[g] >= rnow[r] - Window
        BY <3>1, <3>2, <4>1, WindowAssumption
      <4>3. rpc[r] = "prune" => pick[g] \notin doomed[r]
        BY <3>1, <3>2, <4>1, PrunedIsOld, WindowAssumption
      <4>4. QED
        BY <4>2, <4>3
    <3>3. \A c \in cohorts' :
            c \in cohorts \/ (c.scan = pick[g] /\ (c.scheduled => g \notin Manual))
      BY <3>1, NewCohortIs
    <3>4. QED
      BY <2>1, <3>2, <3>3 DEF PrunersAware, Spared
  <2>4. QED
    BY <2>2, <2>3
<1>3. ASSUME NEW r \in Pruner, StartRetention(r) PROVE PrunersAware'
  BY <1>3 DEF StartRetention, PrunersAware, Spared, TypeOK
<1>4. ASSUME NEW r \in Pruner, ReadReferences(r) PROVE PrunersAware'
  BY <1>4 DEF ReadReferences, PrunersAware, Spared, TypeOK, Referenced
<1>5. ASSUME NEW r \in Pruner, ReadLatest(r) PROVE PrunersAware'
  <2>1. newest # -1 => newest \in Current
    BY DEF Current, IsLatest, Stored, NewestIsLatest, NewestKept, TypeOK
  <2>2. protected' = [protected EXCEPT ![r] = protected[r] \cup Current]
        /\ rpc' = [rpc EXCEPT ![r] = "select"] /\ rpc[r] = "latest"
        /\ UNCHANGED <<clock, cohorts, newest, rnow, doomed>>
    BY <1>5 DEF ReadLatest
  <2>3. newest # -1 => newest \in protected'[r]
    BY <2>1, <2>2 DEF TypeOK
  <2>4. \A s \in protected[r] : s \in protected'[r]
    BY <2>2 DEF TypeOK
  <2>5. QED
    BY <2>2, <2>3, <2>4 DEF PrunersAware, Spared, TypeOK
<1>6. ASSUME NEW r \in Pruner, SelectCandidates(r) PROVE PrunersAware'
  <2>1. /\ doomed' = [doomed EXCEPT ![r] =
                        {s \in scans : s < rnow[r] - Window} \ protected[r]]
        /\ rpc' = [rpc EXCEPT ![r] = "prune"] /\ rpc[r] = "select"
        /\ UNCHANGED <<clock, cohorts, newest, rnow, protected>>
    BY <1>6 DEF SelectCandidates
  <2>2. \A s \in doomed'[r] : s < rnow[r] - Window /\ s \notin protected[r] /\ s \in Nat
    BY <2>1 DEF TypeOK
  <2>3. ASSUME NEW s, Spared(r, s) PROVE s \notin doomed'[r]
    BY <2>2, <2>3, WindowAssumption DEF Spared, TypeOK
  <2>4. newest \notin doomed'[r]
    BY <2>1, <2>2, <2>3 DEF PrunersAware
  <2>5. \A c \in cohorts : c.scheduled => c.scan \notin doomed'[r]
    BY <2>1, <2>3 DEF PrunersAware
  <2>6. QED
    BY <2>1, <2>2, <2>4, <2>5 DEF PrunersAware, Spared, TypeOK
<1>7. ASSUME NEW r \in Pruner, Prune(r) \/ AbortRetention(r) PROVE PrunersAware'
  <2>1. /\ UNCHANGED <<clock, cohorts, newest>> /\ rpc'[r] = "done" /\ rnow'[r] = 0
        /\ \A q \in Pruner \ {r} : /\ rpc'[q] = rpc[q] /\ rnow'[q] = rnow[q]
                                    /\ protected'[q] = protected[q]
                                    /\ doomed'[q] = doomed[q]
    BY <1>7 DEF Prune, AbortRetention, EndRetention, TypeOK
  <2>2. QED
    BY <2>1 DEF PrunersAware, Spared, TypeOK
<1>8. CASE Advance
  BY <1>8 DEF Advance, PrunersAware, Spared, TypeOK
<1>9. CASE UNCHANGED vars
  BY <1>9 DEF vars, PrunersAware, Spared
<1>10. QED
  BY <1>1, <1>2, <1>3, <1>4, <1>5, <1>6, <1>7, <1>8, <1>9 DEF Next

-----------------------------------------------------------------------------
LEMMA CohortsStep ==
  ASSUME TypeOK, FreezersCurrent, PrunersAware, CohortsFiled, ProvenanceKept,
         OneCohortPerPeriod, [Next]_vars
  PROVE  CohortsFiled' /\ ProvenanceKept' /\ OneCohortPerPeriod'
<1>1. \A c \in cohorts : c.scheduled => c.scan \in scans'
  <2>1. CASE \E r \in Pruner : Prune(r)
    BY <2>1 DEF Prune, PrunersAware, ProvenanceKept
  <2>2. CASE scans \subseteq scans'
    BY <2>2 DEF ProvenanceKept
  <2>3. scans \subseteq scans' \/ \E r \in Pruner : Prune(r)
    BY DEF Next, vars, scanVars, Advance, RecordScan, StartTick, CheckDue, PickScan,
       LoadRows, Commit, AbortFreeze, StartRetention, ReadReferences, ReadLatest,
       SelectCandidates, AbortRetention
  <2>4. QED
    BY <2>1, <2>2, <2>3
<1>2. CASE cohorts' = cohorts
  BY <1>1, <1>2 DEF CohortsFiled, ProvenanceKept, OneCohortPerPeriod
<1>3. ASSUME NEW f \in Freezer,
             ~Frozen(Cutoff(pick[f])), cohorts' = cohorts \cup {NewCohort(f)},
             UNCHANGED <<clock, scans, complete, newest, rpc, rnow, protected,
                         doomed>>,
             f \notin Manual => pick[f] \in scans /\ pick[f] >= clock - Window
      PROVE  CohortsFiled' /\ ProvenanceKept' /\ OneCohortPerPeriod'
  <2> DEFINE new == NewCohort(f)
  <2>1. CohortsFiled'
    BY <1>3, NewCohortIs DEF CohortsFiled, Cutoff
  <2>2. ProvenanceKept'
    BY <1>1, <1>3, NewCohortIs DEF ProvenanceKept
  <2>3. \A c \in cohorts : c.cutoff # new.cutoff
    BY <1>3, NewCohortIs DEF Frozen
  <2>4. OneCohortPerPeriod'
    BY <1>3, <2>3 DEF OneCohortPerPeriod
  <2>5. QED
    BY <2>1, <2>2, <2>4
<1>4. QED
  BY <1>2, <1>3, CohortStep

LEMMA IInvInit == Init => IInv
<1> SUFFICES ASSUME Init PROVE IInv
  OBVIOUS
<1>1. TypeOK
  BY TypeInit
<1>2. FreezersCurrent /\ PrunersAware
  BY DEF Init, FreezersCurrent, Freezing, PrunersAware
<1>3. NewestIsLatest /\ CohortsFiled /\ ProvenanceKept /\ NewestKept /\ OneCohortPerPeriod
  BY DEF Init, NewestIsLatest, CohortsFiled, ProvenanceKept, NewestKept,
     OneCohortPerPeriod
<1>4. QED
  BY <1>1, <1>2, <1>3 DEF IInv

LEMMA IInvStep == IInv /\ [Next]_vars => IInv'
BY TypeStep, FreezersStep, PrunersStep, NewestStep, CohortsStep DEF IInv

(* The clocks, choices and knowledge of freezers and retention passes fit *)
(* together in every reachable state.                                     *)
THEOREM InductiveInvariant == Spec => []IInv
BY IInvInit, IInvStep, PTL DEF Spec

(* Type correctness of the freeze and retention model. *)
THEOREM TypeCorrect == Spec => []TypeOK
<1>1. IInv => TypeOK
  BY DEF IInv
<1>2. QED
  BY <1>1, InductiveInvariant, PTL

(* No retention pass prunes the scan a scheduled cohort was frozen from, in    *)
(* whatever order the two read and commit: a window of at least a period and a *)
(* deadline closes the race.                                                   *)
THEOREM Provenance == Spec => []ProvenanceKept
<1>1. IInv => ProvenanceKept
  BY DEF IInv
<1>2. QED
  BY <1>1, InductiveInvariant, PTL

(* The newest complete scan is never pruned, even one recorded while a *)
(* retention pass is under way.                                        *)
THEOREM CurrentScanKept == Spec => []NewestKept
<1>1. IInv => NewestKept
  BY DEF IInv
<1>2. QED
  BY <1>1, InductiveInvariant, PTL

(* However many freezers find a period due, it gets one cohort. *)
THEOREM FrozenOnce == Spec => []OneCohortPerPeriod
<1>1. IInv => OneCohortPerPeriod
  BY DEF IInv
<1>2. QED
  BY <1>1, InductiveInvariant, PTL

(* A cutoff is monotone in time: a scan of the tick's period or a later one is *)
(* filed under that period or a later one.                                     *)
LEMMA CutoffMonotone ==
  ASSUME NEW s \in Nat, NEW t \in Nat, s >= Cutoff(t)
  PROVE  Cutoff(s) >= Cutoff(t)
<1> DEFINE m == s \div Period
<1> DEFINE n == t \div Period
<1>1. m \in Int /\ n \in Int /\ Period \in Nat /\ Period > 0
  BY WindowAssumption
<1>2. s = Period * m + (s % Period) /\ t = Period * n + (t % Period)
  BY WindowAssumption
<1>3. Cutoff(s) = Period * m /\ Cutoff(t) = Period * n
  BY <1>1, <1>2, WindowAssumption DEF Cutoff
<1>4. Period * n < Period * m + Period
  BY <1>1, <1>3, CutoffBounds
<1> HIDE DEF m, n
<1>5. n <= m
  <2> SUFFICES ASSUME m + 1 <= n PROVE FALSE
    BY <1>1
  <2>1. Period * (m + 1) <= Period * n
    BY <1>1
  <2>2. QED
    BY <1>1, <1>4, <2>1
<1>6. QED
  BY <1>1, <1>3, <1>5

(* A scheduled freeze never writes into a period that was over when its tick *)
(* started, although the scan is looked up again after the due check.        *)
THEOREM NeverBackfills == Spec => []NoBackfill
<1>1. IInv => NoBackfill
  <2> SUFFICES ASSUME IInv, NEW f \in Freezer \ Manual, fpc[f] = "commit"
               PROVE  Cutoff(pick[f]) >= Cutoff(fnow[f])
    BY DEF NoBackfill
  <2>1. pick[f] \in Nat /\ fnow[f] \in Nat /\ pick[f] >= Cutoff(fnow[f])
    BY DEF IInv, TypeOK, FreezersCurrent
  <2>2. QED
    BY <2>1, CutoffMonotone
<1>2. QED
  BY <1>1, InductiveInvariant, PTL

-----------------------------------------------------------------------------
(***************************************************************************)
(* The research readers.  ReplayInv is inductive: cohorts of one origin    *)
(* hold what one scan measured, so whichever of them a headline picks it   *)
(* shows the same call, and only an older origin takes a market over.      *)
(***************************************************************************)

ReplayCohort == [cadence : Cadence, cutoff : Int, origin : Nat,
           excessivelyLate : BOOLEAN, entries : [Market -> Entry]]

LEMMA ReplayStarts == PInit => ReplayInv
PROOF
<1> SUFFICES ASSUME PInit PROVE ReplayInv
  OBVIOUS
<1>1. hour = 0 /\ storedScans = {} /\ frozenCohorts = <<>> /\ forward = {}
  BY DEF PInit
<1>2. <<>> \in Seq(ReplayCohort) /\ DOMAIN frozenCohorts = {}
  BY <1>1, SMT
<1>3. ReplayTypeOK
  BY <1>1, <1>2 DEF ReplayTypeOK, ReplayCohort
<1>4. FrozenFromScans
  BY <1>1, <1>2 DEF FrozenFromScans
<1> QED BY <1>3, <1>4 DEF ReplayInv

LEMMA ScanKeeps ==
  ASSUME ReplayInv, NEW screens \in [Market -> Screen], Scan(screens)
  PROVE  ReplayInv'
PROOF
<1> DEFINE new == [at |-> hour, screens |-> screens]
<1>1. /\ \A s \in storedScans : s.at < hour
      /\ storedScans' = storedScans \cup {new}
      /\ UNCHANGED <<hour, frozenCohorts, forward>>
  BY DEF Scan
<1>2. hour \in Nat /\ storedScans \subseteq [at : Nat, screens : [Market -> Screen]]
  BY DEF ReplayInv, ReplayTypeOK
<1>3. new.at = hour /\ new \in [at : Nat, screens : [Market -> Screen]]
  BY <1>2
<1> HIDE DEF new
<1>4. ReplayTypeOK'
  BY <1>1, <1>2, <1>3 DEF ReplayInv, ReplayTypeOK
<1>5. \A s \in storedScans : s.at \in Nat /\ s.at # hour /\ s.at <= hour
  BY <1>1, <1>2
<1>6. \A s \in storedScans' : s.at <= hour
  BY <1>1, <1>2, <1>3, <1>5
<1>7. \A s, u \in storedScans' : s.at = u.at => s = u
  BY <1>1, <1>3, <1>5 DEF ReplayInv, FrozenFromScans
<1>8. \A i \in DOMAIN frozenCohorts : \E s \in storedScans' :
          /\ frozenCohorts[i].origin = s.at
          /\ frozenCohorts[i].entries = [m \in Market |-> EntryInput(s.screens[m])]
  BY <1>1 DEF ReplayInv, FrozenFromScans
<1>9. FrozenFromScans'
  BY <1>1, <1>6, <1>7, <1>8 DEF FrozenFromScans
<1> QED BY <1>4, <1>9 DEF ReplayInv

(* What the freeze of a scan appends. *)
Appended(s, new) ==
    /\ new \in ReplayCohort /\ new.origin = s.at
    /\ new.entries = [m \in Market |-> EntryInput(s.screens[m])]
    /\ frozenCohorts' = Append(frozenCohorts, new)

LEMMA FreezeAppends ==
  ASSUME ReplayInv, NEW c \in Cadence, NEW s \in storedScans, Freeze(c, s)
  PROVE  \E new : Appended(s, new) /\ UNCHANGED <<hour, storedScans, forward>>
PROOF
<1> DEFINE new == CohortOf(c, s)
<1>1. frozenCohorts' = Append(frozenCohorts, new) /\ UNCHANGED <<hour, storedScans, forward>>
  BY DEF Freeze
<1>2. s.at \in Nat /\ s.screens \in [Market -> Screen] /\ CadencePeriod[c] \in Nat \ {0}
  BY ReplayAssumption DEF ReplayInv, ReplayTypeOK
<1>3. CutoffOf(c, s.at) \in Int
  BY <1>2, SMT DEF CutoffOf
<1>4. [m \in Market |-> EntryInput(s.screens[m])] \in [Market -> Entry]
  BY <1>2 DEF Entry
<1>5. (s.at - CutoffOf(c, s.at) > LatenessMax) \in BOOLEAN
  OBVIOUS
<1>6. new \in ReplayCohort
  BY <1>2, <1>3, <1>4, <1>5 DEF ReplayCohort, CohortOf
<1>7. Appended(s, new)
  BY <1>1, <1>6 DEF Appended, CohortOf
<1> QED BY <1>1, <1>7

(* The cohorts that were there stay where they were, and the new one is last. *)
LEMMA CohortsAfter ==
  ASSUME ReplayInv, NEW s, NEW new, Appended(s, new)
  PROVE  /\ frozenCohorts \in Seq(ReplayCohort) /\ frozenCohorts' \in Seq(ReplayCohort)
         /\ Len(frozenCohorts) \in Nat
         /\ DOMAIN frozenCohorts = 1..Len(frozenCohorts)
         /\ DOMAIN frozenCohorts' = DOMAIN frozenCohorts \cup {Len(frozenCohorts) + 1}
         /\ Len(frozenCohorts) + 1 \notin DOMAIN frozenCohorts
         /\ \A i \in DOMAIN frozenCohorts : /\ frozenCohorts'[i] = frozenCohorts[i]
                                            /\ frozenCohorts[i] \in ReplayCohort
         /\ frozenCohorts'[Len(frozenCohorts) + 1] = new
PROOF
<1>1. frozenCohorts \in Seq(ReplayCohort) /\ new \in ReplayCohort
  BY DEF ReplayInv, ReplayTypeOK, Appended, ReplayCohort
<1>2. frozenCohorts' = Append(frozenCohorts, new)
  BY DEF Appended
<1>3. Len(frozenCohorts) \in Nat /\ DOMAIN frozenCohorts = 1..Len(frozenCohorts)
  BY <1>1, SMT
<1>4. /\ frozenCohorts' \in Seq(ReplayCohort)
      /\ DOMAIN frozenCohorts' = 1..(Len(frozenCohorts) + 1)
      /\ frozenCohorts'[Len(frozenCohorts) + 1] = new
      /\ \A i \in 1..Len(frozenCohorts) : frozenCohorts'[i] = frozenCohorts[i]
  BY <1>1, <1>2, AppendProperties
<1>5. \A i \in DOMAIN frozenCohorts : frozenCohorts[i] \in ReplayCohort
  BY <1>1, <1>3, ElementOfSeq
<1>6. 1..(Len(frozenCohorts) + 1) = 1..Len(frozenCohorts) \cup {Len(frozenCohorts) + 1}
  BY <1>3
<1>7. Len(frozenCohorts) + 1 \notin 1..Len(frozenCohorts)
  BY <1>3
<1> QED BY <1>1, <1>3, <1>4, <1>5, <1>6, <1>7

LEMMA ReplayFreezeKeeps ==
  ASSUME ReplayInv, NEW c \in Cadence, NEW s \in storedScans, Freeze(c, s)
  PROVE  ReplayInv'
PROOF
<1>1. PICK new : Appended(s, new) /\ UNCHANGED <<hour, storedScans, forward>>
  BY FreezeAppends
<1> DEFINE last == Len(frozenCohorts) + 1
<1>2. /\ frozenCohorts' \in Seq(ReplayCohort)
      /\ DOMAIN frozenCohorts' = DOMAIN frozenCohorts \cup {last}
      /\ \A i \in DOMAIN frozenCohorts : frozenCohorts'[i] = frozenCohorts[i]
      /\ frozenCohorts'[last] = new
  BY <1>1, CohortsAfter
<1>3. /\ new.origin = s.at /\ new.entries = [m \in Market |-> EntryInput(s.screens[m])]
  BY <1>1 DEF Appended
<1> HIDE DEF last
<1>4. ReplayTypeOK'
  BY <1>1, <1>2 DEF ReplayInv, ReplayTypeOK, ReplayCohort
<1>5. \A i \in DOMAIN frozenCohorts' : \E u \in storedScans :
          /\ frozenCohorts'[i].origin = u.at
          /\ frozenCohorts'[i].entries = [m \in Market |-> EntryInput(u.screens[m])]
  <2> TAKE i \in DOMAIN frozenCohorts'
  <2>1. CASE i = last
    BY <2>1, <1>2, <1>3
  <2>2. CASE i \in DOMAIN frozenCohorts
    <3>1. PICK u \in storedScans :
            /\ frozenCohorts[i].origin = u.at
            /\ frozenCohorts[i].entries = [m \in Market |-> EntryInput(u.screens[m])]
      BY <2>2 DEF ReplayInv, FrozenFromScans
    <3> QED BY <3>1, <2>2, <1>2
  <2> QED BY <2>1, <2>2, <1>2
<1>6. FrozenFromScans'
  BY <1>1, <1>5 DEF ReplayInv, FrozenFromScans
<1> QED BY <1>4, <1>6 DEF ReplayInv

LEMMA CollectKeeps ==
  ASSUME ReplayInv, NEW i \in DOMAIN frozenCohorts, NEW m \in Market,
         NEW h \in DOMAIN HorizonOf, NEW q \in Quote, Collect(i, m, h, q)
  PROVE  ReplayInv'
PROOF
<1>1. /\ forward' = forward \cup {[cohort |-> i, market |-> m, horizon |-> h, quote |-> q]}
      /\ UNCHANGED <<hour, storedScans, frozenCohorts>>
  BY DEF Collect
<1>2. ReplayTypeOK'
  BY <1>1 DEF ReplayInv, ReplayTypeOK
<1> QED BY <1>1, <1>2 DEF ReplayInv, FrozenFromScans

LEMMA ReplayGoesOn == ReplayInv /\ [PNext]_pVars => ReplayInv'
PROOF
<1> SUFFICES ASSUME ReplayInv, [PNext]_pVars PROVE ReplayInv'
  OBVIOUS
<1>1. CASE PAdvance
  <2>1. hour \in Nat /\ \A s \in storedScans : s.at \in Nat /\ s.at <= hour
    BY DEF ReplayInv, ReplayTypeOK, FrozenFromScans
  <2>2. /\ hour' \in Nat /\ UNCHANGED <<storedScans, frozenCohorts, forward>>
        /\ \A s \in storedScans : s.at <= hour'
    BY <1>1, <2>1 DEF PAdvance
  <2> QED BY <2>2 DEF ReplayInv, ReplayTypeOK, FrozenFromScans
<1>2. CASE UNCHANGED pVars
  BY <1>2 DEF pVars, ReplayInv, ReplayTypeOK, FrozenFromScans
<1> QED BY <1>1, <1>2, ScanKeeps, ReplayFreezeKeeps, CollectKeeps DEF PNext

-----------------------------------------------------------------------------
(* A freeze takes a market over when its scan is older than every pick, is     *)
(* never picked when its scan is newer, and shows the same call in between.    *)
LEMMA FreezeKeepsPicks ==
  ASSUME ReplayInv, NEW c \in Cadence, NEW s \in storedScans, Freeze(c, s),
         NEW m \in Market, SpeaksFor(m) # {}
  PROVE  SpeaksFor(m)' = SpeaksFor(m) \/ TakenOver(m)
PROOF
<1>1. PICK new : Appended(s, new) /\ UNCHANGED <<hour, storedScans, forward>>
  BY FreezeAppends
<1> DEFINE D == DOMAIN frozenCohorts
<1>2. PICK last :
      /\ D' = D \cup {last} /\ last \notin D
      /\ \A i \in D : frozenCohorts'[i] = frozenCohorts[i] /\ frozenCohorts[i] \in ReplayCohort
      /\ frozenCohorts'[last] = new /\ new \in ReplayCohort
  BY <1>1, CohortsAfter DEF Appended
<1>3. /\ new.origin = s.at /\ new.entries = [x \in Market |-> EntryInput(s.screens[x])]
  BY <1>1 DEF Appended
<1>6. \A i \in D : frozenCohorts[i].origin = new.origin => frozenCohorts[i].entries = new.entries
  <2> TAKE i \in D
  <2>1. PICK u \in storedScans :
            /\ frozenCohorts[i].origin = u.at
            /\ frozenCohorts[i].entries = [x \in Market |-> EntryInput(u.screens[x])]
    BY DEF ReplayInv, FrozenFromScans
  <2>2. s.at = u.at => s = u
    BY DEF ReplayInv, FrozenFromScans
  <2> QED BY <2>1, <2>2, <1>3
<1> DEFINE o(i) == frozenCohorts[i].origin
           k(i) == frozenCohorts[i].cutoff
           calls == CallsOn(m)
           picks == HeadlinePicks(m)
<1>7. \A i \in D : /\ o(i) \in Nat /\ k(i) \in Int /\ o(i)' = o(i) /\ k(i)' = k(i)
  BY <1>2 DEF ReplayCohort
<1>8. o(last)' = new.origin /\ k(last)' = new.cutoff /\ new.origin \in Nat /\ new.cutoff \in Int
  BY <1>2 DEF ReplayCohort
<1>9. calls \subseteq D /\ calls' \subseteq D' /\ calls' \cap D = calls
  BY <1>2 DEF CallsOn, Selectable
<1>10. PICK a \in picks : TRUE
  BY DEF SpeaksFor
<1>11. a \in calls /\ a \in D /\ \A j \in calls : ~Earlier(j, a)
  BY <1>9, <1>10 DEF HeadlinePicks
<1>12. \A i, j \in D : Earlier(i, j)' <=> Earlier(i, j)
  BY <1>7 DEF Earlier
<1>13. picks' \cap D \subseteq picks
  BY <1>9, <1>12 DEF HeadlinePicks
<1>14. CASE last \notin calls'
  <2>1. calls' = calls
    BY <1>2, <1>9, <1>14
  <2>2. picks' = picks
    BY <2>1, <1>9, <1>12 DEF HeadlinePicks
  <2> QED BY <2>2, <1>2, <1>9 DEF SpeaksFor, HeadlinePicks
<1>15. CASE last \in calls' /\ o(a) < new.origin
  <2>1. o(a) < new.origin
    BY <1>15
  <2>2. Earlier(a, last)'
    BY <2>1, <1>7, <1>8, <1>11 DEF Earlier
  <2>3. last \notin picks'
    BY <2>2, <1>9, <1>11 DEF HeadlinePicks
  <2>4. \A i \in picks : o(i) <= o(a)
    <3> TAKE i \in picks
    <3>1. i \in D /\ ~Earlier(a, i)
      BY <1>9, <1>11 DEF HeadlinePicks
    <3> QED BY <3>1, <1>7, <1>11 DEF Earlier
  <2>5. \A i \in picks : ~Earlier(last, i)'
    <3> TAKE i \in picks
    <3>1. i \in D /\ o(i) <= o(a)
      BY <2>4, <1>9 DEF HeadlinePicks
    <3>2. o(i) < new.origin
      BY <3>1, <2>1, <1>7, <1>8, <1>11
    <3> QED BY <3>1, <3>2, <1>7, <1>8 DEF Earlier
  <2>6. picks \subseteq picks'
    BY <2>5, <1>2, <1>9, <1>12 DEF HeadlinePicks
  <2>7. picks' = picks /\ picks \subseteq D
    BY <2>3, <2>6, <1>2, <1>9, <1>13 DEF HeadlinePicks
  <2> QED BY <2>7, <1>2 DEF SpeaksFor
<1>16. CASE last \in calls' /\ o(a) = new.origin
  <2>1. \A i \in picks : i \in D /\ o(i) = new.origin
    <3> TAKE i \in picks
    <3>1. i \in D /\ i \in calls /\ \A j \in calls : ~Earlier(j, i)
      BY <1>9 DEF HeadlinePicks
    <3>2. ~Earlier(a, i) /\ ~Earlier(i, a)
      BY <3>1, <1>11
    <3> QED BY <3>1, <3>2, <1>7, <1>11, <1>16 DEF Earlier
  <2>2. SpeaksFor(m) = {new.entries[m]}
    BY <2>1, <1>6, <1>10 DEF SpeaksFor
  <2>3. \A i \in picks' : frozenCohorts'[i].entries = new.entries
    <3> TAKE i \in picks'
    <3>1. CASE i \in D
      BY <3>1, <2>1, <1>2, <1>6, <1>13
    <3>2. CASE i = last
      BY <3>2, <1>2
    <3> QED BY <3>1, <3>2, <1>2, <1>9 DEF HeadlinePicks
  <2>4. picks' # {}
    <3>1. CASE Earlier(last, a)'
      <4>1. new.cutoff > k(a)
        BY <3>1, <1>7, <1>8, <1>11, <1>16 DEF Earlier
      <4>2. \A j \in calls' : ~Earlier(j, last)'
        <5> TAKE j \in calls'
        <5>1. CASE j = last
          BY <5>1, <1>8 DEF Earlier
        <5>2. CASE j \in calls
          <6>1. j \in D /\ ~Earlier(j, a)
            BY <5>2, <1>9, <1>11
          <6> QED BY <6>1, <4>1, <1>7, <1>8, <1>11, <1>16 DEF Earlier
        <5> QED BY <5>1, <5>2, <1>2, <1>9
      <4>3. last \in picks'
        BY <4>2, <1>16 DEF HeadlinePicks
      <4> QED BY <4>3
    <3>2. CASE ~Earlier(last, a)'
      <4>1. \A j \in calls' : ~Earlier(j, a)'
        BY <3>2, <1>2, <1>9, <1>11, <1>12
      <4>2. a \in calls'
        BY <1>9, <1>11
      <4>3. a \in picks'
        BY <4>1, <4>2 DEF HeadlinePicks
      <4> QED BY <4>3
    <3> QED BY <3>1, <3>2
  <2>5. SpeaksFor(m)' = {new.entries[m]}
    BY <2>3, <2>4 DEF SpeaksFor
  <2> QED BY <2>2, <2>5
<1>17. CASE last \in calls' /\ new.origin < o(a)
  <2>1. \A j \in calls : o(a) <= o(j)
    BY <1>7, <1>9, <1>11 DEF Earlier
  <2>2. \A j \in calls : new.origin < o(j)
    BY <2>1, <1>7, <1>8, <1>9, <1>11, <1>17
  <2>3. \A j \in calls : Earlier(last, j)' /\ ~Earlier(j, last)'
    BY <2>2, <1>7, <1>8, <1>9 DEF Earlier
  <2>4. ~Earlier(last, last)'
    BY <1>8 DEF Earlier
  <2>5. \A j \in calls' : j = last \/ j \in calls
    BY <1>2, <1>9
  <2>6. last \in picks'
    BY <2>3, <2>4, <2>5, <1>17 DEF HeadlinePicks
  <2>7. \A j \in picks' : j = last
    <3> TAKE j \in picks'
    <3>1. j \in calls' /\ ~Earlier(last, j)'
      BY <1>17 DEF HeadlinePicks
    <3> QED BY <3>1, <2>3, <2>5
  <2>8. picks' = {last}
    BY <2>6, <2>7
  <2>9. \A j \in picks : frozenCohorts'[last].origin < frozenCohorts[j].origin
    BY <2>2, <1>2 DEF HeadlinePicks
  <2>10. TakenOver(m)
    BY <2>8, <2>9, <1>2 DEF TakenOver
  <2> QED BY <2>10
<1> QED BY <1>7, <1>8, <1>11, <1>14, <1>15, <1>16, <1>17

LEMMA PicksStay ==
  ASSUME ReplayInv, [PNext]_pVars, NEW m \in Market, SpeaksFor(m) # {}
  PROVE  SpeaksFor(m)' = SpeaksFor(m) \/ TakenOver(m)
PROOF
<1>1. ASSUME UNCHANGED frozenCohorts PROVE SpeaksFor(m)' = SpeaksFor(m)
  BY <1>1 DEF SpeaksFor, HeadlinePicks, CallsOn, Selectable, Earlier
<1> QED BY <1>1, FreezeKeepsPicks DEF PNext, PAdvance, Scan, Collect, pVars

(* Whatever is scanned, frozen and observed later, the call that a headline    *)
(* counts of a market is exchanged for an older one only, and only by freezing *)
(* an older scan (dependence_aware_headline, freeze_cohort_from_scan).         *)
THEOREM FirstCallsStand == PInit /\ [][PNext]_pVars => HeadlineKeepsFirstCall
PROOF
<1> DEFINE A == \A m \in Market :
                  SpeaksFor(m) # {} => SpeaksFor(m)' = SpeaksFor(m) \/ TakenOver(m)
<1>1. PInit => ReplayInv
  BY ReplayStarts
<1>2. ReplayInv /\ [PNext]_pVars => ReplayInv' /\ [A]_pVars
  BY ReplayGoesOn, PicksStay
<1> QED BY <1>1, <1>2, PTL DEF HeadlineKeepsFirstCall

-----------------------------------------------------------------------------
(* What an entry of a cohort is, and the quote that an observation has. *)
LEMMA EntriesAndQuotes ==
  ASSUME ReplayInv, NEW i \in DOMAIN frozenCohorts, NEW m \in Market
  PROVE  /\ \E s \in Screen : frozenCohorts[i].entries[m] = EntryInput(s)
         /\ frozenCohorts[i].entries[m].mid \in Measure
         /\ \A h : Recorded(i, m, h) # {} =>
                (CHOOSE f \in Recorded(i, m, h) : TRUE).quote \in Quote
PROOF
<1>1. frozenCohorts[i] \in ReplayCohort
  <2>1. frozenCohorts \in Seq(ReplayCohort)
    BY DEF ReplayInv, ReplayTypeOK, ReplayCohort
  <2> QED BY <2>1, SMT
<1>2. PICK s \in Screen : frozenCohorts[i].entries[m] = EntryInput(s)
  BY <1>1 DEF ReplayCohort, Entry
<1>3. EntryInput(s).mid = s.mid /\ s.mid \in Measure
  BY ReplayAssumption DEF EntryInput
<1>4. ASSUME NEW h, Recorded(i, m, h) # {}
      PROVE  (CHOOSE f \in Recorded(i, m, h) : TRUE).quote \in Quote
  <2>1. (CHOOSE f \in Recorded(i, m, h) : TRUE) \in forward
    BY <1>4 DEF Recorded
  <2> QED BY <2>1 DEF ReplayInv, ReplayTypeOK
<1> QED BY <1>2, <1>3, <1>4

(* The two rules on one observation of a call. *)
LEMMA RulesAgree ==
  ASSUME ReplayInv, NEW i \in DOMAIN frozenCohorts, NEW m \in Market, NEW h,
         Recorded(i, m, h) # {}, frozenCohorts[i].entries[m].direction \in Call,
         NEW o, o = Observation(i, m, h),
         NEW view, view = Outcome(o.entry.direction, o),
         NEW shown, shown = ResultState(frozenCohorts[i].entries[m], Recorded(i, m, h))
  PROVE  /\ view = "correct" => shown = "moved_expected"
         /\ view = "incorrect" => shown = "moved_against"
         /\ shown = "no_change" => view = "flat"
         /\ view = "flat" <=> HasMove(o) /\ Size(Move(o)) <= FlatEps
         /\ HasMove(o) <=> view \in {"correct", "incorrect", "flat"}
         /\ HasMove(o) <=> shown \in {"moved_expected", "moved_against", "no_change"}
PROOF
<1> DEFINE e == frozenCohorts[i].entries[m]
           q == (CHOOSE f \in Recorded(i, m, h) : TRUE).quote
           p == [entry |-> e, mid |-> q.mid]
<1>1. o.entry = e /\ o.mid = q.mid
  BY DEF Observation
<1>2. e.mid \in Measure /\ q.mid \in Measure
  BY EntriesAndQuotes, ReplayAssumption
<1>3. /\ p.entry = e /\ p.mid = q.mid
      /\ HasMove(p) = HasMove(o) /\ Move(p) = Move(o)
      /\ HasMove(o) => Known(q.mid) /\ Move(o) \in Int
  BY <1>1, <1>2 DEF HasMove, Move, Measure, Known, None
<1>4. shown = IF q.closed /\ ~Known(q.mid) THEN "closed_before_horizon"
              ELSE IF ~HasMove(o) THEN "unavailable"
              ELSE IF Move(o) = 0 THEN "no_change"
              ELSE IF (Move(o) > 0) = (e.direction = "up") THEN "moved_expected"
              ELSE "moved_against"
  BY <1>3 DEF ResultState
<1>5. view = IF ~HasMove(o) THEN "pending"
             ELSE IF Size(Move(o)) <= FlatEps THEN "flat"
             ELSE IF (Move(o) > 0) = (e.direction = "up") THEN "correct" ELSE "incorrect"
  BY <1>1 DEF Outcome
<1>6. HasMove(o) /\ Move(o) = 0 => Size(Move(o)) <= FlatEps
  BY ScoresAssumption DEF Size
<1>7. CASE HasMove(o)
  <2> HIDE DEF e, q, p
  <2> QED BY <1>3, <1>4, <1>5, <1>6, <1>7
<1>8. CASE ~HasMove(o)
  <2> HIDE DEF e, q, p
  <2> QED BY <1>4, <1>5, <1>8
<1> QED BY <1>7, <1>8

LEMMA VerdictsOf ==
  ASSUME ReplayInv, NEW i \in Selectable, NEW h \in DOMAIN HorizonOf, NEW obs,
         obs = [m \in {x \in InScope(i, {"public", "shadow"}) : Recorded(i, x, h) # {}} |->
                   Observation(i, m, h)],
         NEW score, score = BaselineScore("full_arepo", obs)
  PROVE  LET shown(k) == Breakdown(i, {"public"}, h, k) + Breakdown(i, {"shadow"}, h, k)
         IN  /\ score.correct <= shown("moved_expected")
             /\ score.incorrect <= shown("moved_against")
             /\ shown("no_change") <= score.flat /\ score.flat = ScoreNoChange(obs).correct
             /\ score.evaluated + score.flat =
                   shown("moved_expected") + shown("moved_against") + shown("no_change")
PROOF
<1> DEFINE S == InScope(i, {"public", "shadow"})
           R == {x \in S : Recorded(i, x, h) # {}}
           e(m) == frozenCohorts[i].entries[m]
           State(m) == ResultState(e(m), Recorded(i, m, h))
           Of(role, k) == {m \in InScope(i, {role}) : State(m) = k}
           Shown(k) == {m \in S : State(m) = k}
           Seen(k) == {m \in R : Outcome(obs[m].entry.direction, obs[m]) = k}
           Moved == {m \in R : HasMove(obs[m])}
           shown(k) == Breakdown(i, {"public"}, h, k) + Breakdown(i, {"shadow"}, h, k)
<1>1. i \in DOMAIN frozenCohorts /\ S \subseteq Market /\ R \subseteq S
      /\ \A m \in S : e(m).direction \in Call
  BY DEF Selectable, InScope
<1>2. DOMAIN obs = R /\ \A m \in R : obs[m] = Observation(i, m, h)
  OBVIOUS
<1>3. \A m \in R : /\ Outcome(obs[m].entry.direction, obs[m]) = "correct"
                        => State(m) = "moved_expected"
                   /\ Outcome(obs[m].entry.direction, obs[m]) = "incorrect"
                        => State(m) = "moved_against"
                   /\ State(m) = "no_change"
                        => Outcome(obs[m].entry.direction, obs[m]) = "flat"
                   /\ Outcome(obs[m].entry.direction, obs[m]) = "flat"
                        <=> HasMove(obs[m]) /\ Size(Move(obs[m])) <= FlatEps
                   /\ HasMove(obs[m]) <=> Outcome(obs[m].entry.direction, obs[m])
                                             \in {"correct", "incorrect", "flat"}
                   /\ HasMove(obs[m]) <=> State(m)
                                             \in {"moved_expected", "moved_against", "no_change"}
  <2> TAKE m \in R
  <2>1. m \in Market /\ Recorded(i, m, h) # {} /\ e(m).direction \in Call
    BY <1>1
  <2>2. obs[m] = Observation(i, m, h)
    BY <1>2
  <2> HIDE DEF R, S
  <2> QED BY <1>1, <2>1, <2>2, RulesAgree
<1>4. \A m \in S \ R : State(m) = "pending"
  BY <1>1 DEF ResultState
<1> HIDE DEF State, S
<1>5. /\ Seen("correct") \subseteq Shown("moved_expected")
      /\ Seen("incorrect") \subseteq Shown("moved_against")
      /\ Shown("no_change") \subseteq Seen("flat")
      /\ Moved = Shown("moved_expected") \cup Shown("moved_against") \cup Shown("no_change")
      /\ Moved = Seen("correct") \cup Seen("incorrect") \cup Seen("flat")
      /\ Seen("flat") = {m \in Moved : Size(Move(obs[m])) <= FlatEps}
  BY <1>1, <1>3, <1>4
<1>6. IsFiniteSet(S) /\ IsFiniteSet(R)
  BY <1>1, ReplayAssumption, FS_Subset
<1>7. \A k : /\ IsFiniteSet(Shown(k)) /\ Cardinality(Shown(k)) \in Nat
             /\ IsFiniteSet(Seen(k)) /\ Cardinality(Seen(k)) \in Nat
  <2> TAKE k
  <2>1. Shown(k) \subseteq S /\ Seen(k) \subseteq R
    OBVIOUS
  <2>2. IsFiniteSet(Shown(k)) /\ IsFiniteSet(Seen(k))
    <3> HIDE DEF Shown, Seen, R
    <3> QED BY <1>6, <2>1, FS_Subset
  <2> HIDE DEF Shown, Seen
  <2> QED BY <2>2, FS_CardinalityType
<1>8. \A k : shown(k) = Cardinality(Shown(k))
  <2> TAKE k
  <2>1. Of("public", k) \cup Of("shadow", k) = Shown(k)
        /\ Of("public", k) \cap Of("shadow", k) = {}
    BY DEF InScope, S
  <2>2. Of("public", k) \subseteq Shown(k) /\ Of("shadow", k) \subseteq Shown(k)
    BY <2>1
  <2>3. shown(k) = Cardinality(Of("public", k)) + Cardinality(Of("shadow", k))
    BY DEF Breakdown, State
  <2> HIDE DEF Of, Shown, shown
  <2>4. IsFiniteSet(Of("public", k)) /\ IsFiniteSet(Of("shadow", k))
    BY <1>7, <2>2, FS_Subset
  <2>5. Cardinality(Of("public", k) \cup Of("shadow", k))
            = Cardinality(Of("public", k)) + Cardinality(Of("shadow", k))
    BY <2>1, <2>4, CountedApart
  <2> QED BY <2>1, <2>3, <2>5
<1>9. /\ score.correct = Cardinality(Seen("correct"))
      /\ score.incorrect = Cardinality(Seen("incorrect"))
      /\ score.flat = Cardinality(Seen("flat"))
      /\ score.evaluated = Cardinality(Seen("correct") \cup Seen("incorrect"))
  <2> DEFINE call == Calls(Baselines, "full_arepo", obs)
  <2>1. \A m \in R : call[m] = obs[m].entry.direction
    BY <1>2 DEF Calls, Baselines
  <2>2. score = Score(call, obs)
    BY DEF BaselineScore
  <2> HIDE DEF call
  <2>3. \A k : {m \in DOMAIN obs : Outcome(call[m], obs[m]) = k} = Seen(k)
    BY <1>2, <2>1
  <2> DEFINE With(k) == {m \in DOMAIN obs : Outcome(call[m], obs[m]) = k}
  <2>4. /\ Score(call, obs).correct = Cardinality(With("correct"))
        /\ Score(call, obs).incorrect = Cardinality(With("incorrect"))
        /\ Score(call, obs).flat = Cardinality(With("flat"))
        /\ Score(call, obs).evaluated = Cardinality(With("correct") \cup With("incorrect"))
    BY DEF Score
  <2>5. /\ With("correct") = Seen("correct") /\ With("incorrect") = Seen("incorrect")
        /\ With("flat") = Seen("flat")
    BY <2>3
  <2> HIDE DEF With, Seen
  <2> QED BY <2>2, <2>4, <2>5
<1>10. ScoreNoChange(obs).correct = Cardinality(Seen("flat"))
  BY <1>2, <1>5 DEF ScoreNoChange
<1>11. /\ Seen("correct") \cap Seen("incorrect") = {}
       /\ (Seen("correct") \cup Seen("incorrect")) \cap Seen("flat") = {}
       /\ Shown("moved_expected") \cap Shown("moved_against") = {}
       /\ (Shown("moved_expected") \cup Shown("moved_against")) \cap Shown("no_change") = {}
  OBVIOUS
<1> HIDE DEF Seen, Shown, Moved, shown, R
<1>12. Cardinality(Moved) = Cardinality(Seen("correct") \cup Seen("incorrect"))
                              + Cardinality(Seen("flat"))
  BY <1>5, <1>7, <1>11, CountedApart
<1>13. Cardinality(Moved) = Cardinality(Shown("moved_expected"))
           + Cardinality(Shown("moved_against")) + Cardinality(Shown("no_change"))
  BY <1>5, <1>7, <1>11, CountedApart
<1>14. /\ Cardinality(Seen("correct")) <= Cardinality(Shown("moved_expected"))
       /\ Cardinality(Seen("incorrect")) <= Cardinality(Shown("moved_against"))
       /\ Cardinality(Shown("no_change")) <= Cardinality(Seen("flat"))
  BY <1>5, <1>7, FS_Subset
<1>15. /\ score.correct <= shown("moved_expected")
       /\ score.incorrect <= shown("moved_against")
       /\ shown("no_change") <= score.flat /\ score.flat = ScoreNoChange(obs).correct
       /\ score.evaluated + score.flat =
             shown("moved_expected") + shown("moved_against") + shown("no_change")
  BY <1>8, <1>9, <1>10, <1>12, <1>13, <1>14
<1> QED BY <1>15 DEF shown

(* Over the rows that any run of the jobs leaves, Replay and the research      *)
(* tables judge the same observations in the same way (replay_result_state,    *)
(* score_predictor).                                                           *)
THEOREM ReadersAgree == PInit /\ [][PNext]_pVars => []VerdictsAgree
PROOF
<1>1. PInit => ReplayInv
  BY ReplayStarts
<1>2. ReplayInv /\ [PNext]_pVars => ReplayInv'
  BY ReplayGoesOn
<1>3. ReplayInv => VerdictsAgree
  BY VerdictsOf DEF VerdictsAgree
<1> QED BY <1>1, <1>2, <1>3, PTL

-----------------------------------------------------------------------------
(* A sum of integers is an integer. *)
LEMMA SumIsInteger ==
  ASSUME NEW g, IsFiniteSet(DOMAIN g), \A x \in DOMAIN g : g[x] \in Int
  PROVE  SumOver(g) \in Int
PROOF
<1> DEFINE S == DOMAIN g
           c == [s \in SUBSET S |-> CHOOSE x \in s : TRUE]
           step == [p \in (SUBSET S) \X Int |-> g[c[p[1]]] + p[2]]
           Sums(f) == f = [s \in SUBSET S |->
                              IF s = {} THEN 0
                              ELSE g[CHOOSE x \in s : TRUE] + f[s \ {CHOOSE x \in s : TRUE}]]
<1>1. \A s \in (SUBSET S) \ {{}} : c[s] \in s /\ c[s] = CHOOSE x \in s : TRUE
  <2> TAKE s \in (SUBSET S) \ {{}}
  <2>1. PICK y \in s : TRUE
    OBVIOUS
  <2>2. c[s] = CHOOSE x \in s : TRUE
    OBVIOUS
  <2> QED BY <2>1, <2>2
<1>2. \A s \in (SUBSET S) \ {{}}, v \in Int : step[<<s, v>>] = g[c[s]] + v
  OBVIOUS
<1> HIDE DEF c, step
<1>3. SumOver(g) = (CHOOSE f : Sums(f))[S]
  BY DEF SumOver, MapThenSumSet, MapThenFoldSet
<1>4. PICK f : f = TakenOff(S, c, 0, step, f)
  BY <1>1, TakingOff
<1> DEFINE P == {s \in SUBSET S : f[s] \in Int}
<1>5. {} \in P
  BY <1>4 DEF TakenOff
<1>6. \A s \in (SUBSET S) \ {{}} : \E x \in s : s \ {x} \in P => s \in P
  <2> TAKE s \in (SUBSET S) \ {{}}
  <2>1. f[s] = step[<<s, f[s \ {c[s]}]>>] /\ c[s] \in s /\ g[c[s]] \in Int
    BY <1>1, <1>4 DEF TakenOff
  <2>2. s \ {c[s]} \in P => s \in P
    BY <1>2, <2>1
  <2> QED BY <2>1, <2>2
<1>7. \A s \in SUBSET S : f[s] \in Int
  <2> HIDE DEF P
  <2>1. SUBSET S \subseteq P
    BY <1>5, <1>6, SubsetInduction, ZenonT(60)
  <2> QED BY <2>1 DEF P
<1>8. Sums(f)
  <2>1. \A s \in SUBSET S : TakenOff(S, c, 0, step, f)[s] =
          IF s = {} THEN 0
          ELSE g[CHOOSE x \in s : TRUE] + f[s \ {CHOOSE x \in s : TRUE}]
    <3> TAKE s \in SUBSET S
    <3>1. CASE s = {}
      BY <3>1 DEF TakenOff
    <3>2. CASE s # {}
      <4>1. s \in (SUBSET S) \ {{}} /\ c[s] = CHOOSE x \in s : TRUE
        BY <1>1, <3>2
      <4>2. f[s \ {c[s]}] \in Int
        BY <1>7
      <4>3. step[<<s, f[s \ {c[s]}]>>] = g[c[s]] + f[s \ {c[s]}]
        BY <1>2, <4>1, <4>2
      <4>4. TakenOff(S, c, 0, step, f)[s] = step[<<s, f[s \ {c[s]}]>>]
        BY <4>1 DEF TakenOff
      <4> QED BY <4>1, <4>3, <4>4
    <3> QED BY <3>1, <3>2
  <2> QED BY <1>4, <2>1 DEF TakenOff
<1> DEFINE h == CHOOSE f1 : Sums(f1)
           Q == {s \in SUBSET S : h[s] \in Int}
<1>9. Sums(h)
  <2> HIDE DEF Sums
  <2> QED BY <1>8
<1> HIDE DEF h
<1>10. {} \in Q
  BY <1>9
<1>11. \A s \in (SUBSET S) \ {{}} : \E x \in s : s \ {x} \in Q => s \in Q
  <2> TAKE s \in (SUBSET S) \ {{}}
  <2>1. h[s] = g[c[s]] + h[s \ {c[s]}] /\ c[s] \in s /\ g[c[s]] \in Int
    BY <1>1, <1>9
  <2>2. s \ {c[s]} \in Q => s \in Q
    BY <2>1
  <2> QED BY <2>1, <2>2
<1>12. S \in Q
  <2> HIDE DEF Q
  <2> QED BY <1>10, <1>11, SubsetInduction, ZenonT(60)
<1> QED BY <1>3, <1>12 DEF h

(* Where a predictor may be executed, its move is a number of points. *)
LEMMA MovesAreIntegers ==
  ASSUME NEW call, NEW o, o.entry.mid \in Measure, o.mid \in Measure,
         o.spread \in Measure, o.depth \in Measure,
         o.entry.spread \in Measure, o.entry.depth \in Measure, Executable(call, o)
  PROVE  ExecutableMove(call, o) \in Int
PROOF
<1>1. ASSUME NEW d \in Measure, Costable(d) PROVE Slippage(d) \in Int
  <2>1. d \in Nat /\ d > 0
    BY <1>1 DEF Costable, Known, Measure, None
  <2>2. PICK a \in Int : a = SlipCap
    BY ScoresAssumption
  <2>3. PICK b \in Int : b = Impact \div d
    BY <2>1, ScoresAssumption
  <2>4. \E x \in {a, b} : \A y \in {a, b} : x <= y
    OBVIOUS
  <2>5. Min({a, b}) \in {a, b}
    BY <2>4 DEF Min
  <2> QED BY <2>2, <2>3, <2>5 DEF Slippage
<1>2. ASSUME NEW s \in Measure PROVE Crossing(s) \in Int
  BY <1>2 DEF Crossing, Measure, Known, None
<1>3. Signed(call, o) \in Int
  BY DEF Signed, Move, Measure, None
<1>4. ExitDepth(o) \in Measure /\ ExitSpread(o) \in Measure
  BY DEF ExitDepth, ExitSpread
<1>5. Costable(o.entry.depth) /\ Costable(ExitDepth(o))
  BY DEF Executable
<1>6. Slippage(o.entry.depth) \in Int /\ Slippage(ExitDepth(o)) \in Int
  BY <1>1, <1>4, <1>5
<1>7. Crossing(o.entry.spread) \in Int /\ Crossing(ExitSpread(o)) \in Int
  BY <1>2, <1>4
<1> QED BY <1>3, <1>6, <1>7 DEF ExecutableMove

(* A score of observations counts and sums integers. *)
LEMMA ScoreTyped ==
  ASSUME NEW obs, NEW call, IsFiniteSet(DOMAIN obs),
         \A m \in DOMAIN obs : Executable(call[m], obs[m]) =>
                                  ExecutableMove(call[m], obs[m]) \in Int
  PROVE  /\ Score(call, obs).correct \in Nat /\ Score(call, obs).evaluated \in Nat
         /\ Score(call, obs).executed \in Nat /\ Score(call, obs).net \in Int
PROOF
<1> DEFINE With(k) == {m \in DOMAIN obs : Outcome(call[m], obs[m]) = k}
           paid == {m \in DOMAIN obs : Executable(call[m], obs[m])}
           gain == [m \in paid |-> ExecutableMove(call[m], obs[m])]
<1>1. /\ Score(call, obs).correct = Cardinality(With("correct"))
      /\ Score(call, obs).evaluated = Cardinality(With("correct") \cup With("incorrect"))
      /\ Score(call, obs).executed = Cardinality(paid)
  BY DEF Score
<1>2. Score(call, obs).net = SumOver(gain) /\ DOMAIN gain = paid
  BY DEF Score
<1>3. \A x \in paid : gain[x] \in Int
  OBVIOUS
<1>4. /\ With("correct") \subseteq DOMAIN obs /\ paid \subseteq DOMAIN obs
      /\ With("correct") \cup With("incorrect") \subseteq DOMAIN obs
  OBVIOUS
<1> HIDE DEF With, paid, gain
<1>5. IsFiniteSet(With("correct")) /\ IsFiniteSet(With("correct") \cup With("incorrect"))
      /\ IsFiniteSet(paid)
  BY <1>4, FS_Subset
<1>6. SumOver(gain) \in Int
  BY <1>2, <1>3, <1>5, SumIsInteger
<1> QED BY <1>1, <1>2, <1>5, <1>6, FS_CardinalityType

(* The observations that horizon_analysis takes. *)
LEMMA SampleSound ==
  ASSUME ReplayInv, NEW h \in DOMAIN HorizonOf
  PROVE  /\ IsFiniteSet(DOMAIN Sample(h))
         /\ \A m \in DOMAIN Sample(h) :
              \E s \in Screen : /\ Sample(h)[m].entry = EntryInput(s)
                                /\ Sample(h)[m].mid \in Measure
                                /\ Sample(h)[m].spread \in Measure
                                /\ Sample(h)[m].depth \in Measure
PROOF
<1>1. DOMAIN Sample(h) \subseteq Market
  BY DEF Sample
<1>2. ASSUME NEW m \in Market, Evaluable(m, h) # {}
      PROVE  \E i \in Evaluable(m, h) :
                /\ \E s \in Screen : frozenCohorts[i].entries[m] = EntryInput(s)
                /\ Sample(h)[m] = Observation(i, m, h)
  <2> DEFINE E == Evaluable(m, h)
             N == {p \in E \X E : Newer(p[2], p[1])}
  <2>1. E \subseteq DOMAIN frozenCohorts
    BY DEF Evaluable, CallsOn, Selectable
  <2>2. /\ frozenCohorts \in Seq(ReplayCohort) /\ Len(frozenCohorts) \in Nat
        /\ DOMAIN frozenCohorts = 1..Len(frozenCohorts)
    <3>1. frozenCohorts \in Seq(ReplayCohort)
      BY DEF ReplayInv, ReplayTypeOK, ReplayCohort
    <3> QED BY <3>1, SMT
  <2>3. \A i \in DOMAIN frozenCohorts : frozenCohorts[i] \in ReplayCohort
    BY <2>2, ElementOfSeq
  <2>4. IsFiniteSet(E)
    <3>1. IsFiniteSet(1..Len(frozenCohorts))
      BY <2>2, FS_Interval
    <3> QED BY <3>1, <2>1, <2>2, FS_Subset
  <2>5. \A i \in E : i \in Int /\ frozenCohorts[i].origin \in Int /\ frozenCohorts[i].cutoff \in Int
    <3> TAKE i \in E
    <3>1. frozenCohorts[i] \in ReplayCohort /\ i \in 1..Len(frozenCohorts)
      BY <2>1, <2>2, <2>3
    <3> QED BY <3>1, <2>2 DEF ReplayCohort
  <2>6. StrictOrder(N, E)
    <3> HIDE DEF E
    <3>1. \A i, j \in E : <<i, j>> \in N <=> Newer(j, i)
      OBVIOUS
    <3> HIDE DEF N
    <3>2. \A i, j \in E : ~Newer(i, i) /\ (i = j \/ Newer(i, j) \/ Newer(j, i))
      BY <2>5 DEF Newer
    <3>3. \A i, j, k \in E : Newer(j, i) /\ Newer(k, j) => Newer(k, i)
      BY <2>5 DEF Newer
    <3> QED BY <3>1, <3>2, <3>3 DEF StrictOrder
  <2>7. PICK x \in E : \A y \in E \ {x} : <<y, x>> \in N
    <3> HIDE DEF E, N
    <3> QED BY <1>2, <2>4, <2>6, LastElement DEF E
  <2>8. \A j \in E : x = j \/ Newer(x, j)
    BY <2>7
  <2>9. PICK i \in E : i = CHOOSE k \in E : \A j \in E : k = j \/ Newer(k, j)
    <3> HIDE DEF E, N
    <3> QED BY <2>8
  <2>10. Sample(h)[m] = Observation(i, m, h)
    BY <1>2, <2>9 DEF Sample
  <2> QED BY <2>1, <2>9, <2>10, EntriesAndQuotes
<1>3. ASSUME NEW m \in DOMAIN Sample(h)
      PROVE  \E s \in Screen : /\ Sample(h)[m].entry = EntryInput(s)
                               /\ Sample(h)[m].mid \in Measure
                               /\ Sample(h)[m].spread \in Measure
                               /\ Sample(h)[m].depth \in Measure
  <2>1. m \in Market /\ Evaluable(m, h) # {}
    BY <1>3 DEF Sample
  <2>2. PICK i \in Evaluable(m, h), s \in Screen :
              /\ frozenCohorts[i].entries[m] = EntryInput(s)
              /\ Sample(h)[m] = Observation(i, m, h)
    BY <1>2, <2>1
  <2>3. i \in DOMAIN frozenCohorts /\ Recorded(i, m, h) # {}
    BY DEF Evaluable, CallsOn, Selectable
  <2>4. (CHOOSE f \in Recorded(i, m, h) : TRUE).quote \in Quote
    BY <2>1, <2>3, EntriesAndQuotes
  <2> DEFINE q == (CHOOSE f \in Recorded(i, m, h) : TRUE).quote
  <2>5. q.mid \in Measure /\ q.spread \in Measure /\ q.depth \in Measure
    BY <2>4, ReplayAssumption
  <2>6. Observation(i, m, h) = [entry |-> frozenCohorts[i].entries[m], mid |-> q.mid,
                                spread |-> q.spread, depth |-> q.depth]
    BY DEF Observation
  <2> HIDE DEF q
  <2> QED BY <2>2, <2>5, <2>6
<1> QED BY <1>1, <1>3, ReplayAssumption, FS_Subset

LEMMA SamePredictions ==
  ASSUME ReplayInv, NEW h \in DOMAIN HorizonOf, NEW obs, obs = Sample(h)
  PROVE  /\ {"beats_momentum", "beats_price_only", "ablation_adds_value"} \subseteq Unmet(obs)
         /\ LET same == Agreement(Calls(Baselines, "full_arepo", obs),
                                  Calls(Baselines, "momentum", obs))
            IN  same.agree = same.of
PROOF
<1> DEFINE call == [m \in DOMAIN obs |-> obs[m].entry.direction]
           score == Score(call, obs)
<1>1. \A m \in DOMAIN obs : obs[m].entry.direction = obs[m].entry.momentum
  <2> TAKE m \in DOMAIN obs
  <2>1. PICK s \in Screen : obs[m].entry = EntryInput(s)
    BY SampleSound
  <2>2. s.z \in Int
    BY ReplayAssumption
  <2>3. CompositeDirection(s) = SignOf(s.z)
    BY <2>2 DEF CompositeDirection, SignOf
  <2> QED BY <2>1, <2>3 DEF EntryInput
<1>2. /\ Calls(Baselines, "full_arepo", obs) = call
      /\ Calls(Baselines, "momentum", obs) = call
      /\ Calls(Baselines, "price_z_only", obs) = call
  BY <1>1 DEF Calls, Baselines
<1>3. /\ Calls(Ablations, "full_model", obs) = call
      /\ Calls(Ablations, "momentum_only", obs) = call
  BY <1>1 DEF Calls, Ablations
<1>4. \A m \in DOMAIN obs : Executable(call[m], obs[m]) =>
                                  ExecutableMove(call[m], obs[m]) \in Int
  <2> TAKE m \in DOMAIN obs
  <2>1. PICK s \in Screen : /\ obs[m].entry = EntryInput(s) /\ obs[m].mid \in Measure
                            /\ obs[m].spread \in Measure /\ obs[m].depth \in Measure
    BY SampleSound
  <2>2. /\ obs[m].entry.mid = s.mid /\ obs[m].entry.spread = s.spread
        /\ obs[m].entry.depth = s.depth
    BY <2>1 DEF EntryInput
  <2>3. s.mid \in Measure /\ s.spread \in Measure /\ s.depth \in Measure
    BY ReplayAssumption
  <2> HIDE DEF call
  <2> QED BY <2>1, <2>2, <2>3, MovesAreIntegers
<1>5. IsFiniteSet(DOMAIN obs)
  BY SampleSound
<1> HIDE DEF call
<1>6. /\ score.correct \in Nat /\ score.evaluated \in Nat
      /\ score.executed \in Nat /\ score.net \in Int
  BY <1>4, <1>5, ScoreTyped
<1> HIDE DEF score
<1>7. ~Beats(score, score) /\ ~BeatsExecutable(score, score)
  <2>1. PICK x \in Int, y \in Int : x = score.correct * score.evaluated
                                   /\ y = score.net * score.executed
    BY <1>6
  <2> QED BY <2>1 DEF Beats, BeatsExecutable
<1>8. /\ BaselineScore("full_arepo", obs) = score /\ BaselineScore("momentum", obs) = score
      /\ BaselineScore("price_z_only", obs) = score
      /\ AblationScore("full_model", obs) = score /\ AblationScore("momentum_only", obs) = score
  BY <1>2, <1>3 DEF BaselineScore, AblationScore, score
<1>9. {"beats_momentum", "beats_price_only", "ablation_adds_value"} \subseteq Unmet(obs)
  BY <1>7, <1>8 DEF Unmet
<1>10. Agreement(call, call).agree = Agreement(call, call).of
  BY DEF Agreement
<1> QED BY <1>2, <1>9, <1>10

(* Whatever was frozen and observed, the full model calls what momentum calls, *)
(* so the status never reports that it beats momentum or adds anything to it   *)
(* (research_service.py).                                                      *)
THEOREM MomentumIsTheModel == PInit /\ [][PNext]_pVars => []MomentumNeverBeaten
PROOF
<1>1. PInit => ReplayInv
  BY ReplayStarts
<1>2. ReplayInv /\ [PNext]_pVars => ReplayInv'
  BY ReplayGoesOn
<1>3. ReplayInv => MomentumNeverBeaten
  BY SamePredictions DEF MomentumNeverBeaten
<1> QED BY <1>1, <1>2, <1>3, PTL

-----------------------------------------------------------------------------
(***************************************************************************)
(* The frozen week.  WeekInv is inductive: nothing is written to a frozen  *)
(* week but by tracking runs, and what one of them read is still there when*)
(* it commits, unless the flags of FrozenRecordKept were raised.           *)
(***************************************************************************)

LEMMA WeekStarts ==
  ASSUME KInit
  PROVE  WeekInv
<1>1. /\ cohort = "absent" /\ freezing = NotFreezing /\ resolved = {} /\ verdict = <<>>
      /\ ranking = [r \in RankRun |-> Idle] /\ tracking = [t \in TrackRun |-> NoTracking]
      /\ winner = [m \in WeekMarket |-> "none"]
  BY DEF KInit
<1>2. WeekTypeOK
  BY <1>1 DEF WeekTypeOK
<1>3. \A t \in TrackRun : tracking[t].stage = "idle"
  BY <1>1 DEF NoTracking
<1>4. FreezeIsLast
  BY <1>1, <1>3 DEF FreezeIsLast
<1>5. SettledAtWinner
  BY <1>1, <1>3 DEF SettledAtWinner, AtWinner
<1>6. VerdictsStand
  BY <1>1 DEF VerdictsStand
<1> QED
  BY <1>2, <1>4, <1>5, <1>6 DEF WeekInv

(* A command changes what it alone has read. *)
LEMMA TrackingSet ==
  ASSUME WeekTypeOK, NEW t \in TrackRun, NEW v, tracking' = [tracking EXCEPT ![t] = v]
  PROVE  /\ tracking' = [u \in TrackRun |-> tracking'[u]] /\ tracking'[t] = v
         /\ \A u \in TrackRun \ {t} : tracking'[u] = tracking[u]
<1>1. tracking = [u \in TrackRun |-> tracking[u]]
  BY DEF WeekTypeOK
<1> DEFINE f == [u \in TrackRun |-> tracking[u]]
<1>2. tracking' = [f EXCEPT ![t] = v]
  BY <1>1
<1> QED
  BY <1>2

LEMMA RankingSet ==
  ASSUME WeekTypeOK, NEW r \in RankRun, NEW v, ranking' = [ranking EXCEPT ![r] = v]
  PROVE  /\ ranking' = [u \in RankRun |-> ranking'[u]] /\ ranking'[r] = v
         /\ \A u \in RankRun \ {r} : ranking'[u] = ranking[u]
<1>1. ranking = [u \in RankRun |-> ranking[u]]
  BY DEF WeekTypeOK
<1> DEFINE f == [u \in RankRun |-> ranking[u]]
<1>2. ranking' = [f EXCEPT ![r] = v]
  BY <1>1
<1> QED
  BY <1>2

(* The rows a verdict is read from. *)
Rows == <<entries, prices, resolved>>

(* With the rows unchanged a verdict stands as it did. *)
LEMMA StandsOn ==
  ASSUME UNCHANGED Rows
  PROVE  \A id, v : StandsFor(id, v)' <=> StandsFor(id, v)
<1>1. entries' = entries /\ prices' = prices /\ resolved' = resolved
  BY DEF Rows
<1> QED
  BY <1>1 DEF StandsFor, Ids, IdsOf, EntryOf, Movement, Final

(* A step of the ranking or of the freeze leaves what is tracked alone. *)
LEMMA QuietKeeps ==
  ASSUME WeekInv, UNCHANGED <<trackVars, cohort, entries, overtaken>>
  PROVE  SettledAtWinner' /\ VerdictsStand'
<1>1. /\ UNCHANGED <<age, winner, prices, resolved, verdict, tracking>>
      /\ UNCHANGED <<cohort, entries, overtaken>> /\ UNCHANGED Rows
  BY DEF trackVars, Rows
<1>2. SettledAtWinner'
  BY <1>1 DEF WeekInv, SettledAtWinner, AtWinner
<1>3. VerdictsStand'
  BY <1>1, StandsOn DEF WeekInv, VerdictsStand, Follows
<1> QED
  BY <1>2, <1>3

LEMMA RankKeeps ==
  ASSUME WeekInv, NEW r \in RankRun,
         BeginRank(r) \/ PlaceNext(r) \/ CommitRank(r) \/ LoseRank(r)
  PROVE  WeekInv'
<1>1. UNCHANGED trackVars /\ UNCHANGED <<freezing, overtaken>>
  BY DEF BeginRank, PlaceNext, CommitRank, LoseRank
<1>2. UNCHANGED <<age, winner, prices, resolved, verdict, tracking>>
  BY <1>1 DEF trackVars
<1>5. /\ ranking' = [u \in RankRun |-> ranking'[u]]
      /\ \A u \in RankRun : \/ ranking'[u].stage = "idle" \/ ranking[u].stage # "idle"
                            \/ cohort' # "frozen"
  <2>1. WeekTypeOK
    BY DEF WeekInv
  <2>2. CASE BeginRank(r)
    <3>1. PICK v : ranking' = [ranking EXCEPT ![r] = v]
      BY <2>2 DEF BeginRank
    <3>2. cohort' # "frozen"
      BY <2>2 DEF BeginRank, MayRank
    <3> QED
      BY <2>1, <3>1, <3>2, RankingSet
  <2>3. CASE LoseRank(r)
    <3>1. ranking' = [ranking EXCEPT ![r] = Idle]
      BY <2>3 DEF LoseRank
    <3>2. Idle.stage = "idle"
      BY DEF Idle
    <3> HIDE DEF Idle
    <3> QED
      BY <2>1, <3>1, <3>2, RankingSet
  <2>4. CASE PlaceNext(r)
    <3>1. PICK v : ranking' = [ranking EXCEPT ![r] = v]
      BY <2>4 DEF PlaceNext
    <3>2. ranking[r].stage # "idle"
      BY <2>4 DEF PlaceNext
    <3> QED
      BY <2>1, <3>1, <3>2, RankingSet
  <2>5. CASE CommitRank(r)
    <3> DEFINE other(u) == [ranking[u] EXCEPT !.late = @ \/ ranking[u].stage = "placing"]
    <3>1. ranking' = [u \in RankRun |-> IF u = r THEN Idle ELSE other(u)]
      BY <2>5 DEF CommitRank
    <3>2. ranking[r].stage # "idle"
      BY <2>5 DEF CommitRank
    <3>3. \A u \in RankRun : ranking[u].stage # "idle" \/ other(u).stage = "idle"
      OBVIOUS
    <3> HIDE DEF other
    <3> QED
      BY <3>1, <3>2, <3>3
  <2> QED
    BY <2>2, <2>3, <2>4, <2>5
<1>6. cohort' = "frozen" <=> cohort = "frozen"
  BY DEF BeginRank, PlaceNext, CommitRank, LoseRank
<1>7. WeekTypeOK'
  BY <1>2, <1>5 DEF WeekInv, WeekTypeOK
<1>8. FreezeIsLast'
  <2>1. ASSUME NEW u \in RankRun, cohort' = "frozen",
             ranking'[u].stage # "idle" PROVE u \in overtaken'
    BY <2>1, <1>1, <1>5, <1>6 DEF WeekInv, FreezeIsLast
  <2>2. cohort' = "frozen" => freezing' = NotFreezing
    BY <1>1, <1>6 DEF WeekInv, FreezeIsLast
  <2>3. cohort' # "frozen" => verdict' = <<>> /\ \A t \in TrackRun : tracking'[t].stage = "idle"
    BY <1>2, <1>6 DEF WeekInv, FreezeIsLast
  <2> QED
    BY <2>1, <2>2, <2>3 DEF FreezeIsLast
<1>9. SettledAtWinner'
  BY <1>2 DEF WeekInv, SettledAtWinner, AtWinner
<1>10. VerdictsStand'
  <2>1. CASE CommitRank(r)
    <3>1. ranking[r].stage # "idle"
      BY <2>1 DEF CommitRank
    <3>2. cohort = "frozen" => overtaken # {}
      BY <3>1 DEF WeekInv, FreezeIsLast
    <3> QED
      BY <3>2, <1>1, <1>6 DEF VerdictsStand
  <2>2. CASE BeginRank(r) \/ PlaceNext(r) \/ LoseRank(r)
    <3>1. UNCHANGED <<cohort, entries>>
      BY <2>2 DEF BeginRank, PlaceNext, LoseRank
    <3> QED
      BY <3>1, <1>1, QuietKeeps
  <2> QED
    BY <2>1, <2>2
<1> QED
  BY <1>7, <1>8, <1>9, <1>10 DEF WeekInv

LEMMA FreezeKeeps ==
  ASSUME WeekInv, ReadToFreeze \/ CommitFreeze
  PROVE  WeekInv'
<1>1. UNCHANGED trackVars /\ ranking' = ranking
  BY DEF ReadToFreeze, CommitFreeze
<1>2. UNCHANGED <<age, winner, prices, resolved, verdict, tracking>>
  BY <1>1 DEF trackVars
<1>3. WeekTypeOK'
  BY <1>1, <1>2 DEF WeekInv, WeekTypeOK
<1>4. CASE UNCHANGED <<cohort, entries, overtaken>>
  <2>1. cohort' # "frozen" \/ freezing' = NotFreezing
    BY <1>4 DEF ReadToFreeze, CommitFreeze
  <2>2. FreezeIsLast'
    BY <1>1, <1>2, <1>4, <2>1 DEF WeekInv, FreezeIsLast
  <2> QED
    BY <1>1, <1>3, <1>4, <2>2, QuietKeeps DEF WeekInv
<1>5. CASE /\ CommitFreeze /\ cohort' = "frozen"
           /\ overtaken' = {r \in RankRun : ranking[r].stage # "idle"}
  <2>1. cohort # "frozen" /\ freezing' = NotFreezing
    BY <1>5 DEF CommitFreeze, WeekInv, FreezeIsLast
  <2>2. verdict' = <<>> /\ \A t \in TrackRun : tracking'[t].stage = "idle"
    BY <1>2, <2>1 DEF WeekInv, FreezeIsLast
  <2>3. FreezeIsLast'
    BY <1>1, <1>5, <2>1 DEF FreezeIsLast
  <2>4. SettledAtWinner'
    BY <1>2 DEF WeekInv, SettledAtWinner, AtWinner
  <2>5. VerdictsStand'
    BY <2>2 DEF VerdictsStand
  <2> QED
    BY <1>3, <2>3, <2>4, <2>5 DEF WeekInv
<1> QED
  BY <1>4, <1>5 DEF ReadToFreeze, CommitFreeze

-----------------------------------------------------------------------------
(* A command that tracks reads, or gives up. *)
LEMMA ReadingKeeps ==
  ASSUME WeekInv, NEW t \in TrackRun, FetchForward(t) \/ FetchResolutions(t) \/ LoseTracking(t)
  PROVE  WeekInv'
<1>1. /\ UNCHANGED rankVars /\ UNCHANGED <<age, winner, prices, resolved, verdict>>
  BY DEF FetchForward, FetchResolutions, LoseTracking
<1>2. UNCHANGED <<cohort, entries, freezing, overtaken, ranking>> /\ UNCHANGED Rows
  BY <1>1 DEF rankVars, Rows
<1>5. /\ tracking' = [u \in TrackRun |-> tracking'[u]]
      /\ \A u \in TrackRun \ {t} : tracking'[u] = tracking[u]
      /\ tracking'[t].stage # "evaluate"
      /\ tracking'[t].stage # "idle" => cohort = "frozen"
      /\ tracking'[t].stage = "resolve" => AtWinner(tracking'[t].new)
  <2>0. WeekTypeOK
    BY DEF WeekInv
  <2>1. CASE FetchForward(t)
    <3>1. PICK new : tracking' = [tracking EXCEPT ![t] = [stage |-> "forward", new |-> new]]
      BY <2>1 DEF FetchForward
    <3> DEFINE v == [stage |-> "forward", new |-> new]
    <3>2. v.stage = "forward" /\ tracking' = [tracking EXCEPT ![t] = v]
      BY <3>1
    <3> HIDE DEF v
    <3>3. cohort = "frozen"
      BY <2>1 DEF FetchForward
    <3> QED
      BY <2>0, <3>2, <3>3, TrackingSet
  <2>2. CASE FetchResolutions(t)
    <3> DEFINE open == {m \in WeekMarket : /\ \E e \in entries : e.snap.market = m
                                          /\ ~(\E p \in resolved : p[1] = m)
                                          /\ winner[m] # "none"}
               v == [stage |-> "resolve", new |-> {<<m, winner[m]>> : m \in open}]
    <3>1. tracking' = [tracking EXCEPT ![t] = v] /\ cohort = "frozen"
      BY <2>2 DEF FetchResolutions
    <3>2. AtWinner(v.new)
      BY DEF AtWinner
    <3>3. v.stage = "resolve"
      OBVIOUS
    <3> HIDE DEF v
    <3> QED
      BY <2>0, <3>1, <3>2, <3>3, TrackingSet
  <2>3. CASE LoseTracking(t)
    <3>1. tracking' = [tracking EXCEPT ![t] = NoTracking] /\ NoTracking.stage = "idle"
      BY <2>3 DEF LoseTracking, NoTracking
    <3> HIDE DEF NoTracking
    <3> QED
      BY <2>0, <3>1, TrackingSet
  <2> QED
    BY <2>1, <2>2, <2>3
<1>6. WeekTypeOK'
  BY <1>1, <1>2, <1>5 DEF WeekInv, WeekTypeOK
<1>7. FreezeIsLast'
  <2>1. ASSUME NEW u \in TrackRun, cohort # "frozen" PROVE tracking'[u].stage = "idle"
    <3>1. CASE u = t
      BY <3>1, <2>1, <1>5
    <3>2. CASE u # t
      <4>1. tracking'[u] = tracking[u]
        BY <3>2, <1>5
      <4> QED
        BY <4>1, <2>1 DEF WeekInv, FreezeIsLast
    <3> QED
      BY <3>1, <3>2
  <2> QED
    BY <2>1, <1>1, <1>2 DEF WeekInv, FreezeIsLast
<1>8. SettledAtWinner'
  <2>1. \A rows : AtWinner(rows)' <=> AtWinner(rows)
    BY <1>1 DEF AtWinner
  <2>2. AtWinner(resolved)'
    BY <1>1 DEF WeekInv, SettledAtWinner, AtWinner
  <2>3. ASSUME NEW u \in TrackRun, tracking'[u].stage = "resolve"
        PROVE  AtWinner(tracking[u].new)'
    <3>1. CASE u = t
      <4>1. AtWinner(tracking'[t].new)
        BY <3>1, <2>3, <1>5
      <4> QED
        BY <4>1, <3>1, <1>1 DEF AtWinner
    <3>2. CASE u # t
      <4>1. tracking'[u] = tracking[u]
        BY <3>2, <1>5
      <4> QED
        BY <4>1, <2>3, <1>1 DEF WeekInv, SettledAtWinner, AtWinner
    <3> QED
      BY <3>1, <3>2
  <2> QED
    BY <2>2, <2>3 DEF SettledAtWinner
<1>9. VerdictsStand'
  <2>1. ASSUME NEW u \in TrackRun, tracking'[u].stage = "evaluate" PROVE tracking'[u] = tracking[u]
    <3>1. CASE u = t
      BY <3>1, <2>1, <1>5
    <3>2. CASE u # t
      BY <3>2, <1>5
    <3> QED
      BY <3>1, <3>2
  <2> QED
    BY <2>1, <1>1, <1>2, StandsOn DEF WeekInv, VerdictsStand, Follows
<1> QED
  BY <1>6, <1>7, <1>8, <1>9 DEF WeekInv

LEMMA TimeKeeps ==
  ASSUME WeekInv, AgeOn \/ CloseCohort
  PROVE  WeekInv'
<1>1. UNCHANGED rankVars /\ UNCHANGED <<prices, resolved, verdict, tracking>>
  BY DEF AgeOn, CloseCohort
<1>2. UNCHANGED <<cohort, entries, freezing, overtaken, ranking>> /\ UNCHANGED Rows
  BY <1>1 DEF rankVars, Rows
<1>3. /\ winner' = [m \in WeekMarket |-> winner'[m]]
      /\ \A m \in WeekMarket : winner[m] # "none" => winner'[m] = winner[m]
  <2>1. winner = [m \in WeekMarket |-> winner[m]]
    BY DEF WeekInv, WeekTypeOK
  <2>2. CASE AgeOn
    BY <2>1, <2>2 DEF AgeOn
  <2>3. CASE CloseCohort
    <3>1. PICK s \in Snap : /\ winner[s.market] = "none"
                           /\ winner' = [winner EXCEPT ![s.market] = s.token]
      BY <2>3 DEF CloseCohort
    <3> DEFINE f == [m \in WeekMarket |-> winner[m]]
    <3>2. winner' = [f EXCEPT ![s.market] = s.token]
      BY <2>1, <3>1
    <3> QED
      BY <3>1, <3>2
  <2> QED
    BY <2>2, <2>3
<1>4. WeekTypeOK'
  BY <1>1, <1>2, <1>3 DEF WeekInv, WeekTypeOK
<1>5. FreezeIsLast'
  BY <1>1, <1>2 DEF WeekInv, FreezeIsLast
<1>6. ASSUME NEW rows, AtWinner(rows)
      PROVE  \A p \in rows : p[1] \in WeekMarket /\ p[2] # "none" /\ winner'[p[1]] = p[2]
  BY <1>3, <1>6 DEF AtWinner
<1>7. SettledAtWinner'
  BY <1>1, <1>6 DEF WeekInv, SettledAtWinner, AtWinner
<1>8. VerdictsStand'
  BY <1>1, <1>2, StandsOn DEF WeekInv, VerdictsStand, Follows
<1> QED
  BY <1>4, <1>5, <1>7, <1>8 DEF WeekInv

-----------------------------------------------------------------------------
(* A command that tracks commits what it brought and is idle again. *)
LEMMA CommittedTracking ==
  ASSUME WeekTypeOK, NEW t \in TrackRun, tracking' = [tracking EXCEPT ![t] = NoTracking]
  PROVE  /\ tracking' = [u \in TrackRun |-> tracking'[u]] /\ tracking'[t].stage = "idle"
         /\ \A u \in TrackRun : tracking'[u].stage # "idle" => tracking'[u] = tracking[u]
<1>1. NoTracking.stage = "idle"
  BY DEF NoTracking
<1> HIDE DEF NoTracking
<1> QED
  BY <1>1, TrackingSet

(* A price is filed once: a movement that is known stays. *)
LEMMA MovementStays ==
  ASSUME NEW t \in TrackRun, CommitForward(t), NEW id, Movement(id) # "pending"
  PROVE  Movement(id)' = Movement(id)
<1> DEFINE at == {o \in prices : o.entry = id /\ o.horizon = MovementAt}
           later == {o \in prices' : o.entry = id /\ o.horizon = MovementAt}
<1>1. at # {}
  BY DEF Movement
<1>2. OutcomeKept(id, MovementAt)
  BY <1>1 DEF OutcomeKept
<1>3. prices' = prices \cup {o \in tracking[t].new : ~OutcomeKept(o.entry, o.horizon)}
  BY DEF CommitForward
<1>4. later = at
  BY <1>2, <1>3
<1> QED
  BY <1>4 DEF Movement

(* So is a resolution: whatever settles a market settles it at its winner. *)
LEMMA FinalStays ==
  ASSUME WeekInv, NEW t \in TrackRun, CommitResolutions(t), NEW e, Final(e) # "pending"
  PROVE  Final(e)' = Final(e)
<1> DEFINE m == e.snap.market
           new == tracking[t].new
           tokens == {p[2] : p \in {q \in resolved : q[1] = m}}
           later == {p[2] : p \in {q \in resolved' : q[1] = m}}
<1>1. tokens # {}
  BY DEF Final
<1>2. AtWinner(resolved) /\ AtWinner(new)
  BY DEF WeekInv, SettledAtWinner, CommitResolutions
<1>3. resolved' = {q \in resolved : \A p \in new : p[1] # q[1]} \cup new
  BY DEF CommitResolutions
<1> HIDE DEF new
<1>4. tokens = {winner[m]}
  BY <1>1, <1>2 DEF AtWinner
<1>5. later = {winner[m]}
  <2>1. PICK q \in resolved : q[1] = m
    BY <1>1
  <2>2. \E p \in resolved' : p[1] = m
    BY <1>3, <2>1
  <2>3. \A p \in resolved' : p[1] = m => p[2] = winner[m]
    BY <1>2, <1>3 DEF AtWinner
  <2> QED
    BY <2>2, <2>3
<1>6. later = tokens
  BY <1>4, <1>5
<1>7. e.snap.token \in later <=> e.snap.token \in tokens
  BY <1>6
<1> QED
  BY <1>6 DEF Final

(* Verdicts that stood stand after more prices and resolutions are filed. *)
LEMMA StandsLonger ==
  ASSUME WeekInv, NEW t \in TrackRun, CommitForward(t) \/ CommitResolutions(t),
         NEW id, NEW v, StandsFor(id, v)
  PROVE  StandsFor(id, v)'
<1>1. entries' = entries
  BY DEF CommitForward, CommitResolutions, rankVars
<1>2. Ids' = Ids /\ EntryOf(id)' = EntryOf(id)
  BY <1>1 DEF Ids, IdsOf, EntryOf
<1>3. CASE CommitForward(t)
  <2>1. resolved' = resolved
    BY <1>3 DEF CommitForward
  <2>2. Final(EntryOf(id))' = Final(EntryOf(id))
    BY <1>2, <2>1 DEF Final
  <2>3. v.move # "pending" => v.move = Movement(id)'
    BY <1>3, MovementStays DEF StandsFor
  <2> QED
    BY <1>2, <2>2, <2>3 DEF StandsFor
<1>4. CASE CommitResolutions(t)
  <2>1. prices' = prices
    BY <1>4 DEF CommitResolutions
  <2>2. Movement(id)' = Movement(id)
    BY <2>1 DEF Movement
  <2> DEFINE e == EntryOf(id)
  <2>3. v.final # "pending" => Final(e) # "pending" /\ v.final = Final(e)
    BY DEF StandsFor
  <2>4. v.final # "pending" => v.final = Final(EntryOf(id))'
    <3>1. \A f : Final(f) # "pending" => Final(f)' = Final(f)
      BY <1>4, FinalStays
    <3> QED
      BY <1>2, <2>3, <3>1
  <2> QED
    BY <1>2, <2>2, <2>4 DEF StandsFor
<1> QED
  BY <1>3, <1>4

LEMMA CommitKeepsWeek ==
  ASSUME WeekInv, NEW t \in TrackRun, CommitForward(t) \/ CommitResolutions(t)
  PROVE  WeekInv'
<1>1. /\ UNCHANGED rankVars /\ UNCHANGED <<age, winner, verdict>>
      /\ tracking' = [tracking EXCEPT ![t] = NoTracking]
  BY DEF CommitForward, CommitResolutions
<1>2. UNCHANGED <<cohort, entries, freezing, overtaken, ranking>>
  BY <1>1 DEF rankVars
<1>3. /\ tracking' = [u \in TrackRun |-> tracking'[u]] /\ tracking'[t].stage = "idle"
      /\ \A u \in TrackRun : tracking'[u].stage # "idle" => tracking'[u] = tracking[u]
  BY <1>1, CommittedTracking DEF WeekInv
<1>4. WeekTypeOK'
  BY <1>1, <1>2, <1>3 DEF WeekInv, WeekTypeOK
<1>5. cohort = "frozen"
  BY DEF WeekInv, FreezeIsLast, CommitForward, CommitResolutions
<1>6. FreezeIsLast'
  BY <1>2, <1>5 DEF WeekInv, FreezeIsLast
<1>7. SettledAtWinner'
  <2>1. AtWinner(resolved')
    <3>1. CASE CommitForward(t)
      BY <3>1 DEF CommitForward, WeekInv, SettledAtWinner
    <3>2. CASE CommitResolutions(t)
      <4>1. AtWinner(resolved) /\ AtWinner(tracking[t].new)
        BY <3>2 DEF CommitResolutions, WeekInv, SettledAtWinner
      <4>2. resolved' \subseteq resolved \cup tracking[t].new
        BY <3>2 DEF CommitResolutions
      <4> QED
        BY <4>1, <4>2 DEF AtWinner
    <3> QED
      BY <3>1, <3>2
  <2>2. ASSUME NEW u \in TrackRun, tracking'[u].stage = "resolve" PROVE AtWinner(tracking'[u].new)
    BY <2>2, <1>3 DEF WeekInv, SettledAtWinner
  <2>3. ASSUME NEW rows, AtWinner(rows)
        PROVE  \A p \in rows : p[1] \in WeekMarket /\ p[2] # "none" /\ winner'[p[1]] = p[2]
    BY <2>3, <1>1 DEF AtWinner
  <2>4. AtWinner(resolved)'
    BY <2>1, <1>1 DEF AtWinner
  <2>5. ASSUME NEW u \in TrackRun, tracking'[u].stage = "resolve" PROVE AtWinner(tracking[u].new)'
    BY <2>2, <2>5, <1>1 DEF AtWinner
  <2> QED
    BY <2>4, <2>5 DEF SettledAtWinner
<1>8. VerdictsStand'
  <2> SUFFICES ASSUME cohort' = "frozen", overtaken' = {}
               PROVE  /\ \A id \in DOMAIN verdict' : StandsFor(id, verdict[id])'
                      /\ \A u \in TrackRun : tracking'[u].stage = "evaluate" =>
                            /\ \A id \in DOMAIN tracking'[u].new :
                                  StandsFor(id, tracking[u].new[id])'
                            /\ \A id \in DOMAIN verdict' : id \in DOMAIN tracking'[u].new
                                  /\ Follows(verdict'[id], tracking'[u].new[id])
    BY DEF VerdictsStand, Follows
  <2>1. \A id, v : StandsFor(id, v) => StandsFor(id, v)'
    BY StandsLonger
  <2>2. /\ \A id \in DOMAIN verdict : StandsFor(id, verdict[id])
        /\ \A u \in TrackRun : tracking[u].stage = "evaluate" =>
              /\ \A id \in DOMAIN tracking[u].new : StandsFor(id, tracking[u].new[id])
              /\ \A id \in DOMAIN verdict : id \in DOMAIN tracking[u].new
                                         /\ Follows(verdict[id], tracking[u].new[id])
    BY <1>2 DEF WeekInv, VerdictsStand
  <2>3. ASSUME NEW id \in DOMAIN verdict' PROVE StandsFor(id, verdict[id])'
    <3>1. verdict' = verdict /\ StandsFor(id, verdict[id])
      BY <1>1, <2>2, <2>3
    <3> DEFINE v == verdict[id]
    <3>2. StandsFor(id, v)
      BY <3>1
    <3> QED
      BY <3>1, <3>2, <2>1, <1>1 DEF StandsFor
  <2>4. ASSUME NEW u \in TrackRun, tracking'[u].stage = "evaluate"
        PROVE  /\ \A id \in DOMAIN tracking'[u].new : StandsFor(id, tracking[u].new[id])'
               /\ \A id \in DOMAIN verdict' : id \in DOMAIN tracking'[u].new
                     /\ Follows(verdict'[id], tracking'[u].new[id])
    <3>1. tracking'[u] = tracking[u] /\ verdict' = verdict
      BY <2>4, <1>1, <1>3
    <3>2. ASSUME NEW id \in DOMAIN tracking'[u].new PROVE StandsFor(id, tracking[u].new[id])'
      <4>1. StandsFor(id, tracking[u].new[id])
        BY <3>1, <3>2, <2>2, <2>4
      <4> QED
        BY <4>1, <3>1, <2>1 DEF StandsFor
    <3>3. \A id \in DOMAIN verdict' : id \in DOMAIN tracking'[u].new
                     /\ Follows(verdict'[id], tracking'[u].new[id])
      BY <3>1, <2>2, <2>4
    <3> QED
      BY <3>2, <3>3
  <2> QED
    BY <2>3, <2>4
<1> QED
  BY <1>4, <1>6, <1>7, <1>8 DEF WeekInv

LEMMA EvaluateReadKeeps ==
  ASSUME WeekInv, NEW t \in TrackRun, ReadToEvaluate(t)
  PROVE  WeekInv'
<1> DEFINE judged == [id \in Ids |-> Verdict(EntryOf(id))]
           v == [stage |-> "evaluate", new |-> judged]
<1>1. /\ UNCHANGED rankVars /\ UNCHANGED <<age, winner, prices, resolved, verdict>>
      /\ tracking' = [tracking EXCEPT ![t] = v] /\ cohort = "frozen"
  BY DEF ReadToEvaluate
<1>2. UNCHANGED <<cohort, entries, freezing, overtaken, ranking>> /\ UNCHANGED Rows
  BY <1>1 DEF rankVars, Rows
<1>3. v.stage = "evaluate" /\ v.new = judged
  OBVIOUS
<1>4. \A id \in Ids : judged[id].move = Movement(id) /\ judged[id].final = Final(EntryOf(id))
  <2> TAKE id \in Ids
  <2>1. judged[id] = Verdict(EntryOf(id)) /\ EntryOf(id).id = id
    BY DEF Ids, IdsOf, EntryOf
  <2>2. Verdict(EntryOf(id)).move = Movement(EntryOf(id).id)
        /\ Verdict(EntryOf(id)).final = Final(EntryOf(id))
    BY DEF Verdict
  <2> QED
    BY <2>1, <2>2
<1>5. DOMAIN judged = Ids
  OBVIOUS
<1> HIDE DEF judged, v
<1>6. /\ tracking' = [u \in TrackRun |-> tracking'[u]] /\ tracking'[t] = v
      /\ \A u \in TrackRun \ {t} : tracking'[u] = tracking[u]
  BY <1>1, TrackingSet DEF WeekInv
<1>7. WeekTypeOK'
  BY <1>1, <1>2, <1>6 DEF WeekInv, WeekTypeOK
<1>8. FreezeIsLast'
  BY <1>1, <1>2 DEF WeekInv, FreezeIsLast
<1>9. SettledAtWinner'
  <2>1. AtWinner(resolved)'
    BY <1>1 DEF WeekInv, SettledAtWinner, AtWinner
  <2>2. ASSUME NEW u \in TrackRun, tracking'[u].stage = "resolve" PROVE AtWinner(tracking[u].new)'
    <3>1. u # t
      BY <2>2, <1>3, <1>6
    <3>2. tracking'[u] = tracking[u]
      BY <3>1, <1>6
    <3> QED
      BY <3>2, <2>2, <1>1 DEF WeekInv, SettledAtWinner, AtWinner
  <2> QED
    BY <2>1, <2>2 DEF SettledAtWinner
<1>10. ASSUME overtaken = {}
       PROVE  /\ \A id \in DOMAIN judged : StandsFor(id, judged[id])
              /\ \A id \in DOMAIN verdict : id \in DOMAIN judged /\ Follows(verdict[id], judged[id])
  <2>1. \A id \in DOMAIN verdict : StandsFor(id, verdict[id])
    BY <1>1, <1>10 DEF WeekInv, VerdictsStand
  <2> QED
    BY <2>1, <1>4, <1>5 DEF StandsFor, Follows
<1>11. VerdictsStand'
  <2> SUFFICES ASSUME overtaken = {}
               PROVE  /\ \A id \in DOMAIN verdict' : StandsFor(id, verdict[id])'
                      /\ \A u \in TrackRun : tracking'[u].stage = "evaluate" =>
                            /\ \A id \in DOMAIN tracking'[u].new :
                                  StandsFor(id, tracking[u].new[id])'
                            /\ \A id \in DOMAIN verdict' : id \in DOMAIN tracking'[u].new
                                  /\ Follows(verdict'[id], tracking'[u].new[id])
    BY <1>2 DEF VerdictsStand, Follows
  <2>1. \A id, w : StandsFor(id, w)' <=> StandsFor(id, w)
    BY <1>2, StandsOn
  <2>2. \A id \in DOMAIN verdict' : StandsFor(id, verdict[id])'
    BY <1>1, <1>2, <2>1 DEF WeekInv, VerdictsStand, StandsFor
  <2>3. ASSUME NEW u \in TrackRun, tracking'[u].stage = "evaluate"
        PROVE  /\ \A id \in DOMAIN tracking'[u].new : StandsFor(id, tracking'[u].new[id])
               /\ \A id \in DOMAIN verdict' : id \in DOMAIN tracking'[u].new
                     /\ Follows(verdict'[id], tracking'[u].new[id])
    <3>1. CASE u = t
      <4>1. tracking'[u].new = judged
        BY <3>1, <1>3, <1>6
      <4> QED
        BY <4>1, <1>1, <1>10
    <3>2. CASE u # t
      <4>1. tracking'[u] = tracking[u]
        BY <3>2, <1>6
      <4> QED
        BY <4>1, <2>3, <1>1 DEF WeekInv, VerdictsStand
    <3> QED
      BY <3>1, <3>2
  <2>4. ASSUME NEW u \in TrackRun, tracking'[u].stage = "evaluate",
             NEW id \in DOMAIN tracking'[u].new
        PROVE  StandsFor(id, tracking[u].new[id])'
    <3> DEFINE w == tracking'[u].new[id]
    <3>1. StandsFor(id, w)
      BY <2>3, <2>4
    <3> QED
      BY <3>1, <1>2 DEF StandsFor, Ids, IdsOf, EntryOf, Movement, Final, Rows
  <2> QED
    BY <2>2, <2>3, <2>4
<1> QED
  BY <1>7, <1>8, <1>9, <1>11 DEF WeekInv

LEMMA EvaluateCommitKeeps ==
  ASSUME WeekInv, NEW t \in TrackRun, CommitEvaluation(t)
  PROVE  WeekInv'
<1>1. /\ UNCHANGED <<cohort, entries, ranking, freezing, winner, prices, resolved>>
      /\ tracking' = [tracking EXCEPT ![t] = NoTracking] /\ tracking[t].stage = "evaluate"
      /\ verdict' = tracking[t].new
      /\ overtaken' = overtaken \cup {u \in TrackRun \ {t} : tracking[u].stage = "evaluate"}
  BY DEF CommitEvaluation
<1>2. UNCHANGED Rows
  BY <1>1 DEF Rows
<1>3. /\ tracking' = [u \in TrackRun |-> tracking'[u]] /\ tracking'[t].stage = "idle"
      /\ \A u \in TrackRun : tracking'[u].stage # "idle" => tracking'[u] = tracking[u]
  BY <1>1, CommittedTracking DEF WeekInv
<1>4. WeekTypeOK'
  BY <1>1, <1>3 DEF WeekInv, WeekTypeOK
<1>5. cohort = "frozen"
  BY <1>1 DEF WeekInv, FreezeIsLast
<1>6. FreezeIsLast'
  BY <1>1, <1>5 DEF WeekInv, FreezeIsLast
<1>7. SettledAtWinner'
  <2>1. AtWinner(resolved)'
    BY <1>1 DEF WeekInv, SettledAtWinner, AtWinner
  <2>2. ASSUME NEW u \in TrackRun, tracking'[u].stage = "resolve" PROVE AtWinner(tracking[u].new)'
    <3>1. tracking'[u] = tracking[u]
      BY <2>2, <1>3
    <3> QED
      BY <3>1, <2>2, <1>1 DEF WeekInv, SettledAtWinner, AtWinner
  <2> QED
    BY <2>1, <2>2 DEF SettledAtWinner
<1>8. VerdictsStand'
  <2> SUFFICES ASSUME overtaken' = {} PROVE VerdictsStand'
    BY DEF VerdictsStand
  <2>1. overtaken = {} /\ \A u \in TrackRun \ {t} : tracking[u].stage # "evaluate"
    BY <1>1
  <2>2. \A u \in TrackRun : tracking'[u].stage # "evaluate"
    BY <2>1, <1>3
  <2>3. ASSUME NEW id \in DOMAIN verdict' PROVE StandsFor(id, verdict[id])'
    <3> DEFINE w == tracking[t].new[id]
    <3>1. StandsFor(id, w)
      BY <1>1, <1>5, <2>1, <2>3 DEF WeekInv, VerdictsStand
    <3>2. w = verdict'[id]
      BY <1>1
    <3> QED
      BY <3>1, <3>2, <1>2 DEF StandsFor, Ids, IdsOf, EntryOf, Movement, Final, Rows
  <2> QED
    BY <2>2, <2>3 DEF VerdictsStand
<1> QED
  BY <1>4, <1>6, <1>7, <1>8 DEF WeekInv

-----------------------------------------------------------------------------
LEMMA WeekStepKeeps ==
  ASSUME WeekInv, [KNext]_kVars
  PROVE  WeekInv'
<1>1. CASE UNCHANGED kVars
  <2>1. UNCHANGED <<trackVars, cohort, entries, overtaken>> /\ UNCHANGED <<freezing, ranking>>
        /\ UNCHANGED <<winner, verdict, tracking>>
    BY <1>1 DEF kVars, trackVars
  <2>2. WeekTypeOK' /\ FreezeIsLast'
    BY <2>1 DEF WeekInv, WeekTypeOK, FreezeIsLast
  <2> QED
    BY <2>1, <2>2, QuietKeeps DEF WeekInv
<1> QED
  BY <1>1, RankKeeps, FreezeKeeps, TimeKeeps, ReadingKeeps, CommitKeepsWeek,
     EvaluateReadKeeps, EvaluateCommitKeeps DEF KNext

(* What a step may do to a frozen week that nobody overtook. *)
LEMMA FrozenStepKeeps ==
  ASSUME WeekInv, [KNext]_kVars, cohort = "frozen", overtaken = {}
  PROVE  /\ entries' = entries
         /\ \A id \in DOMAIN verdict :
               /\ id \in DOMAIN verdict'
               /\ verdict[id].move # "pending" => verdict'[id].move = verdict[id].move
               /\ verdict[id].final # "pending" => verdict'[id].final = verdict[id].final
<1>1. CASE entries' = entries /\ verdict' = verdict
  BY <1>1
<1>2. CASE UNCHANGED kVars
  BY <1>1, <1>2 DEF kVars
<1>3. ASSUME NEW r \in RankRun, BeginRank(r) \/ PlaceNext(r) \/ CommitRank(r) \/ LoseRank(r)
      PROVE  entries' = entries /\ verdict' = verdict
  BY <1>3 DEF BeginRank, PlaceNext, CommitRank, LoseRank, WeekInv, FreezeIsLast, trackVars
<1>4. CASE ReadToFreeze \/ CommitFreeze
  BY <1>4 DEF ReadToFreeze, CommitFreeze, WeekInv, FreezeIsLast
<1>5. CASE AgeOn \/ CloseCohort
  BY <1>1, <1>5 DEF AgeOn, CloseCohort, rankVars
<1>6. ASSUME NEW t \in TrackRun,
             \/ FetchForward(t) \/ CommitForward(t) \/ FetchResolutions(t)
             \/ CommitResolutions(t) \/ ReadToEvaluate(t) \/ LoseTracking(t)
      PROVE  entries' = entries /\ verdict' = verdict
  BY <1>6 DEF FetchForward, CommitForward, FetchResolutions, CommitResolutions, ReadToEvaluate,
     LoseTracking, rankVars
<1>7. ASSUME NEW t \in TrackRun, CommitEvaluation(t)
      PROVE  /\ entries' = entries
             /\ \A id \in DOMAIN verdict : id \in DOMAIN verdict'
                                        /\ Follows(verdict[id], verdict'[id])
  BY <1>7 DEF CommitEvaluation, WeekInv, VerdictsStand
<1> QED
  BY <1>1, <1>2, <1>3, <1>4, <1>5, <1>6, <1>7 DEF KNext, Follows

(* engine.py, tracking.py: however many rank, freeze, forward, resolve and   *)
(* evaluate commands overlap, and whichever of them are lost, a frozen week  *)
(* that no rank run and no evaluation was overtaken on keeps its entries and *)
(* every verdict it has reached.                                             *)
THEOREM FrozenWeekIsKept == KSpec => FrozenRecordKept
<1>1. KInit => WeekInv
  BY WeekStarts
<1>2. WeekInv /\ [KNext]_kVars => WeekInv'
  BY WeekStepKeeps
<1>3. WeekInv /\ [KNext]_kVars =>
        [cohort = "frozen" /\ overtaken = {} =>
          /\ entries' = entries
          /\ \A id \in DOMAIN verdict :
                /\ id \in DOMAIN verdict'
                /\ verdict[id].move # "pending" => verdict'[id].move = verdict[id].move
                /\ verdict[id].final # "pending" => verdict'[id].final = verdict[id].final]_kVars
  BY FrozenStepKeeps
<1> QED
  BY <1>1, <1>2, <1>3, PTL DEF KSpec, FrozenRecordKept

-----------------------------------------------------------------------------
(***************************************************************************)
(* The slots of the week.  A rank run places its signals one at a time,    *)
(* and what it sees stays sound while no other run commits; SlotsInv is    *)
(* inductive.                                                              *)
(***************************************************************************)

(* Different entries compare by their keys. *)
LEMMA EntriesOrdered ==
    ASSUME NEW es, NEW next, NEW given, Slots(es, next, given)
    PROVE  /\ StrictOrder(EntriesBefore(es), es)
           /\ es # {} => \E w \in es : \A f \in es \ {w} : Before(EntryKey(f), EntryKey(w))
PROOF
<1> DEFINE R == EntriesBefore(es)
<1>1. \A e \in es : e.id \in Int /\ e.snap.strength \in Int
  BY WeekAssumption DEF Slots, WeekEntry
<1>2. \A e, f \in es : <<e, f>> \in R <=>
            \/ e.snap.strength > f.snap.strength
            \/ e.snap.strength = f.snap.strength /\ e.id < f.id
  BY DEF EntriesBefore, Before, EntryKey
<1> HIDE DEF R
<1>3. \A e, f \in es : e.id = f.id => e = f
  BY DEF Slots
<1>4. StrictOrder(R, es)
  BY <1>1, <1>2, <1>3 DEF StrictOrder
<1>5. ASSUME es # {} PROVE \E w \in es : \A f \in es \ {w} : Before(EntryKey(f), EntryKey(w))
  <2>1. IsFiniteSet(es)
    BY DEF Slots
  <2>2. PICK w \in es : \A f \in es \ {w} : <<f, w>> \in R
    BY <1>4, <1>5, <2>1, LastElement
  <2> QED BY <2>2 DEF R, EntriesBefore
<1> QED BY <1>4, <1>5 DEF R

(* A list whose entries are replaced one for one, by the same or a stronger   *)
(* signal of the market.                                                      *)
Replaced(es, f) == {f[e] : e \in es}

LEMMA ReplacedOneForOne ==
    ASSUME NEW es, NEW next, NEW given, Slots(es, next, given), given \subseteq Snap,
           NEW f, \A e \in es : /\ f[e] \in WeekEntry /\ f[e].id = e.id
                                /\ f[e].snap.market = e.snap.market
                                /\ f[e].snap.strength >= e.snap.strength
    PROVE  /\ Slots(Replaced(es, f), next, given)
           /\ Cardinality(Replaced(es, f)) = Cardinality(es)
PROOF
<1> DEFINE fs == {f[e] : e \in es}
           g == [e \in es |-> f[e]]
<1>1. \A e \in es : e.snap.strength \in Int /\ f[e].snap.strength \in Int
  BY WeekAssumption DEF Slots, WeekEntry
<1>2. \A s \in given : s.strength \in Int
  BY WeekAssumption
<1>3. g \in Bijection(es, fs)
  <2>1. g \in [es -> fs] /\ \A x \in fs : \E e \in es : g[e] = x
    OBVIOUS
  <2>2. \A d, e \in es : g[d] = g[e] => d = e
    BY DEF Slots
  <2> HIDE DEF g, fs
  <2> QED BY <2>1, <2>2 DEF Bijection, Injection, Surjection, IsInjective
<1>4. IsFiniteSet(fs) /\ Cardinality(fs) = Cardinality(es)
  <2>1. IsFiniteSet(es)
    BY DEF Slots
  <2> HIDE DEF g, fs
  <2>2. ExistsBijection(es, fs)
    BY <1>3 DEF ExistsBijection
  <2> QED BY <2>1, <2>2, FS_Bijection
<1>5. fs \subseteq WeekEntry /\ \A e \in fs : e.id < next
  BY DEF Slots
<1>6. \A a, b \in fs : a.id = b.id \/ a.snap.market = b.snap.market => a = b
  <2> TAKE a, b \in fs
  <2>1. PICK c \in es, d \in es : a = f[c] /\ b = f[d]
    OBVIOUS
  <2>2. a.id = c.id /\ b.id = d.id /\ a.snap.market = c.snap.market /\ b.snap.market = d.snap.market
    BY <2>1
  <2> QED BY <2>1, <2>2 DEF Slots
<1>7. ASSUME NEW s \in given, Eligible(s)
      PROVE  \/ \E e \in fs : e.snap.market = s.market /\ e.snap.strength >= s.strength
             \/ Cardinality(fs) = TargetSize /\ \A e \in fs : e.snap.strength >= s.strength
  <2>1. CASE \E e \in es : e.snap.market = s.market /\ e.snap.strength >= s.strength
    <3>1. PICK e \in es : e.snap.market = s.market /\ e.snap.strength >= s.strength
      BY <2>1
    <3>2. f[e] \in fs /\ f[e].snap.market = s.market
      BY <3>1
    <3>3. f[e].snap.strength >= s.strength
      BY <3>1, <1>1, <1>2
    <3> QED BY <3>2, <3>3
  <2>2. CASE Cardinality(es) = TargetSize /\ \A e \in es : e.snap.strength >= s.strength
    <3>1. \A e \in es : f[e].snap.strength >= s.strength
      BY <2>2, <1>1, <1>2
    <3> QED BY <2>2, <3>1, <1>4
  <2> QED BY <2>1, <2>2, <1>7 DEF Slots
<1>8. next \in Nat /\ Cardinality(fs) <= TargetSize
  BY <1>4 DEF Slots
<1> HIDE DEF fs
<1>9. Slots(fs, next, given)
  BY <1>4, <1>5, <1>6, <1>7, <1>8 DEF Slots
<1> QED BY <1>4, <1>9 DEF fs, Replaced

(* One signal that finds the entry of its market, a free place, or a full list. *)
LEMMA UpgradeKeeps ==
    ASSUME NEW es, NEW next, NEW given, Slots(es, next, given), given \subseteq Snap,
           NEW s \in Snap, Eligible(s), NEW e \in es, e.snap.market = s.market,
           NEW fs, fs = IF Before(SnapKey(s), EntryKey(e))
                        THEN (es \ {e}) \cup {[e EXCEPT !.snap = s]} ELSE es
    PROVE  Slots(fs, next, given \cup {s})
PROOF
<1>1. /\ \A d \in es : d \in WeekEntry /\ d.snap.strength \in Int /\ d.id \in Nat
      /\ \A d, f \in es : d.id = f.id \/ d.snap.market = f.snap.market => d = f
  BY WeekAssumption DEF Slots, WeekEntry
<1>2. s.strength \in Int
  BY WeekAssumption
<1>3. CASE Before(SnapKey(s), EntryKey(e))
  <2> DEFINE up == [e EXCEPT !.snap = s]
             f == [d \in es |-> IF d = e THEN up ELSE d]
  <2>1. s.strength >= e.snap.strength
    BY <1>1, <1>2, <1>3 DEF Before, SnapKey, EntryKey
  <2>2. up \in WeekEntry /\ up.id = e.id /\ up.snap = s
    BY <1>1 DEF WeekEntry
  <2>3. fs = Replaced(es, f)
    <3> HIDE DEF up
    <3> QED BY <1>3 DEF Replaced, up
  <2> HIDE DEF up
  <2>4. \A d \in es : /\ f[d] \in WeekEntry /\ f[d].id = d.id
                      /\ f[d].snap.market = d.snap.market
                      /\ f[d].snap.strength >= d.snap.strength
    <3> TAKE d \in es
    <3>1. CASE d = e
      BY <3>1, <2>1, <2>2
    <3>2. CASE d # e
      BY <3>2, <1>1
    <3> QED BY <3>1, <3>2
  <2>5. f[e] = up /\ f[e] \in Replaced(es, f)
    BY DEF Replaced
  <2> HIDE DEF f
  <2>6. Slots(fs, next, given)
    <3>1. Slots(Replaced(es, f), next, given)
      BY <2>4, ReplacedOneForOne
    <3> QED BY <2>3, <3>1
  <2>7. up \in fs /\ up.snap.market = s.market /\ up.snap.strength >= s.strength
    BY <2>2, <2>3, <2>5, <1>2
  <2> QED BY <2>6, <2>7 DEF Slots
<1>4. CASE ~Before(SnapKey(s), EntryKey(e))
  <2>1. e.snap.strength >= s.strength
    BY <1>1, <1>2, <1>4 DEF Before, SnapKey, EntryKey
  <2> QED BY <1>4, <2>1 DEF Slots
<1> QED BY <1>3, <1>4

LEMMA EnterKeeps ==
    ASSUME NEW es, NEW next, NEW given, Slots(es, next, given), given \subseteq Snap,
           NEW s \in Snap, Eligible(s), NEW rank \in Nat,
           ~(\E e \in es : e.snap.market = s.market), Cardinality(es) < TargetSize
    PROVE  Slots(es \cup {[id |-> next, snap |-> s, rank |-> rank, frozen |-> FALSE]},
                 next + 1, given \cup {s})
PROOF
<1> DEFINE size == Cardinality(es)
<1>1. /\ es \subseteq WeekEntry /\ IsFiniteSet(es) /\ size <= TargetSize
      /\ next \in Nat /\ \A e \in es : e.id < next
  BY DEF Slots
<1>2. size \in Nat /\ TargetSize \in Nat \ {0}
  BY <1>1, WeekAssumption, FS_CardinalityType
<1>3. \A e \in es : /\ e.id \in Nat /\ e.snap.strength \in Int /\ e.snap \in Snap
                    /\ Eligible(e.snap)
  BY <1>1, WeekAssumption DEF WeekEntry
<1>4. s.strength \in Int /\ \A t \in given : t.strength \in Int
  BY WeekAssumption
<1>6. ~(\E e \in es : e.snap.market = s.market) /\ size < TargetSize
  OBVIOUS
<1> DEFINE new == [id |-> next, snap |-> s, rank |-> rank, frozen |-> FALSE]
           fs == es \cup {new}
<1>12. new \in WeekEntry /\ new \notin es
  <2>1. new \in WeekEntry
    BY <1>1, <1>2 DEF WeekEntry
  <2>2. new.snap.market = s.market
    OBVIOUS
  <2> QED BY <2>1, <2>2, <1>6
<1>13. IsFiniteSet(fs) /\ Cardinality(fs) = size + 1
  <2> HIDE DEF new
  <2> QED BY <1>1, <1>12, FS_AddElement
<1>14. new.id = next /\ new.snap = s
  OBVIOUS
<1> HIDE DEF new
<1>15. \A e, f \in fs : e.id = f.id \/ e.snap.market = f.snap.market => e = f
  <2>1. \A e \in es : e.id # new.id /\ e.snap.market # new.snap.market
    BY <1>1, <1>3, <1>6, <1>14
  <2>2. \A e, f \in es : e.id = f.id \/ e.snap.market = f.snap.market => e = f
    BY DEF Slots
  <2> QED BY <2>1, <2>2
<1>16. \A e \in fs : e.id < next + 1
  BY <1>1, <1>3, <1>14
<1>17. \A t \in given : Eligible(t) =>
         \E e \in es : e.snap.market = t.market /\ e.snap.strength >= t.strength
  BY <1>2, <1>6 DEF Slots
<1>18. \A t \in given \cup {s} : Eligible(t) =>
         \E e \in fs : e.snap.market = t.market /\ e.snap.strength >= t.strength
  BY <1>14, <1>17, <1>4
<1>19. fs \subseteq WeekEntry /\ Cardinality(fs) <= TargetSize /\ next + 1 \in Nat
  BY <1>1, <1>2, <1>6, <1>12, <1>13
<1> HIDE DEF fs
<1>20. Slots(fs, next + 1, given \cup {s})
  BY <1>13, <1>15, <1>16, <1>18, <1>19 DEF Slots
<1> QED BY <1>20 DEF fs, new

LEMMA FullListKeeps ==
    ASSUME NEW es, NEW next, NEW given, Slots(es, next, given), given \subseteq Snap,
           NEW s \in Snap, Eligible(s), NEW w \in es,
           \A f \in es \ {w} : Before(EntryKey(f), EntryKey(w)),
           ~(\E e \in es : e.snap.market = s.market), Cardinality(es) >= TargetSize
    PROVE  /\ ~Before(SnapKey(s), EntryKey(w)) => Slots(es, next, given \cup {s})
           /\ Before(SnapKey(s), EntryKey(w)) =>
                 Slots((es \ {w}) \cup
                          {[id |-> next, snap |-> s, rank |-> w.rank, frozen |-> FALSE]},
                       next + 1, given \cup {s})
PROOF
<1> DEFINE size == Cardinality(es)
<1>1. /\ es \subseteq WeekEntry /\ IsFiniteSet(es) /\ size <= TargetSize
      /\ next \in Nat /\ \A e \in es : e.id < next
  BY DEF Slots
<1>2. size \in Nat /\ TargetSize \in Nat \ {0}
  BY <1>1, WeekAssumption, FS_CardinalityType
<1>3. \A e \in es : /\ e.id \in Nat /\ e.snap.strength \in Int /\ e.snap \in Snap
                    /\ Eligible(e.snap)
  BY <1>1, WeekAssumption DEF WeekEntry
<1>4. s.strength \in Int /\ \A t \in given : t.strength \in Int
  BY WeekAssumption
<1>7. ~(\E e \in es : e.snap.market = s.market) /\ size = TargetSize
  BY <1>1, <1>2
<1>8. \A e \in es : e.snap.strength >= w.snap.strength
  <2>1. \A e \in es \ {w} : Before(EntryKey(e), EntryKey(w))
    OBVIOUS
  <2>2. \A e \in es : e.snap.strength \in Int
    BY <1>3
  <2>3. \A e \in es \ {w} : e.snap.strength >= w.snap.strength
    BY <2>1, <2>2 DEF Before, EntryKey
  <2>4. w.snap.strength >= w.snap.strength
    BY <2>2
  <2> QED BY <2>3, <2>4
<1>9. CASE ~Before(SnapKey(s), EntryKey(w))
  <2>2. w.snap.strength >= s.strength
    BY <1>9, <1>3, <1>4 DEF Before, SnapKey, EntryKey
  <2>3. \A e \in es : e.snap.strength >= s.strength
    BY <2>2, <1>8, <1>3, <1>4
  <2>4. Slots(es, next, given \cup {s})
    BY <1>7, <2>3 DEF Slots
  <2> QED BY <2>4, <1>9
<1>10. CASE Before(SnapKey(s), EntryKey(w))
  <2> DEFINE new == [id |-> next, snap |-> s, rank |-> w.rank, frozen |-> FALSE]
             keeps == es \ {w}
             fs == keeps \cup {new}
  <2>2. s.strength >= w.snap.strength
    BY <1>10, <1>3, <1>4 DEF Before, SnapKey, EntryKey
  <2>3. new \in WeekEntry /\ new.id = next /\ new.snap = s
    BY <1>1 DEF WeekEntry
  <2> HIDE DEF new
  <2>4. \A e \in es : e.id # new.id /\ e.snap.market # new.snap.market
    BY <1>1, <1>3, <1>7, <2>3
  <2>5. IsFiniteSet(keeps) /\ Cardinality(keeps) = size - 1 /\ new \notin keeps
    BY <1>1, <2>4, FS_RemoveElement
  <2>6. IsFiniteSet(fs) /\ Cardinality(fs) = TargetSize
    <3>1. IsFiniteSet(fs) /\ Cardinality(fs) = Cardinality(keeps) + 1
      <4> HIDE DEF keeps
      <4> QED BY <2>5, FS_AddElement
    <3> QED BY <3>1, <2>5, <1>2, <1>7
  <2>7. \A e, f \in fs : e.id = f.id \/ e.snap.market = f.snap.market => e = f
    <3>1. \A e, f \in es : e.id = f.id \/ e.snap.market = f.snap.market => e = f
      BY DEF Slots
    <3> QED BY <2>4, <3>1
  <2>8. \A e \in fs : e.id < next + 1
    BY <1>1, <1>3, <2>3
  <2>9. \A e \in fs : e.snap.strength \in Int /\ e.snap.strength >= w.snap.strength
    BY <1>3, <1>4, <1>8, <2>2, <2>3
  <2>10. ASSUME NEW t \in given \cup {s}, Eligible(t)
         PROVE  \/ \E e \in fs : e.snap.market = t.market /\ e.snap.strength >= t.strength
                \/ \A e \in fs : e.snap.strength >= t.strength
    <3>1. CASE t = s
      BY <3>1, <1>4, <2>3
    <3>2. CASE t \in given /\ \E e \in keeps : e.snap.market = t.market
                                             /\ e.snap.strength >= t.strength
      BY <3>2
    <3>3. CASE t \in given /\ w.snap.strength >= t.strength
      BY <3>3, <1>3, <1>4, <2>9
    <3>4. CASE t \in given
      <4>1. \/ \E e \in es : e.snap.market = t.market /\ e.snap.strength >= t.strength
            \/ \A e \in es : e.snap.strength >= t.strength
        BY <3>4, <2>10 DEF Slots
      <4> QED BY <4>1, <3>2, <3>3, <3>4
    <3> QED BY <3>1, <3>4
  <2>11. fs \subseteq WeekEntry /\ Cardinality(fs) <= TargetSize /\ next + 1 \in Nat
    BY <1>1, <1>2, <2>3, <2>6
  <2> HIDE DEF fs
  <2>12. Slots(fs, next + 1, given \cup {s})
    BY <2>6, <2>7, <2>8, <2>10, <2>11 DEF Slots
  <2> QED BY <1>10, <2>12 DEF fs, new
<1> QED BY <1>9, <1>10

-----------------------------------------------------------------------------
(* The session of a run has the fields of a session, and no others. *)
Shaped(run) == run = Session(run.stage, run.saw, run.batch, run.todo, run.held, run.new,
                             run.changed, run.gone, run.late)

(* A session whose rows are its own or committed ones. *)
Alone(es) == \A e, f \in es : e.id = f.id => e = f

LEMMA HeldRow ==
    ASSUME NEW rows, NEW next, NEW run, SessionCurrent(run, rows, next), NEW h \in run.held
    PROVE  /\ h.id \notin run.gone
           /\ \/ h.id \in run.new
              \/ \E e \in rows : /\ e.id = h.id
                                 /\ h.id \notin run.changed => e.snap = h.snap
BY DEF SessionCurrent

LEMMA SeesCurrent ==
    ASSUME NEW rows, NEW next, NEW run, SessionCurrent(run, rows, next)
    PROVE  Sees(run, rows) = run.held \cup {e \in rows : /\ e.id \notin run.gone
                                                     /\ \A h \in run.held : h.id # e.id}
PROOF
<1>1. \A h \in run.held : h.id \in IdsOf(rows) \cup run.new
  <2> TAKE h \in run.held
  <2>1. h.id \in run.new \/ \E e \in rows : e.id = h.id
    BY HeldRow
  <2>2. ASSUME NEW e \in rows PROVE e.id \in IdsOf(rows)
    BY DEF IdsOf
  <2> QED BY <2>1, <2>2
<1>2. {h \in run.held : h.id \in IdsOf(rows) \cup run.new} = run.held
  BY <1>1
<1> QED BY <1>2 DEF Sees

LEMMA HoldingKeeps ==
    ASSUME NEW rows, NEW next, NEW run, SessionCurrent(run, rows, next), Alone(rows),
           Shaped(run),
           NEW es, es \subseteq Sees(run, rows)
    PROVE  /\ Holding(run, es).held = run.held \cup es
           /\ SessionCurrent(Holding(run, es), rows, next)
           /\ Sees(Holding(run, es), rows) = Sees(run, rows)
PROOF
<1> DEFINE shown == Holding(run, es)
<1>0. PICK stage, saw, batch, todo, held, new, changed, gone, late :
         run = Session(stage, saw, batch, todo, held, new, changed, gone, late)
  BY DEF Shaped
<1>1. /\ run.held = held /\ run.new = new /\ run.changed = changed /\ run.gone = gone
  BY <1>0 DEF Session
<1>2. shown = Session(stage, saw, batch, todo, held \cup es, new, changed, gone, late)
  BY <1>0 DEF Session, Holding
<1>3. /\ shown.held = held \cup es /\ shown.new = new /\ shown.changed = changed /\ shown.gone = gone
  BY <1>2 DEF Session
<1> HIDE DEF shown
<1>4. \A e \in es : e \in held \/ (e \in rows /\ e.id \notin gone /\ \A h \in held : h.id # e.id)
  BY <1>1, SeesCurrent
<1>5. SessionCurrent(shown, rows, next)
  BY <1>1, <1>3, <1>4 DEF SessionCurrent, IdsOf
<1>6. Sees(shown, rows) = Sees(run, rows)
  <2>1. Sees(shown, rows) = (held \cup es) \cup {e \in rows : /\ e.id \notin gone
                                                        /\ \A h \in held \cup es : h.id # e.id}
    BY <1>3, <1>5, SeesCurrent
  <2>2. Sees(run, rows) = held \cup {e \in rows : e.id \notin gone /\ \A h \in held : h.id # e.id}
    BY <1>1, SeesCurrent
  <2> QED BY <1>4, <2>1, <2>2 DEF Alone
<1> QED BY <1>1, <1>3, <1>5, <1>6 DEF shown

LEMMA RetargetedKeeps ==
    ASSUME NEW rows, NEW next, NEW run, SessionCurrent(run, rows, next),
           Shaped(run),
           NEW e \in run.held, e \in WeekEntry, NEW s, Alone(Sees(run, rows))
    PROVE  /\ SessionCurrent(Retargeted(run, e, s), rows, next)
           /\ Sees(Retargeted(run, e, s), rows)
                = (Sees(run, rows) \ {e}) \cup {[e EXCEPT !.snap = s]}
PROOF
<1> DEFINE shown == Retargeted(run, e, s)
           up == [e EXCEPT !.snap = s]
           rest == {d \in rows : d.id \notin run.gone /\ \A h \in run.held : h.id # d.id}
<1>0. PICK stage, saw, batch, todo, held, new, changed, gone, late :
         run = Session(stage, saw, batch, todo, held, new, changed, gone, late)
  BY DEF Shaped
<1>1. /\ run.held = held /\ run.new = new /\ run.changed = changed /\ run.gone = gone
  BY <1>0 DEF Session
<1>2. shown = Session(stage, saw, batch, todo, (held \ {e}) \cup {up},
                    new, changed \cup ({e.id} \ new), gone, late)
  <2>1. PICK a, c : a = (held \ {e}) \cup {up} /\ c = changed \cup ({e.id} \ new)
    OBVIOUS
  <2>2. shown = [run EXCEPT !.held = a, !.changed = c]
    BY <1>1, <2>1 DEF Retargeted
  <2>3. shown = Session(stage, saw, batch, todo, a, new, c, gone, late)
    <3> HIDE DEF shown
    <3> QED BY <1>0, <2>2 DEF Session
  <2> QED BY <2>1, <2>3
<1>3. /\ shown.held = (held \ {e}) \cup {up} /\ shown.new = new
      /\ shown.changed = changed \cup ({e.id} \ new) /\ shown.gone = gone
  BY <1>2 DEF Session
<1>4. up.id = e.id
  BY DEF WeekEntry
<1> HIDE DEF shown, up
<1>5. Sees(run, rows) = held \cup rest
  BY <1>1, SeesCurrent
<1>6. \A h \in held : h.id = e.id => h = e
  BY <1>1, <1>5 DEF Alone
<1>7. SessionCurrent(shown, rows, next)
  <2>1. \A h \in shown.held : h = up \/ h \in held \ {e}
    BY <1>3
  <2>2. ASSUME NEW h \in shown.held
        PROVE  /\ h.id \notin shown.gone
               /\ \/ h.id \in shown.new
                  \/ \E d \in rows : d.id = h.id /\ (h.id \notin shown.changed => d.snap = h.snap)
    <3>1. CASE h = up
      <4>1. h.id = e.id /\ (e.id \in new \/ e.id \in shown.changed)
        BY <3>1, <1>3, <1>4
      <4>2. e.id \notin gone /\ (e.id \in new \/ \E d \in rows : d.id = e.id)
        BY <1>1, HeldRow
      <4> QED BY <4>1, <4>2, <1>3
    <3>2. CASE h \in held \ {e}
      <4>1. /\ h.id \notin gone
            /\ \/ h.id \in new
               \/ \E d \in rows : d.id = h.id /\ (h.id \notin changed => d.snap = h.snap)
        BY <3>2, <1>1, HeldRow
      <4> QED BY <4>1, <1>3
    <3> QED BY <2>1, <3>1, <3>2
  <2>3. {h.id : h \in shown.held} = {h.id : h \in held}
    BY <1>1, <1>3, <1>4
  <2>4. shown.new \cup shown.changed \subseteq {h.id : h \in shown.held}
    BY <1>1, <1>3, <2>3 DEF SessionCurrent
  <2> QED BY <1>1, <1>3, <2>2, <2>4 DEF SessionCurrent, IdsOf
<1>8. Sees(shown, rows) = (Sees(run, rows) \ {e}) \cup {up}
  <2>1. Sees(shown, rows) = shown.held \cup {d \in rows : /\ d.id \notin gone
                                                  /\ \A h \in shown.held : h.id # d.id}
    BY <1>3, <1>7, SeesCurrent
  <2>2. {d \in rows : d.id \notin gone /\ \A h \in shown.held : h.id # d.id} = rest
    BY <1>1, <1>3, <1>4
  <2>3. e \notin rest
    OBVIOUS
  <2> HIDE DEF rest
  <2> QED BY <1>3, <1>5, <2>1, <2>2, <2>3
<1> QED BY <1>7, <1>8 DEF shown, up

LEMMA AddedKeeps ==
    ASSUME NEW rows, NEW next, NEW run, SessionCurrent(run, rows, next),
           next \in Nat, \A e \in rows : e.id < next,
           Shaped(run),
           \A h \in run.held : h.id < next, NEW s, NEW rank
    PROVE  LET row == [id |-> next, snap |-> s, rank |-> rank, frozen |-> FALSE]
           IN  /\ SessionCurrent(Added(run, s, rank, next), rows, next + 1)
               /\ Sees(Added(run, s, rank, next), rows) = Sees(run, rows) \cup {row}
PROOF
<1> DEFINE shown == Added(run, s, rank, next)
           row == [id |-> next, snap |-> s, rank |-> rank, frozen |-> FALSE]
<1>0. PICK stage, saw, batch, todo, held, new, changed, gone, late :
         run = Session(stage, saw, batch, todo, held, new, changed, gone, late)
  BY DEF Shaped
<1>1. /\ run.held = held /\ run.new = new /\ run.changed = changed /\ run.gone = gone
  BY <1>0 DEF Session
<1>2. shown = Session(stage, saw, batch, todo, held \cup {row}, new \cup {next}, changed,
                    gone, late)
  <2>1. PICK a, n : a = held \cup {row} /\ n = new \cup {next}
    OBVIOUS
  <2>2. shown = [run EXCEPT !.held = a, !.new = n]
    BY <1>1, <2>1 DEF Added
  <2>3. shown = Session(stage, saw, batch, todo, a, n, changed, gone, late)
    <3> HIDE DEF shown
    <3> QED BY <1>0, <2>2 DEF Session
  <2> QED BY <2>1, <2>3
<1>3. /\ shown.held = held \cup {row} /\ shown.new = new \cup {next}
      /\ shown.changed = changed /\ shown.gone = gone
  BY <1>2 DEF Session
<1>4. row.id = next
  OBVIOUS
<1> HIDE DEF shown, row
<1>5. /\ \A e \in rows : e.id # next
      /\ \A h \in held : h.id # next
      /\ next \notin gone
  BY <1>1 DEF SessionCurrent
<1>6. SessionCurrent(shown, rows, next + 1)
  <2>1. changed \subseteq {h.id : h \in held} /\ new \subseteq {h.id : h \in held}
    BY <1>1 DEF SessionCurrent
  <2>2. next \notin changed /\ next \notin IdsOf(rows)
    BY <2>1, <1>5 DEF IdsOf
  <2> QED BY <1>1, <1>3, <1>4, <1>5, <2>1, <2>2 DEF SessionCurrent
<1>7. Sees(shown, rows) = Sees(run, rows) \cup {row}
  <2>1. Sees(shown, rows) = (held \cup {row}) \cup {e \in rows : /\ e.id \notin gone
                                           /\ \A h \in held \cup {row} : h.id # e.id}
    BY <1>3, <1>6, SeesCurrent
  <2>2. Sees(run, rows) = held \cup {e \in rows : e.id \notin gone /\ \A h \in held : h.id # e.id}
    BY <1>1, SeesCurrent
  <2> QED BY <1>4, <1>5, <2>1, <2>2
<1> QED BY <1>6, <1>7 DEF shown, row

LEMMA RemovedKeeps ==
    ASSUME NEW rows, NEW next, NEW run, SessionCurrent(run, rows, next), next \in Nat,
           Shaped(run),
           NEW e \in run.held, e.id \in Nat, e.id < next, Alone(Sees(run, rows))
    PROVE  /\ Removed(run, e).held = run.held \ {e}
           /\ SessionCurrent(Removed(run, e), rows, next)
           /\ Sees(Removed(run, e), rows) = Sees(run, rows) \ {e}
PROOF
<1> DEFINE shown == Removed(run, e)
<1>0. PICK stage, saw, batch, todo, held, new, changed, gone, late :
         run = Session(stage, saw, batch, todo, held, new, changed, gone, late)
  BY DEF Shaped
<1>1. /\ run.held = held /\ run.new = new /\ run.changed = changed /\ run.gone = gone
  BY <1>0 DEF Session
<1>2. shown = Session(stage, saw, batch, todo, held \ {e}, new \ {e.id}, changed \ {e.id},
                    gone \cup {e.id}, late)
  <2>1. PICK a, n, c, g : /\ a = held \ {e} /\ n = new \ {e.id}
                          /\ c = changed \ {e.id} /\ g = gone \cup {e.id}
    OBVIOUS
  <2>2. shown = [run EXCEPT !.held = a, !.new = n, !.changed = c, !.gone = g]
    BY <1>1, <2>1 DEF Removed
  <2>3. shown = Session(stage, saw, batch, todo, a, n, c, g, late)
    <3> HIDE DEF shown
    <3> QED BY <1>0, <2>2 DEF Session
  <2> QED BY <2>1, <2>3
<1>3. /\ shown.held = held \ {e} /\ shown.new = new \ {e.id}
      /\ shown.changed = changed \ {e.id} /\ shown.gone = gone \cup {e.id}
  BY <1>2 DEF Session
<1> HIDE DEF shown
<1>4. Sees(run, rows) = held \cup {d \in rows : d.id \notin gone /\ \A h \in held : h.id # d.id}
  BY <1>1, SeesCurrent
<1>5. \A h \in held : h.id = e.id => h = e
  BY <1>1, <1>4 DEF Alone
<1>6. SessionCurrent(shown, rows, next)
  <2>1. shown.new \cup shown.changed \subseteq {h.id : h \in shown.held}
    BY <1>1, <1>3 DEF SessionCurrent
  <2> QED BY <1>1, <1>3, <1>5, <2>1 DEF SessionCurrent
<1>7. Sees(shown, rows) = (held \ {e}) \cup {d \in rows : /\ d.id \notin gone \cup {e.id}
                                                    /\ \A h \in held \ {e} : h.id # d.id}
  BY <1>3, <1>6, SeesCurrent
<1>8. Sees(shown, rows) = Sees(run, rows) \ {e}
  BY <1>1, <1>4, <1>7 DEF Alone
<1> QED BY <1>1, <1>3, <1>6, <1>8 DEF shown

(* Ranks of the entries that a run or a freeze has read. *)
LEMMA RanksOfRead ==
    ASSUME NEW fr, fr \subseteq WeekEntry, IsFiniteSet(fr), NEW e, e.id \in {d.id : d \in fr}
    PROVE  RankIn(Renumbered(fr), e) \in Nat
PROOF
<1> DEFINE rank(d) == Cardinality(UpToIn(EntriesBefore(fr), fr, d))
           order == Renumbered(fr)
           f == CHOOSE g \in order : g.id = e.id
<1>1. \A d \in fr : rank(d) \in Nat
  <2> TAKE d \in fr
  <2>1. UpToIn(EntriesBefore(fr), fr, d) \in SUBSET fr
    BY DEF UpToIn
  <2> QED BY <2>1, FS_Subset, FS_CardinalityType
<1>2. order = {[d EXCEPT !.rank = rank(d)] : d \in fr}
  BY DEF Renumbered
<1>3. PICK d \in fr : d.id = e.id
  OBVIOUS
<1>4. \A g \in order : g.rank \in Nat
  <2> TAKE g \in order
  <2>1. PICK c \in fr : g = [c EXCEPT !.rank = rank(c)]
    BY <1>2
  <2>2. PICK k \in Nat : k = rank(c)
    BY <1>1
  <2> QED BY <2>1, <2>2 DEF WeekEntry
<1>5. \E g \in order : g.id = e.id
  <2>1. PICK k \in Nat : k = rank(d)
    BY <1>1
  <2>2. [d EXCEPT !.rank = k] \in order
    BY <1>2, <2>1
  <2> QED BY <1>3, <2>2 DEF WeekEntry
<1> HIDE DEF order
<1>8. f.rank \in Nat
  BY <1>4, <1>5
<1> QED BY <1>8 DEF order, RankIn

(* What a run commits keeps the ids and signals of what it sees. *)
LEMMA WrittenRow ==
    ASSUME NEW rows, NEW next, NEW run, SessionCurrent(run, rows, next), rows \subseteq WeekEntry,
           Sees(run, rows) \subseteq WeekEntry, Alone(Sees(run, rows)), NEW v \in Sees(run, rows)
    PROVE  \E x \in Written(run, rows) : x \in WeekEntry /\ x.id = v.id /\ x.snap = v.snap
PROOF
<1> DEFINE kept == {f \in rows : f.id \notin run.gone}
           held(e) == CHOOSE h \in run.held : h.id = e.id
           as(e) == IF e.id \in run.changed THEN [e EXCEPT !.snap = held(e).snap] ELSE e
<1>1. Written(run, rows) = {as(e) : e \in kept} \cup {h \in run.held : h.id \in run.new}
  BY DEF Written
<1>2. Sees(run, rows) = run.held \cup {e \in rows : /\ e.id \notin run.gone
                                                   /\ \A h \in run.held : h.id # e.id}
  BY SeesCurrent
<1>3. CASE v \in run.held /\ v.id \in run.new
  BY <1>1, <1>3
<1>4. CASE v \in run.held /\ v.id \notin run.new
  <2>1. PICK e \in rows : e.id = v.id /\ (v.id \notin run.changed => e.snap = v.snap)
    BY <1>4, HeldRow
  <2>2. e \in kept /\ e \in WeekEntry
    BY <1>4, <2>1, HeldRow
  <2>3. CASE v.id \in run.changed
    <3>1. held(e) = v
      BY <1>2, <1>4, <2>1 DEF Alone
    <3>2. as(e) = [e EXCEPT !.snap = v.snap]
      BY <2>1, <2>3, <3>1
    <3>3. as(e) \in WeekEntry /\ as(e).id = v.id /\ as(e).snap = v.snap
      <4> HIDE DEF as
      <4> QED BY <2>1, <2>2, <3>2 DEF WeekEntry
    <3> HIDE DEF as, kept
    <3> QED BY <1>1, <2>2, <3>3
  <2>4. CASE v.id \notin run.changed
    BY <1>1, <2>1, <2>2, <2>4
  <2> QED BY <2>3, <2>4
<1>5. CASE v \in rows /\ v.id \notin run.gone /\ \A h \in run.held : h.id # v.id
  <2>1. v.id \notin run.changed
    BY <1>5 DEF SessionCurrent
  <2> QED BY <1>1, <1>5, <2>1
<1> QED BY <1>2, <1>3, <1>4, <1>5

LEMMA WrittenAlone ==
    ASSUME NEW rows, NEW next, NEW run, SessionCurrent(run, rows, next), rows \subseteq WeekEntry,
           Alone(rows), Sees(run, rows) \subseteq WeekEntry, Alone(Sees(run, rows))
    PROVE  /\ Alone(Written(run, rows))
           /\ \A x \in Written(run, rows) : \E v \in Sees(run, rows) : v.id = x.id
PROOF
<1> DEFINE kept == {f \in rows : f.id \notin run.gone}
           held(e) == CHOOSE h \in run.held : h.id = e.id
           as(e) == IF e.id \in run.changed THEN [e EXCEPT !.snap = held(e).snap] ELSE e
           own == {h \in run.held : h.id \in run.new}
<1>1. Written(run, rows) = {as(e) : e \in kept} \cup own
  BY DEF Written
<1>2. Sees(run, rows) = run.held \cup {e \in rows : /\ e.id \notin run.gone
                                                   /\ \A h \in run.held : h.id # e.id}
  BY SeesCurrent
<1>3. \A e \in kept : as(e).id = e.id
  BY DEF WeekEntry
<1>4. \A e \in kept : e.id \in IdsOf(rows)
  BY DEF IdsOf
<1>5. \A h \in own : h.id \notin IdsOf(rows)
  BY DEF SessionCurrent
<1>6. /\ \A e, f \in kept : e.id = f.id => e = f
      /\ \A e, f \in own : e.id = f.id => e = f
  BY <1>2 DEF Alone
<1>7. /\ \A e \in kept : \E v \in Sees(run, rows) : v.id = e.id
      /\ \A h \in own : h \in Sees(run, rows)
  BY <1>2
<1>10. \A x \in Written(run, rows) :
          x \in own \/ \E e \in kept : x = as(e) /\ x.id = e.id
  BY <1>1, <1>3
<1> HIDE DEF as, kept, own
<1>8. Alone(Written(run, rows))
  <2> SUFFICES ASSUME NEW x \in Written(run, rows), NEW y \in Written(run, rows), x.id = y.id
               PROVE  x = y
    BY DEF Alone
  <2>1. CASE x \in own /\ y \in own
    BY <1>6, <2>1
  <2>2. ASSUME NEW e \in kept, x = as(e), x.id = e.id PROVE x = y
    <3>1. y \notin own
      BY <1>4, <1>5, <2>2
    <3>2. PICK d \in kept : y = as(d) /\ y.id = d.id
      BY <1>10, <3>1
    <3> QED BY <1>6, <2>2, <3>2
  <2>3. ASSUME x \in own, NEW e \in kept, y = as(e), y.id = e.id PROVE FALSE
    BY <1>4, <1>5, <2>3
  <2> QED BY <1>10, <2>1, <2>2, <2>3
<1>9. \A x \in Written(run, rows) : \E v \in Sees(run, rows) : v.id = x.id
  BY <1>7, <1>10
<1> QED BY <1>8, <1>9

LEMMA WrittenKeeps ==
    ASSUME NEW rows, NEW next, NEW before, NEW given, NEW run, SessionCurrent(run, rows, next),
           Slots(rows, next, before), Slots(Sees(run, rows), next, given), given \subseteq Snap
    PROVE  Slots({[e EXCEPT !.rank = RankIn(Renumbered(Sees(run, rows)), e)]
                  : e \in Written(run, rows)}, next, given)
PROOF
<1> DEFINE vs == Sees(run, rows)
           ws == Written(run, rows)
           rank(e) == RankIn(Renumbered(vs), e)
           row(v) == CHOOSE x \in ws : x.id = v.id
           f == [v \in vs |-> [row(v) EXCEPT !.rank = rank(row(v))]]
<1>1. /\ rows \subseteq WeekEntry /\ vs \subseteq WeekEntry /\ IsFiniteSet(vs)
      /\ Alone(rows) /\ Alone(vs)
  BY DEF Slots, Alone
<1>2. \A v \in vs : \E x \in ws : x \in WeekEntry /\ x.id = v.id /\ x.snap = v.snap
  BY <1>1, WrittenRow
<1>3. Alone(ws) /\ \A x \in ws : \E v \in vs : v.id = x.id
  BY <1>1, WrittenAlone
<1>4. \A x \in ws : rank(x) \in Nat
  BY <1>1, <1>3, RanksOfRead
<1> HIDE DEF vs, ws, rank
<1>5. \A v \in vs : /\ row(v) \in ws /\ row(v) \in WeekEntry
                    /\ row(v).id = v.id /\ row(v).snap = v.snap
  BY <1>2, <1>3 DEF Alone
<1>6. \A x \in ws : \E v \in vs : row(v) = x
  BY <1>3, <1>5 DEF Alone
<1> HIDE DEF row
<1>7. \A v \in vs : f[v] \in WeekEntry /\ f[v].id = v.id /\ f[v].snap = v.snap
  <2> TAKE v \in vs
  <2>1. PICK n \in Nat : n = rank(row(v))
    BY <1>4, <1>5
  <2>2. f[v] = [row(v) EXCEPT !.rank = n]
    BY <2>1
  <2> QED BY <1>5, <2>2 DEF WeekEntry
<1>8. {[e EXCEPT !.rank = rank(e)] : e \in ws} = Replaced(vs, f)
  BY <1>5, <1>6 DEF Replaced
<1> HIDE DEF f
<1>9. \A v \in vs : /\ f[v] \in WeekEntry /\ f[v].id = v.id
                    /\ f[v].snap.market = v.snap.market
                    /\ f[v].snap.strength >= v.snap.strength
  <2>1. \A v \in vs : v.snap.strength \in Int
    BY <1>1, WeekAssumption DEF WeekEntry
  <2> QED BY <1>7, <2>1
<1>10. Slots(Replaced(vs, f), next, given)
  <2>1. Slots(vs, next, given)
    BY DEF vs
  <2> QED BY <1>9, <2>1, ReplacedOneForOne
<1> QED BY <1>8, <1>10 DEF vs, ws, rank

-----------------------------------------------------------------------------
(* What placing leaves of a session alone. *)
SameWork(a, b) == /\ Shaped(a) /\ a.stage = b.stage /\ a.batch = b.batch
                  /\ a.todo = b.todo /\ a.late = b.late

LEMMA HoldingSame ==
    ASSUME NEW run, Shaped(run), NEW es
    PROVE  SameWork(Holding(run, es), run)
BY DEF Shaped, SameWork, Session, Holding

LEMMA RetargetedSame ==
    ASSUME NEW run, Shaped(run), NEW e, NEW s
    PROVE  SameWork(Retargeted(run, e, s), run)
PROOF
<1>1. PICK a, c : /\ a = (run.held \ {e}) \cup {[e EXCEPT !.snap = s]}
                  /\ c = run.changed \cup ({e.id} \ run.new)
  OBVIOUS
<1>2. Retargeted(run, e, s) = [run EXCEPT !.held = a, !.changed = c]
  BY <1>1 DEF Retargeted
<1> QED BY <1>2 DEF Shaped, SameWork, Session

LEMMA AddedSame ==
    ASSUME NEW run, Shaped(run), NEW s, NEW rank, NEW id
    PROVE  SameWork(Added(run, s, rank, id), run)
PROOF
<1>1. PICK a, n : /\ a = run.held \cup {[id |-> id, snap |-> s, rank |-> rank, frozen |-> FALSE]}
                  /\ n = run.new \cup {id}
  OBVIOUS
<1>2. Added(run, s, rank, id) = [run EXCEPT !.held = a, !.new = n]
  BY <1>1 DEF Added
<1> QED BY <1>2 DEF Shaped, SameWork, Session

LEMMA RemovedSame ==
    ASSUME NEW run, Shaped(run), NEW e
    PROVE  SameWork(Removed(run, e), run)
PROOF
<1>1. PICK a, n, c, g : /\ a = run.held \ {e} /\ n = run.new \ {e.id}
                        /\ c = run.changed \ {e.id} /\ g = run.gone \cup {e.id}
  OBVIOUS
<1>2. Removed(run, e) = [run EXCEPT !.held = a, !.new = n, !.changed = c, !.gone = g]
  BY <1>1 DEF Removed
<1> QED BY <1>2 DEF Shaped, SameWork, Session

(* A session whose list is sound, with one more signal placed. *)
Sound(run, rows, next, given) ==
    SessionCurrent(run, rows, next) /\ Slots(Sees(run, rows), next, given)

LEMMA SoundHolding ==
    ASSUME NEW rows, Alone(rows), NEW next, NEW given,
           NEW run, Shaped(run), Sound(run, rows, next, given),
           NEW es \in SUBSET Sees(run, rows)
    PROVE  /\ Sound(Holding(run, es), rows, next, given)
           /\ Sees(Holding(run, es), rows) = Sees(run, rows)
           /\ Holding(run, es).held = run.held \cup es
BY HoldingKeeps DEF Sound

LEMMA SoundUpgrade ==
    ASSUME NEW rows, NEW next, NEW given, given \subseteq Snap,
           NEW run, Shaped(run), Sound(run, rows, next, given),
           NEW s \in Snap, Eligible(s), NEW e \in run.held, e \in Sees(run, rows),
           e.snap.market = s.market
    PROVE  Sound(IF Before(SnapKey(s), EntryKey(e)) THEN Retargeted(run, e, s) ELSE run,
                 rows, next, given \cup {s})
PROOF
<1> DEFINE vs == Sees(run, rows)
<1>1. Slots(vs, next, given) /\ e \in vs /\ e \in WeekEntry /\ Alone(vs)
  BY DEF Sound, Slots, Alone
<1>2. CASE Before(SnapKey(s), EntryKey(e))
  <2>1. /\ SessionCurrent(Retargeted(run, e, s), rows, next)
        /\ Sees(Retargeted(run, e, s), rows) = (vs \ {e}) \cup {[e EXCEPT !.snap = s]}
    <3>1. SessionCurrent(run, rows, next)
      BY DEF Sound
    <3> QED BY <3>1, <1>1, RetargetedKeeps
  <2>2. PICK fs : fs = (vs \ {e}) \cup {[e EXCEPT !.snap = s]}
    OBVIOUS
  <2>3. Slots(fs, next, given \cup {s})
    BY <1>1, <1>2, <2>2, UpgradeKeeps
  <2> QED BY <1>2, <2>1, <2>2, <2>3 DEF Sound
<1>3. CASE ~Before(SnapKey(s), EntryKey(e))
  <2>1. Slots(vs, next, given \cup {s})
    BY <1>1, <1>3, UpgradeKeeps
  <2> QED BY <1>3, <2>1 DEF Sound
<1> QED BY <1>2, <1>3

LEMMA SoundAdded ==
    ASSUME NEW rows, NEW next, NEW before, Slots(rows, next, before),
           NEW run, Shaped(run), SessionCurrent(run, rows, next),
           \A h \in run.held : h.id < next, NEW s, NEW rank
    PROVE  /\ SessionCurrent(Added(run, s, rank, next), rows, next + 1)
           /\ Sees(Added(run, s, rank, next), rows)
                = Sees(run, rows) \cup {[id |-> next, snap |-> s, rank |-> rank, frozen |-> FALSE]}
PROOF
<1>1. next \in Nat /\ \A e \in rows : e.id < next
  BY DEF Slots
<1> QED BY <1>1, AddedKeeps

LEMMA SoundEnter ==
    ASSUME NEW rows, NEW next, NEW given, NEW before, Slots(rows, next, before),
           given \subseteq Snap, NEW run, Shaped(run), Sound(run, rows, next, given),
           NEW s \in Snap, Eligible(s), Cardinality(Sees(run, rows)) < TargetSize,
           ~(\E e \in Sees(run, rows) : e.snap.market = s.market)
    PROVE  Sound(Added(run, s, Cardinality(Sees(run, rows)) + 1, next), rows, next + 1,
                 given \cup {s})
PROOF
<1> DEFINE vs == Sees(run, rows)
<1>1. PICK rank : rank = Cardinality(vs) + 1
  OBVIOUS
<1>2. rank \in Nat
  BY <1>1, FS_CardinalityType DEF Sound, Slots
<1>3. \A h \in run.held : h.id < next
  BY SeesCurrent DEF Sound, Slots
<1>4. /\ SessionCurrent(Added(run, s, rank, next), rows, next + 1)
      /\ Sees(Added(run, s, rank, next), rows)
           = vs \cup {[id |-> next, snap |-> s, rank |-> rank, frozen |-> FALSE]}
  BY <1>3, SoundAdded DEF Sound
<1>5. Slots(vs, next, given)
  BY DEF Sound
<1>6. Slots(vs \cup {[id |-> next, snap |-> s, rank |-> rank, frozen |-> FALSE]}, next + 1,
            given \cup {s})
  BY <1>2, <1>5, EnterKeeps
<1> QED BY <1>1, <1>4, <1>6 DEF Sound

LEMMA SoundFull ==
    ASSUME NEW rows, NEW next, NEW given, NEW before, Slots(rows, next, before),
           given \subseteq Snap, NEW run, Shaped(run), Sound(run, rows, next, given),
           run.held = Sees(run, rows),
           NEW s \in Snap, Eligible(s), Cardinality(Sees(run, rows)) >= TargetSize,
           ~(\E e \in Sees(run, rows) : e.snap.market = s.market),
           NEW w \in Sees(run, rows),
           \A f \in Sees(run, rows) \ {w} : Before(EntryKey(f), EntryKey(w))
    PROVE  /\ Before(SnapKey(s), EntryKey(w)) =>
                 Sound(Added(Removed(run, w), s, w.rank, next), rows, next + 1, given \cup {s})
           /\ ~Before(SnapKey(s), EntryKey(w)) => Sound(run, rows, next, given \cup {s})
PROOF
<1> DEFINE vs == Sees(run, rows)
           less == Removed(run, w)
<1>1. /\ Slots(vs, next, given) /\ Alone(vs) /\ w \in run.held /\ w.id \in Nat /\ w.id < next
      /\ next \in Nat /\ w \in WeekEntry
  BY DEF Sound, Slots, Alone, WeekEntry
<1>2. PICK rank : rank = w.rank
  OBVIOUS
<1>3. /\ less.held = run.held \ {w}
      /\ SessionCurrent(less, rows, next) /\ Sees(less, rows) = vs \ {w}
  <2>1. SessionCurrent(run, rows, next)
    BY DEF Sound
  <2> QED BY <1>1, <2>1, RemovedKeeps
<1>4. Shaped(less)
  BY RemovedSame DEF SameWork
<1>5. \A h \in less.held : h.id < next
  BY <1>3 DEF Sound, Slots
<1> HIDE DEF less
<1>6. /\ SessionCurrent(Added(less, s, rank, next), rows, next + 1)
      /\ Sees(Added(less, s, rank, next), rows)
           = (vs \ {w}) \cup {[id |-> next, snap |-> s, rank |-> rank, frozen |-> FALSE]}
  <2>1. SessionCurrent(less, rows, next)
    BY <1>3
  <2>2. /\ SessionCurrent(Added(less, s, rank, next), rows, next + 1)
        /\ Sees(Added(less, s, rank, next), rows)
             = Sees(less, rows) \cup {[id |-> next, snap |-> s, rank |-> rank, frozen |-> FALSE]}
    BY <2>1, <1>4, <1>5, SoundAdded
  <2> QED BY <1>3, <2>2
<1>7. /\ ~Before(SnapKey(s), EntryKey(w)) => Slots(vs, next, given \cup {s})
      /\ Before(SnapKey(s), EntryKey(w)) =>
            Slots((vs \ {w}) \cup {[id |-> next, snap |-> s, rank |-> rank, frozen |-> FALSE]},
                  next + 1, given \cup {s})
  BY <1>1, <1>2, FullListKeeps
<1> QED BY <1>2, <1>6, <1>7 DEF Sound, less

-----------------------------------------------------------------------------
LEMMA SlotsLater ==
    ASSUME NEW rows, NEW next, NEW given, Slots(rows, next, given),
           NEW later \in Nat, next <= later
    PROVE  Slots(rows, later, given)
PROOF
<1>1. \A e \in rows : e.id \in Nat /\ e.id < later
  BY DEF Slots, WeekEntry
<1> QED BY <1>1 DEF Slots

LEMMA SessionLater ==
    ASSUME NEW rows, NEW next \in Nat, NEW given, NEW run, SessionSound(run, rows, next, given),
           NEW later \in Nat, next <= later
    PROVE  SessionSound(run, rows, later, given)
PROOF
<1>1. ASSUME SessionCurrent(run, rows, next)
      PROVE  SessionCurrent(run, rows, later)
  BY <1>1 DEF SessionCurrent
<1>2. ASSUME Slots(Sees(run, rows), next, given \cup (run.batch \ run.todo))
      PROVE  Slots(Sees(run, rows), later, given \cup (run.batch \ run.todo))
  BY <1>2, SlotsLater
<1> QED BY <1>1, <1>2 DEF SessionSound

(* A run that has not looked yet sees the list as it is. *)
LEMMA FreshSound ==
    ASSUME NEW rows, NEW next, NEW given, Slots(rows, next, given), given \subseteq Snap,
           NEW run, Shaped(run), run.stage # "placing", run.batch \subseteq Snap,
           run.todo = {s \in run.batch : Eligible(s)},
           run.held = {}, run.new = {}, run.changed = {}, run.gone = {}
    PROVE  SessionSound(run, rows, next, given)
PROOF
<1>1. SessionCurrent(run, rows, next)
  BY DEF SessionCurrent
<1>2. Sees(run, rows) = rows
  <2>1. Sees(run, rows) = {} \cup {e \in rows : e.id \notin {} /\ \A h \in {} : h.id # e.id}
    BY <1>1, SeesCurrent
  <2> QED BY <2>1
<1>3. \A s \in given \cup (run.batch \ run.todo) : Eligible(s) => s \in given
  OBVIOUS
<1>4. Slots(rows, next, given \cup (run.batch \ run.todo))
  <2>1. PICK more : more = given \cup (run.batch \ run.todo)
    OBVIOUS
  <2> QED BY <1>3, <2>1 DEF Slots
<1> QED BY <1>1, <1>2, <1>4 DEF SessionSound, Shaped

LEMMA IdleSound ==
    ASSUME NEW rows, NEW next, NEW given, Slots(rows, next, given), given \subseteq Snap
    PROVE  SessionSound(Idle, rows, next, given)
PROOF
<1>1. /\ Shaped(Idle) /\ Idle.stage # "placing" /\ Idle.batch = {} /\ Idle.todo = {}
      /\ Idle.held = {} /\ Idle.new = {} /\ Idle.changed = {} /\ Idle.gone = {}
  BY DEF Idle, Shaped, Session
<1> HIDE DEF Idle
<1>2. {s \in Idle.batch : Eligible(s)} = {}
  BY <1>1
<1> QED BY <1>1, <1>2, FreshSound

(* One signal of a run, as PlaceNext places it. *)
Placing(x, s, run) ==
    /\ Shaped(run) /\ run.stage = "placing" /\ run.todo = x.todo \ {s} /\ run.batch = x.batch
    /\ run.late = x.late /\ run.held = x.held /\ run.new = x.new
    /\ run.changed = x.changed /\ run.gone = x.gone

LEMMA PlacedSound ==
    ASSUME NEW rows, NEW next, NEW given, Slots(rows, next, given), given \subseteq Snap,
           NEW x, SessionSound(x, rows, next, given), NEW s \in x.todo, NEW run,
           Placing(x, s, run)
    PROVE  /\ \A e \in Sees(run, rows) : e.snap.market = s.market =>
                 SessionSound(IF Before(SnapKey(s), EntryKey(e))
                              THEN Retargeted(Holding(run, {e}), e, s)
                              ELSE Holding(run, {e}), rows, next, given)
           /\ ~(\E e \in Sees(run, rows) : e.snap.market = s.market) =>
              /\ Cardinality(Sees(run, rows)) < TargetSize =>
                    SessionSound(Added(Holding(run, Sees(run, rows)), s,
                                       Cardinality(Sees(run, rows)) + 1, next),
                                 rows, next + 1, given)
              /\ Cardinality(Sees(run, rows)) >= TargetSize =>
                    \A w \in Sees(run, rows) :
                       (\A f \in Sees(run, rows) \ {w} : Before(EntryKey(f), EntryKey(w))) =>
                       IF Before(SnapKey(s), EntryKey(w))
                       THEN SessionSound(Added(Removed(Holding(run, Sees(run, rows)), w), s,
                                               w.rank, next), rows, next + 1, given)
                       ELSE SessionSound(Holding(run, Sees(run, rows)), rows, next, given)
PROOF
<1> DEFINE vs == Sees(run, rows)
           done == given \cup (x.batch \ x.todo)
           read == Holding(run, vs)
<1>1. /\ Shaped(x) /\ x.batch \subseteq Snap /\ x.todo \subseteq {q \in x.batch : Eligible(q)}
      /\ ~x.late => SessionCurrent(x, rows, next) /\ Slots(Sees(x, rows), next, done)
  BY DEF SessionSound, Shaped
<1>2. PICK left : left = x.todo \ {s}
  OBVIOUS
<1>3. /\ Shaped(run) /\ run.stage = "placing" /\ run.todo = left /\ run.batch = x.batch
      /\ run.late = x.late /\ run.held = x.held /\ run.new = x.new
      /\ run.changed = x.changed /\ run.gone = x.gone
  BY <1>2 DEF Placing
<1>4. ~run.late => Sound(run, rows, next, done)
  <2>1. Sees(run, rows) = Sees(x, rows)
    BY <1>3 DEF Sees
  <2>2. SessionCurrent(x, rows, next) => SessionCurrent(run, rows, next)
    BY <1>3 DEF SessionCurrent
  <2> QED BY <1>1, <1>3, <2>1, <2>2 DEF Sound
<1>5. /\ s \in Snap /\ Eligible(s) /\ done \subseteq Snap
      /\ done \cup {s} = given \cup (run.batch \ run.todo)
  BY <1>1, <1>2, <1>3
<1>6. ASSUME NEW y, NEW n, SameWork(y, run), ~y.late => Sound(y, rows, n, done \cup {s})
      PROVE  SessionSound(y, rows, n, given)
  <2>1. /\ y.stage = "placing" /\ y.batch = x.batch /\ y.todo = left
        /\ y.todo \subseteq {q \in y.batch : Eligible(q)}
    BY <1>1, <1>2, <1>3, <1>6 DEF SameWork
  <2>2. done \cup {s} = given \cup (y.batch \ y.todo)
    BY <1>3, <1>5, <2>1
  <2> QED BY <1>1, <1>6, <2>1, <2>2 DEF SessionSound, SameWork, Shaped, Sound
<1> HIDE DEF done
<1>7. /\ SameWork(read, run)
      /\ ~run.late => /\ Sound(read, rows, next, done) /\ Sees(read, rows) = vs
                      /\ read.held = vs
  <2>1. SameWork(read, run)
    BY <1>3, HoldingSame
  <2>2. ASSUME ~run.late
        PROVE  /\ Sound(read, rows, next, done) /\ Sees(read, rows) = vs
               /\ read.held = vs
    <3>1. /\ Sound(read, rows, next, done) /\ Sees(read, rows) = vs
          /\ read.held = run.held \cup vs
      <4>1. Shaped(run) /\ Sound(run, rows, next, done)
        BY <1>3, <1>4, <2>2
      <4>2. vs \in SUBSET Sees(run, rows) /\ Alone(rows)
        BY DEF Slots, Alone
      <4> HIDE DEF vs
      <4>3. /\ Sound(Holding(run, vs), rows, next, done)
            /\ Sees(Holding(run, vs), rows) = Sees(run, rows)
            /\ Holding(run, vs).held = run.held \cup vs
        BY <4>1, <4>2, SoundHolding
      <4> QED BY <4>3 DEF vs
    <3>2. run.held \subseteq vs
      BY <1>4, <2>2, SeesCurrent DEF Sound
    <3> QED BY <3>1, <3>2
  <2> QED BY <2>1, <2>2
<1>8. ASSUME NEW e \in vs, e.snap.market = s.market
      PROVE  SessionSound(IF Before(SnapKey(s), EntryKey(e))
                          THEN Retargeted(Holding(run, {e}), e, s)
                          ELSE Holding(run, {e}), rows, next, given)
  <2>1. PICK h : h = Holding(run, {e})
    OBVIOUS
  <2>2. SameWork(h, run)
    BY <1>3, <2>1, HoldingSame
  <2>3. Shaped(h) /\ h.late = run.late
    BY <2>2 DEF SameWork
  <2>4. PICK y : y = IF Before(SnapKey(s), EntryKey(e)) THEN Retargeted(h, e, s) ELSE h
    OBVIOUS
  <2>5. SameWork(y, run)
    <3>1. SameWork(Retargeted(h, e, s), h)
      BY <2>3, RetargetedSame
    <3> QED BY <2>2, <2>4, <3>1 DEF SameWork
  <2>6. ASSUME ~y.late PROVE Sound(y, rows, next, done \cup {s})
    <3>1. ~run.late
      BY <2>5, <2>6 DEF SameWork
    <3>2. {e} \in SUBSET Sees(run, rows) /\ Alone(rows)
      BY <1>8 DEF Slots, Alone
    <3>3. /\ Sound(h, rows, next, done) /\ Sees(h, rows) = vs
          /\ h.held = run.held \cup {e}
      <4>1. Shaped(run) /\ Sound(run, rows, next, done)
        BY <1>3, <1>4, <3>1
      <4> HIDE DEF vs
      <4>2. /\ Sound(Holding(run, {e}), rows, next, done)
            /\ Sees(Holding(run, {e}), rows) = Sees(run, rows)
            /\ Holding(run, {e}).held = run.held \cup {e}
        BY <4>1, <3>2, SoundHolding
      <4> QED BY <2>1, <4>2 DEF vs
    <3>4. e \in h.held /\ e \in Sees(h, rows)
      BY <1>8, <3>3
    <3> QED BY <1>5, <1>8, <2>3, <2>4, <3>3, <3>4, SoundUpgrade
  <2> QED BY <1>6, <2>1, <2>4, <2>5, <2>6
<1>9. ASSUME ~(\E e \in vs : e.snap.market = s.market), Cardinality(vs) < TargetSize
      PROVE  SessionSound(Added(read, s, Cardinality(vs) + 1, next), rows, next + 1, given)
  <2>1. PICK h, rank : h = read /\ rank = Cardinality(vs) + 1
    OBVIOUS
  <2>2. PICK y : y = Added(h, s, rank, next)
    OBVIOUS
  <2>3. SameWork(y, run)
    <3>1. SameWork(y, h)
      BY <1>7, <2>1, <2>2, AddedSame DEF SameWork
    <3> QED BY <1>7, <2>1, <3>1 DEF SameWork
  <2>4. ASSUME ~y.late PROVE Sound(y, rows, next + 1, done \cup {s})
    <3>1. ~run.late
      BY <2>3, <2>4 DEF SameWork
    <3>2. Shaped(h) /\ Sound(h, rows, next, done) /\ Sees(h, rows) = vs
      BY <1>7, <2>1, <3>1 DEF SameWork
    <3>3. Sound(Added(h, s, Cardinality(Sees(h, rows)) + 1, next), rows, next + 1, done \cup {s})
      BY <1>5, <1>9, <3>2, SoundEnter
    <3> QED BY <2>1, <2>2, <3>2, <3>3
  <2> QED BY <1>6, <2>1, <2>2, <2>3, <2>4
<1>10. ASSUME ~(\E e \in vs : e.snap.market = s.market), Cardinality(vs) >= TargetSize,
              NEW w \in vs, \A f \in vs \ {w} : Before(EntryKey(f), EntryKey(w))
       PROVE  IF Before(SnapKey(s), EntryKey(w))
              THEN SessionSound(Added(Removed(read, w), s, w.rank, next), rows, next + 1, given)
              ELSE SessionSound(read, rows, next, given)
  <2>1. PICK h : h = read
    OBVIOUS
  <2>2. SameWork(h, run) /\ Shaped(h)
    BY <1>7, <2>1 DEF SameWork
  <2>3. ASSUME ~run.late
        PROVE  /\ Before(SnapKey(s), EntryKey(w)) =>
                     Sound(Added(Removed(h, w), s, w.rank, next), rows, next + 1, done \cup {s})
               /\ ~Before(SnapKey(s), EntryKey(w)) => Sound(h, rows, next, done \cup {s})
    <3>1. /\ Sound(h, rows, next, done) /\ Sees(h, rows) = vs /\ h.held = vs
      BY <1>7, <2>1, <2>3
    <3>2. h.held = Sees(h, rows)
      BY <3>1
    <3>3. /\ Cardinality(Sees(h, rows)) >= TargetSize
          /\ ~(\E e \in Sees(h, rows) : e.snap.market = s.market)
          /\ w \in Sees(h, rows)
          /\ \A f \in Sees(h, rows) \ {w} : Before(EntryKey(f), EntryKey(w))
      BY <1>10, <3>1
    <3> QED BY <1>5, <2>2, <3>1, <3>2, <3>3, SoundFull
  <2>4. PICK y : y = Added(Removed(h, w), s, w.rank, next)
    OBVIOUS
  <2>5. SameWork(y, run)
    <3>1. SameWork(Removed(h, w), h)
      BY <2>2, RemovedSame
    <3>2. SameWork(y, Removed(h, w))
      BY <2>4, <3>1, AddedSame DEF SameWork
    <3> QED BY <2>2, <3>1, <3>2 DEF SameWork
  <2>6. Before(SnapKey(s), EntryKey(w)) => SessionSound(y, rows, next + 1, given)
    <3>1. y.late = run.late
      BY <2>5 DEF SameWork
    <3> QED BY <1>6, <2>3, <2>4, <2>5, <3>1
  <2>7. ~Before(SnapKey(s), EntryKey(w)) => SessionSound(h, rows, next, given)
    <3>1. h.late = run.late
      BY <2>2 DEF SameWork
    <3> QED BY <1>6, <2>2, <2>3, <3>1
  <2> QED BY <2>1, <2>4, <2>6, <2>7
<1> QED BY <1>8, <1>9, <1>10


LEMMA PlaceNextKeeps ==
    ASSUME SlotsInv, ~crossed, NEW r \in RankRun, PlaceNext(r)
    PROVE  SlotsInv'
PROOF
<1>1. /\ UNCHANGED <<entries, seen, freezing, crossed>>
  BY DEF PlaceNext
<1>2. /\ Slots(entries, nextEntry, seen) /\ seen \subseteq Snap /\ nextEntry \in Nat
      /\ \A u \in RankRun : SessionSound(ranking[u], entries, nextEntry, seen)
  BY DEF SlotsInv, Slots
<1>3. PICK s \in ranking[r].todo :
         LET run == [ranking[r] EXCEPT !.stage = "placing", !.todo = @ \ {s}]
             list == Sees(run, entries)
             atMarket == {e \in list : e.snap.market = s.market}
             read == Holding(run, list)
         IN  \/ \E e \in atMarket :
                   /\ ranking' = [ranking EXCEPT ![r] =
                         IF Before(SnapKey(s), EntryKey(e))
                         THEN Retargeted(Holding(run, {e}), e, s) ELSE Holding(run, {e})]
                   /\ UNCHANGED nextEntry
             \/ /\ atMarket = {} /\ Cardinality(list) < TargetSize
                /\ ranking' = [ranking EXCEPT ![r] =
                                 Added(read, s, Cardinality(list) + 1, nextEntry)]
                /\ nextEntry' = nextEntry + 1
             \/ /\ atMarket = {} /\ Cardinality(list) >= TargetSize
                /\ \E w \in list :
                      /\ \A f \in list \ {w} : Before(EntryKey(f), EntryKey(w))
                      /\ IF Before(SnapKey(s), EntryKey(w))
                         THEN /\ ranking' = [ranking EXCEPT ![r] =
                                               Added(Removed(read, w), s, w.rank, nextEntry)]
                              /\ nextEntry' = nextEntry + 1
                         ELSE /\ ranking' = [ranking EXCEPT ![r] = read]
                              /\ UNCHANGED nextEntry
  BY DEF PlaceNext
<1>4. PICK x : x = ranking[r]
  OBVIOUS
<1>5. PICK left : left = x.todo \ {s}
  OBVIOUS
<1>6. PICK run : run = [x EXCEPT !.stage = "placing", !.todo = left]
  OBVIOUS
<1>7. SessionSound(x, entries, nextEntry, seen) /\ s \in x.todo
  BY <1>2, <1>3, <1>4
<1>8. Placing(x, s, run)
  <2>1. PICK stage, saw, batch, todo, held, new, changed, gone, late :
           x = Session(stage, saw, batch, todo, held, new, changed, gone, late)
    BY <1>7 DEF SessionSound
  <2>2. run = Session("placing", saw, batch, left, held, new, changed, gone, late)
    BY <1>6, <2>1 DEF Session
  <2> QED BY <1>5, <2>1, <2>2 DEF Placing, Shaped, Session
<1>9. PICK vs : vs = Sees(run, entries)
  OBVIOUS
<1>10. PICK y : /\ ranking' = [ranking EXCEPT ![r] = y]
                /\ \/ nextEntry' = nextEntry
                   \/ nextEntry' = nextEntry + 1
                /\ SessionSound(y, entries, nextEntry', seen)
  <2>1. /\ \A e \in vs : e.snap.market = s.market =>
             SessionSound(IF Before(SnapKey(s), EntryKey(e))
                          THEN Retargeted(Holding(run, {e}), e, s)
                          ELSE Holding(run, {e}), entries, nextEntry, seen)
        /\ ~(\E e \in vs : e.snap.market = s.market) =>
              /\ Cardinality(vs) < TargetSize =>
                    SessionSound(Added(Holding(run, vs), s, Cardinality(vs) + 1, nextEntry),
                                 entries, nextEntry + 1, seen)
              /\ Cardinality(vs) >= TargetSize =>
                    \A w \in vs :
                       (\A f \in vs \ {w} : Before(EntryKey(f), EntryKey(w))) =>
                       IF Before(SnapKey(s), EntryKey(w))
                       THEN SessionSound(Added(Removed(Holding(run, vs), w), s,
                                               w.rank, nextEntry), entries, nextEntry + 1, seen)
                       ELSE SessionSound(Holding(run, vs), entries, nextEntry, seen)
    BY <1>2, <1>7, <1>8, <1>9, PlacedSound
  <2>2. CASE \E e \in vs : /\ e.snap.market = s.market /\ UNCHANGED nextEntry
                           /\ ranking' = [ranking EXCEPT ![r] =
                                 IF Before(SnapKey(s), EntryKey(e))
                                 THEN Retargeted(Holding(run, {e}), e, s)
                                 ELSE Holding(run, {e})]
    BY <2>1, <2>2
  <2>3. CASE /\ ~(\E e \in vs : e.snap.market = s.market) /\ Cardinality(vs) < TargetSize
             /\ ranking' = [ranking EXCEPT ![r] =
                              Added(Holding(run, vs), s, Cardinality(vs) + 1, nextEntry)]
             /\ nextEntry' = nextEntry + 1
    BY <2>1, <2>3
  <2>4. CASE /\ ~(\E e \in vs : e.snap.market = s.market) /\ Cardinality(vs) >= TargetSize
             /\ \E w \in vs :
                   /\ \A f \in vs \ {w} : Before(EntryKey(f), EntryKey(w))
                   /\ IF Before(SnapKey(s), EntryKey(w))
                      THEN /\ ranking' = [ranking EXCEPT ![r] =
                                    Added(Removed(Holding(run, vs), w), s, w.rank, nextEntry)]
                           /\ nextEntry' = nextEntry + 1
                      ELSE /\ ranking' = [ranking EXCEPT ![r] = Holding(run, vs)]
                           /\ UNCHANGED nextEntry
    <3>1. PICK w \in vs :
                   /\ \A f \in vs \ {w} : Before(EntryKey(f), EntryKey(w))
                   /\ IF Before(SnapKey(s), EntryKey(w))
                      THEN /\ ranking' = [ranking EXCEPT ![r] =
                                    Added(Removed(Holding(run, vs), w), s, w.rank, nextEntry)]
                           /\ nextEntry' = nextEntry + 1
                      ELSE /\ ranking' = [ranking EXCEPT ![r] = Holding(run, vs)]
                           /\ UNCHANGED nextEntry
      BY <2>4
    <3> QED BY <2>1, <2>4, <3>1
  <2>5. run = [ranking[r] EXCEPT !.stage = "placing", !.todo = ranking[r].todo \ {s}]
    BY <1>4, <1>5, <1>6
  <2> QED BY <1>3, <1>9, <2>2, <2>3, <2>4, <2>5
<1>11. nextEntry' \in Nat /\ nextEntry <= nextEntry'
  BY <1>2, <1>10
<1>12. Slots(entries, nextEntry', seen)
  BY <1>2, <1>11, SlotsLater
<1>13. /\ ranking' = [u \in RankRun |-> ranking'[u]] /\ ranking'[r] = y
       /\ \A u \in RankRun \ {r} : ranking'[u] = ranking[u]
  BY <1>10 DEF SlotsInv
<1>14. ASSUME NEW u \in RankRun PROVE SessionSound(ranking'[u], entries, nextEntry', seen)
  <2>1. SessionSound(ranking[u], entries, nextEntry', seen)
    BY <1>2, <1>11, SessionLater
  <2> QED BY <1>10, <1>13, <2>1
<1> QED BY <1>1, <1>2, <1>12, <1>13, <1>14 DEF SlotsInv

(* A rank run that begins or is lost. *)
LEMMA FreshKeeps ==
    ASSUME SlotsInv, ~crossed, NEW r \in RankRun, BeginRank(r) \/ LoseRank(r)
    PROVE  SlotsInv'
PROOF
<1>1. /\ UNCHANGED <<entries, nextEntry, seen, freezing, crossed>>
  BY DEF BeginRank, LoseRank
<1>2. /\ Slots(entries, nextEntry, seen) /\ seen \subseteq Snap
      /\ \A u \in RankRun : SessionSound(ranking[u], entries, nextEntry, seen)
  BY DEF SlotsInv
<1>3. PICK y : ranking' = [ranking EXCEPT ![r] = y] /\ SessionSound(y, entries, nextEntry, seen)
  <2>1. CASE LoseRank(r)
    BY <2>1, <1>2, IdleSound DEF LoseRank
  <2>2. CASE BeginRank(r)
    <3>1. PICK batch \in SUBSET Snap :
             ranking' = [ranking EXCEPT ![r] =
                [Idle EXCEPT !.stage = "read", !.saw = cohort, !.batch = batch,
                             !.todo = {s \in batch : Eligible(s)}]]
      BY <2>2 DEF BeginRank
    <3>2. PICK todo : todo = {s \in batch : Eligible(s)}
      OBVIOUS
    <3>3. PICK y : y = Session("read", cohort, batch, todo, {}, {}, {}, {}, FALSE)
      OBVIOUS
    <3>4. y = [Idle EXCEPT !.stage = "read", !.saw = cohort, !.batch = batch, !.todo = todo]
      <4>1. PICK saw, none : saw = cohort /\ none = {}
        OBVIOUS
      <4>2. Idle = Session("idle", "absent", none, none, none, none, none, none, FALSE)
        BY <4>1 DEF Session, Idle
      <4>3. PICK i : i = Session("idle", "absent", none, none, none, none, none, none, FALSE)
        OBVIOUS
      <4>4. PICK k : k = [i EXCEPT !.stage = "read", !.saw = saw, !.batch = batch, !.todo = todo]
        OBVIOUS
      <4>5. k = Session("read", saw, batch, todo, none, none, none, none, FALSE)
        BY <4>3, <4>4 DEF Session
      <4> QED BY <3>3, <4>1, <4>2, <4>3, <4>4, <4>5
    <3>5. /\ Shaped(y) /\ y.stage # "placing" /\ y.batch = batch /\ y.todo = todo
          /\ y.held = {} /\ y.new = {} /\ y.changed = {} /\ y.gone = {}
      BY <3>3 DEF Session, Shaped
    <3>6. SessionSound(y, entries, nextEntry, seen)
      BY <1>2, <3>2, <3>5, FreshSound
    <3> QED BY <3>1, <3>2, <3>4, <3>6
  <2> QED BY <2>1, <2>2
<1>4. /\ ranking' = [u \in RankRun |-> ranking'[u]] /\ ranking'[r] = y
      /\ \A u \in RankRun \ {r} : ranking'[u] = ranking[u]
  BY <1>3 DEF SlotsInv
<1>5. \A u \in RankRun : SessionSound(ranking'[u], entries, nextEntry, seen)
  BY <1>2, <1>3, <1>4
<1> QED BY <1>1, <1>2, <1>4, <1>5 DEF SlotsInv

-----------------------------------------------------------------------------
(* What a run makes of the list, over rows that differ in rank and mark only. *)
LEMMA SessionReplaced ==
    ASSUME NEW rows, NEW next, NEW given, given \subseteq Snap, rows \subseteq WeekEntry,
           NEW run, SessionSound(run, rows, next, given),
           NEW f, \A e \in rows : f[e] \in WeekEntry /\ f[e].id = e.id /\ f[e].snap = e.snap
    PROVE  SessionSound(run, Replaced(rows, f), next, given)
PROOF
<1> DEFINE later == Replaced(rows, f)
<1>1. CASE run.late
  BY <1>1 DEF SessionSound
<1>2. CASE ~run.late
  <2>1. SessionCurrent(run, rows, next)
    BY <1>2 DEF SessionSound
  <2>2. IdsOf(later) = IdsOf(rows)
    BY DEF IdsOf, Replaced
  <2>3. SessionCurrent(run, later, next)
    <3>1. ASSUME NEW h \in run.held
          PROVE  /\ h.id \notin run.gone
                 /\ \/ h.id \in run.new
                    \/ \E e \in later : /\ e.id = h.id
                                        /\ h.id \notin run.changed => e.snap = h.snap
      <4>1. /\ h.id \notin run.gone
            /\ \/ h.id \in run.new
               \/ \E e \in rows : /\ e.id = h.id
                                  /\ h.id \notin run.changed => e.snap = h.snap
        BY <2>1, HeldRow
      <4>2. \A e \in rows : f[e] \in later
        BY DEF Replaced
      <4> QED BY <4>1, <4>2
    <3> HIDE DEF later
    <3> QED BY <2>1, <2>2, <3>1 DEF SessionCurrent
  <2> DEFINE vs == Sees(run, rows)
             done == given \cup (run.batch \ run.todo)
             g == [v \in vs |-> IF v \in run.held THEN v ELSE f[v]]
  <2>4. Slots(vs, next, done) /\ done \subseteq Snap
    BY <1>2 DEF SessionSound
  <2>5. vs = run.held \cup {e \in rows : e.id \notin run.gone /\ \A h \in run.held : h.id # e.id}
    BY <2>1, SeesCurrent
  <2>6. Sees(run, later)
          = run.held \cup {e \in later : e.id \notin run.gone /\ \A h \in run.held : h.id # e.id}
    BY <2>3, SeesCurrent
  <2>7. \A v \in vs : v \in WeekEntry /\ v.snap.strength \in Int
    BY <2>4, WeekAssumption DEF Slots, WeekEntry
  <2>8. \A v \in vs : g[v] \in WeekEntry /\ g[v].id = v.id /\ g[v].snap = v.snap
    BY <2>5, <2>7
  <2>9. Sees(run, later) = Replaced(vs, g)
    <3>1. ASSUME NEW v \in Sees(run, later) PROVE v \in Replaced(vs, g)
      <4>1. CASE v \in run.held
        BY <4>1, <2>5 DEF Replaced
      <4>2. CASE v \notin run.held
        <5>1. v \in later /\ v.id \notin run.gone /\ \A h \in run.held : h.id # v.id
          BY <4>2, <2>6, <3>1
        <5>2. PICK e \in rows : v = f[e]
          BY <5>1 DEF Replaced
        <5>3. e.id = v.id /\ e \in vs /\ e \notin run.held
          BY <2>5, <5>1, <5>2
        <5>4. g[e] = v
          BY <5>2, <5>3
        <5> QED BY <5>3, <5>4 DEF Replaced
      <4> QED BY <4>1, <4>2
    <3>2. ASSUME NEW v \in vs PROVE g[v] \in Sees(run, later)
      <4>1. CASE v \in run.held
        BY <4>1, <2>6
      <4>2. CASE v \notin run.held
        <5>1. v \in rows /\ v.id \notin run.gone /\ \A h \in run.held : h.id # v.id
          BY <4>2, <2>5
        <5>2. f[v] \in later /\ f[v].id = v.id
          BY <5>1 DEF Replaced
        <5> QED BY <4>2, <5>1, <5>2, <2>6
      <4> QED BY <4>1, <4>2
    <3> HIDE DEF g, vs, later
    <3> QED BY <3>1, <3>2 DEF Replaced
  <2> HIDE DEF g, vs, later
  <2>10. Slots(Replaced(vs, g), next, done)
    <3>1. \A v \in vs : /\ g[v] \in WeekEntry /\ g[v].id = v.id
                        /\ g[v].snap.market = v.snap.market
                        /\ g[v].snap.strength >= v.snap.strength
      BY <2>7, <2>8
    <3> HIDE DEF done
    <3> QED BY <2>4, <3>1, ReplacedOneForOne
  <2> QED BY <2>3, <2>9, <2>10 DEF SessionSound, later
<1> QED BY <1>1, <1>2

(* The other runs when one commits: those that have looked are late. *)
LEMMA OvertakenSound ==
    ASSUME NEW rows, NEW next, NEW given, NEW x, SessionSound(x, rows, next, given),
           NEW after, NEW more, Slots(after, next, more), more \subseteq Snap
    PROVE  SessionSound([x EXCEPT !.late = x.late \/ x.stage = "placing"], after, next, more)
PROOF
<1>1. PICK late : late = (x.late \/ x.stage = "placing")
  OBVIOUS
<1>2. PICK y : y = [x EXCEPT !.late = late]
  OBVIOUS
<1>3. /\ Shaped(y) /\ y.stage = x.stage /\ y.batch = x.batch /\ y.todo = x.todo
      /\ y.held = x.held /\ y.new = x.new /\ y.changed = x.changed /\ y.gone = x.gone
      /\ y.late = late
  <2>1. PICK stage, saw, batch, todo, held, new, changed, gone, l :
           x = Session(stage, saw, batch, todo, held, new, changed, gone, l)
    BY DEF SessionSound
  <2>2. y = Session(stage, saw, batch, todo, held, new, changed, gone, late)
    BY <1>2, <2>1 DEF Session
  <2> QED BY <2>1, <2>2 DEF Shaped, Session
<1>4. /\ x.batch \subseteq Snap /\ x.todo \subseteq {s \in x.batch : Eligible(s)}
      /\ x.stage # "placing" => /\ x.todo = {s \in x.batch : Eligible(s)}
                                /\ x.held = {} /\ x.new = {}
                                /\ x.changed = {} /\ x.gone = {}
  BY DEF SessionSound
<1>0. SUFFICES SessionSound(y, after, next, more)
  BY <1>1, <1>2
<1>5. CASE x.stage = "placing"
  <2>1. y.late = TRUE
    BY <1>1, <1>3, <1>5
  <2>2. y.stage = "placing" /\ y.batch \subseteq Snap /\ y.todo \subseteq {s \in y.batch : Eligible(s)}
    BY <1>3, <1>4, <1>5
  <2> QED BY <1>3, <2>1, <2>2 DEF SessionSound, Shaped
<1>6. CASE x.stage # "placing"
  <2>1. /\ y.stage # "placing" /\ y.batch \subseteq Snap
        /\ y.todo = {s \in y.batch : Eligible(s)}
        /\ y.held = {} /\ y.new = {} /\ y.changed = {} /\ y.gone = {}
    BY <1>3, <1>4, <1>6
  <2> QED BY <1>3, <2>1, FreshSound
<1> QED BY <1>5, <1>6

LEMMA CommitRankKeeps ==
    ASSUME SlotsInv, ~crossed, ~crossed', NEW r \in RankRun, CommitRank(r)
    PROVE  SlotsInv'
PROOF
<1>1. /\ UNCHANGED <<nextEntry, freezing>>
      /\ ranking[r].todo = {} /\ ~ranking[r].late
      /\ seen' = seen \cup ranking[r].batch
      /\ entries' = {[e EXCEPT !.rank = RankIn(Renumbered(Sees(ranking[r], entries)), e)]
                     : e \in Written(ranking[r], entries)}
      /\ ranking' = [u \in RankRun |->
            IF u = r THEN Idle
            ELSE [ranking[u] EXCEPT !.late = ranking[u].late \/ ranking[u].stage = "placing"]]
  BY DEF CommitRank
<1>2. /\ Slots(entries, nextEntry, seen) /\ seen \subseteq Snap
      /\ freezing # NotFreezing => freezing \subseteq WeekEntry /\ IsFiniteSet(freezing)
      /\ \A u \in RankRun : SessionSound(ranking[u], entries, nextEntry, seen)
  BY DEF SlotsInv
<1>3. PICK x : x = ranking[r]
  OBVIOUS
<1>4. /\ SessionCurrent(x, entries, nextEntry) /\ x.batch \subseteq Snap
      /\ Slots(Sees(x, entries), nextEntry, seen \cup (x.batch \ x.todo))
  BY <1>1, <1>2, <1>3 DEF SessionSound
<1>5. seen \cup (x.batch \ x.todo) = seen' /\ seen' \subseteq Snap
  BY <1>1, <1>2, <1>3, <1>4
<1>6. Slots(entries', nextEntry, seen')
  <2>1. Slots(Sees(x, entries), nextEntry, seen')
    BY <1>4, <1>5
  <2>2. Slots({[e EXCEPT !.rank = RankIn(Renumbered(Sees(x, entries)), e)]
               : e \in Written(x, entries)}, nextEntry, seen')
    BY <1>2, <1>4, <1>5, <2>1, WrittenKeeps
  <2> QED BY <1>1, <1>3, <2>2
<1>7. ASSUME NEW u \in RankRun
      PROVE  SessionSound(ranking'[u], entries', nextEntry, seen')
  <2>1. CASE u = r
    BY <1>1, <1>5, <1>6, <2>1, IdleSound
  <2>2. CASE u # r
    <3>1. SessionSound([ranking[u] EXCEPT !.late = ranking[u].late \/ ranking[u].stage = "placing"],
                       entries', nextEntry, seen')
      BY <1>2, <1>5, <1>6, OvertakenSound
    <3> QED BY <1>1, <2>2, <3>1
  <2> QED BY <2>1, <2>2
<1>8. ranking' = [u \in RankRun |-> ranking'[u]]
  BY <1>1
<1> QED BY <1>1, <1>2, <1>5, <1>6, <1>7, <1>8 DEF SlotsInv

LEMMA CommitFreezeKeeps ==
    ASSUME SlotsInv, ~crossed, CommitFreeze
    PROVE  SlotsInv'
PROOF
<1> DEFINE rankOf(e) == RankIn(Renumbered(freezing), e)
           readIds == {e.id : e \in freezing}
<1>1. /\ freezing # NotFreezing /\ freezing' = NotFreezing
      /\ UNCHANGED <<nextEntry, seen, ranking, crossed>>
      /\ \/ entries' = {IF e.id \in readIds
                        THEN [e EXCEPT !.rank = rankOf(e), !.frozen = TRUE] ELSE e
                        : e \in entries}
         \/ entries' = entries
  BY DEF CommitFreeze
<1>2. /\ Slots(entries, nextEntry, seen) /\ seen \subseteq Snap
      /\ freezing \subseteq WeekEntry /\ IsFiniteSet(freezing)
      /\ ranking = [u \in RankRun |-> ranking[u]]
      /\ \A u \in RankRun : SessionSound(ranking[u], entries, nextEntry, seen)
  BY <1>1 DEF SlotsInv
<1>3. \A e \in entries : e.id \in readIds => rankOf(e) \in Nat
  BY <1>2, RanksOfRead
<1>4. PICK es, rank, ids : /\ es = entries /\ ids = readIds
                           /\ rank = [e \in entries |-> rankOf(e)]
  OBVIOUS
<1>5. CASE entries' = {IF e.id \in readIds
                       THEN [e EXCEPT !.rank = rankOf(e), !.frozen = TRUE] ELSE e
                       : e \in entries}
  <2> DEFINE f == [e \in es |-> IF e.id \in ids
                                THEN [e EXCEPT !.rank = rank[e], !.frozen = TRUE] ELSE e]
  <2>1. \A e \in es : e.id \in ids => rank[e] \in Nat
    BY <1>3, <1>4
  <2>2. \A e \in entries : rankOf(e) = rank[e]
    BY <1>4
  <2> HIDE DEF rankOf, readIds
  <2>3. entries' = Replaced(es, f)
    BY <1>4, <1>5, <2>2 DEF Replaced
  <2>4. \A e \in es : e \in WeekEntry /\ e.snap.strength \in Int
    BY <1>2, <1>4, WeekAssumption DEF Slots, WeekEntry
  <2>5. \A e \in es : f[e] \in WeekEntry /\ f[e].id = e.id /\ f[e].snap = e.snap
    BY <2>1, <2>4 DEF WeekEntry
  <2> HIDE DEF f
  <2>6. Slots(Replaced(es, f), nextEntry, seen)
    <3>1. \A e \in es : /\ f[e].snap.market = e.snap.market
                        /\ f[e].snap.strength >= e.snap.strength
      BY <2>4, <2>5
    <3> QED BY <1>2, <1>4, <2>5, <3>1, ReplacedOneForOne
  <2>7. ASSUME NEW u \in RankRun
        PROVE  SessionSound(ranking[u], Replaced(es, f), nextEntry, seen)
    <3>1. es \subseteq WeekEntry /\ SessionSound(ranking[u], es, nextEntry, seen)
      BY <1>2, <1>4, <2>4
    <3> QED BY <1>2, <2>5, <3>1, SessionReplaced
  <2> QED BY <1>1, <1>2, <2>3, <2>6, <2>7 DEF SlotsInv
<1>6. CASE entries' = entries
  BY <1>1, <1>2, <1>6 DEF SlotsInv
<1> QED BY <1>1, <1>5, <1>6

(* Once runs have crossed nothing is claimed. *)
LEMMA CrossedStep ==
    ASSUME SlotsInv, [KNext]_kVars
    PROVE  /\ crossed => crossed'
           /\ ranking' = [r \in RankRun |-> ranking'[r]]
PROOF
<1>1. ranking = [r \in RankRun |-> ranking[r]]
  BY DEF SlotsInv
<1>2. ASSUME NEW r \in RankRun, BeginRank(r) \/ LoseRank(r) \/ PlaceNext(r)
      PROVE  crossed' = crossed /\ \E y : ranking' = [ranking EXCEPT ![r] = y]
  <2>1. CASE BeginRank(r) \/ LoseRank(r)
    BY <2>1 DEF BeginRank, LoseRank
  <2>2. CASE PlaceNext(r)
    <3>1. crossed' = crossed
      BY <2>2 DEF PlaceNext
    <3>2. \E y : ranking' = [ranking EXCEPT ![r] = y]
      BY <2>2, Zenon DEF PlaceNext
    <3> QED BY <3>1, <3>2
  <2> QED BY <1>2, <2>1, <2>2
<1>3. ASSUME NEW r \in RankRun, CommitRank(r)
      PROVE  /\ crossed => crossed'
             /\ ranking' = [u \in RankRun |-> ranking'[u]]
  BY <1>3 DEF CommitRank
<1>4. CASE UNCHANGED <<crossed, ranking>>
  BY <1>1, <1>4
<1>5. CASE ReadToFreeze \/ CommitFreeze
  BY <1>4, <1>5 DEF ReadToFreeze, CommitFreeze
<1>6. ASSUME NEW t \in TrackRun,
             \/ FetchForward(t) \/ CommitForward(t)
             \/ FetchResolutions(t) \/ CommitResolutions(t)
             \/ ReadToEvaluate(t) \/ CommitEvaluation(t) \/ LoseTracking(t)
      PROVE  UNCHANGED <<crossed, ranking>>
  BY <1>6 DEF FetchForward, CommitForward, FetchResolutions, CommitResolutions,
              ReadToEvaluate, CommitEvaluation, LoseTracking, rankVars
<1>7. CASE AgeOn \/ CloseCohort
  BY <1>4, <1>7 DEF AgeOn, CloseCohort, rankVars
<1>8. CASE UNCHANGED kVars
  BY <1>4, <1>8 DEF kVars
<1> QED BY <1>1, <1>2, <1>3, <1>4, <1>5, <1>6, <1>7, <1>8 DEF KNext

LEMMA SlotsStep ==
    SlotsInv /\ [KNext]_kVars => SlotsInv'
PROOF
<1> SUFFICES ASSUME SlotsInv, [KNext]_kVars, ~crossed' PROVE SlotsInv'
  BY CrossedStep DEF SlotsInv
<1>0. ~crossed
  BY CrossedStep
<1>1. ASSUME NEW r \in RankRun, BeginRank(r) \/ PlaceNext(r) \/ CommitRank(r) \/ LoseRank(r)
      PROVE  SlotsInv'
  BY <1>0, <1>1, FreshKeeps, PlaceNextKeeps, CommitRankKeeps
<1>2. CASE ReadToFreeze
  <2>1. entries \subseteq WeekEntry /\ IsFiniteSet(entries)
    BY <1>0 DEF SlotsInv, Slots
  <2> QED BY <1>0, <1>2, <2>1 DEF ReadToFreeze, SlotsInv
<1>3. CASE CommitFreeze
  BY <1>0, <1>3, CommitFreezeKeeps
<1>4. CASE UNCHANGED <<entries, nextEntry, seen, ranking, crossed, freezing>>
  BY <1>4 DEF SlotsInv
<1>5. ASSUME NEW t \in TrackRun,
             \/ FetchForward(t) \/ CommitForward(t)
             \/ FetchResolutions(t) \/ CommitResolutions(t)
             \/ ReadToEvaluate(t) \/ CommitEvaluation(t) \/ LoseTracking(t)
      PROVE  SlotsInv'
  BY <1>4, <1>5 DEF FetchForward, CommitForward, FetchResolutions, CommitResolutions,
                    ReadToEvaluate, CommitEvaluation, LoseTracking, rankVars
<1>6. CASE AgeOn \/ CloseCohort
  BY <1>4, <1>6 DEF AgeOn, CloseCohort, rankVars
<1>7. CASE UNCHANGED kVars
  BY <1>4, <1>7 DEF kVars
<1> QED BY <1>1, <1>2, <1>3, <1>5, <1>6, <1>7 DEF KNext

(* engine.py: whatever batches the rank runs of a week were given, however     *)
(* their reads and commits overlap and whichever are lost: until a run commits *)
(* although another committed after it had looked at the entries, no           *)
(* qualifying signal among the batches is stronger than the entry of its       *)
(* market or, where its market has none, than any entry of a full list, the    *)
(* list is not overfull and no market has two entries.                         *)
THEOREM SlotsAreTheStrongest == KSpec => []SlotsHoldTheStrongest
PROOF
<1>1. KInit => SlotsInv
  <2> SUFFICES ASSUME KInit PROVE SlotsInv
    OBVIOUS
  <2>1. PICK none : none = {}
    OBVIOUS
  <2>2. Slots(none, 10, none)
    BY <2>1, WeekAssumption, FS_EmptySet DEF Slots
  <2>3. /\ entries = none /\ nextEntry = 10 /\ seen = none
        /\ ranking = [r \in RankRun |-> Idle] /\ freezing = NotFreezing
    BY <2>1 DEF KInit
  <2>4. SessionSound(Idle, none, 10, none)
    BY <2>1, <2>2, IdleSound
  <2> QED BY <2>1, <2>2, <2>3, <2>4 DEF SlotsInv
<1>2. SlotsInv => SlotsHoldTheStrongest
  <2> SUFFICES ASSUME SlotsInv, ~crossed PROVE SlotsHoldTheStrongest
    BY DEF SlotsHoldTheStrongest
  <2>1. /\ \A e, f \in entries : e.snap.market = f.snap.market => e = f
        /\ Cardinality(entries) <= TargetSize
        /\ \A s \in seen : Eligible(s) =>
              \/ \E e \in entries : e.snap.market = s.market /\ e.snap.strength >= s.strength
              \/ /\ Cardinality(entries) = TargetSize
                 /\ \A e \in entries : e.snap.strength >= s.strength
    BY DEF SlotsInv, Slots
  <2> QED BY <2>1 DEF SlotsHoldTheStrongest
<1> QED BY <1>1, <1>2, SlotsStep, PTL DEF KSpec

-----------------------------------------------------------------------------
(***************************************************************************)
(* The reconstructed screen.  A trade after the cutoff does not move the   *)
(* place where a history is cut and comes last behind it, so the first     *)
(* price at a day that was reached is the same.                            *)
(***************************************************************************)

Deal == [t : Nat, p : Price]
HistoriesTyped == now \in Nat /\ history \in [Token -> Seq(Deal)]

(* What is kept of a history when a trade after the cutoff is added. *)
LEMMA TradesAfterCutoff ==
    ASSUME NEW s \in Seq(Deal), NEW x \in Deal, x.t > AsOf
    PROVE  /\ UpToCutoff(Append(s, x)) = UpToCutoff(s)
           /\ AfterCutoff(s) \in Seq(Deal) /\ AfterCutoff(Append(s, x)) \in Seq(Deal)
           /\ Len(AfterCutoff(Append(s, x))) = Len(AfterCutoff(s)) + 1
           /\ \A k \in 1..Len(AfterCutoff(s)) :
                 AfterCutoff(Append(s, x))[k] = AfterCutoff(s)[k]
PROOF
<1>1. PICK r \in Seq(Deal) : r = Append(s, x)
  BY AppendProperties
<1>2. PICK n \in Nat : n = Len(s) /\ DOMAIN s = 1..n
  OBVIOUS
<1>3. /\ DOMAIN r = 1..(n + 1) /\ Len(r) = n + 1 /\ r[n + 1] = x
      /\ \A i \in 1..n : r[i] = s[i]
  BY <1>1, <1>2
<1>4. {i \in DOMAIN r : r[i].t <= AsOf} = {i \in DOMAIN s : s[i].t <= AsOf}
  BY <1>2, <1>3, ScreenAssumption DEF Deal
<1>5. PICK c \in 0..n : c = PlacesUpTo(s, AsOf)
  <2>1. /\ IsFiniteSet(1..n) /\ Cardinality(1..n) = n
    BY FS_Interval
  <2>2. /\ Cardinality({i \in 1..n : s[i].t <= AsOf}) \in Nat
        /\ Cardinality({i \in 1..n : s[i].t <= AsOf}) <= n
    <3>1. {i \in 1..n : s[i].t <= AsOf} \in SUBSET (1..n)
      OBVIOUS
    <3>2. PICK I \in SUBSET (1..n) : I = {i \in 1..n : s[i].t <= AsOf}
      BY <3>1
    <3> QED BY <2>1, <3>2, FS_Subset, FS_CardinalityType
  <2>3. PlacesUpTo(s, AsOf) = Cardinality({i \in 1..n : s[i].t <= AsOf})
    BY <1>2 DEF PlacesUpTo
  <2>4. PICK c : c = PlacesUpTo(s, AsOf)
    OBVIOUS
  <2>5. c \in Nat /\ c <= n
    BY <2>2, <2>3, <2>4
  <2> QED BY <1>2, <2>4, <2>5
<1>6. PlacesUpTo(r, AsOf) = c
  BY <1>4, <1>5 DEF PlacesUpTo
<1>7. /\ UpToCutoff(s) = SubSeq(s, 1, c) /\ UpToCutoff(r) = SubSeq(r, 1, c)
      /\ AfterCutoff(s) = SubSeq(s, c + 1, n) /\ AfterCutoff(r) = SubSeq(r, c + 1, n + 1)
  BY <1>2, <1>3, <1>5, <1>6 DEF UpToCutoff, AfterCutoff
<1>8. SubSeq(r, 1, c) = SubSeq(s, 1, c)
  <2>1. /\ SubSeq(s, 1, c) = [k \in 1..c |-> s[k]] /\ SubSeq(r, 1, c) = [k \in 1..c |-> r[k]]
    OBVIOUS
  <2>2. \A k \in 1..c : r[k] = s[k]
    BY <1>3
  <2> QED BY <2>1, <2>2
<1>9. /\ SubSeq(s, c + 1, n) \in Seq(Deal) /\ SubSeq(r, c + 1, n + 1) \in Seq(Deal)
      /\ Len(SubSeq(s, c + 1, n)) = n - c /\ Len(SubSeq(r, c + 1, n + 1)) = n + 1 - c
      /\ \A k \in 1..(n - c) : SubSeq(r, c + 1, n + 1)[k] = SubSeq(s, c + 1, n)[k]
  <2>1. /\ SubSeq(s, c + 1, n) \in Seq(Deal) /\ Len(SubSeq(s, c + 1, n)) = n - c
        /\ \A k \in 1..(n - c) : SubSeq(s, c + 1, n)[k] = s[c + k]
    BY <1>2, SubSeqProperties
  <2>2. /\ SubSeq(r, c + 1, n + 1) \in Seq(Deal) /\ Len(SubSeq(r, c + 1, n + 1)) = n + 1 - c
        /\ \A k \in 1..(n + 1 - c) : SubSeq(r, c + 1, n + 1)[k] = r[c + k]
    BY <1>3, SubSeqProperties
  <2>3. \A k \in 1..(n - c) : c + k \in 1..n /\ k \in 1..(n + 1 - c)
    OBVIOUS
  <2> QED BY <1>3, <2>1, <2>2, <2>3
<1>10. PICK before, later : before = AfterCutoff(s) /\ later = AfterCutoff(r)
  OBVIOUS
<1>11. /\ before \in Seq(Deal) /\ later \in Seq(Deal)
       /\ Len(later) = Len(before) + 1 /\ \A k \in 1..Len(before) : later[k] = before[k]
  <2>1. before = SubSeq(s, c + 1, n) /\ later = SubSeq(r, c + 1, n + 1)
    BY <1>7, <1>10
  <2>2. before \in Seq(Deal) /\ later \in Seq(Deal)
    BY <1>9, <2>1
  <2>3. Len(before) = n - c /\ Len(later) = n + 1 - c
    BY <1>9, <2>1
  <2>4. Len(later) = Len(before) + 1
    BY <1>5, <2>3
  <2>5. \A k \in 1..(n - c) : later[k] = before[k]
    BY <1>9, <2>1
  <2> QED BY <2>2, <2>3, <2>4, <2>5
<1>12. UpToCutoff(r) = UpToCutoff(s)
  BY <1>7, <1>8
<1> QED BY <1>1, <1>10, <1>11, <1>12

(* A price that was reached is not read from a later trade. *)
LEMMA ReachedPriceStays ==
    ASSUME NEW s \in Seq(Deal), NEW r \in Seq(Deal), s # <<>>, Len(r) = Len(s) + 1,
           \A i \in 1..Len(s) : r[i] = s[i], NEW t \in Nat, Last(s).t >= t
    PROVE  PriceAtOrAfter(r, t) = PriceAtOrAfter(s, t)
PROOF
<1> DEFINE reached(h) == {i \in DOMAIN h : h[i].t >= t}
<1>1. Len(s) \in reached(s) /\ DOMAIN s = 1..Len(s) /\ DOMAIN r = 1..(Len(s) + 1)
  BY DEF Last
<1>2. reached(s) \in SUBSET Nat /\ reached(s) # {}
  BY <1>1
<1>3. PICK least \in reached(s) : \A i \in reached(s) : least <= i
  <2> HIDE DEF reached
  <2> QED BY <1>2, LeastNumber
<1>4. least \in 1..Len(s) /\ least \in reached(r) /\ \A i \in reached(r) : least <= i
  BY <1>1, <1>3
<1>5. (\A i \in reached(s) : i \in Int) /\ \A i \in reached(r) : i \in Int
  BY <1>1
<1>6. PriceAtOrAfter(s, t) = s[Min(reached(s))].p /\ PriceAtOrAfter(r, t) = r[Min(reached(r))].p
  BY <1>3, <1>4 DEF PriceAtOrAfter
<1> HIDE DEF reached
<1>7. Min(reached(s)) = least /\ Min(reached(r)) = least
  <2>1. \A S : (least \in S /\ (\A i \in S : i \in Int) /\ \A i \in S : least <= i) => Min(S) = least
    <3> TAKE S
    <3> HAVE least \in S /\ (\A i \in S : i \in Int) /\ \A i \in S : least <= i
    <3>1. \A x \in S : (\A y \in S : x <= y) => x = least
      OBVIOUS
    <3> QED BY <3>1 DEF Min
  <2> QED BY <1>3, <1>4, <1>5, <2>1
<1> QED BY <1>4, <1>6, <1>7

(* A step after the cutoff, for one token. *)
LEMMA PastOfToken ==
    ASSUME HistoriesTyped, HNext, now > AsOf, NEW k \in Token
    PROVE  /\ Prefix(k)' = Prefix(k)
           /\ \/ Suffix(k)' = Suffix(k)
              \/ /\ Suffix(k) \in Seq(Deal) /\ Suffix(k)' \in Seq(Deal)
                 /\ Len(Suffix(k)') = Len(Suffix(k)) + 1
                 /\ \A i \in 1..Len(Suffix(k)) : Suffix(k)'[i] = Suffix(k)[i]
PROOF
<1>1. CASE history'[k] = history[k]
  BY <1>1 DEF Prefix, Suffix
<1>2. ASSUME NEW x \in Deal, x.t > AsOf, history'[k] = Append(history[k], x)
      PROVE  /\ Prefix(k)' = Prefix(k)
             /\ Suffix(k) \in Seq(Deal) /\ Suffix(k)' \in Seq(Deal)
             /\ Len(Suffix(k)') = Len(Suffix(k)) + 1
             /\ \A i \in 1..Len(Suffix(k)) : Suffix(k)'[i] = Suffix(k)[i]
  <2>1. PICK s \in Seq(Deal) : s = history[k]
    BY DEF HistoriesTyped
  <2> QED BY <1>2, <2>1, TradesAfterCutoff DEF Prefix, Suffix
<1>3. CASE \E j \in Token, p \in Price : Trade(j, p)
  <2>1. PICK j \in Token, p \in Price : Trade(j, p)
    BY <1>3
  <2>2. PICK x \in Deal : x = [t |-> now, p |-> p]
    BY DEF HistoriesTyped, Deal
  <2>3. /\ history' = [history EXCEPT ![j] = Append(history[j], x)]
        /\ history \in [Token -> Seq(Deal)] /\ x.t > AsOf
    BY <2>1, <2>2 DEF Trade, HistoriesTyped
  <2>4. history'[k] = history[k] \/ history'[k] = Append(history[k], x)
    BY <2>3
  <2> QED BY <1>1, <1>2, <2>3, <2>4
<1>4. CASE HAdvance
  BY <1>1, <1>4 DEF HAdvance
<1>5. CASE \E open \in SUBSET ToSet(active) : \E order \in SetToSeqs(open) : Reorder(order)
  BY <1>1, <1>5 DEF Reorder
<1> QED BY <1>3, <1>4, <1>5 DEF HNext

LEMMA ReadingsOfToken ==
    ASSUME HistoriesTyped, HNext, now > AsOf, NEW k \in Token
    PROVE  /\ Reading(k)' = Reading(k) /\ Strength(k)' = Strength(k)
           /\ Suffix(k) # <<>> => Qualifies(k)' = Qualifies(k)
           /\ Suffix(k) # <<>> /\ Last(Suffix(k)).t >= AsOf + Day => DayObs(k)' = DayObs(k)
PROOF
<1>1. Prefix(k)' = Prefix(k)
  BY PastOfToken
<1>2. EntryPrice(k)' = EntryPrice(k)
  BY <1>1 DEF EntryPrice
<1>4. Strength(k)' = Strength(k)
  BY <1>1 DEF Strength
<1>7. Reading(k)' = Reading(k)
  BY <1>1 DEF Reading
<1>8. ASSUME Suffix(k) # <<>> PROVE Qualifies(k)' = Qualifies(k)
  <2>1. Suffix(k)' # <<>>
    BY <1>8, PastOfToken
  <2> QED BY <1>1, <1>8, <2>1 DEF Qualifies
<1>9. ASSUME Suffix(k) # <<>>, Last(Suffix(k)).t >= AsOf + Day
      PROVE  DayObs(k)' = DayObs(k)
  <2>1. PICK s : s = Suffix(k)
    OBVIOUS
  <2>2. PICK r : r = Suffix(k)'
    OBVIOUS
  <2>3. PriceAtOrAfter(r, AsOf + Day) = PriceAtOrAfter(s, AsOf + Day)
    <3>1. CASE r = s
      BY <3>1
    <3>2. CASE r # s
      <4>1. /\ s \in Seq(Deal) /\ r \in Seq(Deal) /\ Len(r) = Len(s) + 1
            /\ \A i \in 1..Len(s) : r[i] = s[i]
        BY <2>1, <2>2, <3>2, PastOfToken
      <4>2. PICK t \in Nat : t = AsOf + Day
        BY ScreenAssumption
      <4> QED BY <1>9, <2>1, <4>1, <4>2, ReachedPriceStays
    <3> QED BY <3>1, <3>2
  <2>4. DayObs(k) = [entry |-> [mid |-> EntryPrice(k)], mid |-> PriceAtOrAfter(s, AsOf + Day)]
    BY <2>1 DEF DayObs
  <2>5. DayObs(k)' = [entry |-> [mid |-> EntryPrice(k)'], mid |-> PriceAtOrAfter(r, AsOf + Day)]
    BY <2>2 DEF DayObs
  <2> QED BY <1>2, <2>3, <2>4, <2>5
<1> QED BY <1>4, <1>7, <1>8, <1>9

LEMMA StepAfterCutoff ==
    ASSUME HistoriesTyped, HNext, now > AsOf
    PROVE  ReadingsStand /\ ScoresStand
PROOF
<1>1. Candidates \in SUBSET Token /\ Deduped \in SUBSET Candidates /\ Top \in SUBSET Deduped
  BY DEF Candidates, Deduped, Top
<1>2. \A k \in Deduped : Suffix(k) # <<>>
  BY DEF Deduped, Qualifies
<1>3. ReadingsStand
  <2>1. ASSUME NEW k \in Candidates, k \in Candidates', Suffix(k) # <<>>
        PROVE  /\ Reading(k)' = Reading(k) /\ Qualifies(k)' = Qualifies(k)
               /\ Last(Suffix(k)).t >= AsOf + Day => DayObs(k)' = DayObs(k)
    BY <1>1, <2>1, ReadingsOfToken
  <2>2. \A k \in Deduped : Strength(k)' = Strength(k)
    BY <1>1, ReadingsOfToken
  <2>3. \A j, k \in Deduped \cap (Deduped)' :
           Strength(j) # Strength(k) => (Above(j, k)' <=> Above(j, k))
    BY <2>2 DEF Above
  <2> QED BY <2>1, <2>3 DEF ReadingsStand
<1>4. ASSUME Measured, Top' = Top PROVE ScreenScores' = ScreenScores
  <2>1. \A k \in Top : Reading(k)' = Reading(k) /\ DayObs(k)' = DayObs(k)
    <3> TAKE k \in Top
    <3>1. k \in Token /\ Suffix(k) # <<>> /\ Last(Suffix(k)).t >= AsOf + Day
      BY <1>1, <1>2, <1>4 DEF Measured
    <3> QED BY <3>1, ReadingsOfToken
  <2> DEFINE With(p, o) == {k \in Top : Outcome(Reading(k)[p], DayObs(k)) = o}
             scores(p) == [correct |-> Cardinality(With(p, "correct")),
                           incorrect |-> Cardinality(With(p, "incorrect")),
                           flat |-> Cardinality(With(p, "flat"))]
  <2>2. \A p, o : With(p, o)' = With(p, o)
    BY <1>4, <2>1
  <2>3. \A p : scores(p)' = scores(p)
    <3> HIDE DEF With
    <3> QED BY <2>2
  <2>4. ScreenScores = [p \in {"direction", "momentum", "priceOnly", "implied"} |-> scores(p)]
    BY DEF ScreenScores
  <2>5. ScreenScores' = [p \in {"direction", "momentum", "priceOnly", "implied"} |-> scores(p)']
    BY DEF ScreenScores
  <2> HIDE DEF scores
  <2> QED BY <2>3, <2>4, <2>5
<1> QED BY <1>3, <1>4 DEF ScoresStand

(* What happens after the cutoff changes nothing that the screen reads of a   *)
(* token or measured of it at the day (run_live_historical, for any tokens,   *)
(* prices and trades): there is no look-ahead.                                *)
THEOREM NothingLooksAhead == HInit /\ [][HNext]_hVars => NoLookAhead
PROOF
<1>1. HInit => HistoriesTyped
  BY DEF HInit, HistoriesTyped
<1>2. HistoriesTyped /\ [HNext]_hVars => HistoriesTyped'
  <2> SUFFICES ASSUME HistoriesTyped, [HNext]_hVars PROVE HistoriesTyped'
    OBVIOUS
  <2>1. CASE UNCHANGED hVars
    BY <2>1 DEF hVars, HistoriesTyped
  <2>2. CASE HAdvance
    BY <2>2 DEF HAdvance, HistoriesTyped
  <2>3. ASSUME NEW j \in Token, NEW p \in Price, Trade(j, p) PROVE HistoriesTyped'
    <3>1. [t |-> now, p |-> p] \in Deal
      BY DEF HistoriesTyped, Deal
    <3> QED BY <2>3, <3>1 DEF Trade, HistoriesTyped
  <2>4. CASE \E open \in SUBSET ToSet(active) : \E order \in SetToSeqs(open) : Reorder(order)
    BY <2>4 DEF Reorder, HistoriesTyped
  <2> QED BY <2>1, <2>2, <2>3, <2>4 DEF HNext
<1>3. HistoriesTyped /\ [HNext]_hVars => [now > AsOf => ReadingsStand /\ ScoresStand]_hVars
  BY StepAfterCutoff
<1> QED BY <1>1, <1>2, <1>3, PTL DEF NoLookAhead
================================================================================
