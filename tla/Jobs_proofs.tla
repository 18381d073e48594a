------------------------------ MODULE Jobs_proofs ------------------------------
(***************************************************************************)
(* Proofs about the scheduler's ticks, the daily snapshot, the opportunity *)
(* board's cache, its signals, scores and backtest, for any jobs and keys. *)
(***************************************************************************)
EXTENDS SchedulerTick, BoardCache, DailySnapshot, SignalBoard, OpportunityScore,
        Backtest, SequenceTheorems, FiniteSetTheorems, Counting, TLAPS

-----------------------------------------------------------------------------
(***************************************************************************)
(* Ticks and their bookings.  TickInv and, for one group, OneGroupInv are  *)
(* inductive: only the tick whose section it is books outcomes, so what it *)
(* read of a job is what it writes over.                                   *)
(***************************************************************************)

(* A tick works in one section only, and nobody else does. *)
LEMMA OneSection ==
    ASSUME TickInv, NEW t \in Tick, Working(t)
    PROVE  /\ t \in entered /\ now[t] <= clock /\ exit[t] = "none"
           /\ \E g \in Group : owner[g] = t /\ \A h \in Group : owner[h] = t => h = g
PROOF
<1>1. PICK g \in Group : owner[g] = t
  BY DEF Working
<1>2. t # NoTick
  BY TickAssumption
<1> QED BY <1>1, <1>2 DEF TickInv, WorkSound

(* The visited job, and the ones after it. *)
LEMMA VisitedJob ==
    ASSUME TickInv, NEW t \in Tick, todo[t] # <<>>
    PROVE  Head(todo[t]) \in Job /\ Tail(todo[t]) \in Seq(Job)
PROOF
<1>1. todo[t] \in Seq(Job)
  BY DEF TickInv, TickTypeOK
<1> QED BY <1>1, HeadTailProperties

LEMMA TickInitHolds ==
    ASSUME TickInit
    PROVE  TickInv
PROOF
<1> USE TickAssumption DEF TickInit, SectionInit
<1>1. SectionTypeOK
  BY DEF SectionTypeOK
<1>2. TickTypeOK
  BY DEF TickTypeOK, Outcomes, Never
<1>3. WorkSound /\ BegunAreBooked /\ ExitHonest
  BY DEF WorkSound, BegunAreBooked, ExitHonest, Working
<1> QED BY <1>1, <1>2, <1>3 DEF TickInv

(* Who works, and what the section says, after a step inside it. *)
LEMMA SameSections ==
    ASSUME UNCHANGED sectionVars
    PROVE  /\ SectionTypeOK => SectionTypeOK'
           /\ \A t \in Tick : Working(t)' <=> Working(t)
PROOF
<1> QED BY DEF sectionVars, SectionTypeOK, Working

LEMMA PassKeeps ==
    ASSUME TickInv, Pass, UNCHANGED tickVars
    PROVE  TickInv'
PROOF
<1> USE TickAssumption DEF Pass, tickVars, localVars, bookVars, TickInv
<1>1. SectionTypeOK'
  BY DEF SectionTypeOK
<1>2. TickTypeOK'
  BY DEF TickTypeOK
<1>3. WorkSound'
  BY DEF WorkSound, Working, SectionTypeOK
<1>4. BegunAreBooked' /\ ExitHonest'
  BY DEF BegunAreBooked, ExitHonest, Working
<1> QED BY <1>1, <1>2, <1>3, <1>4

LEMMA EnterTyped ==
    ASSUME SectionTypeOK, NEW t \in Tick, NEW g \in Group, Enter(t, g)
    PROVE  SectionTypeOK' /\ now'[t] \in left[g] + 1 .. clock
PROOF
<1>1. PICK n \in left[g] + 1 .. clock : now' = [now EXCEPT ![t] = n]
  BY DEF Enter
<1>2. n \in Nat
  BY DEF SectionTypeOK
<1> QED BY <1>1, <1>2 DEF Enter, SectionTypeOK

LEMMA SelectionsTyped == Selections \subseteq Seq(Job)
PROOF
<1>1. ASSUME NEW j \in Job PROVE <<j>> \in Seq(Job)
  OBVIOUS
<1> QED BY <1>1, TickAssumption DEF Selections

LEMMA TickBeginKeeps ==
    ASSUME TickInv, NEW t \in Tick, Begin(t)
    PROVE  TickInv'
PROOF
<1> USE TickAssumption DEF Begin, bookVars, TickInv
<1>0. PICK g \in Group : Enter(t, g)
  OBVIOUS
<1>1. SectionTypeOK' /\ now'[t] \in left[g] + 1 .. clock
  BY <1>0, EnterTyped
<1>2. TickTypeOK'
  BY SelectionsTyped DEF TickTypeOK
<1>3. /\ ~Working(t) /\ t \notin entered
      /\ \A u \in Tick \ {t} : Working(u)' <=> Working(u)
  BY <1>0 DEF Working, WorkSound, Enter, SectionTypeOK
<1>4. step[t] = "gate" /\ open[t] = {} /\ exit[t] = "none"
  BY <1>3 DEF WorkSound
<1>5. WorkSound'
  BY <1>0, <1>1, <1>3, <1>4 DEF WorkSound, Enter, SectionTypeOK, TickTypeOK
<1>6. BegunAreBooked'
  BY <1>3, <1>4 DEF BegunAreBooked, TickTypeOK
<1>7. ExitHonest'
  BY <1>4 DEF ExitHonest, TickTypeOK
<1> QED BY <1>1, <1>2, <1>5, <1>6, <1>7

LEMMA TickRunJobKeeps ==
    ASSUME TickInv, NEW t \in Tick, RunJob(t)
    PROVE  TickInv'
PROOF
<1> USE TickAssumption DEF RunJob, Visiting, bookVars, TickInv
<1>0. /\ t \in entered /\ exit[t] = "none" /\ Working(t)
      /\ Head(todo[t]) \in Job /\ Tail(todo[t]) \in Seq(Job)
  BY OneSection, VisitedJob
<1>1. SectionTypeOK' /\ \A u \in Tick : Working(u)' <=> Working(u)
  BY SameSections
<1>2. TickTypeOK'
  BY <1>0 DEF TickTypeOK, Outcomes, SectionTypeOK, sectionVars
<1>3. WorkSound'
  BY <1>0, <1>1 DEF WorkSound, sectionVars, TickTypeOK
<1>4. BegunAreBooked'
  BY <1>0, <1>1 DEF BegunAreBooked, TickTypeOK
<1>5. ExitHonest'
  BY <1>0 DEF ExitHonest, TickTypeOK
<1> QED BY <1>1, <1>2, <1>3, <1>4, <1>5

LEMMA TickRecordReadKeeps ==
    ASSUME TickInv, NEW t \in Tick, RecordRead(t)
    PROVE  TickInv'
PROOF
<1> USE TickAssumption DEF RecordRead, Visiting, bookVars, TickInv
<1>0. /\ t \in entered /\ exit[t] = "none" /\ Working(t)
      /\ Head(todo[t]) \in Job /\ Tail(todo[t]) \in Seq(Job)
  BY OneSection, VisitedJob
<1>1. SectionTypeOK' /\ \A u \in Tick : Working(u)' <=> Working(u)
  BY SameSections
<1>2. TickTypeOK'
  BY <1>0 DEF TickTypeOK, Outcomes, SectionTypeOK, sectionVars
<1>3. WorkSound'
  BY <1>0, <1>1 DEF WorkSound, sectionVars, TickTypeOK
<1>4. BegunAreBooked'
  BY <1>0, <1>1 DEF BegunAreBooked, TickTypeOK
<1>5. ExitHonest'
  BY <1>0 DEF ExitHonest, TickTypeOK
<1> QED BY <1>1, <1>2, <1>3, <1>4, <1>5

LEMMA TickRecordCommitKeeps ==
    ASSUME TickInv, NEW t \in Tick, RecordCommit(t)
    PROVE  TickInv'
PROOF
<1> USE TickAssumption DEF RecordCommit, Visiting, SuccessAfter, BookedOk, Outcomes, bookVars, TickInv
<1>0. /\ t \in entered /\ exit[t] = "none" /\ Working(t)
      /\ Head(todo[t]) \in Job /\ Tail(todo[t]) \in Seq(Job)
  BY OneSection, VisitedJob
<1>1. SectionTypeOK' /\ \A u \in Tick : Working(u)' <=> Working(u)
  BY SameSections
<1>2. TickTypeOK'
  BY <1>0 DEF TickTypeOK, Outcomes, SectionTypeOK, sectionVars
<1>3. WorkSound'
  BY <1>0, <1>1 DEF WorkSound, sectionVars, TickTypeOK
<1>4. BegunAreBooked'
  BY <1>0, <1>1 DEF BegunAreBooked, TickTypeOK
<1>5. ExitHonest'
  BY <1>0 DEF ExitHonest, TickTypeOK
<1> QED BY <1>1, <1>2, <1>3, <1>4, <1>5

LEMMA TickGateKeeps ==
    ASSUME TickInv, NEW t \in Tick, Gate(t)
    PROVE  TickInv'
PROOF
<1> USE TickAssumption DEF Gate, Visiting, TickInv
<1> DEFINE j == Head(todo[t])
<1>0. /\ t \in entered /\ exit[t] = "none" /\ Working(t) /\ j \in Job
      /\ step[t] = "gate" /\ todo[t] # <<>>
  BY OneSection, VisitedJob
<1>1. SectionTypeOK' /\ \A u \in Tick : Working(u)' <=> Working(u)
  BY SameSections
<1>2. UNCHANGED <<sectionVars, todo, force, saw, summaryOk, exit, lastSuccess, ranAt>>
  OBVIOUS
<1>3. summaryOk[t] => open[t] = {}
  BY <1>0 DEF BegunAreBooked
<1>4. CASE /\ step' = [step EXCEPT ![t] = "run"]
           /\ owed' \in {owed, owed \cup {j}}
           /\ open' = [open EXCEPT ![t] = @ \cup {j}]
           /\ UNCHANGED outcome
  <2> HIDE DEF j
  <2>1. owed' \in SUBSET Job /\ open' \in [Tick -> SUBSET Job]
    BY <1>0, <1>4 DEF TickTypeOK
  <2>2. TickTypeOK'
    BY <1>2, <1>4, <2>1 DEF TickTypeOK
  <2>3. WorkSound'
    BY <1>0, <1>1, <1>2, <1>4 DEF WorkSound, sectionVars, TickTypeOK
  <2>4. open'[t] = open[t] \cup {j} /\ \A u \in Tick \ {t} : open'[u] = open[u]
    BY <1>4 DEF TickTypeOK
  <2>5. BegunAreBooked'
    BY <1>1, <1>2, <1>3, <1>4, <2>4 DEF BegunAreBooked, TickTypeOK, j
  <2>6. ExitHonest'
    BY <1>0, <1>2, <2>4 DEF ExitHonest
  <2> QED BY <1>1, <2>2, <2>3, <2>5, <2>6
<1>5. CASE /\ step' = [step EXCEPT ![t] = "read"]
           /\ outcome' = [outcome EXCEPT ![t] = "skipped"]
           /\ UNCHANGED <<owed, open>>
  <2>1. TickTypeOK'
    BY <1>2, <1>5 DEF TickTypeOK, Outcomes
  <2>2. WorkSound'
    BY <1>0, <1>1, <1>2, <1>5 DEF WorkSound, sectionVars, TickTypeOK
  <2>3. BegunAreBooked'
    BY <1>1, <1>2, <1>3, <1>5 DEF BegunAreBooked, TickTypeOK
  <2>4. ExitHonest'
    BY <1>0, <1>2, <1>5 DEF ExitHonest
  <2> QED BY <1>1, <2>1, <2>2, <2>3, <2>4
<1> QED BY <1>4, <1>5

(* The end of a tick, however it comes. *)
LEMMA EndTickKeeps ==
    ASSUME TickInv, NEW t \in Tick, NEW code \in {"zero", "nonzero"},
           EndTick(t, code), UNCHANGED <<todo, open>>,
           code = "zero" => todo[t] = <<>> /\ open[t] = {}
    PROVE  TickInv'
PROOF
<1> USE TickAssumption DEF EndTick, bookVars, TickInv
<1>0. PICK g \in Group : owner[g] = t /\ Leave(g)
  OBVIOUS
<1>1. Working(t)
  BY <1>0 DEF Working
<1>2. /\ t \in entered /\ ~Working(t)'
      /\ \A u \in Tick \ {t} : Working(u)' <=> Working(u)
  BY <1>0, <1>1, OneSection DEF Working, Leave, SectionTypeOK
<1>3. SectionTypeOK'
  BY <1>0 DEF SectionTypeOK, Leave
<1>4. TickTypeOK'
  BY DEF TickTypeOK, Outcomes
<1>5. WorkSound'
  BY <1>0, <1>2 DEF WorkSound, Leave, SectionTypeOK, TickTypeOK
<1>6. BegunAreBooked'
  BY <1>2 DEF BegunAreBooked, TickTypeOK
<1>7. ExitHonest'
  BY DEF ExitHonest, TickTypeOK
<1> QED BY <1>3, <1>4, <1>5, <1>6, <1>7

LEMMA TickRecordRaisesKeeps ==
    ASSUME TickInv, NEW t \in Tick, RecordRaises(t)
    PROVE  TickInv'
PROOF
<1> USE TickAssumption DEF RecordRaises, Visiting, bookVars, TickInv
<1>0. /\ t \in entered /\ exit[t] = "none" /\ Working(t)
  BY OneSection
<1>1. CASE outcome[t] = "failed"
  BY <1>1, EndTickKeeps
<1>2. CASE outcome[t] # "failed"
  <2>1. SectionTypeOK' /\ \A u \in Tick : Working(u)' <=> Working(u)
    BY <1>2, SameSections
  <2>2. TickTypeOK'
    BY <1>2 DEF TickTypeOK, Outcomes
  <2>3. WorkSound'
    BY <1>0, <1>2, <2>1 DEF WorkSound, sectionVars, TickTypeOK
  <2>4. BegunAreBooked'
    BY <1>2, <2>1 DEF BegunAreBooked, TickTypeOK
  <2>5. ExitHonest'
    BY <1>2 DEF ExitHonest
  <2> QED BY <2>1, <2>2, <2>3, <2>4, <2>5
<1> QED BY <1>1, <1>2

LEMMA TickFinishKeeps ==
    ASSUME TickInv, NEW t \in Tick, Finish(t)
    PROVE  TickInv'
PROOF
<1>1. Working(t) /\ todo[t] = <<>> /\ step[t] = "gate"
  BY DEF Finish, TickInv, WorkSound
<1>2. summaryOk[t] => open[t] = {}
  BY <1>1 DEF TickInv, BegunAreBooked
<1> QED BY <1>1, <1>2, EndTickKeeps DEF Finish, ExitCode

LEMMA TickCutShortKeeps ==
    ASSUME TickInv, NEW t \in Tick, CutShort(t)
    PROVE  TickInv'
PROOF
<1> QED BY EndTickKeeps DEF CutShort

LEMMA TickStepKeeps == TickInv /\ [TickNext]_vars => TickInv'
PROOF
<1> SUFFICES ASSUME TickInv, [TickNext]_vars PROVE TickInv'
  OBVIOUS
<1>1. CASE UNCHANGED vars
  BY <1>1 DEF vars, sectionVars, tickVars, localVars, bookVars, TickInv, SectionTypeOK,
              TickTypeOK, WorkSound, BegunAreBooked, ExitHonest, Working
<1>2. CASE Pass /\ UNCHANGED tickVars
  BY <1>2, PassKeeps
<1>3. ASSUME NEW t \in Tick,
             \/ Begin(t) \/ Gate(t) \/ RunJob(t) \/ RecordRead(t) \/ RecordCommit(t)
             \/ RecordRaises(t) \/ Finish(t) \/ CutShort(t)
      PROVE TickInv'
  BY <1>3, TickBeginKeeps, TickGateKeeps, TickRunJobKeeps, TickRecordReadKeeps,
     TickRecordCommitKeeps, TickRecordRaisesKeeps, TickFinishKeeps, TickCutShortKeeps
<1> QED BY <1>1, <1>2, <1>3 DEF TickNext

(* ExitHonest: whatever the groups, the jobs and the ticks that are cut short, a *)
(* tick that failed a job exits with a failure (tick.py, main).                  *)
THEOREM TicksExitHonestly == TickSpec => []ExitHonest
PROOF
<1>1. TickInv => ExitHonest
  BY DEF TickInv
<1> QED BY <1>1, TickInitHolds, TickStepKeeps, PTL DEF TickSpec

(* With one group: the tick at work is the section's owner, and alone. *)
LEMMA AloneInSection ==
    ASSUME SectionTypeOK, NEW g \in Group, Group = {g}, NEW t \in Tick
    PROVE  Working(t) <=> owner[g] = t
PROOF
<1> QED BY DEF Working

(* Bookings and sections as they were: so are the due jobs. *)
LEMMA SameBookings ==
    ASSUME NEW g \in Group, OneGroupInv(g), TickInv', UNCHANGED <<sectionVars, lastSuccess, owed>>
    PROVE  /\ \A j \in Job : (lastSuccess[j] <= clock)'
           /\ \A j \in owed' :
                DueByInterval(lastSuccess'[j], Interval[j],
                              IF owner'[g] = NoTick THEN left'[g] + 1 ELSE now'[owner'[g]])
PROOF
<1> QED BY DEF OneGroupInv, BookingsPast, OwedAreDue, sectionVars

LEMMA OneInitHolds ==
    ASSUME NEW g \in Group, TickInit
    PROVE  OneGroupInv(g)
PROOF
<1>1. BookingsPast /\ OwedAreDue(g)
  BY TickAssumption DEF TickInit, SectionInit, BookingsPast, OwedAreDue, Working, Never
<1> QED BY <1>1, TickInitHolds DEF OneGroupInv

LEMMA OnePassKeeps ==
    ASSUME NEW g \in Group, Group = {g}, OneGroupInv(g), TickInv', Pass, UNCHANGED tickVars
    PROVE  OneGroupInv(g)'
PROOF
<1> USE DEF Pass, tickVars, localVars, bookVars, OneGroupInv, TickInv, SectionTypeOK, TickTypeOK
<1>0. /\ clock \in Nat /\ clock' = clock + 1
      /\ \A j \in Job : lastSuccess[j] \in Int
      /\ \A t \in Tick : saw[t] \in Nat /\ (Working(t)' <=> Working(t))
  BY DEF Never, Working
<1>1. BookingsPast'
  BY <1>0 DEF BookingsPast
<1>2. OwedAreDue(g)'
  BY DEF OwedAreDue, Working
<1> QED BY <1>1, <1>2

LEMMA OneBeginKeeps ==
    ASSUME NEW g \in Group, Group = {g}, OneGroupInv(g), TickInv', NEW t \in Tick, Begin(t)
    PROVE  OneGroupInv(g)'
PROOF
<1> USE TickAssumption DEF Begin, bookVars, OneGroupInv
<1>0. Enter(t, g)
  OBVIOUS
<1>1. SectionTypeOK /\ SectionTypeOK' /\ TickTypeOK
  BY DEF TickInv
<1>2. now'[t] \in left[g] + 1 .. clock
  BY <1>0, <1>1, EnterTyped
<1>3. /\ owner[g] = NoTick /\ owner' = [owner EXCEPT ![g] = t]
      /\ \A u \in Tick : ~Working(u) /\ (Working(u)' <=> u = t)
  BY <1>0, <1>1, AloneInSection DEF Enter, SectionTypeOK, Working
<1>4. step[t] = "gate"
  BY <1>3 DEF TickInv, WorkSound
<1>5. BookingsPast'
  BY <1>0, <1>3, <1>4 DEF BookingsPast, Enter
<1>6. ASSUME NEW j \in owed'
      PROVE  DueByInterval(lastSuccess'[j], Interval[j],
                 IF owner'[g] = NoTick THEN left'[g] + 1 ELSE now'[owner'[g]])
  <2>1. j \in Job /\ Interval[j] \in Nat /\ lastSuccess[j] \in Nat \cup {Never}
    BY <1>1 DEF TickTypeOK
  <2>2. DueByInterval(lastSuccess[j], Interval[j], left[g] + 1)
    BY <1>3 DEF OwedAreDue
  <2>3. owner'[g] = t /\ t # NoTick /\ left[g] + 1 <= now'[t]
    BY <1>1, <1>2, <1>3 DEF SectionTypeOK
  <2>4. DueByInterval(lastSuccess[j], Interval[j], now'[t])
    BY <1>1, <2>1, <2>2, <2>3 DEF DueByInterval, SectionTypeOK, Never
  <2> QED BY <2>3, <2>4
<1>7. OwedAreDue(g)'
  BY <1>3, <1>4, <1>6 DEF OwedAreDue
<1> QED BY <1>5, <1>7

LEMMA OneGateKeeps ==
    ASSUME NEW g \in Group, Group = {g}, OneGroupInv(g), TickInv', NEW t \in Tick, Gate(t)
    PROVE  /\ OneGroupInv(g)'
           /\ Skips(t) => Head(todo[t]) \notin owed
PROOF
<1> USE TickAssumption DEF Gate, Visiting, OneGroupInv
<1> DEFINE j == Head(todo[t])
<1>0. SectionTypeOK /\ TickTypeOK /\ TickTypeOK' /\ j \in Job
  BY VisitedJob DEF TickInv
<1>1. /\ owner[g] = t /\ t # NoTick
      /\ \A u \in Tick : (Working(u) <=> u = t) /\ (Working(u)' <=> u = t)
  BY <1>0, AloneInSection, SameSections
<1>2. UNCHANGED <<sectionVars, todo, lastSuccess, saw>>
  OBVIOUS
<1> HIDE DEF j
<1>3. BookingsPast'
  <2>1. step'[t] # "commit"
    BY <1>0 DEF TickTypeOK
  <2> QED BY <1>1, <1>2, <2>1 DEF BookingsPast, sectionVars
<1>4. ASSUME NEW k \in owed'
      PROVE  DueByInterval(lastSuccess[k], Interval[k], now[t])
  BY <1>1, <1>4 DEF OwedAreDue, j
<1>5. Skips(t) => j \notin owed
  BY <1>0, <1>1 DEF OwedAreDue, Skips, TickTypeOK, j
<1>6. step'[t] \in {"read", "commit"} => Skips(t) /\ owed' = owed
  BY <1>0 DEF Skips, TickTypeOK
<1>7. OwedAreDue(g)'
  BY <1>1, <1>2, <1>4, <1>5, <1>6 DEF OwedAreDue, sectionVars, j
<1> QED BY <1>3, <1>5, <1>7 DEF j

LEMMA OneRunJobKeeps ==
    ASSUME NEW g \in Group, Group = {g}, OneGroupInv(g), TickInv', NEW t \in Tick, RunJob(t)
    PROVE  OneGroupInv(g)'
PROOF
<1> USE TickAssumption DEF RunJob, Visiting, bookVars
<1>0. TickTypeOK
  BY DEF OneGroupInv, TickInv
<1>1. /\ UNCHANGED <<sectionVars, todo, lastSuccess, saw, owed>>
      /\ \A u \in Tick : Working(u)' <=> Working(u)
  BY SameSections
<1>2. /\ step'[t] = "read" /\ outcome'[t] # "skipped"
      /\ \A u \in Tick \ {t} : step'[u] = step[u] /\ outcome'[u] = outcome[u]
  BY <1>0 DEF TickTypeOK
<1>3. BookingsPast'
  BY <1>1, <1>2 DEF OneGroupInv, BookingsPast, sectionVars
<1>4. OwedAreDue(g)'
  BY <1>1, <1>2 DEF OneGroupInv, OwedAreDue, sectionVars
<1> QED BY <1>3, <1>4 DEF OneGroupInv

LEMMA OneRecordReadKeeps ==
    ASSUME NEW g \in Group, Group = {g}, OneGroupInv(g), TickInv', NEW t \in Tick, RecordRead(t)
    PROVE  OneGroupInv(g)'
PROOF
<1> USE TickAssumption DEF RecordRead, Visiting, bookVars
<1>0. TickTypeOK /\ SectionTypeOK
  BY DEF OneGroupInv, TickInv
<1>1. /\ UNCHANGED <<sectionVars, todo, lastSuccess, outcome, owed>>
      /\ \A u \in Tick : Working(u)' <=> Working(u)
  BY SameSections
<1>2. /\ step'[t] = "commit" /\ step[t] = "read" /\ saw'[t] = clock
      /\ \A u \in Tick \ {t} : step'[u] = step[u] /\ saw'[u] = saw[u]
  BY <1>0 DEF TickTypeOK
<1>3. BookingsPast'
  BY <1>0, <1>1, <1>2 DEF OneGroupInv, BookingsPast, sectionVars, SectionTypeOK
<1>4. OwedAreDue(g)'
  BY <1>1, <1>2 DEF OneGroupInv, OwedAreDue, sectionVars
<1> QED BY <1>3, <1>4 DEF OneGroupInv

(* The booking of a visit: only a run that went well pays what is owed. *)
LEMMA OneRecordCommitKeeps ==
    ASSUME NEW g \in Group, Group = {g}, OneGroupInv(g), TickInv', NEW t \in Tick, RecordCommit(t)
    PROVE  /\ OneGroupInv(g)'
           /\ \A j \in Job : lastSuccess'[j] >= lastSuccess[j]
PROOF
<1> USE TickAssumption DEF RecordCommit, Visiting
<1> DEFINE j == Head(todo[t])
<1>0. TickTypeOK /\ SectionTypeOK /\ TickTypeOK' /\ j \in Job
  BY VisitedJob DEF OneGroupInv, TickInv
<1>1. /\ UNCHANGED sectionVars /\ step'[t] = "gate"
      /\ owner[g] = t /\ t # NoTick
      /\ \A u \in Tick : (Working(u) <=> u = t) /\ (Working(u)' <=> u = t)
  BY <1>0, AloneInSection, SameSections DEF TickTypeOK
<1>2. /\ lastSuccess'[j] = SuccessAfter(t, j)
      /\ \A k \in Job \ {j} : lastSuccess'[k] = lastSuccess[k]
      /\ owed' = IF outcome[t] = "ran" THEN owed \ {j} ELSE owed
  BY <1>0 DEF TickTypeOK
<1> HIDE DEF j
<1>3. /\ saw[t] <= clock /\ saw[t] \in Nat /\ clock \in Nat
      /\ \A k \in Job : lastSuccess[k] <= saw[t] /\ lastSuccess[k] \in Int
  BY <1>0, <1>1 DEF OneGroupInv, BookingsPast, TickTypeOK, SectionTypeOK, Never
<1>4. \A k \in Job : lastSuccess'[k] >= lastSuccess[k] /\ lastSuccess'[k] <= clock
  BY <1>2, <1>3 DEF SuccessAfter
<1>5. BookingsPast'
  BY <1>1, <1>4 DEF BookingsPast, sectionVars
<1>6. ASSUME NEW k \in owed'
      PROVE  DueByInterval(lastSuccess'[k], Interval[k], now[t])
  <2>1. k \in owed /\ k \in Job /\ DueByInterval(lastSuccess[k], Interval[k], now[t])
    BY <1>0, <1>1, <1>2, <1>6 DEF OneGroupInv, OwedAreDue, TickTypeOK
  <2>2. lastSuccess'[k] = lastSuccess[k]
    <3>1. CASE k # j
      BY <2>1, <3>1, <1>2
    <3>2. CASE k = j
      <4>1. outcome[t] # "ran"
        BY <1>2, <1>6, <3>2
      <4>2. outcome[t] # "skipped"
        BY <1>1, <2>1, <3>2 DEF OneGroupInv, OwedAreDue, j
      <4> QED BY <1>2, <3>2, <4>1, <4>2 DEF SuccessAfter, BookedOk
    <3> QED BY <3>1, <3>2
  <2> QED BY <2>1, <2>2
<1>7. OwedAreDue(g)'
  BY <1>1, <1>6 DEF OwedAreDue, sectionVars
<1> QED BY <1>4, <1>5, <1>7 DEF OneGroupInv

(* A tick that ends leaves to a later `now` what it owes. *)
LEMMA OneEndTickKeeps ==
    ASSUME NEW g \in Group, Group = {g}, OneGroupInv(g), TickInv', NEW t \in Tick,
           NEW code, EndTick(t, code)
    PROVE  OneGroupInv(g)'
PROOF
<1> USE TickAssumption DEF EndTick, bookVars
<1>0. /\ TickTypeOK /\ SectionTypeOK /\ TickTypeOK' /\ SectionTypeOK'
      /\ owner[g] = t /\ t # NoTick /\ Leave(g)
  BY DEF OneGroupInv, TickInv
<1>1. now[t] <= clock /\ left'[g] = clock /\ owner'[g] = NoTick /\ clock' = clock
  BY <1>0 DEF Leave, SectionTypeOK, OneGroupInv, TickInv, WorkSound
<1>2. \A u \in Tick : ~Working(u)'
  BY <1>0, <1>1 DEF Working
<1>3. BookingsPast'
  BY <1>1, <1>2 DEF OneGroupInv, BookingsPast
<1>4. ASSUME NEW k \in owed'
      PROVE  DueByInterval(lastSuccess'[k], Interval[k], left'[g] + 1)
  <2>1. /\ k \in Job /\ DueByInterval(lastSuccess[k], Interval[k], now[t])
        /\ Interval[k] \in Nat /\ lastSuccess[k] \in Int
    BY <1>0, <1>4 DEF OneGroupInv, OwedAreDue, TickTypeOK, Never
  <2> QED BY <1>0, <1>1, <2>1 DEF DueByInterval, SectionTypeOK
<1>5. OwedAreDue(g)'
  BY <1>1, <1>2, <1>4 DEF OwedAreDue
<1> QED BY <1>3, <1>5 DEF OneGroupInv

LEMMA OneRecordRaisesKeeps ==
    ASSUME NEW g \in Group, Group = {g}, OneGroupInv(g), TickInv', NEW t \in Tick, RecordRaises(t)
    PROVE  OneGroupInv(g)'
PROOF
<1> USE TickAssumption DEF RecordRaises, Visiting, bookVars
<1>0. CASE outcome[t] = "failed"
  BY <1>0, OneEndTickKeeps
<1>1. CASE outcome[t] # "failed"
  <2>0. TickTypeOK
    BY DEF OneGroupInv, TickInv
  <2>1. /\ UNCHANGED <<sectionVars, todo, lastSuccess, saw, owed>>
        /\ \A u \in Tick : Working(u)' <=> Working(u)
    BY <1>1, SameSections
  <2>2. /\ step'[t] = "read" /\ outcome'[t] = "failed"
        /\ \A u \in Tick \ {t} : step'[u] = step[u] /\ outcome'[u] = outcome[u]
    BY <1>1, <2>0 DEF TickTypeOK
  <2>3. BookingsPast'
    BY <2>1, <2>2 DEF OneGroupInv, BookingsPast, sectionVars
  <2>4. OwedAreDue(g)'
    BY <2>1, <2>2 DEF OneGroupInv, OwedAreDue, sectionVars
  <2> QED BY <2>3, <2>4 DEF OneGroupInv
<1> QED BY <1>0, <1>1

LEMMA OneStepKeeps ==
    ASSUME NEW g \in Group, Group = {g}, OneGroupInv(g), [TickNext]_vars
    PROVE  /\ OneGroupInv(g)'
           /\ \A t \in Tick : Skips(t) => Head(todo[t]) \notin owed
           /\ \A j \in Job : lastSuccess'[j] >= lastSuccess[j]
PROOF
<1>0. TickInv /\ TickInv'
  BY TickStepKeeps DEF OneGroupInv
<1>t. TickTypeOK /\ \A j \in Job : lastSuccess[j] \in Int
  BY <1>0 DEF TickInv, TickTypeOK, Never
<1>1. CASE UNCHANGED vars
  BY <1>1, <1>t, <1>0 DEF vars, sectionVars, tickVars, localVars, bookVars, OneGroupInv,
              BookingsPast, OwedAreDue, Working, Skips
<1>2. CASE Pass /\ UNCHANGED tickVars
  BY <1>2, <1>0, <1>t, OnePassKeeps DEF tickVars, localVars, bookVars, Skips
<1>3. ASSUME NEW t \in Tick, Gate(t)
      PROVE  /\ OneGroupInv(g)'
             /\ \A u \in Tick : Skips(u) => Head(todo[u]) \notin owed
             /\ \A j \in Job : lastSuccess'[j] >= lastSuccess[j]
  <2>1. \A u \in Tick \ {t} : ~Skips(u)
    BY <1>3, <1>t DEF Gate, Skips, TickTypeOK
  <2> QED BY <1>0, <1>3, <1>t, <2>1, OneGateKeeps DEF Gate
<1>4. ASSUME NEW t \in Tick, RecordCommit(t)
      PROVE  /\ OneGroupInv(g)'
             /\ \A u \in Tick : ~Skips(u)
             /\ \A j \in Job : lastSuccess'[j] >= lastSuccess[j]
  <2>1. \A u \in Tick : ~Skips(u)
    BY <1>4, <1>t DEF RecordCommit, Skips, TickTypeOK
  <2> QED BY <1>0, <1>4, <2>1, OneRecordCommitKeeps
<1>5. ASSUME NEW t \in Tick,
             \/ Begin(t) \/ RunJob(t) \/ RecordRead(t)
             \/ RecordRaises(t) \/ Finish(t) \/ CutShort(t)
      PROVE  /\ OneGroupInv(g)'
             /\ \A u \in Tick : ~Skips(u)
             /\ lastSuccess' = lastSuccess
  <2>1. lastSuccess' = lastSuccess
    BY <1>5 DEF Begin, RunJob, RecordRead, RecordRaises, Finish, CutShort, EndTick, bookVars
  <2>2. \A u \in Tick : ~Skips(u)
    BY <1>5, <1>t DEF Begin, RunJob, RecordRead, RecordRaises, Finish, CutShort, EndTick,
                      Visiting, Skips, TickTypeOK
  <2>3. OneGroupInv(g)'
    BY <1>0, <1>5, OneBeginKeeps, OneRunJobKeeps, OneRecordReadKeeps,
       OneRecordRaisesKeeps, OneEndTickKeeps DEF Finish, CutShort
  <2> QED BY <2>1, <2>2, <2>3
<1> QED BY <1>1, <1>2, <1>3, <1>4, <1>5, <1>t DEF TickNext

(* FailureShows, for any number of ticks, jobs and intervals: a failure      *)
(* reaches the exit code, and a job that was begun when due and has not run  *)
(* with success since is not skipped, whoever was cut short where.  The jobs *)
(* belong to one group (tick.py: JOB_GROUPS puts a job in one lease, but     *)
(* for the group "all").                                                     *)
THEOREM TicksCatchUp ==
    ASSUME NEW g \in Group, Group = {g}
    PROVE  TickSpec => FailureShows
PROOF
<1>1. OneGroupInv(g) /\ [TickNext]_vars =>
        /\ OneGroupInv(g)'
        /\ [ /\ ExitHonest'
             /\ \A t \in Tick : Skips(t) => Head(todo[t]) \notin owed]_vars
  BY OneStepKeeps DEF OneGroupInv, TickInv
<1>2. TickInit => OneGroupInv(g)
  BY OneInitHolds
<1> QED BY <1>1, <1>2, PTL DEF TickSpec, FailureShows

(* LastSuccessMonotone: with one group, a booking never replaces a newer one. *)
THEOREM BookingsGoForward ==
    ASSUME NEW g \in Group, Group = {g}
    PROVE  TickSpec => LastSuccessMonotone
PROOF
<1>1. OneGroupInv(g) /\ [TickNext]_vars =>
        /\ OneGroupInv(g)'
        /\ [\A j \in Job : lastSuccess'[j] >= lastSuccess[j]]_vars
  BY OneStepKeeps
<1>2. TickInit => OneGroupInv(g)
  BY OneInitHolds
<1> QED BY <1>1, <1>2, PTL DEF TickSpec, LastSuccessMonotone

(* The ticks keep to the sections that the leases give them: with the theorem *)
(* that TickLease implements ExclusiveSection, they may rely on it.           *)
THEOREM TicksUseSections == TickSpec => SectionSpec
PROOF
<1>1. TickInit => SectionInit
  BY DEF TickInit
<1>2. [TickNext]_vars => [SectionNext]_sectionVars
  <2> SUFFICES ASSUME [TickNext]_vars PROVE SectionNext \/ UNCHANGED sectionVars
    OBVIOUS
  <2>1. CASE UNCHANGED vars
    BY <2>1 DEF vars
  <2>2. CASE Pass
    BY <2>2 DEF SectionNext
  <2>3. ASSUME NEW t \in Tick,
               \/ Begin(t) \/ Gate(t) \/ RunJob(t) \/ RecordRead(t) \/ RecordCommit(t)
               \/ RecordRaises(t) \/ Finish(t) \/ CutShort(t)
        PROVE SectionNext \/ UNCHANGED sectionVars
    BY <2>3 DEF SectionNext, Begin, Gate, RunJob, RecordRead, RecordCommit, RecordRaises,
                Finish, CutShort, EndTick
  <2> QED BY <2>1, <2>2, <2>3 DEF TickNext
<1> QED BY <1>1, <1>2, PTL DEF TickSpec, SectionSpec

-----------------------------------------------------------------------------
(***************************************************************************)
(* The board's cache.  BoardInv is inductive: the builders of a key all hold*)
(* the one lock that the key has, and queue for it without repetition.     *)
(***************************************************************************)

(* Who waits in a queue, once someone has joined it. *)
LEMMA JoinedQueue ==
  ASSUME NEW S, NEW q \in Seq(S), NEW x \in S
  PROVE  /\ Append(q, x) \in Seq(S)
         /\ \A t : Waits(Append(q, x), t) <=> Waits(q, t) \/ t = x
         /\ NoRepeats(q) /\ ~Waits(q, x) => NoRepeats(Append(q, x))
<1> DEFINE r == Append(q, x)
<1>1. r \in Seq(S) /\ Len(r) = Len(q) + 1 /\ r[Len(q) + 1] = x
      /\ \A i \in 1..Len(q) : r[i] = q[i]
  BY SMT
<1>2. DOMAIN r = 1..(Len(q) + 1) /\ DOMAIN q = 1..Len(q) /\ Len(q) \in Nat
  BY <1>1, SMT
<1> HIDE DEF r
<1>3. \A t : Waits(r, t) <=> Waits(q, t) \/ t = x
  BY <1>1, <1>2, SMT DEF Waits
<1>4. NoRepeats(q) /\ ~Waits(q, x) => NoRepeats(r)
  BY <1>1, <1>2, SMT DEF Waits, NoRepeats
<1> QED
  BY <1>1, <1>3, <1>4 DEF r

(* Who waits in a queue, once its head has left. *)
LEMMA LeftQueue ==
  ASSUME NEW S, NEW q \in Seq(S), q # <<>>, NoRepeats(q)
  PROVE  /\ Tail(q) \in Seq(S) /\ NoRepeats(Tail(q)) /\ Head(q) \in S /\ Waits(q, Head(q))
         /\ \A t : Waits(Tail(q), t) <=> Waits(q, t) /\ t # Head(q)
<1> DEFINE r == Tail(q)
<1>1. r \in Seq(S) /\ Len(r) = Len(q) - 1 /\ Head(q) = q[1] /\ q[1] \in S
      /\ \A i \in 1..(Len(q) - 1) : r[i] = q[i + 1]
  BY SMT
<1>2. DOMAIN r = 1..(Len(q) - 1) /\ DOMAIN q = 1..Len(q) /\ Len(q) \in Nat \ {0}
  BY <1>1, SMT
<1> HIDE DEF r
<1>3. NoRepeats(r)
  <2> SUFFICES ASSUME NEW i \in DOMAIN r, NEW j \in DOMAIN r, r[i] = r[j] PROVE i = j
    BY DEF NoRepeats
  <2>1. q[i + 1] = q[j + 1] /\ i + 1 \in DOMAIN q /\ j + 1 \in DOMAIN q
    BY <1>1, <1>2, SMT
  <2>2. i + 1 = j + 1
    BY <2>1 DEF NoRepeats
  <2> QED
    BY <2>2, <1>2, SMT
<1>4. ASSUME NEW t PROVE Waits(r, t) <=> Waits(q, t) /\ t # Head(q)
  <2>1. ASSUME NEW i \in DOMAIN r, r[i] = t PROVE Waits(q, t) /\ t # Head(q)
    <3>1. i + 1 \in DOMAIN q /\ q[i + 1] = t /\ i + 1 # 1 /\ 1 \in DOMAIN q
      BY <1>1, <1>2, <2>1, SMT
    <3>2. t # q[1]
      BY <3>1 DEF NoRepeats
    <3> QED
      BY <3>1, <3>2, <1>1 DEF Waits
  <2>2. ASSUME NEW i \in DOMAIN q, q[i] = t, t # Head(q) PROVE Waits(r, t)
    <3>1. i # 1
      BY <2>2, <1>1
    <3>2. i - 1 \in DOMAIN r /\ r[i - 1] = q[i]
      BY <3>1, <1>1, <1>2, SMT
    <3> QED
      BY <3>2, <2>2 DEF Waits
  <2> QED
    BY <2>1, <2>2 DEF Waits
<1>5. Waits(q, Head(q))
  BY <1>1, <1>2, SMT DEF Waits
<1> QED
  BY <1>1, <1>3, <1>4, <1>5 DEF r

-----------------------------------------------------------------------------
(* A lock in use is the lock of a key. *)
LEMMA UsedLockHasKey ==
  ASSUME BoardInv, NEW l \in BoardLock, lockOwner[l] # Nobody \/ waiters[l] # <<>>
  PROVE  \E k \in Board : boardLocks[k] = l
<1>1. \E t \in Task : task[t].pc \in Lined /\ task[t].lock = l
  <2>1. CASE lockOwner[l] # Nobody
    <3>1. lockOwner[l] \in Task
      BY <2>1 DEF BoardInv, BoardTypeOK
    <3> QED
      BY <3>1 DEF BoardInv, LocksHeld, Lined, Holding
  <2>2. CASE waiters[l] # <<>>
    <3>1. waiters[l] \in Seq(Task) /\ NoRepeats(waiters[l])
      BY DEF BoardInv, BoardTypeOK, QueuesExact
    <3>2. Head(waiters[l]) \in Task /\ Waits(waiters[l], Head(waiters[l]))
      BY <3>1, <2>2, LeftQueue
    <3> QED
      BY <3>2 DEF BoardInv, QueuesExact, Lined
  <2> QED
    BY <2>1, <2>2
<1>2. PICK t \in Task : task[t].pc \in Lined /\ task[t].lock = l
  BY <1>1
<1>3. task[t].key \in Board
  BY <1>2 DEF BoardInv, BoardTypeOK, IdleTask, StartTask, LinedTask, Lined
<1> QED
  BY <1>2, <1>3 DEF BoardInv, LocksByKey

(* There is always a lock that nobody uses: more locks than keys. *)
LEMMA SpareLockExists ==
  ASSUME BoardInv, Task # {}
  PROVE  SpareLocks # {}
<1> SUFFICES ASSUME SpareLocks = {} PROVE FALSE
  OBVIOUS
<1>1. \A l \in BoardLock : \E k \in Board : boardLocks[k] = l
  <2> SUFFICES ASSUME NEW l \in BoardLock, ~\E k \in Board : boardLocks[k] = l PROVE FALSE
    OBVIOUS
  <2>1. lockOwner[l] = Nobody /\ waiters[l] = <<>>
    BY UsedLockHasKey
  <2> QED
    BY <2>1 DEF SpareLocks
<1>2. IsFiniteSet(Task) /\ IsFiniteSet(Board)
  BY TasksAndBoards
<1>3. Cardinality(Task) \in Nat \ {0} /\ Cardinality(Board) \in Nat
  BY <1>2, FS_CardinalityType, FS_EmptySet
<1>4. IsFiniteSet(BoardLock) /\ Cardinality(BoardLock) = Cardinality(Task) + Cardinality(Board)
  <2> DEFINE n == Cardinality(Task) + Cardinality(Board)
  <2>1. n \in Nat \ {0}
    BY <1>3, SMT
  <2>2. BoardLock = 1..n
    BY DEF BoardLock
  <2> HIDE DEF n
  <2>3. IsFiniteSet(1..n) /\ Cardinality(1..n) = IF 1 > n THEN 0 ELSE n - 1 + 1
    BY <2>1, FS_Interval
  <2>4. Cardinality(1..n) = n
    BY <2>1, <2>3, SMT
  <2> QED
    BY <2>2, <2>3, <2>4 DEF n
<1>5. 1 \in BoardLock
  BY <1>3, SMT DEF BoardLock
<1> DEFINE g == [k \in Board |-> IF boardLocks[k] = NoLock THEN 1 ELSE boardLocks[k]]
<1>6. g \in [Board -> BoardLock]
  BY <1>5 DEF BoardInv, BoardTypeOK
<1>7. \A l \in BoardLock : \E k \in Board : g[k] = l
  <2> SUFFICES ASSUME NEW l \in BoardLock PROVE \E k \in Board : g[k] = l
    OBVIOUS
  <2>1. PICK k \in Board : boardLocks[k] = l
    BY <1>1
  <2>2. l # NoLock
    BY <1>3, SMT DEF BoardLock, NoLock
  <2>3. g[k] = l
    BY <2>1, <2>2
  <2> QED
    BY <2>3
<1> HIDE DEF g
<1>8. g \in Surjection(Board, BoardLock)
  BY <1>6, <1>7 DEF Surjection
<1>9. Cardinality(BoardLock) <= Cardinality(Board)
  BY <1>2, <1>8, FS_Surjection
<1> QED
  BY <1>3, <1>4, <1>9, SMT

(* A task in the line for a lock is one of the full records. *)
LEMMA LinedIsLined ==
  ASSUME BoardTypeOK, NEW t \in Task, task[t].pc \in Lined
  PROVE  task[t] \in LinedTask
<1>1. task[t] \in {IdleTask} \cup StartTask \cup LinedTask
  BY DEF BoardTypeOK
<1>2. task[t] # IdleTask /\ task[t] \notin StartTask
  BY DEF IdleTask, StartTask, Lined
<1> QED
  BY <1>1, <1>2

(* A task that moves on in the line keeps its key and its lock. *)
LEMMA MovedOn ==
  ASSUME BoardTypeOK, NEW t \in Task, task[t].pc \in Lined, NEW c \in Lined,
         task' = [task EXCEPT ![t].pc = c]
  PROVE  /\ task' \in [Task -> {IdleTask} \cup StartTask \cup LinedTask]
         /\ task'[t].pc = c /\ task'[t].key = task[t].key /\ task'[t].lock = task[t].lock
         /\ \A u \in Task \ {t} : task'[u] = task[u]
<1> DEFINE r == [task[t] EXCEPT !.pc = c]
<1>1. task[t] \in LinedTask
  BY LinedIsLined
<1>2. r \in LinedTask /\ r.pc = c /\ r.key = task[t].key /\ r.lock = task[t].lock
  BY <1>1 DEF LinedTask
<1>3. task' = [task EXCEPT ![t] = r]
  OBVIOUS
<1> HIDE DEF r
<1>4. task \in [Task -> {IdleTask} \cup StartTask \cup LinedTask]
  BY DEF BoardTypeOK
<1>5. task'[t] = r /\ \A u \in Task \ {t} : task'[u] = task[u]
  BY <1>3, <1>4
<1>6. task' \in [Task -> {IdleTask} \cup StartTask \cup LinedTask]
  BY <1>2, <1>3, <1>4
<1> QED
  BY <1>2, <1>5, <1>6

-----------------------------------------------------------------------------
(* The step of each action that changes who holds a lock or waits for it. *)
LEMMA EnterKeeps ==
  ASSUME BoardInv, NEW t \in Task, NEW k \in Board, NEW kind \in {"request", "refresh"},
         task[t].pc \notin Lined, EnterLock(t, k, kind), UNCHANGED slotQueue
  PROVE  BoardInv'
<1> DEFINE l == IF boardLocks[k] # NoLock THEN boardLocks[k]
                ELSE CHOOSE u \in SpareLocks : TRUE
           free == lockOwner[l] = Nobody /\ waiters[l] = <<>>
           r == [pc |-> IF free THEN "check" ELSE "lock", key |-> k, kind |-> kind, lock |-> l]
           Tasks == {IdleTask} \cup StartTask \cup LinedTask
<1>1. /\ boardLocks' = [boardLocks EXCEPT ![k] = l]
      /\ lockOwner' = IF free THEN [lockOwner EXCEPT ![l] = t] ELSE lockOwner
      /\ waiters' = IF free THEN waiters ELSE [waiters EXCEPT ![l] = Append(@, t)]
      /\ task' = [task EXCEPT ![t] = r]
  BY DEF EnterLock
<1>2. \/ boardLocks[k] # NoLock /\ l = boardLocks[k]
      \/ boardLocks[k] = NoLock /\ l \in SpareLocks
  <2>1. SpareLocks # {}
    BY SpareLockExists
  <2>2. (CHOOSE u \in SpareLocks : TRUE) \in SpareLocks
    BY <2>1
  <2> QED
    BY <2>2
<1> HIDE DEF l
<1>3. l \in BoardLock
  BY <1>2 DEF SpareLocks, BoardInv, BoardTypeOK
<1>4. l # NoLock
  <2>1. Cardinality(Task) + Cardinality(Board) \in Nat
    BY TasksAndBoards, FS_CardinalityType, SMT
  <2>2. l \in 1..(Cardinality(Task) + Cardinality(Board))
    BY <1>3 DEF BoardLock
  <2> QED
    BY <2>1, <2>2, SMT DEF NoLock
<1>5. \A j \in Board : boardLocks[j] = l => j = k
  BY <1>2, <1>4 DEF BoardInv, LocksByKey, SpareLocks
<1>6. boardLocks[k] = NoLock => lockOwner[l] = Nobody /\ waiters[l] = <<>>
  BY <1>2 DEF SpareLocks
<1>7. r \in LinedTask /\ r.key = k /\ r.lock = l /\ r.pc = (IF free THEN "check" ELSE "lock")
  BY <1>3 DEF LinedTask, Lined
<1>8. Nobody \notin Task
  BY TasksAndBoards
<1> HIDE DEF r
<1>9. BoardTypeOK
  BY DEF BoardInv
<1>10. /\ boardLocks' \in [Board -> BoardLock \cup {NoLock}] /\ boardLocks'[k] = l
       /\ \A j \in Board \ {k} : boardLocks'[j] = boardLocks[j]
  BY <1>1, <1>3, <1>9 DEF BoardTypeOK
<1>11. /\ task' \in [Task -> Tasks] /\ task'[t] = r
       /\ \A u \in Task \ {t} : task'[u] = task[u]
  BY <1>1, <1>7, <1>9 DEF BoardTypeOK
<1>12. /\ lockOwner' \in [BoardLock -> Task \cup {Nobody}]
       /\ \A m \in BoardLock \ {l} : lockOwner'[m] = lockOwner[m]
       /\ lockOwner'[l] = IF free THEN t ELSE lockOwner[l]
  BY <1>1, <1>3, <1>9 DEF BoardTypeOK
<1>13. waiters[l] \in Seq(Task)
  BY <1>3, <1>9 DEF BoardTypeOK
<1>14. ~Waits(waiters[l], t)
  BY <1>3 DEF BoardInv, QueuesExact, Lined
<1>15. /\ Append(waiters[l], t) \in Seq(Task) /\ NoRepeats(Append(waiters[l], t))
       /\ \A u : Waits(Append(waiters[l], t), u) <=> Waits(waiters[l], u) \/ u = t
  BY <1>3, <1>13, <1>14, JoinedQueue DEF BoardInv, QueuesExact
<1>16. /\ waiters' \in [BoardLock -> Seq(Task)]
       /\ \A m \in BoardLock \ {l} : waiters'[m] = waiters[m]
       /\ waiters'[l] = IF free THEN waiters[l] ELSE Append(waiters[l], t)
  BY <1>1, <1>3, <1>9, <1>15 DEF BoardTypeOK
<1>17. BoardTypeOK'
  BY <1>9, <1>10, <1>11, <1>12, <1>16 DEF BoardTypeOK
<1>18. LocksByKey'
  <2>1. ASSUME NEW u \in Task, task'[u].pc \in Lined PROVE boardLocks'[task'[u].key] = task'[u].lock
    <3>1. CASE u = t
      BY <3>1, <1>10, <1>11, <1>7
    <3>2. CASE u # t
      <4>1. task'[u] = task[u] /\ task[u].pc \in Lined
        BY <3>2, <1>11, <2>1
      <4>2. task[u] \in LinedTask
        BY <4>1, <1>9, LinedIsLined
      <4>3. boardLocks[task[u].key] = task[u].lock /\ task[u].key \in Board
            /\ task[u].lock \in BoardLock
        BY <4>1, <4>2 DEF BoardInv, LocksByKey, LinedTask
      <4>4. CASE task[u].key # k
        BY <4>1, <4>3, <4>4, <1>10
      <4>5. CASE task[u].key = k
        <5>1. boardLocks[k] # NoLock
          BY <1>6, <4>5, <4>3, <1>4, <1>9, <4>1 DEF BoardInv, LocksHeld, QueuesExact, Lined,
             Holding, NoLock, BoardLock
        <5> QED
          BY <5>1, <4>1, <4>3, <4>5, <1>2, <1>10
      <4> QED
        BY <4>4, <4>5
    <3> QED
      BY <3>1, <3>2
  <2>2. ASSUME NEW i \in Board, NEW j \in Board, boardLocks'[i] = boardLocks'[j], boardLocks'[i] # NoLock
        PROVE i = j
    BY <2>2, <1>5, <1>10 DEF BoardInv, LocksByKey
  <2> QED
    BY <2>1, <2>2 DEF LocksByKey
<1>19. LocksHeld'
  <2> SUFFICES ASSUME NEW m \in BoardLock, NEW u \in Task
               PROVE lockOwner'[m] = u <=> task'[u].pc \in Holding /\ task'[u].lock = m
    BY DEF LocksHeld
  <2>1. lockOwner[m] = u <=> task[u].pc \in Holding /\ task[u].lock = m
    BY DEF BoardInv, LocksHeld
  <2>2. CASE u = t
    <3>1. lockOwner[m] # t
      BY <2>1, <2>2 DEF Lined, Holding
    <3> QED
      BY <3>1, <2>2, <1>7, <1>11, <1>12 DEF Holding
  <2>3. CASE u # t
    BY <2>1, <2>3, <1>8, <1>11, <1>12
  <2> QED
    BY <2>2, <2>3
<1>20. QueuesExact'
  <2>1. ASSUME NEW m \in BoardLock, NEW u \in Task
        PROVE Waits(waiters'[m], u) <=> task'[u].pc = "lock" /\ task'[u].lock = m
    <3>1. Waits(waiters[m], u) <=> task[u].pc = "lock" /\ task[u].lock = m
      BY DEF BoardInv, QueuesExact
    <3>2. CASE m # l
      BY <3>1, <3>2, <1>7, <1>11, <1>16 DEF Lined
    <3>3. CASE m = l /\ free
      BY <3>1, <3>3, <1>7, <1>11, <1>14, <1>16
    <3>4. CASE m = l /\ ~free
      BY <3>1, <3>4, <1>7, <1>11, <1>15, <1>16
    <3> QED
      BY <3>2, <3>3, <3>4
  <2>2. ASSUME NEW u \in Task PROVE Waits(slotQueue', u) <=> task'[u].pc = "slot"
    BY <1>7, <1>11 DEF BoardInv, QueuesExact, Lined
  <2>3. \A m \in BoardLock : NoRepeats(waiters'[m])
    BY <1>15, <1>16 DEF BoardInv, QueuesExact
  <2> QED
    BY <2>1, <2>2, <2>3 DEF BoardInv, QueuesExact
<1> QED
  BY <1>17, <1>18, <1>19, <1>20 DEF BoardInv

LEMMA AskRefreshKeeps ==
  ASSUME BoardInv, NEW t \in Task, NEW k \in Board, GetStale(t, k)
  PROVE  BoardInv'
<1> DEFINE r == [pc |-> "start", key |-> k, kind |-> "refresh"]
<1>1. r \in StartTask /\ r.pc = "start" /\ task[t].pc = "free"
  BY DEF StartTask, GetStale, IdleTask
<1>2. task' = [task EXCEPT ![t] = r]
      /\ UNCHANGED <<boardLocks, lockOwner, waiters, slotQueue>>
  BY DEF GetStale
<1> HIDE DEF r
<1>3. task' \in [Task -> {IdleTask} \cup StartTask \cup LinedTask] /\ task'[t].pc = "start"
      /\ \A u \in Task \ {t} : task'[u] = task[u]
  BY <1>1, <1>2 DEF BoardInv, BoardTypeOK
<1>4. BoardTypeOK'
  BY <1>2, <1>3 DEF BoardInv, BoardTypeOK
<1>5. LocksByKey' /\ LocksHeld'
  BY <1>1, <1>2, <1>3 DEF BoardInv, LocksByKey, LocksHeld, Lined, Holding
<1>6. QueuesExact'
  BY <1>1, <1>2, <1>3 DEF BoardInv, QueuesExact
<1> QED
  BY <1>4, <1>5, <1>6 DEF BoardInv

LEMMA WakeUpKeeps ==
  ASSUME BoardInv, NEW t \in Task, WakeUp(t)
  PROVE  BoardInv'
<1> DEFINE l == task[t].lock
<1>1. /\ task[t].pc = "lock" /\ lockOwner[l] = Nobody /\ Head(waiters[l]) = t
      /\ lockOwner' = [lockOwner EXCEPT ![l] = t]
      /\ waiters' = [waiters EXCEPT ![l] = Tail(@)]
      /\ task' = [task EXCEPT ![t].pc = "check"]
      /\ UNCHANGED <<boardLocks, slotQueue>>
  BY DEF WakeUp, Woken
<1>2. BoardTypeOK
  BY DEF BoardInv
<1>3. task[t] \in LinedTask
  BY <1>1, <1>2, LinedIsLined DEF Lined
<1>4. /\ task' \in [Task -> {IdleTask} \cup StartTask \cup LinedTask] /\ task'[t].pc = "check"
      /\ task'[t].key = task[t].key /\ task'[t].lock = l
      /\ \A u \in Task \ {t} : task'[u] = task[u]
  BY <1>1, <1>2, MovedOn DEF Lined
<1>5. l \in BoardLock
  BY <1>3 DEF LinedTask
<1> HIDE DEF l
<1>6. Waits(waiters[l], t) /\ NoRepeats(waiters[l]) /\ waiters[l] \in Seq(Task)
  BY <1>1, <1>2, <1>5 DEF BoardInv, QueuesExact, BoardTypeOK, l
<1>7. waiters[l] # <<>>
  BY <1>6 DEF Waits
<1>8. /\ Tail(waiters[l]) \in Seq(Task) /\ NoRepeats(Tail(waiters[l]))
      /\ \A u : Waits(Tail(waiters[l]), u) <=> Waits(waiters[l], u) /\ u # t
  BY <1>1, <1>6, <1>7, LeftQueue
<1>9. /\ waiters' \in [BoardLock -> Seq(Task)] /\ waiters'[l] = Tail(waiters[l])
      /\ \A m \in BoardLock \ {l} : waiters'[m] = waiters[m]
  BY <1>1, <1>2, <1>5, <1>8 DEF BoardTypeOK
<1>10. /\ lockOwner' \in [BoardLock -> Task \cup {Nobody}] /\ lockOwner'[l] = t
       /\ \A m \in BoardLock \ {l} : lockOwner'[m] = lockOwner[m]
  BY <1>1, <1>2, <1>5 DEF BoardTypeOK
<1>11. BoardTypeOK'
  BY <1>1, <1>2, <1>4, <1>9, <1>10 DEF BoardTypeOK
<1>12. LocksByKey'
  BY <1>1, <1>4 DEF BoardInv, LocksByKey, Lined, l
<1>13. LocksHeld'
  <2> SUFFICES ASSUME NEW m \in BoardLock, NEW u \in Task
               PROVE lockOwner'[m] = u <=> task'[u].pc \in Holding /\ task'[u].lock = m
    BY DEF LocksHeld
  <2>1. lockOwner[m] = u <=> task[u].pc \in Holding /\ task[u].lock = m
    BY DEF BoardInv, LocksHeld
  <2>2. Nobody # u
    BY TasksAndBoards
  <2>3. CASE u = t
    <3>1. lockOwner[m] # t
      BY <2>1, <2>3, <1>1 DEF Holding
    <3> QED
      BY <3>1, <2>3, <1>4, <1>10 DEF Holding
  <2>4. CASE u # t
    BY <2>1, <2>2, <2>4, <1>1, <1>4, <1>10
  <2> QED
    BY <2>3, <2>4
<1>14. QueuesExact'
  <2>1. ASSUME NEW m \in BoardLock, NEW u \in Task
        PROVE Waits(waiters'[m], u) <=> task'[u].pc = "lock" /\ task'[u].lock = m
    <3>1. Waits(waiters[m], u) <=> task[u].pc = "lock" /\ task[u].lock = m
      BY DEF BoardInv, QueuesExact
    <3>2. CASE m # l
      BY <3>1, <3>2, <1>4, <1>9 DEF l
    <3>3. CASE m = l
      BY <3>1, <3>3, <1>4, <1>8, <1>9
    <3> QED
      BY <3>2, <3>3
  <2>2. \A u \in Task : Waits(slotQueue', u) <=> task'[u].pc = "slot"
    BY <1>1, <1>4 DEF BoardInv, QueuesExact
  <2>3. \A m \in BoardLock : NoRepeats(waiters'[m])
    BY <1>8, <1>9 DEF BoardInv, QueuesExact
  <2> QED
    BY <1>1, <2>1, <2>2, <2>3 DEF BoardInv, QueuesExact
<1> QED
  BY <1>11, <1>12, <1>13, <1>14 DEF BoardInv

(* A task that holds its lock takes a slot, or queues for one. *)
LEMMA SlotKeeps ==
  ASSUME BoardInv, NEW t \in Task, AskSlot(t) \/ TakeSlot(t)
  PROVE  BoardInv'
<1> DEFINE c == task'[t].pc
<1>1. BoardTypeOK /\ UNCHANGED <<boardLocks, lockOwner, waiters>>
  BY DEF BoardInv, AskSlot, TakeSlot
<1>2. slotQueue \in Seq(Task) /\ NoRepeats(slotQueue)
      /\ \A u \in Task : Waits(slotQueue, u) <=> task[u].pc = "slot"
  BY DEF BoardInv, BoardTypeOK, QueuesExact
<1>3. /\ task[t].pc \in {"check", "slot"} /\ slotQueue' \in Seq(Task) /\ NoRepeats(slotQueue')
      /\ \/ /\ task' = [task EXCEPT ![t].pc = "build"]
            /\ \A u \in Task : Waits(slotQueue', u) <=> Waits(slotQueue, u) /\ u # t
         \/ /\ task' = [task EXCEPT ![t].pc = "slot"]
            /\ \A u \in Task : Waits(slotQueue', u) <=> Waits(slotQueue, u) \/ u = t
  <2>1. CASE AskSlot(t)
    <3>1. task[t].pc = "check" /\ ~Waits(slotQueue, t)
      BY <1>2, <2>1 DEF AskSlot
    <3>2. /\ Append(slotQueue, t) \in Seq(Task) /\ NoRepeats(Append(slotQueue, t))
          /\ \A u : Waits(Append(slotQueue, t), u) <=> Waits(slotQueue, u) \/ u = t
      BY <1>2, <3>1, JoinedQueue
    <3>3. \/ task' = [task EXCEPT ![t].pc = "build"] /\ slotQueue' = slotQueue
          \/ task' = [task EXCEPT ![t].pc = "slot"] /\ slotQueue' = Append(slotQueue, t)
      BY <2>1 DEF AskSlot
    <3>4. CASE task' = [task EXCEPT ![t].pc = "build"] /\ slotQueue' = slotQueue
      BY <1>2, <3>1, <3>4
    <3>5. CASE task' = [task EXCEPT ![t].pc = "slot"] /\ slotQueue' = Append(slotQueue, t)
      BY <3>1, <3>2, <3>5
    <3> QED
      BY <3>3, <3>4, <3>5
  <2>2. CASE TakeSlot(t)
    <3>1. slotQueue # <<>> /\ Head(slotQueue) = t /\ slotQueue' = Tail(slotQueue)
          /\ task' = [task EXCEPT ![t].pc = "build"]
      BY <2>2 DEF TakeSlot
    <3>2. /\ Tail(slotQueue) \in Seq(Task) /\ NoRepeats(Tail(slotQueue)) /\ Waits(slotQueue, t)
          /\ \A u : Waits(Tail(slotQueue), u) <=> Waits(slotQueue, u) /\ u # t
      BY <1>2, <3>1, LeftQueue
    <3> QED
      BY <1>2, <3>1, <3>2
  <2> QED
    BY <2>1, <2>2
<1>4. /\ task' \in [Task -> {IdleTask} \cup StartTask \cup LinedTask] /\ c \in {"slot", "build"}
      /\ task'[t].key = task[t].key /\ task'[t].lock = task[t].lock
      /\ \A u \in Task \ {t} : task'[u] = task[u]
  <2>1. task[t].pc \in Lined
    BY <1>3 DEF Lined
  <2>2. CASE task' = [task EXCEPT ![t].pc = "build"]
    BY <2>1, <2>2, <1>1, MovedOn DEF Lined
  <2>3. CASE task' = [task EXCEPT ![t].pc = "slot"]
    BY <2>1, <2>3, <1>1, MovedOn DEF Lined
  <2> QED
    BY <1>3, <2>2, <2>3
<1>5. BoardTypeOK'
  BY <1>1, <1>3, <1>4 DEF BoardTypeOK
<1>6. LocksByKey'
  BY <1>1, <1>3, <1>4 DEF BoardInv, LocksByKey, Lined
<1>7. LocksHeld'
  BY <1>1, <1>3, <1>4 DEF BoardInv, LocksHeld, Holding
<1>8. \A u \in Task : Waits(slotQueue', u) <=> task'[u].pc = "slot"
  <2> TAKE u \in Task
  <2>1. task \in [Task -> {IdleTask} \cup StartTask \cup LinedTask] /\ task[t] \in LinedTask
    BY <1>1, <1>3, LinedIsLined DEF BoardTypeOK, Lined
  <2>2. task' = [task EXCEPT ![t].pc = "build"] => task'[t].pc = "build"
    BY <2>1 DEF LinedTask
  <2>3. task' = [task EXCEPT ![t].pc = "slot"] => task'[t].pc = "slot"
    BY <2>1 DEF LinedTask
  <2>4. u # t => task'[u] = task[u]
    BY <1>4
  <2> QED
    BY <1>2, <1>3, <2>2, <2>3, <2>4
<1>9. QueuesExact'
  BY <1>1, <1>3, <1>4, <1>8 DEF BoardInv, QueuesExact
<1> QED
  BY <1>5, <1>6, <1>7, <1>9 DEF BoardInv

-----------------------------------------------------------------------------
(* A task that holds the lock of its key leaves: no key that somebody else *)
(* came for may lose its lock.                                             *)
LEMMA LeavingKeeps ==
  ASSUME BoardInv, NEW t \in Task, task[t].pc \in {"check", "build"}, Release(t),
         task' = [task EXCEPT ![t] = IdleTask], UNCHANGED <<waiters, slotQueue>>,
         boardLocks' \in [Board -> BoardLock \cup {NoLock}],
         \A k \in Board : boardLocks'[k] \in {NoLock, boardLocks[k]},
         \A u \in Task \ {t} :
             task[u].pc \in Lined => boardLocks'[task[u].key] = boardLocks[task[u].key]
  PROVE  BoardInv'
<1> DEFINE l == task[t].lock
<1>1. BoardTypeOK /\ task[t] \in LinedTask
  BY LinedIsLined DEF BoardInv, Lined
<1>2. l \in BoardLock /\ lockOwner' = [lockOwner EXCEPT ![l] = Nobody]
  BY <1>1 DEF LinedTask, Release
<1> HIDE DEF l
<1>3. /\ task' \in [Task -> {IdleTask} \cup StartTask \cup LinedTask] /\ task'[t].pc = "free"
      /\ \A u \in Task \ {t} : task'[u] = task[u]
  BY <1>1 DEF BoardTypeOK, IdleTask
<1>4. /\ lockOwner' \in [BoardLock -> Task \cup {Nobody}] /\ lockOwner'[l] = Nobody
      /\ \A m \in BoardLock \ {l} : lockOwner'[m] = lockOwner[m]
  BY <1>1, <1>2 DEF BoardTypeOK
<1>5. BoardTypeOK'
  BY <1>1, <1>3, <1>4 DEF BoardTypeOK
<1>6. LocksByKey'
  BY <1>3 DEF BoardInv, LocksByKey, Lined
<1>7. LocksHeld'
  <2> SUFFICES ASSUME NEW m \in BoardLock, NEW u \in Task
               PROVE lockOwner'[m] = u <=> task'[u].pc \in Holding /\ task'[u].lock = m
    BY DEF LocksHeld
  <2>1. lockOwner[m] = u <=> task[u].pc \in Holding /\ task[u].lock = m
    BY DEF BoardInv, LocksHeld
  <2>2. lockOwner[l] = t
    BY <1>2 DEF BoardInv, LocksHeld, Holding, l
  <2>3. Nobody # u
    BY TasksAndBoards
  <2>4. CASE u = t
    <3>1. m # l => lockOwner[m] # t
      BY <2>1, <2>4 DEF l
    <3> QED
      BY <3>1, <2>3, <2>4, <1>3, <1>4 DEF Holding
  <2>5. CASE u # t
    BY <2>1, <2>2, <2>3, <2>5, <1>3, <1>4
  <2> QED
    BY <2>4, <2>5
<1>8. QueuesExact'
  BY <1>3 DEF BoardInv, QueuesExact
<1> QED
  BY <1>5, <1>6, <1>7, <1>8 DEF BoardInv

(* When the loop is idle, nobody is in the line of a lock that nobody holds. *)
LEMMA DroppedLockIsUnused ==
  ASSUME BoardInv, LoopIdle, NEW k \in Board, DropsLock(k), NEW u \in Task,
         task[u].pc \in Lined, task[u].key = k
  PROVE  FALSE
<1> DEFINE l == boardLocks[k]
           h == Head(waiters[l])
<1>1. task[u].lock = l /\ l \in BoardLock /\ lockOwner[l] = Nobody
  BY LinedIsLined DEF BoardInv, LocksByKey, LinedTask, DropsLock
<1>2. task[u].pc = "lock"
  BY <1>1, TasksAndBoards DEF BoardInv, LocksHeld, Lined, Holding
<1>3. Waits(waiters[l], u) /\ waiters[l] \in Seq(Task) /\ NoRepeats(waiters[l])
  BY <1>1, <1>2 DEF BoardInv, BoardTypeOK, QueuesExact
<1>4. waiters[l] # <<>>
  BY <1>3 DEF Waits
<1>5. h \in Task /\ Waits(waiters[l], h)
  BY <1>3, <1>4, LeftQueue
<1>6. task[h].pc = "lock" /\ task[h].lock = l
  BY <1>1, <1>5 DEF BoardInv, QueuesExact
<1> QED
  BY <1>1, <1>5, <1>6 DEF LoopIdle, Ready, Woken

LEMMA BuildDoneKeeps ==
  ASSUME BoardInv, NEW t \in Task, BuildDone(t)
  PROVE  BoardInv'
<1> DEFINE stored == [boards EXCEPT ![task[t].key] = [stored |-> uptime]]
<1>1. PICK X \in Evictions(stored) :
         boardLocks' = [k \in Board |-> IF k \in X \cup Expired(stored) /\ DropsLock(k)
                                      THEN NoLock ELSE boardLocks[k]]
  BY DEF BuildDone
<1> HIDE DEF stored
<1>2. boardLocks' \in [Board -> BoardLock \cup {NoLock}]
  BY <1>1 DEF BoardInv, BoardTypeOK
<1>3. \A k \in Board : boardLocks'[k] \in {NoLock, boardLocks[k]}
  BY <1>1
<1>4. ASSUME NEW u \in Task \ {t}, task[u].pc \in Lined
      PROVE  boardLocks'[task[u].key] = boardLocks[task[u].key]
  <2>1. task[u].key \in Board
    BY <1>4, LinedIsLined DEF BoardInv, LinedTask
  <2>2. ~DropsLock(task[u].key)
    BY <1>4, <2>1, DroppedLockIsUnused DEF BuildDone
  <2> QED
    BY <1>1, <2>1, <2>2
<1>5. /\ task[t].pc \in {"check", "build"} /\ Release(t) /\ UNCHANGED <<waiters, slotQueue>>
      /\ task' = [task EXCEPT ![t] = IdleTask]
  BY DEF BuildDone
<1> QED
  BY <1>2, <1>3, <1>4, <1>5, LeavingKeeps

LEMMA LeftKeeps ==
  ASSUME BoardInv, NEW t \in Task, FoundRefreshed(t) \/ BuildFails(t)
  PROVE  BoardInv'
<1>1. /\ task[t].pc \in {"check", "build"} /\ Release(t)
      /\ task' = [task EXCEPT ![t] = IdleTask]
      /\ UNCHANGED <<boardLocks, waiters, slotQueue>>
  BY DEF FoundRefreshed, BuildFails
<1>2. boardLocks' \in [Board -> BoardLock \cup {NoLock}]
  BY <1>1 DEF BoardInv, BoardTypeOK
<1> QED
  BY <1>1, <1>2, LeavingKeeps

(* Every step keeps the invariant. *)
LEMMA BoardStepKeeps ==
  ASSUME BoardInv, [BNext]_bVars
  PROVE  BoardInv'
<1>1. CASE UNCHANGED <<boardLocks, lockOwner, waiters, slotQueue, task>>
  <2>1. BoardTypeOK'
    BY <1>1 DEF BoardInv, BoardTypeOK
  <2>2. LocksByKey' /\ LocksHeld'
    BY <1>1 DEF BoardInv, LocksByKey, LocksHeld
  <2>3. QueuesExact'
    BY <1>1 DEF BoardInv, QueuesExact
  <2> QED
    BY <2>1, <2>2, <2>3 DEF BoardInv
<1>2. ASSUME NEW k \in Board, GetFresh(k) PROVE BoardInv'
  BY <1>1, <1>2 DEF GetFresh
<1>3. ASSUME NEW t \in Task, NEW k \in Board, GetStale(t, k) PROVE BoardInv'
  BY <1>3, AskRefreshKeeps
<1>4. ASSUME NEW t \in Task, NEW k \in Board, GetMissing(t, k) PROVE BoardInv'
  <2>1. task[t].pc \notin Lined /\ EnterLock(t, k, "request") /\ UNCHANGED slotQueue
    BY <1>4 DEF GetMissing, IdleTask, Lined
  <2> QED
    BY <2>1, EnterKeeps
<1>5. ASSUME NEW t \in Task, StartRefresh(t) PROVE BoardInv'
  <2>1. /\ task[t].pc = "start" /\ EnterLock(t, task[t].key, "refresh")
        /\ UNCHANGED slotQueue
    BY <1>5 DEF StartRefresh
  <2>2. task[t].key \in Board /\ task[t].pc \notin Lined
    BY <2>1 DEF BoardInv, BoardTypeOK, IdleTask, StartTask, LinedTask, Lined
  <2> QED
    BY <2>1, <2>2, EnterKeeps
<1>6. ASSUME NEW t \in Task, WakeUp(t) PROVE BoardInv'
  BY <1>6, WakeUpKeeps
<1>7. ASSUME NEW t \in Task, AskSlot(t) \/ TakeSlot(t) PROVE BoardInv'
  BY <1>7, SlotKeeps
<1>8. ASSUME NEW t \in Task, BuildDone(t) PROVE BoardInv'
  BY <1>8, BuildDoneKeeps
<1>9. ASSUME NEW t \in Task, FoundRefreshed(t) \/ BuildFails(t) PROVE BoardInv'
  BY <1>9, LeftKeeps
<1>10. CASE BAdvance
  BY <1>1, <1>10 DEF BAdvance
<1>11. CASE UNCHANGED bVars
  BY <1>1, <1>11 DEF bVars
<1> QED
  BY <1>2, <1>3, <1>4, <1>5, <1>6, <1>7, <1>8, <1>9, <1>10, <1>11 DEF BNext

LEMMA BoardStarts ==
  ASSUME BInit
  PROVE  BoardInv
<1>1. /\ boardLocks = [k \in Board |-> NoLock]
      /\ lockOwner = [l \in BoardLock |-> Nobody] /\ waiters = [l \in BoardLock |-> <<>>]
      /\ slotQueue = <<>> /\ task = [t \in Task |-> IdleTask]
  BY DEF BInit
<1>2. <<>> \in Seq(Task) /\ ~(\E t : Waits(<<>>, t)) /\ NoRepeats(<<>>)
  BY SMT DEF Waits, NoRepeats
<1>3. BoardTypeOK
  BY <1>1, <1>2 DEF BoardTypeOK
<1>4. \A t \in Task : task[t].pc = "free"
  BY <1>1 DEF IdleTask
<1>5. LocksByKey /\ LocksHeld
  BY <1>1, <1>4, TasksAndBoards DEF LocksByKey, LocksHeld, Lined, Holding
<1>6. QueuesExact
  BY <1>1, <1>2, <1>4 DEF QueuesExact
<1> QED
  BY <1>3, <1>5, <1>6 DEF BoardInv

(* The tasks that build the board of a key, or wait for a slot to, all hold *)
(* the one lock of the key.                                                 *)
LEMMA BuildersHoldTheLock ==
  ASSUME BoardInv
  PROVE  OneBuildPerKey
<1> SUFFICES ASSUME NEW k \in Board
             PROVE  Cardinality({t \in Task : task[t].pc \in {"slot", "build"}
                                             /\ task[t].key = k}) <= 1
  BY DEF OneBuildPerKey
<1> DEFINE B == {t \in Task : task[t].pc \in {"slot", "build"} /\ task[t].key = k}
<1>1. ASSUME NEW t \in B, NEW u \in B PROVE t = u
  <2>1. \A v \in B : task[v].pc \in Lined /\ task[v] \in LinedTask
    BY LinedIsLined DEF BoardInv, Lined
  <2>2. \A v \in B : task[v].lock = boardLocks[k] /\ task[v].lock \in BoardLock
    BY <2>1 DEF BoardInv, LocksByKey, LinedTask
  <2>3. \A v \in B : lockOwner[boardLocks[k]] = v
    BY <2>2 DEF BoardInv, LocksHeld, Holding
  <2> QED
    BY <2>3
<1> HIDE DEF B
<1>2. CASE B = {}
  BY <1>2, FS_EmptySet, SMT DEF B
<1>3. CASE B # {}
  <2>1. PICK t : B = {t}
    BY <1>1, <1>3
  <2>2. Cardinality({t}) = 1
    BY FS_Singleton
  <2>3. Cardinality(B) = 1
    BY <2>1, <2>2
  <2> QED
    BY <2>3, SMT DEF B
<1> QED
  BY <1>2, <1>3

(* cache.py: over every run, however many coroutines ask for however many *)
(* boards, whatever fails, expires or is evicted, one task at most builds *)
(* the board of a key: the lock that get and a background refresh take    *)
(* is the one lock of the key although evictions drop locks and later     *)
(* requests make them again.                                              *)
THEOREM BoardsAreBuiltOnce == BSpec => []OneBuildPerKey
<1>1. BInit => BoardInv
  BY BoardStarts
<1>2. BoardInv /\ [BNext]_bVars => BoardInv'
  BY BoardStepKeeps
<1>3. BoardInv => OneBuildPerKey
  BY BuildersHoldTheLock
<1> QED
  BY <1>1, <1>2, <1>3, PTL DEF BSpec

-----------------------------------------------------------------------------
(***************************************************************************)
(* The daily snapshot: the primary key lets one run of a date commit.      *)
(***************************************************************************)

LEMMA DailyStep ==
    ASSUME OnePerDate, [DNext]_dVars
    PROVE  /\ OnePerDate'
           /\ \A s \in frozen : {f \in frozen' : f.date = s.date} = {s}
PROOF
<1>1. ASSUME NEW r \in Run, Insert(r), Inserts(r)
      PROVE  /\ OnePerDate'
             /\ \A s \in frozen : {f \in frozen' : f.date = s.date} = {s}
  <2>1. \A s \in frozen : s.date # gen[r].date
    BY <1>1 DEF Inserts, SnapshotsOf
  <2>2. PICK new : new.date = gen[r].date /\ frozen' = frozen \cup {new}
    BY <1>1, <2>1 DEF Insert, Inserts, SnapshotsOf
  <2> QED BY <2>1, <2>2 DEF OnePerDate
<1>2. ASSUME UNCHANGED frozen
      PROVE  /\ OnePerDate'
             /\ \A s \in frozen : {f \in frozen' : f.date = s.date} = {s}
  BY <1>2 DEF OnePerDate
<1> QED BY <1>1, <1>2 DEF DNext, BuildDaily, BuildDailyFails, LookUp, Insert, DAdvance, dVars

(* Whatever runs of a date overlap, the row that the first of them froze stays, *)
(* and stays the only one of its date (snapshot.py).                            *)
THEOREM SnapshotsStay == DInit /\ [][DNext]_dVars => SnapshotFrozen
PROOF
<1> DEFINE A == \A s \in frozen : {f \in frozen' : f.date = s.date} = {s}
<1>1. DInit => OnePerDate
  BY DEF DInit, OnePerDate
<1>2. OnePerDate /\ [DNext]_dVars => OnePerDate' /\ [A]_dVars
  BY DailyStep
<1> QED BY <1>1, <1>2, PTL DEF SnapshotFrozen

-----------------------------------------------------------------------------
(***************************************************************************)
(* The board of stored signals.  SignalInv is inductive: scans are stored  *)
(* in order and pruned in order, and retention leaves the latest complete  *)
(* one and the recent, so that what a request has read of the latest scan  *)
(* is the end of the history it reads later, or was old and incomplete.    *)
(***************************************************************************)

(* The rows of a scan are put in order by numbers, the last tie by the market. *)
LEMMA RowsAreNumbered ==
    ASSUME NEW s \in Scan
    PROVE  /\ \A m \in Seen(s) : /\ m \in Int /\ m \in Market
                                 /\ s.rows[m].strength \in Int /\ s.rows[m].priority \in Int
           /\ \A m : RankOfRow(s, m) \in Int
           /\ IsFiniteSet(Seen(s))
PROOF
<1>1. \A m \in Market : s.rows[m] \in Row \cup {NotSeen}
  BY DEF Scan
<1>2. \A m \in Seen(s) : /\ m \in Int /\ m \in Market
                         /\ s.rows[m].strength \in Int /\ s.rows[m].priority \in Int
  BY <1>1, SignalAssumption DEF Seen
<1>3. Seen(s) \in SUBSET Market
  BY DEF Seen
<1>4. IsFiniteSet(Seen(s))
  BY <1>3, SignalAssumption, FS_Subset
<1>5. ASSUME NEW m PROVE RankOfRow(s, m) \in Int
  <2> DEFINE above == {n \in SameBucket(s, m) : Outranks(s, n, m)}
  <2>1. above \in SUBSET Seen(s)
    BY DEF SameBucket, Calls
  <2>2. Cardinality(above) \in Nat
    BY <1>4, <2>1, FS_Subset, FS_CardinalityType
  <2> QED BY <2>2 DEF RankOfRow
<1> QED BY <1>2, <1>4, <1>5

LEMMA RankedInOrder ==
    ASSUME NEW s \in Scan, NEW set \in SUBSET Seen(s)
    PROVE  Ranking(s, set) \in Seq(set)
PROOF
<1> DEFINE R == {p \in set \X set : Outranks(s, p[1], p[2])}
<1>1. \A m \in set : m \in Int /\ s.rows[m].strength \in Int /\ s.rows[m].priority \in Int
  BY RowsAreNumbered
<1>2. IsFiniteSet(set)
  BY RowsAreNumbered, FS_Subset
<1>3. \A a, b \in set : <<a, b>> \in R <=>
         \/ s.rows[a].priority > s.rows[b].priority
         \/ /\ s.rows[a].priority = s.rows[b].priority
            /\ s.rows[a].strength > s.rows[b].strength
         \/ /\ s.rows[a].priority = s.rows[b].priority
            /\ s.rows[a].strength = s.rows[b].strength /\ a < b
  BY DEF Outranks
<1> HIDE DEF R
<1>4. StrictOrder(R, set)
  BY <1>1, <1>3 DEF StrictOrder
<1>5. PICK n \in Nat : InOrder(R, set) \in [1..n -> set]
  BY <1>2, <1>4, SortedAgain
<1> QED BY <1>5 DEF Ranking, R

LEMMA SignalsInOrder ==
    ASSUME NEW s \in Scan, NEW q
    PROVE  SignalRows(s, q) \in Seq(Seen(s))
PROOF
<1> DEFINE set == {m \in Seen(s) : InScope(s, m, q.scope) /\ InCategory(q.category, s.rows[m])}
           R == {p \in set \X set : SortedBefore(s, p[1], p[2], q.sort)}
           x(m) == Metric(s.rows[m], q.sort)
           r(m) == RankOfRow(s, m)
<1>1. PICK down \in BOOLEAN : down <=> q.sort \in {"strength_desc", "priority_desc"}
  OBVIOUS
<1>2. set \in SUBSET Seen(s) /\ SignalRows(s, q) = InOrder(R, set)
  BY DEF SignalRows
<1>3. \A a, b \in set : <<a, b>> \in R <=>
         IF x(a) # x(b) THEN (IF down THEN x(a) > x(b) ELSE x(a) < x(b))
         ELSE IF (r(a) = 0) # (r(b) = 0) THEN r(a) # 0
         ELSE IF r(a) # r(b) THEN r(a) < r(b) ELSE a < b
  BY <1>1 DEF SortedBefore
<1>4. \A m \in Seen(s) : m \in Int /\ x(m) \in Int /\ r(m) \in Int
  BY RowsAreNumbered DEF Metric
<1>5. IsFiniteSet(set)
  BY <1>2, RowsAreNumbered, FS_Subset
<1> HIDE DEF x, r, R, set
<1>6. \A m \in set : m \in Int /\ x(m) \in Int /\ r(m) \in Int
  BY <1>2, <1>4
<1>7. \A a \in set : <<a, a>> \notin R
  BY <1>3, <1>6
<1>8. \A a, b \in set : a = b \/ <<a, b>> \in R \/ <<b, a>> \in R
  <2> TAKE a, b \in set
  <2>1. /\ a \in Int /\ b \in Int /\ x(a) \in Int /\ x(b) \in Int
        /\ r(a) \in Int /\ r(b) \in Int
    BY <1>6
  <2> QED BY <1>3, <2>1
<1>9. \A a, b, c \in set : <<a, b>> \in R /\ <<b, c>> \in R => <<a, c>> \in R
  <2> TAKE a, b, c \in set
  <2>1. /\ a \in Int /\ b \in Int /\ c \in Int /\ x(a) \in Int /\ x(b) \in Int /\ x(c) \in Int
        /\ r(a) \in Int /\ r(b) \in Int /\ r(c) \in Int
    BY <1>6
  <2> QED BY <1>3, <2>1
<1>10. StrictOrder(R, set)
  BY <1>7, <1>8, <1>9 DEF StrictOrder
<1>11. PICK n \in Nat : InOrder(R, set) \in [1..n -> set]
  BY <1>5, <1>10, SortedAgain
<1> QED BY <1>2, <1>11

LEMMA LesserOf ==
    ASSUME NEW i \in Int, NEW j \in Int
    PROVE  Min({i, j}) = IF i <= j THEN i ELSE j
PROOF
<1> DEFINE k == IF i <= j THEN i ELSE j
<1>1. k \in {i, j} /\ \A y \in {i, j} : k <= y
  OBVIOUS
<1>2. \A x \in {i, j} : (\A y \in {i, j} : x <= y) => x = k
  OBVIOUS
<1>3. PICK S : S = {i, j}
  OBVIOUS
<1> HIDE DEF k
<1>4. Min(S) = k
  BY <1>1, <1>2, <1>3 DEF Min
<1> QED BY <1>3, <1>4 DEF k

(* A row that is shown was seen in the scan. *)
LEMMA RowsAreSeen ==
    ASSUME NEW s \in Scan, NEW q \in Request
    PROVE  RowsFor(s, q) \in Seq(Seen(s))
PROOF
<1>1. CASE q.kind = "signals"
  BY <1>1, SignalsInOrder DEF RowsFor
<1>2. CASE q.kind # "signals"
  <2> DEFINE set == {m \in Calls(s) : InWindow(s.rows[m], q.window)}
             K == {m \in Seen(s) : InCategory(q.category, s.rows[m])}
             chosen == Kept(Ranking(s, set), K)
  <2>1. RowsFor(s, q) = SubSeq(chosen, 1, Min({Len(chosen), DisplayLimit[q.category]}))
    BY <1>2 DEF RowsFor, OpportunityRows
  <2>2. set \in SUBSET Seen(s)
    BY DEF Calls
  <2>3. Ranking(s, set) \in Seq(Seen(s))
    <3> HIDE DEF set
    <3>1. Ranking(s, set) \in Seq(set)
      BY <2>2, RankedInOrder
    <3> QED BY <2>2, <3>1, SeqMonotonic
  <2> HIDE DEF set, K
  <2>4. chosen \in Seq(Seen(s))
    BY <2>3, KeptOfList
  <2> HIDE DEF chosen
  <2>5. PICK k \in Int : k = Min({Len(chosen), DisplayLimit[q.category]}) /\ k <= Len(chosen)
    <3>1. Len(chosen) \in Int /\ DisplayLimit[q.category] \in Int
      BY <2>4, SignalAssumption
    <3>2. PICK a \in Int, b \in Int : a = Len(chosen) /\ b = DisplayLimit[q.category]
      BY <3>1
    <3>3. Min({a, b}) \in Int /\ Min({a, b}) <= a
      BY LesserOf
    <3> QED BY <3>2, <3>3
  <2>6. SubSeq(chosen, 1, k) \in Seq(Seen(s))
    <3>1. \A i \in 1..k : chosen[i] \in Seen(s)
      BY <2>4, <2>5
    <3> QED BY <3>1, SubSeqProperties
  <2> QED BY <2>1, <2>5, <2>6
<1> QED BY <1>1, <1>2

(* A market that the latest scan saw has a history that reaches it. *)
FirstKept(past, K) ==
    SubSeq(Kept(past, K), 1, Min({Len(Kept(past, K)), HistoryLimit}))

LEMMA HistoryReaches ==
    ASSUME NEW past \in Seq(Scan), past # <<>>, NEW K, past[Len(past)] \in K,
           NEW m, NEW t, NEW h, h = FirstKept(past, K)
    PROVE  Trajectory(h, m, t).scans < HistoryLimit =>
              Trajectory(h, m, t).ends = past[Len(past)].at
PROOF
<1>1. PICK r : r = Kept(past, K) /\ r \in Seq(Scan) /\ r # <<>> /\ r[Len(r)] = past[Len(past)]
  BY KeptOfList
<1>2. PICK n \in Nat \ {0} : n = Len(r)
  BY <1>1
<1>3. Min({n, HistoryLimit}) = IF n <= HistoryLimit THEN n ELSE HistoryLimit
  BY SignalAssumption, LesserOf
<1>4. PICK k \in Nat \ {0} : /\ k = Min({n, HistoryLimit}) /\ k <= n
                             /\ k < HistoryLimit => k = n
  BY <1>3, SignalAssumption
<1>5. h = SubSeq(r, 1, k)
  BY <1>1, <1>2, <1>4 DEF FirstKept
<1>6. /\ Len(h) = IF 1 <= k THEN k - 1 + 1 ELSE 0
      /\ \A i \in 1..k-1+1 : h[i] = r[1 + i - 1]
      /\ h \in Seq(Scan)
  <2>1. \A i \in 1..k : r[i] \in Scan
    BY <1>1, <1>2, <1>4
  <2> QED BY <1>5, <2>1, SubSeqProperties
<1>7. Len(h) = k /\ h[k] = r[k]
  BY <1>6
<1>8. h # <<>>
  BY <1>7
<1>9. Trajectory(h, m, t).scans = k /\ Trajectory(h, m, t).ends = h[k].at
  BY <1>7, <1>8 DEF Trajectory
<1> QED BY <1>1, <1>2, <1>4, <1>7, <1>9

(* A request in progress rests on a scan that lasts, whatever is done to the others. *)
RestsOn(s, v) == Lasting(s) /\ (s.at > v.at \/ (s.at = v.at /\ s.rows = v.rows))

(* Pruning keeps the scans in order, and a scan that lasts or one that replaces it. *)
LEMMA PruneStep ==
    ASSUME ScansTyped, Prune
    PROVE  /\ ScansTyped'
           /\ \A i \in DOMAIN scans : Lasting(scans[i]) => \E k \in DOMAIN scans' :
                 /\ Lasting(scans'[k])
                 /\ scans'[k] = scans[i] \/ scans'[k].at > scans[i].at
PROOF
<1> DEFINE K == {s \in ToSet(scans) : Retained(s)}
<1>1. /\ wall \in Nat /\ scans \in Seq(Scan)
      /\ \A i \in DOMAIN scans : scans[i].at <= wall
      /\ \A i, j \in DOMAIN scans : i < j => scans[i].at < scans[j].at
  BY DEF ScansTyped
<1>2. PICK n \in Nat : n = Len(scans) /\ DOMAIN scans = 1..n
  BY <1>1
<1>3. \A i \in 1..n : scans[i] \in Scan /\ scans[i].at \in Nat /\ scans[i].at <= wall
  <2>1. \A i \in 1..n : scans[i] \in Scan
    BY <1>1, <1>2
  <2> QED BY <1>1, <1>2, <2>1 DEF Scan
<1>4. scans' = Kept(scans, K) /\ wall' = wall
  BY DEF Prune
<1>5. \A i \in 1..n : Retained(scans[i]) => scans[i] \in K
  BY <1>2 DEF ToSet
<1> HIDE DEF K
<1>6. scans' \in Seq(Scan)
  BY <1>1, <1>4, KeptOfList
<1>7. PICK q : /\ \A k \in DOMAIN scans' : q[k] \in 1..n /\ scans'[k] = scans[q[k]]
               /\ \A j, k \in DOMAIN scans' : j < k => q[j] < q[k]
               /\ \A i \in 1..n : scans[i] \in K => \E k \in DOMAIN scans' : q[k] = i
  BY <1>2, <1>4, KeptInOrder
<1>8. ScansTyped'
  <2>1. \A k \in DOMAIN scans' : scans'[k].at <= wall'
    BY <1>3, <1>4, <1>7
  <2>2. \A j, k \in DOMAIN scans' : j < k => scans'[j].at < scans'[k].at
    BY <1>1, <1>2, <1>7
  <2> QED BY <1>1, <1>4, <1>6, <2>1, <2>2 DEF ScansTyped
<1>9. \A i \in 1..n : Retained(scans[i]) => \E k \in DOMAIN scans' : scans'[k] = scans[i]
  BY <1>5, <1>7
<1>10. \A i \in 1..n : Lasting(scans[i]) =>
          \E j \in 1..n : /\ Retained(scans[j]) /\ Lasting(scans[j])
                          /\ j = i \/ scans[j].at > scans[i].at
  <2> SUFFICES ASSUME NEW i \in 1..n, Lasting(scans[i])
               PROVE  \E j \in 1..n : /\ Retained(scans[j]) /\ Lasting(scans[j])
                                      /\ j = i \/ scans[j].at > scans[i].at
    OBVIOUS
  <2>1. CASE InHotWindow(scans[i])
    BY <2>1 DEF Retained
  <2>2. CASE ~InHotWindow(scans[i])
    <3> DEFINE later == {j \in 1..n : scans[j].complete}
               ages == {wall - scans[j].at : j \in later}
    <3>1. i \in later
      BY <2>2 DEF Lasting
    <3>2. ages \in SUBSET Nat /\ ages # {}
      <4>1. \A j \in later : wall - scans[j].at \in Nat
        BY <1>1, <1>3
      <4> HIDE DEF later
      <4> QED BY <3>1, <4>1
    <3>3. PICK age \in ages : \A other \in ages : age <= other
      <4> HIDE DEF ages
      <4> QED BY <3>2, LeastNumber
    <3>4. PICK j \in later : age = wall - scans[j].at
      OBVIOUS
    <3>5. \A k \in later : wall - scans[j].at <= wall - scans[k].at
      BY <3>3, <3>4
    <3>6. \A k \in later : scans[k].at <= scans[j].at
      <4> TAKE k \in later
      <4>1. scans[k].at \in Nat /\ scans[j].at \in Nat
        BY <1>3
      <4>2. wall - scans[j].at <= wall - scans[k].at
        BY <3>5
      <4> QED BY <1>1, <4>1, <4>2
    <3>7. LatestComplete(scans[j])
      BY <1>2, <3>4, <3>6 DEF LatestComplete
    <3>8. j = i \/ scans[j].at > scans[i].at
      <4>1. scans[i].at \in Nat /\ scans[j].at \in Nat /\ scans[i].at <= scans[j].at
        BY <1>3, <3>1, <3>6
      <4>2. i \in Int /\ j \in Int /\ i \in DOMAIN scans /\ j \in DOMAIN scans
        BY <1>2
      <4>3. scans[i].at = scans[j].at => ~(i < j) /\ ~(j < i)
        BY <1>1, <4>1, <4>2
      <4> QED BY <4>1, <4>2, <4>3
    <3> QED BY <3>4, <3>7, <3>8 DEF Retained, Lasting
  <2> QED BY <2>1, <2>2
<1>11. \A i \in DOMAIN scans : Lasting(scans[i]) => \E k \in DOMAIN scans' :
          Lasting(scans'[k]) /\ (scans'[k] = scans[i] \/ scans'[k].at > scans[i].at)
  <2> SUFFICES ASSUME NEW i \in 1..n, Lasting(scans[i])
               PROVE  \E k \in DOMAIN scans' : /\ Lasting(scans'[k])
                                               /\ \/ scans'[k] = scans[i]
                                                  \/ scans'[k].at > scans[i].at
    BY <1>2
  <2>1. PICK j \in 1..n : /\ Retained(scans[j]) /\ Lasting(scans[j])
                          /\ j = i \/ scans[j].at > scans[i].at
    BY <1>10
  <2>2. PICK k \in DOMAIN scans' : scans'[k] = scans[j]
    BY <1>9, <2>1
  <2> QED BY <2>1, <2>2
<1> QED BY <1>8, <1>11

LEMMA SignalStep == SignalInv /\ [GNext]_gVars => SignalInv'
PROOF
<1> SUFFICES ASSUME SignalInv, [GNext]_gVars PROVE SignalInv'
  OBVIOUS
<1>1. /\ wall \in Nat /\ scans \in Seq(Scan) /\ Len(scans) \in Nat
      /\ DOMAIN scans = 1..Len(scans)
      /\ \A i \in DOMAIN scans : /\ scans[i] \in Scan /\ scans[i].at \in Nat
                                 /\ scans[i].at <= wall
      /\ \A i, j \in DOMAIN scans : i < j => scans[i].at < scans[j].at
  <2>1. /\ wall \in Nat /\ scans \in Seq(Scan)
        /\ \A i \in DOMAIN scans : scans[i].at <= wall
        /\ \A i, j \in DOMAIN scans : i < j => scans[i].at < scans[j].at
    BY DEF SignalInv, ScansTyped
  <2>2. Len(scans) \in Nat /\ DOMAIN scans = 1..Len(scans)
    BY <2>1
  <2>3. \A i \in DOMAIN scans : scans[i] \in Scan
    BY <2>1, <2>2
  <2>4. \A s \in Scan : s.at \in Nat
    BY DEF Scan
  <2> QED BY <2>1, <2>2, <2>3, <2>4
<1>2. ASSUME UNCHANGED <<view, wall>>, ScansTyped',
             \A i \in DOMAIN scans : Lasting(scans[i]) => \E k \in DOMAIN scans' :
                /\ Lasting(scans'[k])
                /\ \/ scans'[k].at = scans[i].at /\ scans'[k].rows = scans[i].rows
                   \/ scans'[k].at > scans[i].at
      PROVE  SignalInv'
  <2>1. ScansTyped' /\ TrajectoryReachesRow'
    BY <1>2 DEF SignalInv, TrajectoryReachesRow, Answered
  <2>2. RowsSeen'
    BY <1>2 DEF SignalInv, RowsSeen
  <2>3. ReadsLatest'
    <3> SUFFICES ASSUME view.pc \in {"latest", "rows"} PROVE ReadsLatest'
      BY <1>2 DEF ReadsLatest
    <3>1. /\ view.scan \in Scan /\ view.q \in Request /\ view.scan.at \in Nat
          /\ Lasting(view.scan) => \E i \in DOMAIN scans : RestsOn(scans[i], view.scan)
      BY DEF SignalInv, ReadsLatest, Scan, RestsOn
    <3>2. \A k \in DOMAIN scans' : scans'[k].at \in Nat
      <4>1. scans' \in Seq(Scan)
        BY <1>2 DEF ScansTyped
      <4>2. \A k \in DOMAIN scans' : scans'[k] \in Scan
        BY <4>1
      <4> QED BY <4>2 DEF Scan
    <3>3. Lasting(view.scan) => \E k \in DOMAIN scans' : RestsOn(scans'[k], view.scan)
      <4> SUFFICES ASSUME Lasting(view.scan)
                   PROVE  \E k \in DOMAIN scans' : RestsOn(scans'[k], view.scan)
        OBVIOUS
      <4>1. PICK i \in DOMAIN scans : RestsOn(scans[i], view.scan)
        BY <3>1
      <4>2. PICK k \in DOMAIN scans' : /\ Lasting(scans'[k])
                                       /\ \/ /\ scans'[k].at = scans[i].at
                                             /\ scans'[k].rows = scans[i].rows
                                          \/ scans'[k].at > scans[i].at
        BY <1>2, <4>1 DEF RestsOn
      <4>3. scans'[k].at \in Nat /\ scans[i].at \in Nat
        BY <1>1, <3>2
      <4> QED BY <3>1, <4>1, <4>2, <4>3 DEF RestsOn
    <3>4. Lasting(view.scan)' = Lasting(view.scan) /\ \A s : Lasting(s)' = Lasting(s)
      BY <1>2 DEF Lasting, InHotWindow
    <3> QED BY <1>2, <3>1, <3>3, <3>4 DEF ReadsLatest, RestsOn, Lasting, InHotWindow
  <2> QED BY <2>1, <2>2, <2>3 DEF SignalInv
<1>3. CASE StoreScan
  <2>1. PICK rows \in [Market -> Row \cup {NotSeen}], complete \in BOOLEAN :
           scans' = Append(scans, [at |-> wall, complete |-> complete, rows |-> rows,
                                   kept |-> FALSE])
    BY <1>3 DEF StoreScan
  <2>2. PICK new \in Scan : /\ new = [at |-> wall, complete |-> complete, rows |-> rows,
                                      kept |-> FALSE]
                            /\ new.at = wall
    <3>1. [at |-> wall, complete |-> complete, rows |-> rows, kept |-> FALSE] \in Scan
      BY <1>1 DEF Scan
    <3> QED BY <3>1
  <2>3. /\ scans' \in Seq(Scan) /\ DOMAIN scans' = 1..(Len(scans) + 1)
        /\ \A i \in DOMAIN scans' : IF i = Len(scans) + 1 THEN scans'[i] = new
                                    ELSE i \in DOMAIN scans /\ scans'[i] = scans[i]
    <3>1. scans' = Append(scans, new)
      BY <2>1, <2>2
    <3>2. /\ scans' \in Seq(Scan) /\ Len(scans') = Len(scans) + 1
          /\ \A i \in 1..Len(scans) : scans'[i] = scans[i]
          /\ scans'[Len(scans) + 1] = new
      BY <1>1, <3>1, AppendProperties
    <3>3. DOMAIN scans' = 1..(Len(scans) + 1)
      BY <1>1, <3>2
    <3> QED BY <1>1, <3>2, <3>3
  <2>4. wall' = wall /\ view' = view
    BY <1>3 DEF StoreScan
  <2>5. \A i \in DOMAIN scans : scans[i].at < wall
    <3> SUFFICES ASSUME NEW i \in DOMAIN scans PROVE scans[i].at < wall
      OBVIOUS
    <3>1. scans # <<>> /\ wall - scans[Len(scans)].at >= RefreshInterval
      BY <1>1, <1>3 DEF StoreScan, Last
    <3>2. RefreshInterval \in Nat \ {0} /\ Len(scans) \in DOMAIN scans
      BY <1>1, <3>1, SignalAssumption
    <3>3. scans[i].at <= scans[Len(scans)].at
      BY <1>1, <3>2
    <3> QED BY <1>1, <3>1, <3>2, <3>3
  <2>6. ScansTyped'
    <3>1. \A i \in DOMAIN scans' : scans'[i].at <= wall
      BY <1>1, <2>2, <2>3
    <3>2. \A i, j \in DOMAIN scans' : i < j => scans'[i].at < scans'[j].at
      BY <1>1, <2>2, <2>3, <2>5
    <3> QED BY <1>1, <2>3, <2>4, <3>1, <3>2 DEF ScansTyped
  <2>7. \A i \in DOMAIN scans : i \in DOMAIN scans' /\ scans'[i] = scans[i]
    BY <1>1, <2>3
  <2> QED BY <1>2, <2>4, <2>6, <2>7
<1>4. CASE FreezeScan
  <2>1. PICK n \in DOMAIN scans : /\ scans' = [scans EXCEPT ![n].kept = TRUE]
                                  /\ wall' = wall /\ view' = view
    BY <1>4 DEF FreezeScan
  <2>2. PICK new \in Scan : new = [scans[n] EXCEPT !.kept = TRUE]
    BY <1>1 DEF Scan
  <2>3. new.at = scans[n].at /\ new.rows = scans[n].rows /\ new.complete = scans[n].complete
    BY <1>1, <2>2 DEF Scan
  <2>4. scans' = [scans EXCEPT ![n] = new]
    BY <1>1, <2>1, <2>2
  <2>5. /\ scans' \in Seq(Scan) /\ DOMAIN scans' = DOMAIN scans
        /\ scans'[n] = new
        /\ \A i \in DOMAIN scans : i # n => scans'[i] = scans[i]
    <3>1. PICK old \in Seq(Scan) : old = scans
      BY <1>1
    <3>2. n \in 1..Len(old)
      BY <1>1, <3>1
    <3>3. /\ [old EXCEPT ![n] = new] \in Seq(Scan)
          /\ Len([old EXCEPT ![n] = new]) = Len(old)
          /\ \A j \in 1..Len(old) : [old EXCEPT ![n] = new][j] = IF j = n THEN new ELSE old[j]
      BY <3>2, ExceptSeq
    <3>4. scans' = [old EXCEPT ![n] = new]
      BY <2>4, <3>1
    <3> QED BY <1>1, <3>1, <3>2, <3>3, <3>4
  <2>6. \A i \in DOMAIN scans : /\ scans'[i].at = scans[i].at /\ scans'[i].rows = scans[i].rows
                               /\ scans'[i].complete = scans[i].complete
    BY <2>3, <2>5
  <2>7. ScansTyped'
    BY <1>1, <2>1, <2>5, <2>6 DEF ScansTyped
  <2>8. \A i \in DOMAIN scans : Lasting(scans[i]) => Lasting(scans'[i])
    BY <2>6 DEF Lasting, InHotWindow
  <2> QED BY <1>2, <2>1, <2>5, <2>6, <2>7, <2>8
<1>5. CASE Prune
  <2>1. ScansTyped /\ wall' = wall /\ view' = view
    BY <1>5 DEF SignalInv, Prune
  <2> QED BY <1>2, <1>5, <2>1, PruneStep
<1>6. ASSUME NEW q \in Request, ReadLatest(q) PROVE SignalInv'
  <2>1. /\ scans # <<>> /\ view' = [pc |-> "latest", q |-> q, scan |-> scans[Len(scans)]]
        /\ wall' = wall /\ scans' = scans
    BY <1>6 DEF ReadLatest, Last
  <2>2. ScansTyped'
    BY <2>1 DEF SignalInv, ScansTyped
  <2>3. Len(scans) \in DOMAIN scans
    BY <1>1, <2>1
  <2>4. ReadsLatest'
    BY <1>1, <2>1, <2>3 DEF ReadsLatest, Lasting, InHotWindow
  <2> QED BY <2>1, <2>2, <2>4 DEF SignalInv, RowsSeen, TrajectoryReachesRow, Answered
<1>7. CASE ReadRows
  <2>1. /\ view.pc = "latest" /\ wall' = wall /\ scans' = scans
        /\ \E rows : /\ view' = [pc |-> "rows", q |-> view.q, scan |-> view.scan, rows |-> rows]
                     /\ rows = <<>> \/ rows = RowsFor(view.scan, view.q)
    BY <1>7 DEF ReadRows
  <2>2. view.scan \in Scan /\ view.q \in Request
    BY <2>1 DEF SignalInv, ReadsLatest
  <2>3. RowsFor(view.scan, view.q) \in Seq(Seen(view.scan)) /\ <<>> \in Seq(Seen(view.scan))
    BY <2>2, RowsAreSeen
  <2>4. RowsSeen'
    <3>1. view'.rows \in Seq(Seen(view.scan)) /\ view'.scan = view.scan
      <4>1. PICK rows : /\ view' = [pc |-> "rows", q |-> view.q, scan |-> view.scan, rows |-> rows]
                        /\ rows \in Seq(Seen(view.scan))
        BY <2>1, <2>3
      <4> QED BY <4>1
    <3>2. Seen(view.scan)' = Seen(view.scan)
      BY <2>1 DEF Seen
    <3> QED BY <3>1, <3>2 DEF RowsSeen
  <2>5. ScansTyped'
    BY <2>1 DEF SignalInv, ScansTyped
  <2>6. ReadsLatest'
    BY <2>1 DEF SignalInv, ReadsLatest, Lasting, InHotWindow
  <2> QED BY <2>1, <2>4, <2>5, <2>6 DEF SignalInv, TrajectoryReachesRow, Answered
<1>8. CASE AttachTrajectory
  <2>1. /\ view.pc = "rows" /\ wall' = wall /\ scans' = scans
        /\ view'.pc = "answered" /\ view'.scan = view.scan
        /\ view'.latest = \A i \in DOMAIN scans : scans[i].at <= view.scan.at
        /\ view'.recent = InHotWindow(view.scan)
        /\ view'.paths = [i \in DOMAIN view.rows |->
                             Trajectory(HistoryOf(view.rows[i]), view.rows[i], wall)]
    BY <1>8 DEF AttachTrajectory
  <2>2. ASSUME \A i \in DOMAIN scans : scans[i].at <= view.scan.at, Lasting(view.scan),
               NEW i \in DOMAIN view'.paths, view'.paths[i].scans < HistoryLimit
        PROVE  view'.paths[i].ends = view.scan.at
    <3> DEFINE latest == scans[Len(scans)]
    <3>1. PICK j \in DOMAIN scans : RestsOn(scans[j], view.scan)
      BY <2>1, <2>2 DEF SignalInv, ReadsLatest, RestsOn
    <3>2. scans[j].at = view.scan.at /\ scans[j].rows = view.scan.rows
      <4>1. view.scan \in Scan
        BY <2>1 DEF SignalInv, ReadsLatest
      <4>2. view.scan.at \in Nat /\ scans[j].at \in Nat /\ scans[j].at <= view.scan.at
        BY <1>1, <2>2, <4>1 DEF Scan
      <4> QED BY <3>1, <4>2 DEF RestsOn
    <3>3. j = Len(scans)
      <4>1. Len(scans) \in DOMAIN scans /\ j <= Len(scans)
        BY <1>1
      <4>2. latest.at <= scans[j].at
        BY <2>2, <3>2, <4>1
      <4> QED BY <1>1, <4>1, <4>2
    <3>4. latest.at = view.scan.at /\ latest.rows = view.scan.rows
      BY <3>2, <3>3
    <3>5. PICK m : m = view.rows[i]
      OBVIOUS
    <3>6. m \in Seen(view.scan)
      BY <2>1, <2>2, <3>5 DEF SignalInv, RowsSeen
    <3>7. PICK past \in Seq(Scan), t \in Nat : past = scans /\ t = wall
      BY <1>1
    <3>8. past # <<>> /\ past[Len(past)] = latest /\ past[Len(past)].rows[m] # NotSeen
      BY <1>1, <3>1, <3>4, <3>6, <3>7 DEF Seen
    <3>9. PICK K : K = {s \in ToSet(past) : s.rows[m] # NotSeen}
      OBVIOUS
    <3>10. PICK h : h = FirstKept(past, K) /\ h = HistoryOf(m)
      BY <3>7, <3>9 DEF HistoryOf, Recorded, FirstKept
    <3>11. view'.paths[i] = Trajectory(h, m, t)
      BY <2>1, <2>2, <3>5, <3>7, <3>10
    <3>12. Trajectory(h, m, t).scans < HistoryLimit =>
              Trajectory(h, m, t).ends = past[Len(past)].at
      <4>1. past[Len(past)] \in K
        BY <1>1, <3>1, <3>7, <3>8, <3>9 DEF ToSet
      <4>2. past # <<>>
        BY <3>8
      <4> HIDE <3>7, <3>9
      <4>3. h = FirstKept(past, K)
        BY <3>10
      <4> HIDE <3>10
      <4> QED BY <4>1, <4>2, <4>3, HistoryReaches
    <3> QED BY <2>2, <3>4, <3>8, <3>11, <3>12
  <2>3. TrajectoryReachesRow'
    BY <2>1, <2>2 DEF TrajectoryReachesRow, Lasting
  <2>4. ScansTyped'
    BY <2>1 DEF SignalInv, ScansTyped
  <2> QED BY <2>1, <2>3, <2>4 DEF SignalInv, RowsSeen, ReadsLatest
<1>9. CASE GAdvance
  <2>1. wall' = wall + 1 /\ scans' = scans /\ view' = view /\ view.pc \in {"none", "answered"}
    BY <1>9 DEF GAdvance
  <2>2. ScansTyped'
    BY <1>1, <2>1 DEF ScansTyped
  <2> QED BY <2>1, <2>2 DEF SignalInv, ReadsLatest, RowsSeen, TrajectoryReachesRow, Answered
<1>10. CASE UNCHANGED gVars
  BY <1>10 DEF gVars, SignalInv, ScansTyped, ReadsLatest, RowsSeen, TrajectoryReachesRow,
               Answered, Lasting, InHotWindow
<1> QED BY <1>3, <1>4, <1>5, <1>6, <1>7, <1>8, <1>9, <1>10 DEF GNext

(* Whatever scans are stored, frozen and pruned between the queries of a *)
(* request: while the row's scan is the latest, and complete or in the   *)
(* retention window, the trajectory beside a row reaches it, unless the  *)
(* read of the history was full before.                                  *)
THEOREM TrajectoriesReachRows == GInit /\ [][GNext]_gVars => []TrajectoryReachesRow
PROOF
<1>1. GInit => SignalInv
  <2>1. <<>> \in Seq(Scan)
    OBVIOUS
  <2> QED BY <2>1 DEF GInit, SignalInv, ScansTyped, ReadsLatest, RowsSeen,
                      TrajectoryReachesRow, Answered, NoView
<1>2. SignalInv => TrajectoryReachesRow
  BY DEF SignalInv
<1> QED BY <1>1, <1>2, SignalStep, PTL

-----------------------------------------------------------------------------
(***************************************************************************)
(* The scores of the board.  CardsOfAll is inductive: once the cards stand *)
(* no request for trades is open and no other view is asked for.           *)
(***************************************************************************)

(* The families that a signal alone can carry, and those of its trades. *)
OwnFamily == {"price", "order_book"}
FlowFamily == {"trade_flow", "wallet_concentration", "timing"}
FamiliesOf(evidence) == {e.family : e \in evidence}

(* Whatever the trades are, their indicators are of their own families. *)
LEMMA FlowIsApart ==
    ASSUME NEW page, NEW price, NEW change, NEW start, NEW end
    PROVE  FamiliesOf(FlowEvidence(FlowIndicators(page, price, change, start, end)))
               \subseteq FlowFamily
PROOF
<1> DEFINE K == FlowIndicators(page, price, change, start, end)
<1>1. LargeRelativeTrade(page).family = "trade_flow"
  BY DEF LargeRelativeTrade, Indicator
<1>2. ConsensusOpposingFlow(page, price, change).family = "trade_flow"
  BY DEF ConsensusOpposingFlow, Indicator
<1>3. ConcentratedFlow(page).family = "wallet_concentration"
  BY DEF ConcentratedFlow, Indicator
<1>4. ClusteredTrades(page).family = "trade_flow"
  BY DEF ClusteredTrades, Indicator
<1>5. LateLargeTrade(page, start, end).family = "timing"
  BY DEF LateLargeTrade, Indicator
<1>6. \A i \in K : i.family \in FlowFamily
  BY <1>1, <1>2, <1>3, <1>4, <1>5 DEF FlowIndicators, FlowFamily
<1> HIDE DEF K
<1>7. ASSUME NEW e \in FlowEvidence(K) PROVE e.family \in FlowFamily
  <2> DEFINE J == {j \in K : j.fired}
  <2>1. J \subseteq K
    OBVIOUS
  <2> HIDE DEF J
  <2>2. PICK i \in J : e = [family |-> i.family, magnitude |-> i.magnitude]
    BY DEF FlowEvidence, J
  <2> QED BY <1>6, <2>1, <2>2
<1> QED BY <1>7 DEF FamiliesOf, K

LEMMA OwnIsOwn ==
    ASSUME NEW signal
    PROVE  FamiliesOf(OwnEvidence(signal)) \subseteq OwnFamily
PROOF
  BY DEF FamiliesOf, OwnEvidence, OwnFamily

LEMMA FamiliesCounted ==
    ASSUME NEW own, NEW flow, FamiliesOf(own) \subseteq OwnFamily,
           FamiliesOf(flow) \subseteq FlowFamily
    PROVE  /\ CountFamilies(own) \in Nat /\ CountFamilies(own \cup flow) \in Nat
           /\ CountFamilies(own) <= CountFamilies(own \cup flow)
           /\ FamiliesOf(own \cup flow) \subseteq OwnFamily => own \cup flow = own
PROOF
<1>1. IsFiniteSet(OwnFamily \cup FlowFamily)
  <2>1. IsFiniteSet({})
    BY FS_EmptySet
  <2>2. \A S : IsFiniteSet(S) => \A x : IsFiniteSet(S \cup {x})
    BY FS_AddElement
  <2>3. OwnFamily \cup FlowFamily =
          ((({"price"} \cup {"order_book"}) \cup {"trade_flow"})
              \cup {"wallet_concentration"}) \cup {"timing"}
    BY DEF OwnFamily, FlowFamily
  <2>4. {} \cup {"price"} = {"price"}
    OBVIOUS
  <2> QED BY <2>1, <2>2, <2>3, <2>4
<1>2. /\ FamiliesOf(own \cup flow) = FamiliesOf(own) \cup FamiliesOf(flow)
      /\ \A e \in flow : e.family \in FamiliesOf(flow)
  BY DEF FamiliesOf
<1>3. CountFamilies(own) = Cardinality(FamiliesOf(own))
      /\ CountFamilies(own \cup flow) = Cardinality(FamiliesOf(own \cup flow))
  BY DEF CountFamilies, FamiliesOf
<1>4. IsFiniteSet(FamiliesOf(own \cup flow))
  <2>1. FamiliesOf(own \cup flow) \in SUBSET (OwnFamily \cup FlowFamily)
    BY <1>2
  <2> QED BY <1>1, <2>1, FS_Subset
<1>5. /\ IsFiniteSet(FamiliesOf(own))
      /\ Cardinality(FamiliesOf(own)) <= Cardinality(FamiliesOf(own \cup flow))
  BY <1>2, <1>4, FS_Subset
<1>6. ASSUME FamiliesOf(own \cup flow) \subseteq OwnFamily PROVE flow = {}
  BY <1>2, <1>6 DEF OwnFamily, FlowFamily
<1> QED BY <1>3, <1>4, <1>5, <1>6, FS_CardinalityType

-----------------------------------------------------------------------------
LEMMA TimesKeepsOrder ==
    ASSUME NEW z \in Nat, NEW x \in Nat, NEW y \in Nat, x <= y
    PROVE  z * x \in Nat /\ z * y \in Nat /\ z * x <= z * y
PROOF
<1>1. PICK d \in Nat : y = x + d
  <2>1. y - x \in Nat /\ y = x + (y - x)
    OBVIOUS
  <2> QED BY <2>1
<1>2. z * y = z * x + z * d /\ z * x \in Nat /\ z * d \in Nat
  BY <1>1
<1> QED BY <1>2

LEMMA DivKeepsOrder ==
    ASSUME NEW x \in Nat, NEW y \in Nat, x <= y, NEW d \in Nat \ {0}
    PROVE  x \div d \in Int /\ y \div d \in Int /\ x \div d <= y \div d
PROOF
<1>1. x \div d \in Int /\ y \div d \in Int
  OBVIOUS
<1>2. x = d * (x \div d) + (x % d) /\ 0 <= x % d /\ x % d < d
  OBVIOUS
<1>3. y = d * (y \div d) + (y % d) /\ 0 <= y % d /\ y % d < d
  OBVIOUS
<1>4. PICK a \in Int, b \in Int, r \in Int, t \in Int :
         /\ a = x \div d /\ b = y \div d
         /\ x = d * a + r /\ 0 <= r /\ r < d
         /\ y = d * b + t /\ 0 <= t /\ t < d
  BY <1>1, <1>2, <1>3
<1>5. ASSUME b < a PROVE FALSE
  <2>1. PICK e \in Nat : a = b + 1 + e
    <3>1. a - b - 1 \in Nat /\ a = b + 1 + (a - b - 1)
      BY <1>5
    <3> QED BY <3>1
  <2>2. d * a = d * b + d + d * e /\ d * e >= 0 /\ d * b \in Int /\ d * e \in Int
    BY <2>1
  <2> QED BY <1>4, <2>2
<1> QED BY <1>1, <1>4, <1>5

(* More families of evidence never make an analysis look less reliable. *)
LEMMA ReliabilityRises ==
    ASSUME NEW q \in Nat, NEW c \in Nat, NEW n \in Nat, NEW k \in Nat, n <= k
    PROVE  Reliability(q, k, c) >= Reliability(q, n, c)
PROOF
<1> DEFINE T == TargetFamilies
           D == 30000 * T
           F(x) == 45 * T + 55 * Min({x, T})
           G(x) == (q * F(x) * (240 + 20 * c)) \div D
<1>1. T \in Nat \ {0} /\ D \in Nat \ {0} /\ 240 + 20 * c \in Nat
  BY ScoreAssumption
<1>2. F(n) \in Nat /\ F(k) \in Nat /\ F(n) <= F(k)
  <2>1. Min({n, T}) = (IF n <= T THEN n ELSE T) /\ Min({k, T}) = (IF k <= T THEN k ELSE T)
    BY <1>1, LesserOf
  <2> QED BY <1>1, <2>1
<1> HIDE DEF F, D
<1>3. q * F(n) \in Nat /\ q * F(k) \in Nat /\ q * F(n) <= q * F(k)
  BY <1>2, TimesKeepsOrder
<1>4. /\ q * F(n) * (240 + 20 * c) \in Nat /\ q * F(k) * (240 + 20 * c) \in Nat
      /\ q * F(n) * (240 + 20 * c) <= q * F(k) * (240 + 20 * c)
  <2>1. PICK w \in Nat, x \in Nat, y \in Nat :
           w = 240 + 20 * c /\ x = q * F(n) /\ y = q * F(k)
    BY <1>1, <1>3
  <2>2. w * x \in Nat /\ w * y \in Nat /\ w * x <= w * y
    BY <1>3, <2>1, TimesKeepsOrder
  <2>3. w * x = x * w /\ w * y = y * w
    OBVIOUS
  <2> QED BY <2>1, <2>2, <2>3
<1>5. G(n) \in Int /\ G(k) \in Int /\ G(n) <= G(k)
  BY <1>1, <1>4, DivKeepsOrder
<1>6. Reliability(q, n, c) = Min({95, G(n)}) /\ Reliability(q, k, c) = Min({95, G(k)})
  BY DEF Reliability, F, D
<1> HIDE DEF G
<1>7. /\ Min({95, G(n)}) = IF 95 <= G(n) THEN 95 ELSE G(n)
      /\ Min({95, G(k)}) = IF 95 <= G(k) THEN 95 ELSE G(k)
  BY <1>5, LesserOf
<1> QED BY <1>5, <1>6, <1>7

(* The lead of an analysis is one of its signals. *)
LEMMA LeadIsThere ==
    ASSUME NEW m \in Screened, screened[m].analysis \in Analyses, HasAnalysis(m)
    PROVE  /\ LeadSignal(m).quality \in Nat /\ LeadSignal(m).complete \in Nat
PROOF
<1> DEFINE a == screened[m].analysis
           S == {a[i].strength : i \in DOMAIN a}
           best == Max(S)
           I == {i \in DOMAIN a : a[i].strength = best}
<1>1. /\ a \in Seq(ToSet(a)) /\ a # <<>>
      /\ \A i \in DOMAIN a : /\ a[i].strength \in Int
                             /\ a[i].quality \in Nat /\ a[i].complete \in Nat
  BY ScoreAssumption DEF HasAnalysis
<1>2. PICK n \in Nat : n = Len(a) /\ n > 0 /\ DOMAIN a = 1..n
  BY <1>1
<1>3. IsFiniteSet(S) /\ S # {} /\ \A x \in S : x \in Int
  <2> DEFINE f == [i \in 1..n |-> a[i].strength]
  <2>1. f \in Surjection(1..n, S)
    BY <1>2 DEF Surjection
  <2>2. IsFiniteSet(1..n)
    BY FS_Interval
  <2>3. 1 \in 1..n
    BY <1>2
  <2> HIDE DEF f
  <2>4. IsFiniteSet(S)
    BY <2>1, <2>2, FS_Surjection
  <2> QED BY <1>1, <1>2, <2>3, <2>4
<1>4. \E x \in S : \A y \in S : x >= y
  <2> HIDE DEF S
  <2>1. StrictOrder(Ascending(S), S)
    BY <1>3, NumbersOrdered
  <2>2. PICK x \in S : \A y \in S \ {x} : <<y, x>> \in Ascending(S)
    BY <1>3, <2>1, LastElement
  <2>3. \A y \in S \ {x} : y < x
    BY <2>2 DEF Ascending
  <2> QED BY <1>3, <2>3
<1>5. best \in S
  <2> HIDE DEF S
  <2> QED BY <1>4 DEF Max
<1>6. I # {} /\ I \in SUBSET Nat
  <2>1. PICK i \in DOMAIN a : best = a[i].strength
    BY <1>5
  <2> HIDE DEF a, best
  <2> QED BY <1>2, <2>1
<1>7. Min(I) \in I
  <2> HIDE DEF I
  <2> QED BY <1>6, LeastNumber DEF Min
<1>8. LeadSignal(m) = a[Min(I)]
  BY DEF LeadSignal
<1> HIDE DEF best
<1>9. Min(I) \in DOMAIN a
  BY <1>7
<1> HIDE DEF a, I
<1> QED BY <1>1, <1>8, <1>9

(* What a card claims of a market, whatever trades came for it. *)
LEMMA CardIsHonest ==
    ASSUME NEW m \in Screened, screened[m].analysis \in Analyses, HasAnalysis(m), NEW page
    PROVE  /\ CardOf(m, page).market = m
           /\ CardOf(m, page).confidence >= SignalReliability(LeadSignal(m))
           /\ CardOf(m, page).families \subseteq {"price", "order_book"} =>
                 CardOf(m, page).confidence = SignalReliability(LeadSignal(m))
PROOF
<1> DEFINE signal == LeadSignal(m)
           facts == screened[m].facts
           own == OwnEvidence(signal)
           flow == FlowEvidence(FlowIndicators(page, signal.implied, signal.change,
                                               facts.start, facts.end))
           n == CountFamilies(own \cup flow)
<1>1. /\ CardOf(m, page).market = m
      /\ CardOf(m, page).families = FamiliesOf(own \cup flow)
      /\ CardOf(m, page).confidence = Reliability(signal.quality, n, signal.complete)
  <2> HIDE DEF own, flow, facts, signal
  <2> QED BY DEF CardOf, Card, FamiliesOf, own, flow, facts, signal
<1>2. SignalReliability(signal) =
        Reliability(signal.quality, CountFamilies(own), signal.complete)
  BY DEF SignalReliability
<1>3. signal.quality \in Nat /\ signal.complete \in Nat
  BY LeadIsThere
<1>4. FamiliesOf(own) \subseteq OwnFamily /\ FamiliesOf(flow) \subseteq FlowFamily
  BY OwnIsOwn, FlowIsApart
<1> HIDE DEF signal, own, flow, facts
<1>5. /\ CountFamilies(own) \in Nat /\ n \in Nat /\ CountFamilies(own) <= n
      /\ FamiliesOf(own \cup flow) \subseteq OwnFamily => own \cup flow = own
  BY <1>4, FamiliesCounted
<1>6. Reliability(signal.quality, n, signal.complete) >=
        Reliability(signal.quality, CountFamilies(own), signal.complete)
  <2> HIDE DEF n
  <2> QED BY <1>3, <1>5, ReliabilityRises
<1>7. SignalReliability(LeadSignal(m)) =
        Reliability(signal.quality, CountFamilies(own), signal.complete)
  BY <1>2 DEF signal
<1>8. CardOf(m, page).families \subseteq {"price", "order_book"} =>
         n = CountFamilies(own)
  BY <1>1, <1>5 DEF OwnFamily
<1> HIDE DEF n
<1> QED BY <1>1, <1>6, <1>7, <1>8

-----------------------------------------------------------------------------
LEMMA RankingLosesNothing ==
    ASSUME NEW S, IsFiniteSet(S), NEW s \in SetToSeqs(S)
    PROVE  ToSet(s) = S
PROOF
<1> DEFINE n == Cardinality(S)
<1>1. n \in Nat
  BY FS_CardinalityType
<1>2. s \in [1..n -> S] /\ \A i, j \in 1..n : i # j => s[i] # s[j]
  BY DEF SetToSeqs
<1>3. s \in Injection(1..n, S)
  BY <1>2 DEF Injection, IsInjective
<1>4. IsFiniteSet(1..n) /\ Cardinality(1..n) = n
  BY <1>1, FS_Interval
<1>5. s \in Surjection(1..n, S)
  <2>1. IsFiniteSet(S) /\ Cardinality(1..n) = Cardinality(S)
    BY <1>4
  <2> QED BY <1>3, <1>4, <2>1, FS_Injection
<1>6. \A x \in S : \E i \in 1..n : s[i] = x
  BY <1>5 DEF Surjection
<1> HIDE DEF n
<1> QED BY <1>2, <1>6 DEF ToSet

LEMMA SameCards ==
    ASSUME UNCHANGED <<screened, trades>>
    PROVE  {CardOf(m, trades[m].page) : m \in {x \in Screened : Built(x)}}'
              = {CardOf(m, trades[m].page) : m \in {x \in Screened : Built(x)}}
PROOF
<1>1. screened' = screened /\ trades' = trades
  OBVIOUS
<1>2. \A m : LeadSignal(m)' = LeadSignal(m)
  BY <1>1 DEF LeadSignal
<1>3. \A m, page : CardOf(m, page)' = CardOf(m, page)
  BY <1>1, <1>2 DEF CardOf
<1>4. \A m : Built(m)' = Built(m)
  BY <1>1 DEF Built, HasAnalysis
<1>5. {x \in Screened : Built(x)}' = {x \in Screened : Built(x)}
  BY <1>4
<1> QED BY <1>1, <1>3, <1>5

LEMMA CardsInit == OInit => CardsOfAll
PROOF
  BY DEF OInit, CardsOfAll

LEMMA CardsNext == CardsOfAll /\ [ONext]_oVars => CardsOfAll'
PROOF
<1> SUFFICES ASSUME CardsOfAll, [ONext]_oVars PROVE CardsOfAll'
  OBVIOUS
<1> USE DEF CardsOfAll
<1>1. ASSUME NEW shown \in Views, NEW mode \in BOOLEAN, ScreenBoard(shown, mode)
      PROVE  CardsOfAll'
  BY <1>1 DEF ScreenBoard
<1>2. ASSUME NEW m \in Screened, NEW state, NEW page, Answer(m, state, page)
      PROVE  CardsOfAll'
  BY <1>2 DEF Answer
<1>3. CASE RankBoard
  <2> DEFINE B == {x \in Screened : Built(x)}
             C == {CardOf(m, trades[m].page) : m \in B}
  <2>1. PICK s \in SetToSeqs(C) : cards' = s
    BY <1>3 DEF RankBoard
  <2>2. IsFiniteSet(B)
    BY ScoreAssumption, FS_Subset
  <2>3. IsFiniteSet(C)
    <3> DEFINE f == [m \in B |-> CardOf(m, trades[m].page)]
    <3>1. f \in Surjection(B, C)
      BY DEF Surjection
    <3> HIDE DEF f, B, C
    <3> QED BY <2>2, <3>1, FS_Surjection
  <2>4. ToSet(cards') = C
    <3> HIDE DEF C
    <3> QED BY <2>1, <2>3, RankingLosesNothing
  <2>5. UNCHANGED <<asked, screened, trades>> /\ asked # ""
        /\ \A m \in Screened : trades[m].state # "asked"
    BY <1>3 DEF RankBoard
  <2>6. C' = C
    BY <2>5, SameCards
  <2> HIDE DEF C
  <2>7. ToSet(cards)' = C'
    BY <2>4, <2>6
  <2> QED BY <2>5, <2>7 DEF C
<1>4. CASE UNCHANGED oVars
  <2>1. UNCHANGED <<asked, screened, trades, cards>>
    BY <1>4 DEF oVars
  <2>2. {CardOf(m, trades[m].page) : m \in {x \in Screened : Built(x)}}'
          = {CardOf(m, trades[m].page) : m \in {x \in Screened : Built(x)}}
    BY <2>1, SameCards
  <2>3. ToSet(cards)' = ToSet(cards)
    BY <2>1
  <2> QED BY <2>1, <2>2, <2>3
<1> QED BY <1>1, <1>2, <1>3, <1>4 DEF ONext, TradesArrive, TradesFail

LEMMA CardsAreHonest == CardsOfAll => LostTradesCostOnlyTheFlow
PROOF
<1> SUFFICES ASSUME CardsOfAll, cards # <<>>, NEW m \in Screened, HasAnalysis(m)
             PROVE  /\ \E c \in ToSet(cards) : c.market = m
                    /\ CardAt(m).confidence >= SignalReliability(LeadSignal(m))
                    /\ CardAt(m).families \subseteq {"price", "order_book"} =>
                          CardAt(m).confidence = SignalReliability(LeadSignal(m))
  BY DEF LostTradesCostOnlyTheFlow
<1>1. /\ screened \in [Screened -> [analysis : Analyses, facts : MarketFacts]]
      /\ ToSet(cards) = {CardOf(x, trades[x].page) : x \in {y \in Screened : Built(y)}}
  BY DEF CardsOfAll
<1>2. \A x \in Screened : screened[x].analysis \in Analyses
  BY <1>1
<1> DEFINE card == CardOf(m, trades[m].page)
<1>3. card \in ToSet(cards) /\ card.market = m
  BY <1>1, <1>2, CardIsHonest DEF Built
<1>4. \A c \in ToSet(cards) : c.market = m => c = card
  <2> SUFFICES ASSUME NEW x \in Screened, HasAnalysis(x),
                      CardOf(x, trades[x].page).market = m
               PROVE  CardOf(x, trades[x].page) = card
    BY <1>1 DEF Built
  <2>1. CardOf(x, trades[x].page).market = x
    BY <1>2, CardIsHonest
  <2> QED BY <2>1
<1> HIDE DEF card
<1>5. CardAt(m) = card
  BY <1>3, <1>4 DEF CardAt
<1>6. /\ card.confidence >= SignalReliability(LeadSignal(m))
      /\ card.families \subseteq {"price", "order_book"} =>
            card.confidence = SignalReliability(LeadSignal(m))
  BY <1>2, CardIsHonest DEF card
<1> QED BY <1>3, <1>5, <1>6

(* Every market with a signal has its card whatever became of the request for *)
(* its trades, and no card claims more than the analysis of the market unless *)
(* a family of trades fired (build_opportunity_board, reliability_confidence). *)
THEOREM LostTradesHonest == OSpec => []LostTradesCostOnlyTheFlow
PROOF
<1> QED BY CardsInit, CardsNext, CardsAreHonest, PTL DEF OSpec

-----------------------------------------------------------------------------
(***************************************************************************)
(* The backtest.  What precedes a frame is the same in a longer recording; *)
(* all that an event says but its verdict is read from there, and its      *)
(* verdict from a later frame, which is missing or stays.                  *)
(***************************************************************************)

FramesTyped == frames \in Seq(FrameKind)

(* A frame more leaves the earlier ones, and what precedes each of them. *)
LEMMA PastStays ==
    ASSUME NEW T, NEW fs \in Seq(T), NEW f \in T, NEW i \in 1..Len(fs)
    PROVE  /\ Append(fs, f)[i] = fs[i]
           /\ Upto(Append(fs, f), i) = Upto(fs, i)
PROOF
<1>1. \A j \in 1..i : Append(fs, f)[j] = fs[j]
  OBVIOUS
<1>2. /\ Append(fs, f) \in Seq(T) /\ Len(Append(fs, f)) = Len(fs) + 1
      /\ DOMAIN fs = 1..Len(fs)
  OBVIOUS
<1>3. SubSeq(fs, 1, i) = [j \in 1..i |-> fs[j]]
  BY <1>2
<1>4. SubSeq(Append(fs, f), 1, i) = [j \in 1..i |-> Append(fs, f)[j]]
  BY <1>2
<1> QED BY <1>1, <1>3, <1>4 DEF Upto

(* An event of an earlier frame keeps its signal, and its verdict once it has one. *)
LEMMA EventsStay ==
    ASSUME NEW T, NEW fs \in Seq(T), NEW f \in T, NEW i \in 1..Len(fs)
    PROVE  /\ Fires(Append(fs, f), i) <=> Fires(fs, i)
           /\ SignalOf(EventAt(Append(fs, f), i)) = SignalOf(EventAt(fs, i))
           /\ EventAt(fs, i).verdict # "missing" => EventAt(Append(fs, f), i) = EventAt(fs, i)
PROOF
<1>1. PICK longer : longer = Append(fs, f)
  OBVIOUS
<1>l. Len(longer) = Len(fs) + 1
  BY <1>1
<1>2. Upto(longer, i) = Upto(fs, i) /\ AnchorPrice(longer, i) = AnchorPrice(fs, i)
  BY <1>1, PastStays DEF AnchorPrice, PriceAt
<1>3. Fires(longer, i) <=> Fires(fs, i)
  BY <1>2 DEF Fires
<1>4. SignalOf(EventAt(longer, i)) = SignalOf(EventAt(fs, i))
  BY <1>2 DEF SignalOf, EventAt
<1>5. ASSUME EventAt(fs, i).verdict # "missing"
      PROVE  EventAt(longer, i) = EventAt(fs, i)
  <2>1. Priced(Forward(fs, i))
    BY <1>5 DEF EventAt
  <2>2. i + Ahead \in 1..Len(fs)
    BY <2>1, HorizonIsAhead DEF Forward, Priced
  <2>3. AnchorPrice(longer, i + Ahead) = AnchorPrice(fs, i + Ahead)
    BY <1>1, <2>2, PastStays DEF AnchorPrice, PriceAt
  <2>4. Forward(longer, i) = Forward(fs, i)
    BY <1>1, <1>l, <2>2, <2>3 DEF Forward
  <2> QED BY <1>2, <2>4 DEF EventAt
<1> QED BY <1>1, <1>3, <1>4, <1>5

LEMMA RecordKeepsSignals ==
    ASSUME NEW fs \in Seq(FrameKind), NEW f \in FrameKind
    PROVE  LET before == Events(fs)
               after == Events(Append(fs, f))
           IN  /\ {SignalOf(e) : e \in before}
                      = {SignalOf(e) : e \in {l \in after : l.frame <= Len(fs)}}
               /\ {e \in before : e.verdict # "missing"} \subseteq after
PROOF
<1> DEFINE longer == Append(fs, f)
<1>1. DOMAIN fs = 1..Len(fs) /\ DOMAIN longer = 1..(Len(fs) + 1) /\ Len(fs) \in Nat
  OBVIOUS
<1>2. \A gs, i : EventAt(gs, i).frame = i
  BY DEF EventAt
<1>3. \A i \in 1..Len(fs) :
         /\ Fires(longer, i) <=> Fires(fs, i)
         /\ SignalOf(EventAt(longer, i)) = SignalOf(EventAt(fs, i))
         /\ EventAt(fs, i).verdict # "missing" => EventAt(longer, i) = EventAt(fs, i)
  BY EventsStay
<1>4. \A e : e \in Events(fs) <=> \E i \in 1..Len(fs) : Fires(fs, i) /\ e = EventAt(fs, i)
  BY <1>1 DEF Events
<1>5. \A e : e \in Events(longer) <=>
                \E i \in 1..(Len(fs) + 1) : Fires(longer, i) /\ e = EventAt(longer, i)
  BY <1>1 DEF Events
<1>6. \A e \in Events(fs) :
         \E l \in Events(longer) : l.frame <= Len(fs) /\ SignalOf(l) = SignalOf(e)
  <2> TAKE e \in Events(fs)
  <2>1. PICK i \in 1..Len(fs) : Fires(fs, i) /\ e = EventAt(fs, i)
    BY <1>4
  <2>2. EventAt(longer, i) \in Events(longer)
    BY <1>1, <1>3, <1>5, <2>1
  <2>3. EventAt(longer, i).frame <= Len(fs)
    BY <1>2
  <2> QED BY <1>3, <2>1, <2>2, <2>3
<1>7. \A l \in Events(longer) : l.frame <= Len(fs) =>
         \E e \in Events(fs) : SignalOf(l) = SignalOf(e)
  <2> TAKE l \in Events(longer)
  <2> HAVE l.frame <= Len(fs)
  <2>1. PICK i \in 1..(Len(fs) + 1) : Fires(longer, i) /\ l = EventAt(longer, i)
    BY <1>5
  <2>2. i \in 1..Len(fs)
    BY <1>1, <1>2, <2>1
  <2>3. EventAt(fs, i) \in Events(fs)
    BY <1>3, <1>4, <2>1, <2>2
  <2> QED BY <1>3, <2>1, <2>2, <2>3
<1>8. \A e \in Events(fs) : e.verdict # "missing" => e \in Events(longer)
  <2> TAKE e \in Events(fs)
  <2> HAVE e.verdict # "missing"
  <2>1. PICK i \in 1..Len(fs) : Fires(fs, i) /\ e = EventAt(fs, i)
    BY <1>4
  <2> QED BY <1>1, <1>3, <1>5, <2>1
<1> HIDE DEF longer
<1>9. {SignalOf(e) : e \in Events(fs)}
         = {SignalOf(e) : e \in {l \in Events(longer) : l.frame <= Len(fs)}}
  BY <1>6, <1>7
<1> QED BY <1>8, <1>9 DEF longer

(* A signal at a frame is computed from the frames up to it and judged by the  *)
(* frames after it: replaying a longer recording (run_backtest) neither adds   *)
(* nor changes a signal of an earlier frame, nor a verdict that was given.     *)
THEOREM NothingPeeks == FInit /\ [][FNext]_fVars => NoPeek
PROOF
<1>1. FInit => FramesTyped
  BY DEF FInit, FramesTyped
<1>2. FramesTyped /\ [FNext]_fVars =>
         FramesTyped' /\ [EventsKept]_fVars
  <2> SUFFICES ASSUME FramesTyped, [FNext]_fVars
               PROVE  FramesTyped' /\ [EventsKept]_fVars
    OBVIOUS
  <2>1. CASE UNCHANGED fVars
    BY <2>1 DEF fVars, FramesTyped
  <2>2. CASE FNext
    <3>1. PICK f \in FrameKind : frames' = Append(frames, f)
      BY <2>2 DEF FNext, Record
    <3>2. FramesTyped'
      BY <3>1 DEF FramesTyped
    <3> QED BY <3>1, <3>2, RecordKeepsSignals DEF EventsKept, FramesTyped
  <2> QED BY <2>1, <2>2
<1> QED BY <1>1, <1>2, PTL DEF NoPeek
================================================================================
