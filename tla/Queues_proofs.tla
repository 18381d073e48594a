----------------------------- MODULE Queues_proofs -----------------------------
(***************************************************************************)
(* Proofs about rows that several processes write in turn: the scheduler's *)
(* lease, the Lab's command queue, and the schemas they live in.           *)
(***************************************************************************)
EXTENDS TickLease, LabCommands, SchemaMigration, FiniteSetTheorems,
        SequenceTheorems, TLAPS

-----------------------------------------------------------------------------
(***************************************************************************)
(* Proofs about the scheduler lease, for any number of invocations and     *)
(* groups and any times that satisfy TimesAssumption.                      *)
(***************************************************************************)

(* The step of one invocation leaves every other invocation and every other *)
(* group's row alone, and only Advance moves the clock.                     *)
LEMMA StepLocal ==
  ASSUME NEW t \in Tick, Step(t), TypeOK
  PROVE  /\ clock' = clock /\ group' = group
         /\ \A s \in Tick \ {t} : /\ pc'[s] = pc[s]
                                  /\ born'[s] = born[s] /\ now'[s] = now[s]
         /\ \A g \in Group \ {group[t]} : lease'[g] = lease[g]
         /\ entered \subseteq entered' /\ entered' \subseteq entered \cup {t}
BY DEF Step, TypeOK, LeaseRow, Pc, Goto, Grant, Start, CaptureNow, AcquireSelect,
       AcquireInsert, AcquireUpdate, EnterCleanup, Release, ReleaseFails, Die

(* Every reachable state is well typed. *)
LEMMA TypeInit == Init => TypeOK
BY DEF Init, TypeOK, LeaseRow, Pc

LEMMA TypeStep == TypeOK /\ [Next]_leaseVars => TypeOK'
<1> SUFFICES ASSUME TypeOK, [Next]_leaseVars PROVE TypeOK'
  OBVIOUS
<1> USE TimesAssumption DEF TypeOK, Pc
<1>1. CASE Advance
  BY <1>1 DEF Advance
<1>2. ASSUME NEW t \in Tick, Step(t) PROVE TypeOK'
  <2>1. CASE Start(t)
    BY <2>1 DEF Start, Goto
  <2>2. CASE CaptureNow(t)
    BY <2>2 DEF CaptureNow, Goto
  <2>3. CASE AcquireSelect(t)
    BY <2>3 DEF AcquireSelect
  <2>4. ASSUME Grant(t), UNCHANGED <<clock, group, born, now, left>> PROVE TypeOK'
    <3>1. Granted(t) \in LeaseRow
      BY DEF Granted, LeaseRow
    <3>2. QED
      BY <2>4, <3>1 DEF Grant
  <2>5. CASE AcquireInsert(t)
    BY <2>4, <2>5 DEF AcquireInsert
  <2>6. CASE AcquireUpdate(t)
    BY <2>4, <2>6 DEF AcquireUpdate
  <2>7. CASE EnterCleanup(t)
    BY <2>7 DEF EnterCleanup, Goto
  <2>8. CASE Release(t)
    BY <2>8 DEF Release, Goto, LeaseRow
  <2>9. CASE ReleaseFails(t)
    BY <2>9 DEF ReleaseFails, Goto
  <2>10. CASE Die(t)
    BY <2>10 DEF Die
  <2>11. QED
    BY <1>2, <2>1, <2>2, <2>3, <2>5, <2>6, <2>7, <2>8, <2>9, <2>10 DEF Step
<1>3. CASE UNCHANGED leaseVars
  BY <1>3 DEF leaseVars
<1>4. QED
  BY <1>1, <1>2, <1>3 DEF Next

-----------------------------------------------------------------------------
(* The captured times stay in order and no process outlives its watchdog. *)
LEMMA TimelyStep == TypeOK /\ Timely /\ [Next]_leaseVars => Timely'
<1> SUFFICES ASSUME TypeOK, Timely, [Next]_leaseVars PROVE Timely'
  OBVIOUS
<1> USE TimesAssumption DEF TypeOK, Timely, Alive, Pc
<1>1. CASE Advance
  BY <1>1 DEF Advance, MayOutlive
<1>2. ASSUME NEW t \in Tick, Step(t) PROVE Timely'
  <2>1. CASE Start(t)
    BY <2>1 DEF Start, Goto
  <2>2. CASE CaptureNow(t)
    BY <2>2 DEF CaptureNow, Goto
  <2>3. CASE AcquireSelect(t)
    BY <2>3 DEF AcquireSelect
  <2>4. CASE AcquireInsert(t)
    BY <2>4 DEF AcquireInsert, Grant
  <2>5. CASE AcquireUpdate(t)
    BY <2>5 DEF AcquireUpdate, Grant
  <2>6. CASE EnterCleanup(t)
    BY <2>6 DEF EnterCleanup, Goto
  <2>7. CASE Release(t) \/ ReleaseFails(t)
    BY <2>7 DEF Release, ReleaseFails, Goto
  <2>8. CASE Die(t)
    BY <2>8 DEF Die
  <2>9. QED
    BY <1>2, <2>1, <2>2, <2>3, <2>4, <2>5, <2>6, <2>7, <2>8 DEF Step
<1>3. CASE UNCHANGED leaseVars
  BY <1>3 DEF leaseVars
<1>4. QED
  BY <1>1, <1>2, <1>3 DEF Next

(* While an invocation works on a lease, the lease has not expired. *)
LEMMA HeldIsLive ==
  ASSUME TypeOK, HoldingExact, Timely, NEW t \in Tick, InSection(t)
  PROVE  /\ lease[group[t]].holder = t
         /\ lease[group[t]].heldUntil = now[t] + TTL
         /\ clock <= lease[group[t]].heldUntil
<1>1. lease[group[t]] = [holder |-> t, heldUntil |-> now[t] + TTL]
  BY DEF HoldingExact, Granted
<1>2. clock <= born[t] + Kill /\ born[t] <= now[t]
  BY DEF Timely, InSection, Alive
<1>3. QED
  BY <1>1, <1>2, TimesAssumption DEF TypeOK

(* A tick can be granted a lease only when nobody of its group is inside. *)
LEMMA GrantAlone ==
  ASSUME TypeOK, HoldingExact, Timely, NEW t \in Tick,
         \/ lease[group[t]].holder = NoTick
         \/ Expired(lease[group[t]], now[t])
  PROVE  \A s \in Tick : InSection(s) => group[s] # group[t]
<1> SUFFICES ASSUME NEW s \in Tick, InSection(s), group[s] = group[t] PROVE FALSE
  OBVIOUS
<1>1. lease[group[t]].holder = s /\ clock <= lease[group[t]].heldUntil
  BY HeldIsLive
<1>2. now[t] <= clock /\ now[t] \in Nat /\ clock \in Nat
      /\ lease[group[t]].heldUntil \in Nat
  BY DEF Timely, TypeOK, LeaseRow
<1>3. QED
  BY <1>1, <1>2, NoTickAssumption DEF Expired

LEMMA HoldingStep ==
  TypeOK /\ HoldingExact /\ Timely /\ [Next]_leaseVars => HoldingExact'
<1> SUFFICES ASSUME TypeOK, HoldingExact, Timely, [Next]_leaseVars,
                    NEW s \in Tick, InSection(s)'
             PROVE  (lease[group[s]] = Granted(s) /\ s \in entered)'
  BY DEF HoldingExact
<1>1. CASE Advance
  BY <1>1 DEF Advance, HoldingExact, InSection, Granted
<1>2. ASSUME NEW t \in Tick, Step(t)
      PROVE (lease[group[s]] = Granted(s) /\ s \in entered)'
  <2>1. CASE Start(t) \/ CaptureNow(t) \/ AcquireSelect(t)
    BY <2>1 DEF Start, CaptureNow, AcquireSelect, Goto, HoldingExact, InSection,
                Granted, TypeOK, Pc
  <2>2. ASSUME Grant(t), UNCHANGED <<clock, group, born, now, left>>,
               \/ lease[group[t]].holder = NoTick
               \/ Expired(lease[group[t]], now[t])
        PROVE (lease[group[s]] = Granted(s) /\ s \in entered)'
    <3>1. CASE s = t
      BY <2>2, <3>1 DEF Grant, Granted, TypeOK
    <3>2. CASE s # t
      <4>1. InSection(s)
        BY <2>2, <3>2 DEF Grant, InSection, TypeOK
      <4>2. group[s] # group[t]
        BY <2>2, <4>1, GrantAlone
      <4>3. QED
        BY <2>2, <3>2, <4>1, <4>2 DEF Grant, Granted, HoldingExact, TypeOK
    <3>3. QED
      BY <3>1, <3>2
  <2>3. CASE AcquireInsert(t)
    BY <2>2, <2>3 DEF AcquireInsert, HoldingExact, InSection, Granted, TypeOK
  <2>4. CASE AcquireUpdate(t)
    BY <2>2, <2>4 DEF AcquireUpdate, HoldingExact, InSection, Granted, TypeOK
  <2>5. CASE EnterCleanup(t) \/ ReleaseFails(t) \/ Die(t)
    BY <2>5 DEF EnterCleanup, ReleaseFails, Die, Goto, HoldingExact, InSection,
                Granted, TypeOK
  <2>6. CASE Release(t)
    <3>1. s # t /\ InSection(s) /\ group'[s] = group[s]
      BY <2>6 DEF Release, Goto, InSection, TypeOK
    <3>2. lease[group[s]] = Granted(s)
      BY <3>1 DEF HoldingExact
    <3>3. lease'[group[s]] = lease[group[s]]
      BY <2>6, <3>1, <3>2 DEF Release, Granted, TypeOK
    <3>4. QED
      BY <2>6, <3>1, <3>2, <3>3 DEF Release, Granted, HoldingExact
  <2>7. QED
    BY <1>2, <2>1, <2>3, <2>4, <2>5, <2>6 DEF Step
<1>3. CASE UNCHANGED leaseVars
  BY <1>3 DEF leaseVars, HoldingExact, InSection, Granted
<1>4. QED
  BY <1>1, <1>2, <1>3 DEF Next

-----------------------------------------------------------------------------
(* A grant comes later than the end of the group's section before it. *)
LEMMA LeftEarlier ==
  ASSUME TypeOK, RowsOwned, NEW t \in Tick,
         \/ lease[group[t]].holder = NoTick
         \/ Expired(lease[group[t]], now[t])
  PROVE  left[group[t]] < now[t]
<1> DEFINE g == group[t]
<1>1. g \in Group /\ left[g] \in Nat \cup {-1} /\ now[t] \in Nat
      /\ lease[g].heldUntil \in Nat
  BY DEF TypeOK, LeaseRow
<1>2. CASE lease[g].holder = NoTick
  BY <1>1, <1>2 DEF RowsOwned
<1>3. CASE lease[g].holder # NoTick
  BY <1>1, <1>3 DEF RowsOwned, Expired
<1>4. QED
  BY <1>2, <1>3

(* A granted row obeys RowsOwned, and nobody else's row or entry changes. *)
LEMMA GrantRows ==
  ASSUME TypeOK, RowsOwned, NEW t \in Tick, Grant(t),
         UNCHANGED <<clock, group, born, now, left>>,
         \/ lease[group[t]].holder = NoTick
         \/ Expired(lease[group[t]], now[t])
  PROVE  RowsOwned'
<1>0. left[group[t]] < now[t]
  BY LeftEarlier
<1>1. \A g \in Group : lease'[g].holder # NoTick =>
         /\ lease'[g].holder \in entered'
         /\ group'[lease'[g].holder] = g
         /\ lease'[g].heldUntil <= now'[lease'[g].holder] + TTL
         /\ left'[g] <= lease'[g].heldUntil
  <2> SUFFICES ASSUME NEW g \in Group, lease'[g].holder # NoTick
               PROVE  /\ lease'[g].holder \in entered'
                      /\ group'[lease'[g].holder] = g
                      /\ lease'[g].heldUntil <= now'[lease'[g].holder] + TTL
                      /\ left'[g] <= lease'[g].heldUntil
    OBVIOUS
  <2>1. CASE g = group[t]
    <3>1. lease'[g] = [holder |-> t, heldUntil |-> now[t] + TTL]
      BY <2>1 DEF Grant, Granted, TypeOK
    <3>2. lease'[g].heldUntil = now'[t] + TTL /\ now[t] + TTL \in Nat
      BY <3>1, TimesAssumption DEF TypeOK
    <3>3. left'[g] <= now[t] + TTL
      BY <1>0, <2>1, TimesAssumption DEF TypeOK
    <3>4. QED
      BY <2>1, <3>1, <3>2, <3>3 DEF Grant, TypeOK
  <2>2. CASE g # group[t]
    BY <2>2 DEF Grant, TypeOK, RowsOwned
  <2>3. QED
    BY <2>1, <2>2
<1>2. \A s \in Tick : pc'[s] = "update" => lease'[group'[s]].holder # NoTick
  <2> SUFFICES ASSUME NEW s \in Tick, pc'[s] = "update"
               PROVE  lease'[group'[s]].holder # NoTick
    OBVIOUS
  <2>1. pc[s] = "update" /\ lease[group[s]].holder # NoTick /\ group[s] \in Group
    BY DEF Grant, TypeOK, RowsOwned
  <2>2. CASE group[s] = group[t]
    BY <2>1, <2>2, NoTickAssumption DEF Grant, Granted, TypeOK
  <2>3. CASE group[s] # group[t]
    BY <2>1, <2>3 DEF Grant, TypeOK
  <2>4. QED
    BY <2>2, <2>3
<1>3. \A s \in entered' : pc'[s] \in {"working", "cleanup", "done", "dead"}
  BY DEF Grant, TypeOK, RowsOwned
<1>4. \A g \in Group : lease'[g].holder = NoTick => left'[g] = -1
  <2> SUFFICES ASSUME NEW g \in Group, lease'[g].holder = NoTick
               PROVE  left'[g] = -1
    OBVIOUS
  <2>1. g # group[t]
    BY NoTickAssumption DEF Grant, Granted, TypeOK
  <2>2. QED
    BY <2>1 DEF Grant, TypeOK, RowsOwned
<1>5. QED
  BY <1>1, <1>2, <1>3, <1>4 DEF RowsOwned

LEMMA RowsStep ==
  TypeOK /\ Timely /\ HoldingExact /\ RowsOwned /\ [Next]_leaseVars => RowsOwned'
<1> SUFFICES ASSUME TypeOK, Timely, HoldingExact, RowsOwned, [Next]_leaseVars
             PROVE RowsOwned'
  OBVIOUS
<1>1. CASE Advance
  BY <1>1 DEF Advance, RowsOwned
<1>2. ASSUME NEW t \in Tick, Step(t) PROVE RowsOwned'
  <2>1. CASE Start(t)
    BY <2>1 DEF Start, Goto, RowsOwned, TypeOK
  <2>2. CASE CaptureNow(t)
    BY <2>2 DEF CaptureNow, Goto, RowsOwned, TypeOK
  <2>3. CASE AcquireSelect(t)
    BY <2>3 DEF AcquireSelect, RowsOwned, TypeOK
  <2>4. CASE AcquireInsert(t)
    <3>1. CASE Grant(t)
      <4>1. /\ UNCHANGED <<clock, group, born, now, left>>
            /\ \/ lease[group[t]].holder = NoTick
               \/ Expired(lease[group[t]], now[t])
        BY <2>4, <3>1 DEF AcquireInsert, Grant, TypeOK
      <4>2. QED
        BY <3>1, <4>1, GrantRows
    <3>2. CASE ~Grant(t)
      BY <2>4, <3>2 DEF AcquireInsert, RowsOwned, TypeOK
    <3>3. QED
      BY <3>1, <3>2
  <2>5. CASE AcquireUpdate(t)
    <3>1. CASE Grant(t)
      <4>1. /\ UNCHANGED <<clock, group, born, now, left>>
            /\ \/ lease[group[t]].holder = NoTick
               \/ Expired(lease[group[t]], now[t])
        BY <2>5, <3>1 DEF AcquireUpdate, Grant, TypeOK
      <4>2. QED
        BY <3>1, <4>1, GrantRows
    <3>2. CASE ~Grant(t)
      BY <2>5, <3>2 DEF AcquireUpdate, RowsOwned, TypeOK
    <3>3. QED
      BY <3>1, <3>2
  <2>6. CASE EnterCleanup(t)
    BY <2>6 DEF EnterCleanup, Goto, RowsOwned, TypeOK
  <2>7. CASE Release(t) \/ ReleaseFails(t) \/ Die(t)
    <3>1. CASE ~InSection(t)
      BY <2>7, <3>1 DEF Release, ReleaseFails, Die, Goto, InSection, RowsOwned, TypeOK
    <3>2. CASE InSection(t)
      <4>1. /\ t \in entered /\ group[t] \in Group
            /\ lease[group[t]].holder = t
            /\ lease[group[t]].heldUntil = now[t] + TTL
            /\ clock <= lease[group[t]].heldUntil
        BY <3>2, HeldIsLive DEF HoldingExact, TypeOK
      <4>2. /\ left' = [left EXCEPT ![group[t]] = clock]
            /\ UNCHANGED <<clock, group, born, now, entered>>
            /\ \E to \in {"done", "dead"} : pc' = [pc EXCEPT ![t] = to]
        BY <2>7, <3>2 DEF Release, ReleaseFails, Die, Goto
      <4>3. CASE Release(t)
        <5>1. lease' = [lease EXCEPT ![group[t]] = [holder |-> t, heldUntil |-> clock]]
          BY <4>1, <4>3 DEF Release
        <5>2. QED
          BY <4>1, <4>2, <5>1, NoTickAssumption DEF RowsOwned, TypeOK
      <4>4. CASE ReleaseFails(t) \/ Die(t)
        <5>1. lease' = lease
          BY <4>4 DEF ReleaseFails, Die
        <5>2. QED
          BY <4>1, <4>2, <5>1, NoTickAssumption DEF RowsOwned, TypeOK
      <4>5. QED
        BY <2>7, <4>3, <4>4
    <3>3. QED
      BY <3>1, <3>2
  <2>8. QED
    BY <1>2, <2>1, <2>2, <2>3, <2>4, <2>5, <2>6, <2>7 DEF Step
<1>3. CASE UNCHANGED leaseVars
  BY <1>3 DEF leaseVars, RowsOwned
<1>4. QED
  BY <1>1, <1>2, <1>3 DEF Next

-----------------------------------------------------------------------------
(* A refused tick keeps its rival: it lost the UPDATE to a row that a rival *)
(* was granted, and entered and the captured times only grow.               *)
LEMMA RefusalStep ==
  TypeOK /\ RowsOwned /\ RefusalJustified /\ [Next]_leaseVars => RefusalJustified'
<1> SUFFICES ASSUME TypeOK, RowsOwned, RefusalJustified, [Next]_leaseVars,
                    NEW r \in Tick, pc'[r] = "refused"
             PROVE  \E s \in entered' \ {r} : /\ group'[s] = group'[r]
                                              /\ now'[r] <= now'[s] + TTL
  BY DEF RefusalJustified
<1> DEFINE Rival(s) == s \in entered \ {r} /\ group[s] = group[r]
                       /\ now[r] <= now[s] + TTL
<1>1. ASSUME pc[r] = "refused"
      PROVE  \E s \in entered' \ {r} : /\ group'[s] = group'[r]
                                       /\ now'[r] <= now'[s] + TTL
  <2>1. PICK s \in entered \ {r} : group[s] = group[r] /\ now[r] <= now[s] + TTL
    BY <1>1 DEF RefusalJustified
  <2>2. pc[s] \in {"working", "cleanup", "done", "dead"} /\ s \in Tick
    BY <2>1 DEF RowsOwned, TypeOK
  <2>3. now'[r] = now[r] /\ now'[s] = now[s] /\ group' = group /\ s \in entered'
    <3>1. CASE Advance
      BY <3>1, <2>1 DEF Advance
    <3>2. ASSUME NEW t \in Tick, Step(t)
          PROVE now'[r] = now[r] /\ now'[s] = now[s] /\ group' = group /\ s \in entered'
      BY <3>2, <2>1, <2>2, <1>1 DEF TypeOK, Step, Start, CaptureNow, AcquireSelect,
         AcquireInsert, AcquireUpdate, Grant, EnterCleanup, Release, ReleaseFails,
         Die, Goto
    <3>3. CASE UNCHANGED leaseVars
      BY <3>3, <2>1 DEF leaseVars
    <3>4. QED
      BY <3>1, <3>2, <3>3 DEF Next
  <2>4. QED
    BY <2>1, <2>3
<1>2. CASE pc[r] # "refused"
  <2>1. AcquireUpdate(r) /\ ~Expired(lease[group[r]], now[r])
        /\ UNCHANGED <<clock, group, born, now, entered>> /\ pc[r] = "update"
    <3>1. ~Advance /\ ~UNCHANGED leaseVars
      BY <1>2 DEF Advance, leaseVars
    <3>2. PICK t \in Tick : Step(t)
      BY <3>1 DEF Next
    <3>3. AcquireUpdate(t) /\ t = r
      BY <3>2, <1>2 DEF TypeOK, Step, Start, CaptureNow, AcquireSelect,
         AcquireInsert, AcquireUpdate, Grant, EnterCleanup, Release, ReleaseFails,
         Die, Goto
    <3>4. QED
      BY <3>3 DEF AcquireUpdate, Grant, TypeOK
  <2> DEFINE s == lease[group[r]].holder
  <2>2. s # NoTick /\ s \in entered /\ group[s] = group[r]
        /\ lease[group[r]].heldUntil <= now[s] + TTL
    BY <2>1 DEF RowsOwned, TypeOK
  <2>3. s # r /\ s \in Tick
    BY <2>1, <2>2 DEF RowsOwned, TypeOK
  <2>4. now[r] <= now[s] + TTL
    BY <2>1, <2>2, <2>3, TimesAssumption DEF Expired, TypeOK, LeaseRow
  <2>5. QED
    BY <2>1, <2>2, <2>3, <2>4
<1>3. QED
  BY <1>1, <1>2

-----------------------------------------------------------------------------
LEMMA IInvInit == Init => IInv
<1> SUFFICES ASSUME Init PROVE IInv
  OBVIOUS
<1>1. TypeOK
  BY TypeInit
<1>2. HoldingExact /\ Timely /\ RowsOwned /\ RefusalJustified
  BY TimesAssumption DEF Init, HoldingExact, InSection, Timely, Alive, RowsOwned,
     RefusalJustified
<1>3. QED
  BY <1>1, <1>2 DEF IInv

LEMMA IInvStep == IInv /\ [Next]_leaseVars => IInv'
BY TypeStep, TimelyStep, HoldingStep, RowsStep, RefusalStep DEF IInv

(* The inductive invariant of the lease: the rows, the captured times and the *)
(* inhabitants of the section fit together in every reachable state.          *)
THEOREM InductiveInvariant == Spec => []IInv
<1>1. QED
  BY IInvInit, IInvStep, PTL DEF Spec

(* Type correctness of the lease. *)
THEOREM TypeCorrect == Spec => []TypeOK
<1>1. IInv => TypeOK
  BY DEF IInv
<1>2. QED
  BY <1>1, InductiveInvariant, PTL

LEMMA IInvExclusive == IInv => MutualExclusion
BY HeldIsLive DEF IInv, MutualExclusion

(* At most one invocation of a group is inside the job section, although  *)
(* leases expire while nobody checks them again: the watchdog makes every *)
(* holder leave before its lease can be taken over.                       *)
THEOREM Exclusive == Spec => []MutualExclusion
BY InductiveInvariant, IInvExclusive, PTL

(* A refused tick had a rival at most TTL older: a crash blocks no longer.   *)
THEOREM NoLongBlock == Spec => []RefusalJustified
<1>1. IInv => RefusalJustified
  BY DEF IInv
<1>2. QED
  BY <1>1, InductiveInvariant, PTL

-----------------------------------------------------------------------------
(* Only a grant changes a row's holder, and a grant finds the row absent or *)
(* expired before a `now` that is already past.                             *)
LEMMA LiveRowStep ==
  ASSUME IInv, [Next]_leaseVars, NEW g \in Group,
         lease[g].holder # NoTick, clock <= lease[g].heldUntil
  PROVE  lease'[g].holder = lease[g].holder
<1> USE DEF IInv
<1>1. CASE Advance \/ UNCHANGED leaseVars
  BY <1>1 DEF Advance, leaseVars
<1>2. ASSUME NEW t \in Tick, Step(t) PROVE lease'[g].holder = lease[g].holder
  <2>1. CASE g # group[t]
    BY <1>2, <2>1, StepLocal
  <2>2. CASE g = group[t]
    <3>1. ~Expired(lease[g], now[t])
      BY DEF Expired, Timely, TypeOK, LeaseRow
    <3>2. CASE Release(t)
      BY <2>2, <3>2 DEF Release, TypeOK
    <3>3. CASE ~Release(t)
      BY <1>2, <2>2, <3>1, <3>3 DEF Step, Start, CaptureNow, AcquireSelect,
         AcquireInsert, AcquireUpdate, EnterCleanup, ReleaseFails, Die
    <3>4. QED
      BY <3>2, <3>3
  <2>3. QED
    BY <2>1, <2>2
<1>3. QED
  BY <1>1, <1>2 DEF Next

(* A lease that has not expired is never taken from its holder. *)
THEOREM LeaseSafe == Spec => LiveLeaseKept
<1> DEFINE Kept == \A g \in Group :
             lease[g].holder # NoTick /\ clock <= lease[g].heldUntil
               => lease'[g].holder = lease[g].holder
<1>1. IInv /\ [Next]_leaseVars => Kept
  BY LiveRowStep
<1>2. IInv /\ [Next]_leaseVars => [Kept]_leaseVars
  BY <1>1
<1>3. QED
  BY <1>2, InductiveInvariant, PTL DEF Spec, LiveLeaseKept

-----------------------------------------------------------------------------
(* Who owns a section, now and after a step that leaves one invocation in it. *)
LEMMA OwnerIs ==
  ASSUME MutualExclusion, NEW t \in Tick, InSection(t)
  PROVE  Owner(group[t]) = t
BY DEF Owner, MutualExclusion

LEMMA OwnerNone ==
  ASSUME NEW g \in Group, \A t \in Tick : InSection(t) => group[t] # g
  PROVE  Owner(g) = NoTick
BY DEF Owner

(* When nobody enters or leaves, the owners stay who they are. *)
LEMMA OwnerSame ==
  ASSUME group' = group, \A t \in Tick : InSection(t)' <=> InSection(t),
         NEW g \in Group
  PROVE  Owner(g)' = Owner(g)
BY DEF Owner, InSection

(* The state of the abstract section, as TickLease maps it. *)
Owners == [g \in Group |-> Owner(g)]
EnteredNow == [t \in Tick |-> IF t \in entered THEN now[t] ELSE 0]
sectionState == <<clock, Owners, entered, EnteredNow, left>>

(* A grant is the abstract Enter. *)
LEMMA GrantEnters ==
  ASSUME IInv, IInv', NEW t \in Tick, Grant(t), pc[t] \in {"insert", "update"},
         UNCHANGED <<clock, group, born, now, left>>,
         \/ lease[group[t]].holder = NoTick
         \/ Expired(lease[group[t]], now[t])
  PROVE  \E g \in Group : Section!Enter(t, g)
<1> USE DEF IInv
<1>1. group[t] \in Group /\ group' = group /\ t \notin entered
  BY DEF TypeOK, RowsOwned
<1>2. Owner(group[t]) = NoTick
  BY <1>1, GrantAlone, OwnerNone
<1>3. MutualExclusion /\ MutualExclusion'
  BY IInvExclusive, PTL
<1>4. InSection(t)' /\ \A s \in Tick \ {t} : InSection(s)' <=> InSection(s)
  BY DEF Grant, InSection, TypeOK
<1>5. Owner(group[t])' = t
  BY <1>1, <1>3, <1>4 DEF Owner, MutualExclusion, InSection
<1>6. ASSUME NEW g \in Group, g # group[t] PROVE Owner(g)' = Owner(g)
  <2>1. \A s \in Tick : (InSection(s) /\ group[s] = g)' <=> (InSection(s) /\ group[s] = g)
    BY <1>1, <1>4, <1>6
  <2>2. QED
    BY <2>1 DEF Owner, InSection
<1>7. Owners' = [Owners EXCEPT ![group[t]] = t]
  BY <1>1, <1>5, <1>6 DEF Owners
<1>8. entered' = entered \cup {t}
  BY DEF Grant
<1>9. EnteredNow' = [EnteredNow EXCEPT ![t] = now[t]]
  BY <1>8 DEF EnteredNow
<1>10. now[t] \in left[group[t]] + 1 .. clock
  BY <1>1, LeftEarlier DEF Timely, TypeOK
<1>11. QED
  BY <1>1, <1>2, <1>7, <1>8, <1>9, <1>10 DEF Section!Enter, Owners, EnteredNow

(* Giving up, or dying inside, is the abstract Leave. *)
LEMMA EndLeaves ==
  ASSUME IInv, IInv', NEW t \in Tick, InSection(t), ~InSection(t)',
         \A s \in Tick \ {t} : pc'[s] = pc[s],
         UNCHANGED <<clock, group, now, entered>>,
         left' = [left EXCEPT ![group[t]] = clock]
  PROVE  Section!Leave(group[t])
<1> USE DEF IInv
<1>1. group[t] \in Group /\ t # NoTick
  BY NoTickAssumption DEF TypeOK
<1>2. MutualExclusion /\ Owner(group[t]) = t
  BY IInvExclusive, OwnerIs
<1>3. \A s \in Tick \ {t} : InSection(s)' <=> InSection(s)
  BY DEF InSection
<1>4. Owner(group[t])' = NoTick
  BY <1>2, <1>3 DEF Owner, MutualExclusion
<1>5. ASSUME NEW g \in Group, g # group[t] PROVE Owner(g)' = Owner(g)
  <2>1. \A s \in Tick : (InSection(s) /\ group[s] = g)' <=> (InSection(s) /\ group[s] = g)
    BY <1>3, <1>5
  <2>2. QED
    BY <2>1 DEF Owner
<1>6. Owners' = [Owners EXCEPT ![group[t]] = NoTick]
  BY <1>1, <1>4, <1>5 DEF Owners
<1>7. EnteredNow' = EnteredNow
  BY DEF EnteredNow
<1>8. QED
  BY <1>1, <1>2, <1>6, <1>7 DEF Section!Leave, Owners, EnteredNow

LEMMA SectionStep ==
  ASSUME IInv, IInv', [Next]_leaseVars
  PROVE  [Section!SectionNext]_sectionState
<1> USE DEF IInv
<1>1. ASSUME group' = group, entered' = entered, left' = left,
             \A s \in entered : now'[s] = now[s],
             \A s \in Tick : InSection(s)' <=> InSection(s)
      PROVE  UNCHANGED <<Owners, entered, EnteredNow, left>>
  <2>1. Owners' = Owners
    BY <1>1, OwnerSame DEF Owners
  <2>2. EnteredNow' = EnteredNow
    BY <1>1 DEF EnteredNow
  <2>3. QED
    BY <1>1, <2>1, <2>2
<1>2. CASE Advance
  <2>1. UNCHANGED <<Owners, entered, EnteredNow, left>>
    BY <1>1, <1>2 DEF Advance, InSection
  <2>2. Section!Pass
    BY <1>2, <2>1 DEF Advance, Section!Pass, Owners, EnteredNow
  <2>3. QED
    BY <2>2 DEF Section!SectionNext
<1>3. CASE UNCHANGED leaseVars
  BY <1>1, <1>3 DEF leaseVars, InSection, sectionState
<1>4. ASSUME NEW t \in Tick, Step(t) PROVE [Section!SectionNext]_sectionState
  <2>0. group[t] \in Group
    BY DEF TypeOK
  <2>1. CASE Start(t) \/ CaptureNow(t) \/ AcquireSelect(t) \/ EnterCleanup(t)
    <3>1. /\ UNCHANGED <<clock, group, entered, left>>
          /\ \A s \in entered : now'[s] = now[s]
          /\ \A s \in Tick : InSection(s)' <=> InSection(s)
      BY <2>1 DEF Start, CaptureNow, AcquireSelect, EnterCleanup, Goto,
         InSection, RowsOwned, TypeOK
    <3>2. QED
      BY <1>1, <3>1 DEF sectionState
  <2>2. CASE AcquireInsert(t) \/ AcquireUpdate(t)
    <3>1. CASE Grant(t)
      <4>1. /\ pc[t] \in {"insert", "update"}
            /\ UNCHANGED <<clock, group, born, now, left>>
            /\ \/ lease[group[t]].holder = NoTick
               \/ Expired(lease[group[t]], now[t])
        BY <2>2, <3>1 DEF AcquireInsert, AcquireUpdate, Grant, TypeOK
      <4>2. \E g \in Group : Section!Enter(t, g)
        BY <3>1, <4>1, GrantEnters
      <4>3. QED
        BY <4>2 DEF Section!SectionNext
    <3>2. CASE ~Grant(t)
      <4>1. /\ UNCHANGED <<clock, group, now, entered, left>>
            /\ \A s \in Tick : InSection(s)' <=> InSection(s)
        BY <2>2, <3>2 DEF AcquireInsert, AcquireUpdate, InSection, TypeOK
      <4>2. QED
        BY <1>1, <4>1 DEF sectionState
    <3>3. QED
      BY <3>1, <3>2
  <2>3. CASE Release(t) \/ ReleaseFails(t) \/ Die(t)
    <3>1. /\ ~InSection(t)' /\ UNCHANGED <<clock, group, now, entered>>
          /\ \A s \in Tick \ {t} : pc'[s] = pc[s]
          /\ left' = IF InSection(t) THEN [left EXCEPT ![group[t]] = clock] ELSE left
      BY <2>3 DEF Release, ReleaseFails, Die, Goto, InSection, TypeOK
    <3>2. CASE InSection(t)
      BY <2>0, <3>1, <3>2, EndLeaves DEF Section!SectionNext
    <3>3. CASE ~InSection(t)
      BY <1>1, <3>1, <3>3 DEF InSection, sectionState
    <3>4. QED
      BY <3>2, <3>3
  <2>4. QED
    BY <1>4, <2>1, <2>2, <2>3 DEF Step
<1>5. QED
  BY <1>2, <1>3, <1>4 DEF Next

(* The lease implements the abstract exclusive section: every behaviour of *)
(* rows, clocks, crashes and takeovers looks like Enter, Leave and Pass    *)
(* steps, with a `now` for each entry later than the section before it.    *)
THEOREM LeaseImplementsSection == Spec => ImplementsSection
<1>1. Init => Section!SectionInit
  BY DEF Init, Section!SectionInit, Owner, InSection
<1>2. IInv /\ IInv' /\ [Next]_leaseVars => [Section!SectionNext]_sectionState
  BY SectionStep
<1>3. IInv /\ IInv' /\ [Next]_leaseVars => [Section!SectionNext]_(Section!sectionVars)
  BY <1>2 DEF sectionState, Section!sectionVars, Owners, EnteredNow
<1>4. QED
  BY <1>1, <1>3, InductiveInvariant, PTL
     DEF Spec, ImplementsSection, Section!SectionSpec

-----------------------------------------------------------------------------
(***************************************************************************)
(* The command queue.  LabInv is inductive: the rows an open fetch has     *)
(* updated are locked until it ends, and within a target ids are handed out*)
(* in increasing order.                                                    *)
(***************************************************************************)

LEMMA Rows ==
  ASSUME CommandTypeOK
  PROVE  /\ Len(command) \in Nat /\ Ids = 1..Len(command) /\ Ids \subseteq Nat
         /\ \A i \in Ids : /\ command[i] \in Command
                           /\ command[i].target \in Target /\ command[i].status \in Status
<1>1. command \in Seq(Command)
  BY DEF CommandTypeOK
<1>2. Len(command) \in Nat /\ Ids = 1..Len(command) /\ \A i \in Ids : command[i] \in Command
  BY <1>1, SMT DEF Ids
<1>3. Ids \subseteq Nat
  BY <1>2, SMT
<1> QED
  BY <1>2, <1>3 DEF Command

LEMMA RowsAgain ==
  ASSUME CommandTypeOK, NEW f \in [Ids -> Command]
  PROVE  f \in Seq(Command) /\ Len(f) = Len(command) /\ DOMAIN f = Ids
<1>1. Len(command) \in Nat /\ Ids = 1..Len(command)
  BY Rows
<1>2. f \in [1..Len(command) -> Command]
  BY <1>1
<1>3. f \in Seq(Command)
  BY <1>1, <1>2, SeqDef
<1> QED
  BY <1>1, <1>2, <1>3, SMT

(* Rows that are written keep their target. *)
LEMMA WrittenRows ==
  ASSUME CommandTypeOK, NEW ids, NEW status \in Status
  PROVE  /\ Written(ids, status) \in [Ids -> Command]
         /\ \A i \in Ids : /\ Written(ids, status)[i].target = command[i].target
                           /\ Written(ids, status)[i].status =
                                 IF i \in ids THEN status
                                 ELSE IF i \in Stale THEN "expired" ELSE command[i].status
<1>1. \A i \in Ids : command[i] \in Command
  BY Rows
<1>2. \A i \in Ids : [command[i] EXCEPT !.status = status] \in Command
  BY <1>1 DEF Command
<1>3. \A i \in Ids : [command[i] EXCEPT !.status = "expired"] \in Command
  BY <1>1 DEF Command, Status
<1>4. Written(ids, status) \in [Ids -> Command]
  BY <1>1, <1>2, <1>3 DEF Written
<1>5. ASSUME NEW i \in Ids
      PROVE  /\ Written(ids, status)[i].target = command[i].target
             /\ Written(ids, status)[i].status =
                   IF i \in ids THEN status
                   ELSE IF i \in Stale THEN "expired" ELSE command[i].status
  BY <1>1 DEF Written, Command
<1> QED
  BY <1>4, <1>5

(* A step that no create is part of: rows lose the status pending, and only by a *)
(* machine's doing become delivered, done or failed.                             *)
LEMMA RowsMove ==
  ASSUME LabInv,
         command' \in Seq(Command), DOMAIN command' = Ids, Len(command') = Len(command),
         \A i \in Ids :
            /\ command'[i].target = command[i].target
            /\ command'[i].status = "uncommitted" <=> command[i].status = "uncommitted"
            /\ command'[i].status = "pending" => command[i].status = "pending"
            /\ i \in RowsHeld => command'[i].status = command[i].status
            /\ command'[i].status \in {"done", "failed"} =>
                  command[i].status \in {"done", "failed"} \/ i \in Handed
            /\ command'[i].status = "expired" => command[i].status \in {"expired", "pending"},
         creating' = creating, reporting' \subseteq Handed,
         fetch' \in [Source -> Fetching], zombie' \in [Source -> Fetching],
         received' \in [Source -> Seq(Nat)],
         \A s \in Source :
            /\ fetch'[s].ids \subseteq fetch[s].ids
            /\ zombie'[s].ids \subseteq fetch[s].ids \cup zombie[s].ids
            /\ Range(received[s]) \subseteq Range(received'[s])
            /\ \A i \in Range(received'[s]) :
                  /\ i \in Range(received[s])
                        \/ (i \in fetch[s].ids /\ command'[i].status = "delivered")
                  /\ i \notin fetch'[s].ids,
         raced \subseteq raced', raced' \subseteq raced \cup {"deliveries"}, HandedInOrder'
  PROVE  LabInv'
<1>1. CommandTypeOK'
  BY DEF LabInv, CommandTypeOK
<1>2. Handed \subseteq Handed' /\ Handed' \subseteq Handed \cup Asked /\ Asked' \subseteq Asked
  BY DEF Handed, Asked
<1>3. \A i \in Handed' : i \in Handed \/ command'[i].status = "delivered"
  BY DEF Handed
<1>4. Ids' = Ids
  BY DEF Ids
<1>5. CreatesHold'
  <2>1. \A o \in Creator : \A i \in creating[o].expires : i \in RowsHeld
    BY DEF RowsHeld
  <2>2. CreatesHold
    BY DEF LabInv
  <2>3. ASSUME NEW o \in Creator, Open(o)
        PROVE  creating[o].id \in Ids /\ command'[creating[o].id].status = "uncommitted"
    BY <2>2, <2>3 DEF CreatesHold
  <2>4. ASSUME NEW o \in Creator, NEW i \in creating[o].expires
        PROVE  /\ Open(o) /\ i \in Ids /\ command'[i].status = "pending"
               /\ command'[i].target = command'[creating[o].id].target
    <3>1. /\ Open(o) /\ i \in Ids /\ command[i].status = "pending"
          /\ command[i].target = command[creating[o].id].target
      BY <2>2 DEF CreatesHold
    <3>2. i \in RowsHeld /\ creating[o].id \in Ids
      BY <2>1, <2>3, <3>1
    <3> QED
      BY <3>1, <3>2
  <2> QED
    BY <1>4, <2>2, <2>3, <2>4 DEF CreatesHold, Open
<1>6. FetchesSound'
  <2> SUFFICES ASSUME NEW s \in Source
               PROVE  /\ \A i \in fetch'[s].ids \cup zombie'[s].ids : OwnAndCommitted(s, i)'
                      /\ \A i \in Range(received'[s]) : /\ OwnAndCommitted(s, i)'
                                                        /\ command'[i].status # "pending"
                                                        /\ i \notin fetch'[s].ids
    BY DEF FetchesSound
  <2>1. \A i \in fetch[s].ids \cup zombie[s].ids \cup Range(received[s]) : OwnAndCommitted(s, i)'
    <3>1. \A i \in fetch[s].ids \cup zombie[s].ids \cup Range(received[s]) : OwnAndCommitted(s, i)
      BY DEF LabInv, FetchesSound
    <3> QED
      BY <1>4, <3>1 DEF OwnAndCommitted
  <2>2. \A i \in Range(received[s]) : command'[i].status # "pending"
    BY DEF LabInv, FetchesSound, OwnAndCommitted
  <2> QED
    BY <2>1, <2>2
<1>7. NewestPending'
  <2> SUFFICES ASSUME "creates" \notin raced'
               PROVE  /\ \A o, p \in Creator : Open(o)' /\ Open(p)' => o = p
                      /\ \A o \in Creator : Open(o)' =>
                           /\ creating'[o].id = Len(command')
                           /\ \A d \in Ids' :
                                /\ command'[d].status = "pending"
                                /\ command'[d].target = command'[creating'[o].id].target
                                => d \in creating'[o].expires
                      /\ \A c, d \in Ids' : /\ d < c /\ command'[c].target = command'[d].target
                                            /\ command'[d].status = "pending"
                            => command'[c].status # "pending" /\ c \notin Asked' \cup Handed'
    BY DEF NewestPending
  <2>1. "creates" \notin raced /\ NewestPending /\ CreatesHold
    BY DEF LabInv
  <2>2. \A o, p \in Creator : Open(o)' /\ Open(p)' => o = p
    BY <2>1 DEF NewestPending, Open
  <2>3. ASSUME NEW o \in Creator, Open(o)'
        PROVE  /\ creating'[o].id = Len(command')
               /\ \A d \in Ids' :
                    /\ command'[d].status = "pending"
                    /\ command'[d].target = command'[creating'[o].id].target
                    => d \in creating'[o].expires
    <3>1. Open(o) /\ creating[o].id \in Ids
      BY <2>1, <2>3 DEF Open, CreatesHold
    <3> QED
      BY <1>4, <2>1, <3>1 DEF NewestPending
  <2>4. \A c, d \in Ids' : /\ d < c /\ command'[c].target = command'[d].target
                           /\ command'[d].status = "pending"
           => command'[c].status # "pending" /\ c \notin Asked' \cup Handed'
    BY <1>2, <1>4, <2>1 DEF NewestPending
  <2> QED
    BY <2>2, <2>3, <2>4
<1>8. Reported'
  BY <1>2 DEF Reported
<1>9. BoardTruthful'
  <2>1. \A i \in Ids : command'[i].status \in {"done", "failed"} => i \in Handed'
    BY <1>2 DEF LabInv, BoardTruthful
  <2>2. ASSUME NEW i \in Ids, command'[i].status \in {"pending", "expired"},
               "deliveries" \notin raced'
        PROVE  i \notin Handed'
    <3>1. command[i].status \in {"pending", "expired"} /\ "deliveries" \notin raced
      BY <2>2
    <3>2. i \notin Handed
      BY <3>1 DEF LabInv, BoardTruthful
    <3> QED
      BY <1>3, <2>2, <3>2
  <2> QED
    BY <1>4, <2>1, <2>2 DEF BoardTruthful
<1> QED
  BY <1>1, <1>5, <1>6, <1>7, <1>8, <1>9 DEF LabInv

(* Where nothing is handed out the order stands. *)
LEMMA OrderStands ==
  ASSUME LabInv, received' = received, raced \subseteq raced',
         \A i \in Ids : command'[i].target = command[i].target,
         \A s \in Source : fetch'[s].ids \subseteq fetch[s].ids
  PROVE  HandedInOrder'
<1> SUFFICES ASSUME NEW s \in Source
             PROVE  /\ IsInjective(received[s])
                    /\ \A i, j \in DOMAIN received[s] :
                          i < j => After(received[s][i], received[s][j])'
                    /\ \A c \in Range(received[s]), d \in fetch'[s].ids : After(c, d)'
  BY DEF HandedInOrder, After
<1>1. \A c \in Range(received[s]) \cup fetch[s].ids : c \in Ids
  BY DEF LabInv, FetchesSound, OwnAndCommitted
<1>2. \A i \in DOMAIN received[s] : received[s][i] \in Range(received[s])
  BY DEF Range
<1>3. \A c, d \in Ids : After(c, d) => After(c, d)'
  BY DEF After
<1>4. \A i, j \in DOMAIN received[s] : i < j => After(received[s][i], received[s][j])'
  <2> TAKE i, j \in DOMAIN received[s]
  <2>1. i < j => After(received[s][i], received[s][j])
    BY DEF LabInv, HandedInOrder
  <2> QED
    BY <1>1, <1>2, <2>1 DEF After
<1>5. \A c \in Range(received[s]), d \in fetch'[s].ids : After(c, d)'
  BY <1>1, <1>3 DEF LabInv, HandedInOrder
<1> QED
  BY <1>4, <1>5 DEF LabInv, HandedInOrder

LEMMA WhatIsHanded ==
  ASSUME LabInv
  PROVE  /\ \A i \in Handed : i \in Ids /\ command[i].status \notin {"uncommitted", "pending"}
         /\ \A i \in Asked : i \in Ids /\ command[i].status # "uncommitted"
BY DEF LabInv, FetchesSound, OwnAndCommitted, Handed, Asked

(* A create supersedes what is pending for its target, unless another is at it. *)
LEMMA BeginCreateKeeps ==
  ASSUME LabInv, NEW o \in Creator, NEW t \in Target, BeginCreate(o, t)
  PROVE  LabInv'
<1> DEFINE n == Len(command)
           row == [target |-> t, status |-> "uncommitted", stale |-> FALSE]
           mine == [id |-> n + 1, expires |-> Superseded(t)]
<1>1. /\ creating[o] = NoCreate /\ Superseded(t) \cap RowsHeld = {}
      /\ command' = Append(command, row) /\ creating' = [creating EXCEPT ![o] = mine]
      /\ raced' = raced \cup {x \in {"creates"} : \E p \in Creator : creating[p] # NoCreate}
      /\ fetch' = fetch /\ zombie' = zombie /\ reporting' = reporting /\ received' = received
  BY DEF BeginCreate
<1>2. /\ CommandTypeOK /\ CreatesHold /\ FetchesSound /\ NewestPending /\ Reported
      /\ BoardTruthful
  BY DEF LabInv
<1>3. n \in Nat /\ Ids = 1..n /\ Ids \subseteq Nat /\ command \in Seq(Command)
  BY <1>2, Rows DEF CommandTypeOK
<1>4. row \in Command
  BY DEF Command, Status
<1>5. mine \in [id : Nat, expires : SUBSET Nat] /\ mine.id = n + 1 /\ mine.expires = Superseded(t)
  <2>1. Superseded(t) \subseteq Nat /\ n + 1 \in Nat
    BY <1>3, SMT DEF Superseded
  <2> QED
    BY <2>1
<1>6. row.target = t /\ row.status = "uncommitted"
  OBVIOUS
<1> HIDE DEF n, row, mine
<1>7. /\ command' \in Seq(Command) /\ Len(command') = n + 1 /\ DOMAIN command' = 1..(n + 1)
      /\ command'[n + 1] = row /\ \A i \in 1..n : command'[i] = command[i]
  BY <1>1, <1>3, <1>4, SMT DEF n
<1>8. n + 1 \notin Ids /\ Ids' = Ids \cup {n + 1}
  BY <1>3, <1>7, SMT DEF Ids
<1>9. command'[n + 1] = row /\ \A i \in Ids : command'[i] = command[i]
  BY <1>3, <1>7
<1>10. creating'[o] = mine /\ \A p \in Creator \ {o} : creating'[p] = creating[p]
  BY <1>1, <1>2 DEF CommandTypeOK
<1>11. CommandTypeOK'
  <2>1. creating' \in [Creator -> [id : Nat, expires : SUBSET Nat]]
    BY <1>1, <1>2, <1>5 DEF CommandTypeOK
  <2>2. raced' \subseteq {"creates", "deliveries"}
    BY <1>1, <1>2 DEF CommandTypeOK
  <2> QED
    BY <1>1, <1>2, <1>7, <2>1, <2>2 DEF CommandTypeOK
<1>12. CreatesHold'
  <2>1. ASSUME NEW p \in Creator, Open(p)'
        PROVE  creating'[p].id \in Ids' /\ command'[creating'[p].id].status = "uncommitted"
    <3>1. CASE p = o
      BY <1>5, <1>6, <1>8, <1>9, <1>10, <3>1
    <3>2. CASE p # o
      BY <1>2, <1>8, <1>9, <1>10, <2>1, <3>2 DEF CreatesHold, Open
    <3> QED
      BY <3>1, <3>2
  <2>2. ASSUME NEW p \in Creator, NEW i \in creating'[p].expires
        PROVE  /\ Open(p)' /\ i \in Ids' /\ command'[i].status = "pending"
               /\ command'[i].target = command'[creating'[p].id].target
    <3>1. CASE p = o
      <4>1. i \in Ids /\ command[i].status = "pending" /\ command[i].target = t
        BY <1>5, <1>10, <2>2, <3>1 DEF Superseded
      <4>2. n + 1 # 0
        BY <1>3, SMT
      <4> QED
        BY <1>5, <1>6, <1>8, <1>9, <1>10, <3>1, <4>1, <4>2 DEF Open
    <3>2. CASE p # o
      <4>1. /\ Open(p) /\ i \in Ids /\ command[i].status = "pending"
            /\ command[i].target = command[creating[p].id].target /\ creating[p].id \in Ids
        BY <1>2, <1>10, <2>2, <3>2 DEF CreatesHold
      <4> QED
        BY <1>8, <1>9, <1>10, <3>2, <4>1 DEF Open
    <3> QED
      BY <3>1, <3>2
  <2>3. ASSUME NEW p \in Creator, NEW q \in Creator, Open(p)', p # q
        PROVE  /\ creating'[p].id # creating'[q].id
               /\ creating'[p].expires \cap creating'[q].expires = {}
    <3>1. \A r \in Creator \ {o} : creating[r].id # n + 1
      <4> TAKE r \in Creator \ {o}
      <4>1. creating[r].id \in Ids \/ creating[r].id = 0
        BY <1>2 DEF CreatesHold, Open
      <4> QED
        BY <1>3, <1>8, <4>1, SMT
    <3>2. \A r \in Creator : creating[r].expires \cap Superseded(t) = {}
      BY <1>1 DEF RowsHeld
    <3>3. CASE p = o
      BY <1>5, <1>10, <2>3, <3>1, <3>2, <3>3
    <3>4. CASE q = o
      BY <1>5, <1>10, <2>3, <3>1, <3>2, <3>4
    <3>5. CASE p # o /\ q # o
      BY <1>2, <1>10, <2>3, <3>5 DEF CreatesHold, Open
    <3> QED
      BY <3>3, <3>4, <3>5
  <2> QED
    BY <2>1, <2>2, <2>3 DEF CreatesHold
<1>13. FetchesSound'
  <2>1. \A s \in Source, i \in Nat : OwnAndCommitted(s, i) => OwnAndCommitted(s, i)'
    BY <1>8, <1>9 DEF OwnAndCommitted
  <2>2. \A s \in Source : \A i \in fetch[s].ids \cup zombie[s].ids \cup Range(received[s]) :
           i \in Ids /\ i \in Nat /\ OwnAndCommitted(s, i)
    BY <1>2, <1>3 DEF FetchesSound, OwnAndCommitted
  <2>3. \A s \in Source : \A i \in Range(received[s]) : command'[i].status # "pending"
    BY <1>2, <1>9, <2>2 DEF FetchesSound
  <2> QED
    BY <1>1, <1>2, <2>1, <2>2, <2>3 DEF FetchesSound
<1>14. HandedInOrder'
  <2>1. \A i \in Ids : command'[i].target = command[i].target
    BY <1>9
  <2>2. raced \subseteq raced' /\ \A s \in Source : fetch'[s].ids \subseteq fetch[s].ids
    BY <1>1
  <2> QED
    BY <1>1, <2>1, <2>2, OrderStands
<1>15. Asked' = Asked /\ Handed' = Handed /\ Asked \subseteq Ids /\ Handed \subseteq Ids
  BY <1>1, WhatIsHanded DEF Asked, Handed
<1>16. NewestPending'
  <2> SUFFICES ASSUME "creates" \notin raced' PROVE NewestPending'
    BY DEF NewestPending
  <2>1. "creates" \notin raced /\ \A p \in Creator : ~Open(p)
    <3>1. "creates" \notin raced /\ \A p \in Creator : creating[p] = NoCreate
      BY <1>1
    <3> QED
      BY <3>1 DEF Open, NoCreate
  <2>2. \A p \in Creator : Open(p)' => p = o
    BY <1>10, <2>1 DEF Open
  <2>3. \A d \in Ids' : command'[d].status = "pending" => d \in Ids
    BY <1>6, <1>8, <1>9
  <2>4. ASSUME NEW p \in Creator, Open(p)'
        PROVE  /\ creating'[p].id = Len(command')
               /\ \A d \in Ids' : /\ command'[d].status = "pending"
                                 /\ command'[d].target = command'[creating'[p].id].target
                                 => d \in creating'[p].expires
    <3>1. p = o /\ creating'[p].id = n + 1 /\ creating'[p].expires = Superseded(t)
      BY <1>5, <1>10, <2>2, <2>4
    <3>2. \A d \in Ids : /\ command[d].status = "pending" /\ command[d].target = t
                        => d \in Superseded(t)
      BY DEF Superseded
    <3> QED
      BY <1>6, <1>7, <1>9, <2>3, <3>1, <3>2
  <2>5. ASSUME NEW c \in Ids', NEW d \in Ids', d < c, command'[c].target = command'[d].target,
               command'[d].status = "pending"
        PROVE  command'[c].status # "pending" /\ c \notin Asked' \cup Handed'
    <3>1. d \in Ids
      BY <2>3, <2>5
    <3>2. CASE c \in Ids
      BY <1>2, <1>9, <1>15, <2>1, <2>5, <3>1, <3>2 DEF NewestPending
    <3>3. CASE c = n + 1
      BY <1>6, <1>8, <1>9, <1>15, <3>3
    <3> QED
      BY <1>8, <3>2, <3>3
  <2> QED
    BY <2>2, <2>4, <2>5 DEF NewestPending
<1>17. BoardTruthful'
  <2>1. ASSUME NEW i \in Ids'
        PROVE  /\ command'[i].status \in {"done", "failed"} => i \in Handed'
               /\ command'[i].status \in {"pending", "expired"} /\ "deliveries" \notin raced' =>
                     i \notin Handed'
    <3>1. CASE i \in Ids
      BY <1>1, <1>2, <1>9, <1>15, <3>1 DEF BoardTruthful
    <3>2. CASE i = n + 1
      BY <1>6, <1>9, <3>2
    <3> QED
      BY <1>8, <3>1, <3>2
  <2> QED
    BY <2>1 DEF BoardTruthful
<1>18. Reported'
  BY <1>1, <1>2, <1>15 DEF Reported
<1> QED
  BY <1>11, <1>12, <1>13, <1>14, <1>16, <1>17, <1>18 DEF LabInv

(* A create commits: its row is pending, what it superseded expires, old rows go. *)
LEMMA CommitCreateKeeps ==
  ASSUME LabInv, NEW o \in Creator, CommitCreate(o)
  PROVE  LabInv'
<1> DEFINE new == creating[o].id
           gone == creating[o].expires
<1>1. /\ new # 0 /\ \A p \in Creator \ {o} : Pruned(new) \cap creating[p].expires = {}
      /\ creating' = [creating EXCEPT ![o] = NoCreate]
      /\ fetch' = fetch /\ zombie' = zombie /\ reporting' = reporting /\ received' = received
      /\ raced' = raced
  BY DEF CommitCreate
<1>2. /\ CommandTypeOK /\ CreatesHold /\ FetchesSound /\ NewestPending /\ Reported
      /\ BoardTruthful
  BY DEF LabInv
<1>3. /\ Len(command) \in Nat /\ Ids = 1..Len(command) /\ Ids \subseteq Nat
      /\ \A i \in Ids : command[i] \in Command
  BY <1>2, Rows
<1>4. Open(o) /\ new \in Ids /\ command[new].status = "uncommitted"
  BY <1>1, <1>2 DEF CreatesHold, Open
<1>5. \A i \in gone : /\ i \in Ids /\ command[i].status = "pending"
                      /\ command[i].target = command[new].target
  BY <1>2 DEF CreatesHold
<1>6. \A i \in Stale : i \in Ids /\ command[i].status = "pending" /\ i \notin RowsHeld
  BY DEF Stale
<1> DEFINE wr == Written(gone, "expired")
<1>7. /\ wr \in [Ids -> Command]
      /\ \A i \in Ids : /\ wr[i].target = command[i].target
                        /\ wr[i].status = IF i \in gone THEN "expired"
                                          ELSE IF i \in Stale THEN "expired" ELSE command[i].status
  <2>1. "expired" \in Status
    BY DEF Status
  <2> QED
    BY <1>2, <2>1, WrittenRows
<1>8. command' = [i \in Ids |->
            CASE i = new -> [command[i] EXCEPT !.status = "pending"]
              [] i # new /\ i \in Pruned(new) -> [command[i] EXCEPT !.status = "deleted"]
              [] OTHER -> wr[i]]
  BY DEF CommitCreate
<1> HIDE DEF wr, new, gone
<1>9. ASSUME NEW i \in Ids
      PROVE  /\ command'[i] \in Command /\ command'[i].target = command[i].target
             /\ i = new => command'[i].status = "pending"
             /\ i # new /\ i \in Pruned(new) => command'[i].status = "deleted"
             /\ i # new /\ i \notin Pruned(new) =>
                   command'[i].status = IF i \in gone \cup Stale THEN "expired"
                                        ELSE command[i].status
  <2>1. CASE i = new
    <3>1. command'[i] = [command[i] EXCEPT !.status = "pending"]
      BY <1>8, <2>1
    <3> QED
      BY <1>3, <2>1, <3>1 DEF Command, Status
  <2>2. CASE i # new /\ i \in Pruned(new)
    <3>1. command'[i] = [command[i] EXCEPT !.status = "deleted"]
      BY <1>8, <2>2
    <3> QED
      BY <1>3, <2>2, <3>1 DEF Command, Status
  <2>3. CASE i # new /\ i \notin Pruned(new)
    <3>1. command'[i] = wr[i]
      BY <1>8, <2>3
    <3> QED
      BY <1>7, <2>3, <3>1
  <2> QED
    BY <2>1, <2>2, <2>3
<1>10. /\ command' \in Seq(Command) /\ Len(command') = Len(command) /\ Ids' = Ids
  <2>1. command' \in [Ids -> Command]
    BY <1>8, <1>9
  <2>2. command' \in Seq(Command) /\ Len(command') = Len(command) /\ DOMAIN command' = Ids
    BY <1>2, <2>1, RowsAgain
  <2> QED
    BY <2>2 DEF Ids
<1>11. \A i \in Ids : i # new /\ command'[i].status = "uncommitted" => command[i].status = "uncommitted"
  BY <1>9
<1>12. \A i \in Ids : i # new /\ command'[i].status = "pending" =>
          command[i].status = "pending" /\ i \notin gone /\ i \notin Pruned(new)
  BY <1>9
<1>13. creating'[o] = NoCreate /\ \A p \in Creator \ {o} : creating'[p] = creating[p]
  BY <1>1, <1>2 DEF CommandTypeOK
<1>14. CommandTypeOK'
  <2>1. NoCreate \in [id : Nat, expires : SUBSET Nat]
    BY DEF NoCreate
  <2>2. creating' \in [Creator -> [id : Nat, expires : SUBSET Nat]]
    BY <1>1, <1>2, <2>1 DEF CommandTypeOK
  <2> QED
    BY <1>1, <1>2, <1>10, <2>2 DEF CommandTypeOK
<1>15. ~Open(o)' /\ creating'[o].expires = {} /\ \A p \in Creator : Open(p)' => p # o /\ Open(p)
  BY <1>13 DEF Open, NoCreate
<1>16. CreatesHold'
  <2>1. ASSUME NEW p \in Creator, Open(p)'
        PROVE  creating'[p].id \in Ids' /\ command'[creating'[p].id].status = "uncommitted"
    <3> DEFINE i == creating[p].id
    <3>1. p # o /\ i \in Ids /\ command[i].status = "uncommitted" /\ i # new
      BY <1>2, <1>4, <1>15, <2>1 DEF CreatesHold, new
    <3>2. i \notin Pruned(new) /\ i \notin gone \cup Stale
      BY <1>5, <1>6, <3>1 DEF Pruned
    <3> QED
      BY <1>9, <1>10, <1>13, <3>1, <3>2
  <2>2. ASSUME NEW p \in Creator, NEW i \in creating'[p].expires
        PROVE  /\ Open(p)' /\ i \in Ids' /\ command'[i].status = "pending"
               /\ command'[i].target = command'[creating'[p].id].target
    <3>1. p # o /\ i \in creating[p].expires
      BY <1>13, <1>15, <2>2
    <3>2. /\ Open(p) /\ i \in Ids /\ command[i].status = "pending"
          /\ command[i].target = command[creating[p].id].target /\ creating[p].id \in Ids
      BY <1>2, <3>1 DEF CreatesHold
    <3>3. i \notin gone
      BY <1>2, <1>4, <3>1 DEF CreatesHold, gone
    <3>4. i \notin Stale /\ i \notin Pruned(new) /\ i # new
      BY <1>1, <1>4, <1>6, <3>1, <3>2 DEF RowsHeld
    <3> QED
      BY <1>9, <1>10, <1>13, <3>1, <3>2, <3>3, <3>4 DEF Open
  <2>3. ASSUME NEW p \in Creator, NEW q \in Creator, Open(p)', p # q
        PROVE  /\ creating'[p].id # creating'[q].id
               /\ creating'[p].expires \cap creating'[q].expires = {}
    <3>1. p # o /\ Open(p) /\ creating'[p] = creating[p]
      BY <1>13, <1>15, <2>3
    <3>2. CASE q = o
      BY <1>13, <1>15, <2>3, <3>2 DEF Open, NoCreate
    <3>3. CASE q # o
      BY <1>2, <1>13, <2>3, <3>1, <3>3 DEF CreatesHold
    <3> QED
      BY <3>2, <3>3
  <2> QED
    BY <2>1, <2>2, <2>3 DEF CreatesHold
<1>17. FetchesSound'
  <2>1. \A s \in Source, i \in Nat : OwnAndCommitted(s, i) => i # new /\ OwnAndCommitted(s, i)'
    BY <1>4, <1>9, <1>10, <1>11 DEF OwnAndCommitted
  <2>2. \A s \in Source : \A i \in fetch[s].ids \cup zombie[s].ids \cup Range(received[s]) :
           i \in Ids /\ i \in Nat /\ OwnAndCommitted(s, i)
    BY <1>2, <1>3 DEF FetchesSound, OwnAndCommitted
  <2>3. \A s \in Source : \A i \in Range(received[s]) : command'[i].status # "pending"
    BY <1>2, <1>12, <2>1, <2>2 DEF FetchesSound
  <2> QED
    BY <1>1, <1>2, <2>1, <2>2, <2>3 DEF FetchesSound
<1>18. HandedInOrder'
  <2>1. \A i \in Ids : command'[i].target = command[i].target
    BY <1>9
  <2>2. raced \subseteq raced' /\ \A s \in Source : fetch'[s].ids \subseteq fetch[s].ids
    BY <1>1
  <2> QED
    BY <1>1, <2>1, <2>2, OrderStands
<1>19. Asked' = Asked /\ Handed' = Handed /\ new \notin Asked \cup Handed
  BY <1>1, <1>4, WhatIsHanded DEF Asked, Handed
<1>20. NewestPending'
  <2> SUFFICES ASSUME "creates" \notin raced' PROVE NewestPending'
    BY DEF NewestPending
  <2>1. "creates" \notin raced /\ \A p \in Creator : Open(p) => p = o
    BY <1>1, <1>2, <1>4 DEF NewestPending
  <2>2. \A p \in Creator : ~Open(p)'
    BY <1>15, <2>1
  <2>3. new = Len(command)
    BY <1>2, <1>4, <2>1 DEF NewestPending, new
  <2>4. \A d \in Ids : command[d].status = "pending" /\ command[d].target = command[new].target
                         => d \in gone
    BY <1>2, <1>4, <2>1 DEF NewestPending, new, gone
  <2>5. ASSUME NEW c \in Ids, NEW d \in Ids, d < c, command'[c].target = command'[d].target,
               command'[d].status = "pending"
        PROVE  command'[c].status # "pending" /\ c \notin Asked' \cup Handed'
    <3>1. d # new
      BY <1>3, <2>3, <2>5, SMT
    <3>2. command[d].status = "pending" /\ d \notin gone
      BY <1>12, <2>5, <3>1
    <3>3. command[c].target = command[d].target
      BY <1>9, <2>5
    <3>4. c # new
      BY <2>4, <3>2, <3>3
    <3>5. command[c].status # "pending" /\ c \notin Asked \cup Handed
      BY <1>2, <2>1, <2>5, <3>2, <3>3 DEF NewestPending
    <3> QED
      BY <1>12, <1>19, <3>4, <3>5
  <2> QED
    BY <1>10, <2>2, <2>5 DEF NewestPending
<1>21. BoardTruthful'
  <2>1. ASSUME NEW i \in Ids
        PROVE  /\ command'[i].status \in {"done", "failed"} => i \in Handed'
               /\ command'[i].status \in {"pending", "expired"} /\ "deliveries" \notin raced' =>
                     i \notin Handed'
    <3>1. i \in gone \cup Stale \cup {new} => i \notin Handed
      BY <1>5, <1>6, <1>19, WhatIsHanded
    <3> QED
      BY <1>1, <1>2, <1>9, <1>19, <3>1 DEF BoardTruthful
  <2> QED
    BY <1>10, <2>1 DEF BoardTruthful
<1>22. Reported'
  BY <1>1, <1>2, <1>19 DEF Reported
<1> QED
  BY <1>14, <1>16, <1>17, <1>18, <1>20, <1>21, <1>22 DEF LabInv

(* A create that fails leaves nothing but a used id. *)
LEMMA FailCreateKeeps ==
  ASSUME LabInv, NEW o \in Creator, FailCreate(o)
  PROVE  LabInv'
<1> DEFINE new == creating[o].id
           row == [command[new] EXCEPT !.status = "deleted"]
<1>1. /\ new # 0 /\ command' = [command EXCEPT ![new] = row]
      /\ creating' = [creating EXCEPT ![o] = NoCreate]
      /\ fetch' = fetch /\ zombie' = zombie /\ reporting' = reporting /\ received' = received
      /\ raced' = raced
  BY DEF FailCreate
<1>2. /\ CommandTypeOK /\ CreatesHold /\ FetchesSound /\ NewestPending /\ Reported
      /\ BoardTruthful
  BY DEF LabInv
<1>3. /\ Len(command) \in Nat /\ Ids = 1..Len(command) /\ Ids \subseteq Nat
      /\ \A i \in Ids : command[i] \in Command
  BY <1>2, Rows
<1>4. Open(o) /\ new \in Ids /\ command[new].status = "uncommitted"
  BY <1>1, <1>2 DEF CreatesHold, Open
<1>5. row \in Command /\ row.status = "deleted" /\ row.target = command[new].target
  BY <1>3, <1>4 DEF Command, Status
<1> HIDE DEF row, new
<1>6. /\ command' \in [Ids -> Command] /\ command'[new] = row
      /\ \A i \in Ids \ {new} : command'[i] = command[i]
  <2>1. command \in [Ids -> Command]
    BY <1>2, <1>3, SMT DEF CommandTypeOK
  <2> QED
    BY <1>1, <1>4, <1>5, <2>1
<1>7. command' \in Seq(Command) /\ Len(command') = Len(command) /\ Ids' = Ids
  <2>1. command' \in Seq(Command) /\ Len(command') = Len(command) /\ DOMAIN command' = Ids
    BY <1>2, <1>6, RowsAgain
  <2> QED
    BY <2>1 DEF Ids
<1>8. creating'[o] = NoCreate /\ \A p \in Creator \ {o} : creating'[p] = creating[p]
  BY <1>1, <1>2 DEF CommandTypeOK
<1>9. CommandTypeOK'
  <2>1. NoCreate \in [id : Nat, expires : SUBSET Nat]
    BY DEF NoCreate
  <2>2. creating' \in [Creator -> [id : Nat, expires : SUBSET Nat]]
    BY <1>1, <1>2, <2>1 DEF CommandTypeOK
  <2> QED
    BY <1>1, <1>2, <1>7, <2>2 DEF CommandTypeOK
<1>10. ~Open(o)' /\ creating'[o].expires = {} /\ \A p \in Creator : Open(p)' => p # o /\ Open(p)
  BY <1>8 DEF Open, NoCreate
<1>11. \A i \in Ids : command'[i].target = command[i].target
  BY <1>5, <1>6
<1>12. CreatesHold'
  <2>1. ASSUME NEW p \in Creator, Open(p)'
        PROVE  creating'[p].id \in Ids' /\ command'[creating'[p].id].status = "uncommitted"
    BY <1>2, <1>6, <1>7, <1>8, <1>10, <2>1 DEF CreatesHold, new
  <2>2. ASSUME NEW p \in Creator, NEW i \in creating'[p].expires
        PROVE  /\ Open(p)' /\ i \in Ids' /\ command'[i].status = "pending"
               /\ command'[i].target = command'[creating'[p].id].target
    <3>1. p # o /\ i \in creating[p].expires
      BY <1>8, <1>10, <2>2
    <3>2. /\ Open(p) /\ i \in Ids /\ command[i].status = "pending"
          /\ command[i].target = command[creating[p].id].target /\ creating[p].id \in Ids
      BY <1>2, <3>1 DEF CreatesHold
    <3>3. i # new
      BY <1>4, <3>2
    <3> QED
      BY <1>6, <1>7, <1>8, <1>11, <3>1, <3>2, <3>3 DEF Open
  <2>3. ASSUME NEW p \in Creator, NEW q \in Creator, Open(p)', p # q
        PROVE  /\ creating'[p].id # creating'[q].id
               /\ creating'[p].expires \cap creating'[q].expires = {}
    <3>1. p # o /\ Open(p) /\ creating'[p] = creating[p]
      BY <1>8, <1>10, <2>3
    <3>2. CASE q = o
      BY <1>8, <1>10, <2>3, <3>2 DEF Open, NoCreate
    <3>3. CASE q # o
      BY <1>2, <1>8, <2>3, <3>1, <3>3 DEF CreatesHold
    <3> QED
      BY <3>2, <3>3
  <2> QED
    BY <2>1, <2>2, <2>3 DEF CreatesHold
<1>13. FetchesSound'
  <2>1. \A s \in Source, i \in Nat : OwnAndCommitted(s, i) => i # new /\ OwnAndCommitted(s, i)'
    BY <1>4, <1>6, <1>7, <1>11 DEF OwnAndCommitted
  <2>2. \A s \in Source : \A i \in fetch[s].ids \cup zombie[s].ids \cup Range(received[s]) :
           i \in Ids /\ i \in Nat /\ OwnAndCommitted(s, i)
    BY <1>2, <1>3 DEF FetchesSound, OwnAndCommitted
  <2>3. \A s \in Source : \A i \in Range(received[s]) : command'[i].status # "pending"
    BY <1>2, <1>6, <2>1, <2>2 DEF FetchesSound
  <2> QED
    BY <1>1, <1>2, <2>1, <2>2, <2>3 DEF FetchesSound
<1>14. HandedInOrder'
  <2>1. raced \subseteq raced' /\ \A s \in Source : fetch'[s].ids \subseteq fetch[s].ids
    BY <1>1
  <2> QED
    BY <1>1, <1>11, <2>1, OrderStands
<1>15. Asked' = Asked /\ Handed' = Handed
  BY <1>1 DEF Asked, Handed
<1>16. NewestPending'
  <2> SUFFICES ASSUME "creates" \notin raced' PROVE NewestPending'
    BY DEF NewestPending
  <2>1. "creates" \notin raced /\ \A p \in Creator : Open(p) => p = o
    BY <1>1, <1>2, <1>4 DEF NewestPending
  <2>2. \A p \in Creator : ~Open(p)'
    BY <1>10, <2>1
  <2>3. \A i \in Ids : command'[i].status = "pending" => command[i].status = "pending"
    BY <1>5, <1>6
  <2>4. \A c, d \in Ids : /\ d < c /\ command'[c].target = command'[d].target
                         /\ command'[d].status = "pending"
           => command'[c].status # "pending" /\ c \notin Asked' \cup Handed'
    BY <1>2, <1>11, <1>15, <2>1, <2>3 DEF NewestPending
  <2> QED
    BY <1>7, <2>2, <2>4 DEF NewestPending
<1>17. BoardTruthful'
  <2>1. \A i \in Ids : command'[i].status = "deleted" \/ command'[i].status = command[i].status
    BY <1>5, <1>6
  <2> QED
    BY <1>1, <1>2, <1>7, <1>15, <2>1 DEF BoardTruthful
<1>18. Reported'
  BY <1>1, <1>2, <1>15 DEF Reported
<1> QED
  BY <1>9, <1>12, <1>13, <1>14, <1>16, <1>17, <1>18 DEF LabInv

(* What a fetch reads is pending, so it was not handed out and nothing after it was. *)
LEMMA BeginFetchKeeps ==
  ASSUME LabInv, NEW s \in Source, BeginFetch(s)
  PROVE  LabInv'
<1> DEFINE f == [on |-> TRUE, ids |-> Handable(s)]
<1>1. /\ fetch' = [fetch EXCEPT ![s] = f]
      /\ command' = command /\ creating' = creating /\ zombie' = zombie
      /\ reporting' = reporting /\ received' = received /\ raced' = raced
  BY DEF BeginFetch
<1>2. /\ CommandTypeOK /\ CreatesHold /\ FetchesSound /\ NewestPending /\ Reported
      /\ BoardTruthful /\ HandedInOrder
  BY DEF LabInv
<1>3. Ids \subseteq Nat
  BY <1>2, Rows
<1>4. \A i \in Handable(s) : /\ i \in Ids /\ i \in Nat /\ command[i].status = "pending"
                           /\ SourceOf[command[i].target] = s
  BY <1>3 DEF Handable
<1>5. f \in Fetching /\ f.ids = Handable(s)
  BY <1>4 DEF Fetching
<1> HIDE DEF f
<1>6. /\ fetch' \in [Source -> Fetching] /\ fetch'[s].ids = Handable(s)
      /\ \A u \in Source \ {s} : fetch'[u] = fetch[u]
  BY <1>1, <1>2, <1>5 DEF CommandTypeOK
<1>7. Ids' = Ids /\ Handed' = Handed
  BY <1>1 DEF Ids, Handed
<1>8. CommandTypeOK'
  BY <1>1, <1>2, <1>6 DEF CommandTypeOK
<1>9. CreatesHold'
  BY <1>1, <1>2, <1>7 DEF CreatesHold, Open
<1>10. FetchesSound'
  <2>1. \A u \in Source, i \in Nat : OwnAndCommitted(u, i)' <=> OwnAndCommitted(u, i)
    BY <1>1, <1>7 DEF OwnAndCommitted
  <2>2. \A u \in Source : \A i \in fetch[u].ids \cup zombie[u].ids \cup Range(received[u]) : i \in Nat
    BY <1>2, <1>3 DEF FetchesSound, OwnAndCommitted
  <2>3. ASSUME NEW u \in Source
        PROVE  /\ \A i \in fetch'[u].ids \cup zombie'[u].ids : OwnAndCommitted(u, i)'
               /\ \A i \in Range(received'[u]) : /\ OwnAndCommitted(u, i)'
                                                 /\ command'[i].status # "pending"
                                                 /\ i \notin fetch'[u].ids
    <3>1. CASE u = s
      <4>1. \A i \in Handable(s) : OwnAndCommitted(s, i)
        BY <1>4 DEF OwnAndCommitted
      <4>2. \A i \in Range(received[s]) : command[i].status # "pending" /\ i \notin Handable(s)
        BY <1>2, <1>4 DEF FetchesSound
      <4> QED
        BY <1>1, <1>2, <1>4, <1>6, <2>1, <2>2, <3>1, <4>1, <4>2 DEF FetchesSound
    <3>2. CASE u # s
      BY <1>1, <1>2, <1>6, <2>1, <2>2, <3>2 DEF FetchesSound
    <3> QED
      BY <3>1, <3>2
  <2> QED
    BY <2>3 DEF FetchesSound
<1>11. HandedInOrder'
  <2>1. ASSUME NEW c \in Range(received[s]), NEW d \in Handable(s) PROVE After(c, d)
    <3> SUFFICES ASSUME "creates" \notin raced, command[c].target = command[d].target
                 PROVE  c < d
      BY DEF After
    <3>1. c \in Handed
      BY DEF Handed
    <3>2. c \in Ids /\ command[c].status # "pending"
      BY <3>1, WhatIsHanded
    <3>3. d \in Ids /\ command[d].status = "pending"
      BY <1>4
    <3>4. ~(d < c) /\ c # d
      BY <1>2, <3>1, <3>2, <3>3 DEF NewestPending
    <3>5. c \in Nat /\ d \in Nat
      BY <1>3, <3>2, <3>3
    <3> QED
      BY <3>4, <3>5
  <2>2. ASSUME NEW u \in Source
        PROVE  \A c \in Range(received[u]), d \in fetch'[u].ids : After(c, d)
    <3>1. CASE u = s
      BY <1>6, <2>1, <3>1
    <3>2. CASE u # s
      BY <1>2, <1>6, <3>2 DEF HandedInOrder
    <3> QED
      BY <3>1, <3>2
  <2> QED
    BY <1>1, <1>2, <2>2 DEF HandedInOrder, After
<1>12. NewestPending'
  <2>1. \A i \in Asked' : i \in Asked \/ i \in Handable(s)
    BY <1>1, <1>6 DEF Asked
  <2>2. \A i \in Asked' : i \in Asked \/ command[i].status = "pending"
    BY <1>4, <2>1
  <2> SUFFICES ASSUME "creates" \notin raced' PROVE NewestPending'
    BY DEF NewestPending
  <2>3. \A c, d \in Ids : /\ d < c /\ command[c].target = command[d].target
                        /\ command[d].status = "pending"
          => command[c].status # "pending" /\ c \notin Asked' \cup Handed'
    BY <1>1, <1>2, <1>7, <2>2 DEF NewestPending
  <2>4. /\ \A o, p \in Creator : Open(o) /\ Open(p) => o = p
        /\ \A o \in Creator : Open(o) =>
              /\ creating[o].id = Len(command)
              /\ \A d \in Ids : /\ command[d].status = "pending"
                               /\ command[d].target = command[creating[o].id].target
                               => d \in creating[o].expires
    BY <1>1, <1>2 DEF NewestPending
  <2> QED
    BY <1>1, <1>7, <2>3, <2>4 DEF NewestPending, Open
<1>13. BoardTruthful' /\ Reported'
  BY <1>1, <1>2, <1>7 DEF BoardTruthful, Reported
<1> QED
  BY <1>8, <1>9, <1>10, <1>11, <1>12, <1>13 DEF LabInv

-----------------------------------------------------------------------------
(* The rows of a fetch are delivered. *)
LEMMA DeliverRows ==
  ASSUME LabInv, NEW ids \in SUBSET Ids, \A i \in ids : command[i].status # "uncommitted",
         Deliver(ids)
  PROVE  /\ command' \in Seq(Command) /\ DOMAIN command' = Ids /\ Len(command') = Len(command)
         /\ \A i \in Ids :
               /\ command'[i].target = command[i].target
               /\ command'[i].status = "uncommitted" <=> command[i].status = "uncommitted"
               /\ command'[i].status = "pending" => command[i].status = "pending"
               /\ i \in RowsHeld => command'[i].status = command[i].status
               /\ command'[i].status \in {"done", "failed"} =>
                     command[i].status \in {"done", "failed"} \/ i \in Handed
               /\ command'[i].status = "expired" => command[i].status \in {"expired", "pending"}
               /\ i \in ids => command'[i].status = "delivered"
         /\ raced \subseteq raced' /\ raced' \subseteq raced \cup {"deliveries"}
<1>1. CommandTypeOK /\ "delivered" \in Status
  BY DEF LabInv, Status
<1>2. ids \cap RowsHeld = {} /\ command' = Written(ids, "delivered")
      /\ (raced' = raced \cup {"deliveries"} \/ raced' = raced)
  BY DEF Deliver
<1>3. command' \in [Ids -> Command]
      /\ \A i \in Ids : /\ command'[i].target = command[i].target
                        /\ command'[i].status = IF i \in ids THEN "delivered"
                             ELSE IF i \in Stale THEN "expired" ELSE command[i].status
  BY <1>1, <1>2, WrittenRows
<1>4. command' \in Seq(Command) /\ DOMAIN command' = Ids /\ Len(command') = Len(command)
  BY <1>1, <1>3, RowsAgain
<1>5. \A i \in Stale : command[i].status = "pending" /\ i \notin RowsHeld
  BY DEF Stale
<1> QED
  BY <1>2, <1>3, <1>4, <1>5

LEMMA OrderFrom ==
  ASSUME \A u \in Source :
            /\ IsInjective(received'[u])
            /\ \A i, j \in DOMAIN received'[u] : i < j =>
                  \/ received'[u][i] < received'[u][j] \/ "creates" \in raced'
                  \/ command'[received'[u][i]].target # command'[received'[u][j]].target
            /\ \A c \in Range(received'[u]), d \in fetch'[u].ids :
                  c < d \/ "creates" \in raced' \/ command'[c].target # command'[d].target
  PROVE  HandedInOrder'
BY Zenon DEF HandedInOrder, After

(* A batch goes to the machine in the order of the ids, after all it has. *)
LEMMA BatchInOrder ==
  ASSUME LabInv, NEW s \in Source, NEW batch \in InOrder(fetch[s].ids),
         received'[s] = received[s] \o batch, fetch'[s].ids = {},
         \A u \in Source \ {s} : received'[u] = received[u] /\ fetch'[u] = fetch[u],
         raced \subseteq raced', \A i \in Ids : command'[i].target = command[i].target
  PROVE  /\ received[s] \o batch \in Seq(Nat) /\ HandedInOrder'
         /\ Range(received[s]) \subseteq Range(received'[s])
         /\ Range(received'[s]) \subseteq Range(received[s]) \cup fetch[s].ids
<1> DEFINE ids == fetch[s].ids
           q == received[s]
           f == q \o batch
           m == Len(q)
           n == Cardinality(ids)
<1>1. /\ CommandTypeOK /\ FetchesSound /\ HandedInOrder /\ Len(command) \in Nat
      /\ Ids = 1..Len(command) /\ Ids \subseteq Nat
  BY Rows DEF LabInv
<1>2. ids \subseteq Ids /\ Range(q) \subseteq Ids /\ \A i \in Range(q) : i \notin ids
  BY <1>1 DEF FetchesSound, OwnAndCommitted
<1>3. n \in Nat
  <2>1. IsFiniteSet(Ids)
    <3>1. 1 \in Int /\ Len(command) \in Int
      BY <1>1
    <3>2. IsFiniteSet(1..Len(command))
      BY <3>1, FS_Interval
    <3> QED
      BY <1>1, <3>2
  <2>2. IsFiniteSet(ids)
    BY <1>2, <2>1, FS_Subset
  <2> QED
    BY <2>2, FS_CardinalityType
<1>4. batch \in [1..n -> ids] /\ \A i, j \in 1..n : i < j => batch[i] < batch[j]
  BY DEF InOrder
<1>5. received'[s] = f
  OBVIOUS
<1>7. q \in Seq(Nat) /\ m \in Nat /\ DOMAIN q = 1..m /\ \A i \in 1..m : q[i] \in Range(q)
  <2>1. q \in Seq(Nat)
    BY <1>1 DEF CommandTypeOK
  <2>2. m \in Nat /\ DOMAIN q = 1..m
    BY <2>1, SMT
  <2> QED
    BY <2>1, <2>2 DEF Range
<1> HIDE DEF ids, q, f, m, n
<1>8. batch \in Seq(Nat) /\ Len(batch) = n
  <2>1. batch \in [1..n -> Nat]
    BY <1>1, <1>2, <1>4
  <2>2. batch \in Seq(Nat)
    BY <1>3, <2>1, SeqDef
  <2> QED
    BY <1>3, <2>1, <2>2, SMT
<1>9. /\ f \in Seq(Nat) /\ Len(f) = m + n
      /\ \A i \in 1..(m + n) : f[i] = IF i <= m THEN q[i] ELSE batch[i - m]
  BY <1>7, <1>8, ConcatProperties DEF f, m
<1>10. DOMAIN f = 1..(m + n)
  BY <1>3, <1>7, <1>9, SMT
<1>11. ASSUME NEW i \in DOMAIN f
       PROVE  \/ i \in 1..m /\ f[i] = q[i] /\ f[i] \in Range(q)
              \/ i - m \in 1..n /\ f[i] = batch[i - m] /\ f[i] \in ids
  <2>1. CASE i <= m
    <3>1. i \in 1..m /\ f[i] = q[i]
      BY <1>3, <1>7, <1>9, <1>10, <2>1, SMT
    <3> QED
      BY <1>7, <3>1
  <2>2. CASE ~(i <= m)
    <3>1. i - m \in 1..n /\ f[i] = batch[i - m]
      BY <1>3, <1>7, <1>9, <1>10, <2>2, SMT
    <3> QED
      BY <1>4, <3>1
  <2> QED
    BY <2>1, <2>2
<1>12. Range(q) \subseteq Range(f)
  <2> SUFFICES ASSUME NEW i \in DOMAIN q PROVE \E j \in DOMAIN f : f[j] = q[i]
    BY DEF Range
  <2>1. i \in DOMAIN f /\ f[i] = q[i]
    BY <1>3, <1>7, <1>9, <1>10, SMT
  <2> QED
    BY <2>1
<1>13. Range(f) \subseteq Range(q) \cup ids
  BY <1>11 DEF Range
<1>14. ASSUME NEW i \in DOMAIN f, NEW j \in DOMAIN f, i < j
       PROVE  After(f[i], f[j]) /\ f[i] # f[j]
  <2>1. CASE j \in 1..m
    <3>1. i \in 1..m
      BY <1>3, <1>7, <1>10, <1>14, <2>1, SMT
    <3>2. f[i] = q[i] /\ f[j] = q[j]
      BY <1>3, <1>7, <1>9, <1>10, <2>1, <3>1, SMT
    <3>3. i # j
      BY <1>3, <1>7, <1>10, <1>14, SMT
    <3> QED
      BY <1>1, <1>7, <1>14, <2>1, <3>1, <3>2, <3>3 DEF HandedInOrder, q, IsInjective
  <2>2. CASE j - m \in 1..n /\ f[j] \in ids /\ f[i] \in Range(q)
    BY <1>1, <1>2, <2>2 DEF HandedInOrder, q, ids
  <2>3. CASE j - m \in 1..n /\ f[j] = batch[j - m] /\ i - m \in 1..n /\ f[i] = batch[i - m]
    <3>1. i - m < j - m
      BY <1>3, <1>7, <1>10, <1>14, SMT
    <3>2. batch[i - m] < batch[j - m]
      BY <1>4, <2>3, <3>1
    <3>3. batch[i - m] \in Nat /\ batch[j - m] \in Nat
      BY <1>1, <1>2, <1>4, <2>3
    <3>4. batch[i - m] # batch[j - m]
      BY <3>2, <3>3, SMT
    <3> QED
      BY <2>3, <3>2, <3>4 DEF After
  <2> QED
    BY <1>11, <2>1, <2>2, <2>3
<1>15. \A i \in DOMAIN f : f[i] \in Ids
  BY <1>2, <1>11
<1>16. ASSUME NEW u \in Source
       PROVE  /\ IsInjective(received'[u])
              /\ \A i, j \in DOMAIN received'[u] : i < j =>
                    \/ received'[u][i] < received'[u][j] \/ "creates" \in raced'
                    \/ command'[received'[u][i]].target # command'[received'[u][j]].target
              /\ \A c \in Range(received'[u]), d \in fetch'[u].ids :
                    c < d \/ "creates" \in raced' \/ command'[c].target # command'[d].target
  <2>1. \A c, d \in Ids : After(c, d) => c < d \/ "creates" \in raced'
                            \/ command'[c].target # command'[d].target
    BY DEF After
  <2>2. CASE u = s
    <3>1. IsInjective(f)
      <4> SUFFICES ASSUME NEW i \in DOMAIN f, NEW j \in DOMAIN f, f[i] = f[j] PROVE i = j
        BY DEF IsInjective
      <4>1. i < j \/ j < i \/ i = j
        BY <1>3, <1>7, <1>10, SMT
      <4> QED
        BY <1>14, <4>1
    <3>2. \A i, j \in DOMAIN f : i < j => f[i] < f[j] \/ "creates" \in raced'
                                        \/ command'[f[i]].target # command'[f[j]].target
      BY <1>14, <1>15, <2>1
    <3> QED
      BY <1>5, <2>2, <3>1, <3>2 DEF IsInjective
  <2>3. CASE u # s
    <3>1. received'[u] = received[u] /\ fetch'[u] = fetch[u]
      BY <2>3
    <3>2. \A c \in Range(received[u]) \cup fetch[u].ids : c \in Ids
      BY <1>1 DEF FetchesSound, OwnAndCommitted
    <3>3. \A i \in DOMAIN received[u] : received[u][i] \in Range(received[u])
      BY DEF Range
    <3>4. /\ IsInjective(received[u])
          /\ \A i, j \in DOMAIN received[u] : i < j => After(received[u][i], received[u][j])
          /\ \A c \in Range(received[u]), d \in fetch[u].ids : After(c, d)
      BY <1>1 DEF HandedInOrder
    <3>5. \A i, j \in DOMAIN received[u] : i < j =>
             \/ received[u][i] < received[u][j] \/ "creates" \in raced'
             \/ command'[received[u][i]].target # command'[received[u][j]].target
      BY <2>1, <3>2, <3>3, <3>4
    <3>6. \A c \in Range(received[u]), d \in fetch[u].ids :
             c < d \/ "creates" \in raced' \/ command'[c].target # command'[d].target
      BY <2>1, <3>2, <3>4
    <3> QED
      <4>1. IsInjective(received'[u])
        BY <3>1, <3>4 DEF IsInjective
      <4>2. \A c \in Range(received'[u]) : c \in Range(received[u])
        BY <3>1 DEF Range
      <4>3. \A i, j \in DOMAIN received'[u] : i < j =>
               \/ received'[u][i] < received'[u][j] \/ "creates" \in raced'
               \/ command'[received'[u][i]].target # command'[received'[u][j]].target
        BY <3>1, <3>5
      <4>4. \A c \in Range(received'[u]), d \in fetch'[u].ids :
               c < d \/ "creates" \in raced' \/ command'[c].target # command'[d].target
        BY <3>1, <3>6, <4>2
      <4> QED
        BY <4>1, <4>3, <4>4
  <2> QED
    BY <2>2, <2>3
<1>17. HandedInOrder'
  BY <1>16, OrderFrom
<1> QED
  BY <1>5, <1>9, <1>12, <1>13, <1>17 DEF f, q, ids

LEMMA CommitFetchKeeps ==
  ASSUME LabInv, NEW s \in Source, CommitFetch(s)
  PROVE  LabInv'
<1> DEFINE ids == fetch[s].ids
<1>1. /\ Deliver(ids) /\ fetch' = [fetch EXCEPT ![s] = NoFetch]
      /\ \/ \E batch \in InOrder(ids) : received' = [received EXCEPT ![s] = @ \o batch]
         \/ received' = received
      /\ creating' = creating /\ zombie' = zombie /\ reporting' = reporting
  BY DEF CommitFetch
<1>2. CommandTypeOK /\ FetchesSound /\ Reported
  BY DEF LabInv
<1>3. ids \in SUBSET Ids /\ \A i \in ids : command[i].status # "uncommitted"
  BY <1>2 DEF FetchesSound, OwnAndCommitted
<1>4. /\ command' \in Seq(Command) /\ DOMAIN command' = Ids /\ Len(command') = Len(command)
      /\ \A i \in Ids :
            /\ command'[i].target = command[i].target
            /\ command'[i].status = "uncommitted" <=> command[i].status = "uncommitted"
            /\ command'[i].status = "pending" => command[i].status = "pending"
            /\ i \in RowsHeld => command'[i].status = command[i].status
            /\ command'[i].status \in {"done", "failed"} =>
                  command[i].status \in {"done", "failed"} \/ i \in Handed
            /\ command'[i].status = "expired" => command[i].status \in {"expired", "pending"}
            /\ i \in ids => command'[i].status = "delivered"
      /\ raced \subseteq raced' /\ raced' \subseteq raced \cup {"deliveries"}
  BY <1>1, <1>3, DeliverRows
<1>5. NoFetch \in Fetching /\ NoFetch.ids = {}
  BY DEF NoFetch, Fetching
<1>6. /\ fetch' \in [Source -> Fetching] /\ fetch'[s].ids = {}
      /\ \A u \in Source \ {s} : fetch'[u] = fetch[u]
  BY <1>1, <1>2, <1>5 DEF CommandTypeOK
<1>7. \A u \in Source : fetch'[u].ids \subseteq fetch[u].ids
  BY <1>6
<1>8. /\ received' \in [Source -> Seq(Nat)] /\ HandedInOrder'
      /\ \A u \in Source \ {s} : received'[u] = received[u]
      /\ Range(received[s]) \subseteq Range(received'[s])
      /\ Range(received'[s]) \subseteq Range(received[s]) \cup ids
  <2>1. CASE received' = received
    <3>1. HandedInOrder'
      BY <1>4, <1>7, <2>1, OrderStands
    <3> QED
      BY <1>2, <2>1, <3>1 DEF CommandTypeOK
  <2>2. CASE \E batch \in InOrder(ids) : received' = [received EXCEPT ![s] = @ \o batch]
    <3>1. PICK batch \in InOrder(fetch[s].ids) : received' = [received EXCEPT ![s] = @ \o batch]
      BY <2>2
    <3>2. /\ received'[s] = received[s] \o batch
          /\ \A u \in Source \ {s} : received'[u] = received[u]
      BY <1>2, <3>1 DEF CommandTypeOK
    <3>3. /\ received[s] \o batch \in Seq(Nat) /\ HandedInOrder'
          /\ Range(received[s]) \subseteq Range(received'[s])
          /\ Range(received'[s]) \subseteq Range(received[s]) \cup fetch[s].ids
      BY <1>4, <1>6, <3>2, BatchInOrder
    <3>4. received' \in [Source -> Seq(Nat)]
      BY <1>2, <3>1, <3>3 DEF CommandTypeOK
    <3> QED
      BY <3>2, <3>3, <3>4
  <2> QED
    BY <1>1, <2>1, <2>2
<1>9. ASSUME NEW u \in Source
      PROVE  /\ fetch'[u].ids \subseteq fetch[u].ids
             /\ zombie'[u].ids \subseteq fetch[u].ids \cup zombie[u].ids
             /\ Range(received[u]) \subseteq Range(received'[u])
             /\ \A i \in Range(received'[u]) :
                   /\ i \in Range(received[u])
                         \/ (i \in fetch[u].ids /\ command'[i].status = "delivered")
                   /\ i \notin fetch'[u].ids
  <2>1. CASE u = s
    BY <1>1, <1>3, <1>4, <1>6, <1>7, <1>8, <2>1
  <2>2. CASE u # s
    BY <1>1, <1>2, <1>6, <1>8, <2>2 DEF FetchesSound
  <2> QED
    BY <2>1, <2>2
<1>10. zombie' \in [Source -> Fetching] /\ reporting' \subseteq Handed
  BY <1>1, <1>2 DEF CommandTypeOK, Reported
<1> QED
  BY <1>1, <1>4, <1>6, <1>8, <1>9, <1>10, RowsMove

(* The steps after which the machines have what they had. *)
LEMMA NothingHanded ==
  ASSUME LabInv,
         command' \in Seq(Command), DOMAIN command' = Ids, Len(command') = Len(command),
         \A i \in Ids :
            /\ command'[i].target = command[i].target
            /\ command'[i].status = "uncommitted" <=> command[i].status = "uncommitted"
            /\ command'[i].status = "pending" => command[i].status = "pending"
            /\ i \in RowsHeld => command'[i].status = command[i].status
            /\ command'[i].status \in {"done", "failed"} =>
                  command[i].status \in {"done", "failed"} \/ i \in Handed
            /\ command'[i].status = "expired" => command[i].status \in {"expired", "pending"},
         creating' = creating, reporting' \subseteq Handed, received' = received,
         fetch' \in [Source -> Fetching], zombie' \in [Source -> Fetching],
         \A s \in Source : /\ fetch'[s].ids \subseteq fetch[s].ids
                           /\ zombie'[s].ids \subseteq fetch[s].ids \cup zombie[s].ids,
         raced \subseteq raced', raced' \subseteq raced \cup {"deliveries"}
  PROVE  LabInv'
<1>1. HandedInOrder'
  BY OrderStands
<1>2. received' \in [Source -> Seq(Nat)]
  BY DEF LabInv, CommandTypeOK
<1>3. \A s \in Source : \A i \in Range(received'[s]) :
         i \in Range(received[s]) /\ i \notin fetch'[s].ids
  BY DEF LabInv, FetchesSound
<1> QED
  BY <1>1, <1>2, <1>3, RowsMove

LEMMA RowsUnchanged ==
  ASSUME LabInv, command' = command
  PROVE  /\ command' \in Seq(Command) /\ DOMAIN command' = Ids /\ Len(command') = Len(command)
         /\ \A i \in Ids :
               /\ command'[i].target = command[i].target
               /\ command'[i].status = "uncommitted" <=> command[i].status = "uncommitted"
               /\ command'[i].status = "pending" => command[i].status = "pending"
               /\ i \in RowsHeld => command'[i].status = command[i].status
               /\ command'[i].status \in {"done", "failed"} =>
                     command[i].status \in {"done", "failed"} \/ i \in Handed
               /\ command'[i].status = "expired" => command[i].status \in {"expired", "pending"}
BY DEF LabInv, CommandTypeOK, Ids

LEMMA FetchEndsKeeps ==
  ASSUME LabInv, NEW s \in Source, GiveUp(s) \/ FailFetch(s) \/ CommitZombie(s)
  PROVE  LabInv'
<1>1. CommandTypeOK /\ FetchesSound /\ Reported
  BY DEF LabInv
<1>2. NoFetch \in Fetching /\ NoFetch.ids = {} /\ fetch[s] \in Fetching
  BY <1>1 DEF NoFetch, Fetching, CommandTypeOK
<1>3. reporting \subseteq Handed /\ raced \subseteq raced
  BY <1>1 DEF Reported
<1>4. CASE GiveUp(s)
  <2>1. /\ zombie' = [zombie EXCEPT ![s] = fetch[s]] /\ fetch' = [fetch EXCEPT ![s] = NoFetch]
        /\ command' = command /\ creating' = creating /\ reporting' = reporting
        /\ received' = received /\ raced' = raced
    BY <1>4 DEF GiveUp
  <2>2. fetch' \in [Source -> Fetching] /\ zombie' \in [Source -> Fetching]
    BY <1>1, <1>2, <2>1 DEF CommandTypeOK
  <2>3. \A u \in Source : /\ fetch'[u].ids \subseteq fetch[u].ids
                          /\ zombie'[u].ids \subseteq fetch[u].ids \cup zombie[u].ids
    BY <1>1, <1>2, <2>1 DEF CommandTypeOK
  <2> QED
    BY <1>3, <2>1, <2>2, <2>3, RowsUnchanged, NothingHanded
<1>5. CASE FailFetch(s)
  <2>1. /\ \/ fetch' = [fetch EXCEPT ![s] = NoFetch] /\ zombie' = zombie
           \/ zombie' = [zombie EXCEPT ![s] = NoFetch] /\ fetch' = fetch
        /\ command' = command /\ creating' = creating /\ reporting' = reporting
        /\ received' = received /\ raced' = raced
    BY <1>5 DEF FailFetch
  <2>2. fetch' \in [Source -> Fetching] /\ zombie' \in [Source -> Fetching]
    BY <1>1, <1>2, <2>1 DEF CommandTypeOK
  <2>3. \A u \in Source : /\ fetch'[u].ids \subseteq fetch[u].ids
                          /\ zombie'[u].ids \subseteq fetch[u].ids \cup zombie[u].ids
    BY <1>1, <1>2, <2>1 DEF CommandTypeOK
  <2> QED
    BY <1>3, <2>1, <2>2, <2>3, RowsUnchanged, NothingHanded
<1>6. CASE CommitZombie(s)
  <2> DEFINE ids == zombie[s].ids
  <2>1. /\ Deliver(ids) /\ zombie' = [zombie EXCEPT ![s] = NoFetch]
        /\ fetch' = fetch /\ creating' = creating /\ reporting' = reporting
        /\ received' = received
    BY <1>6 DEF CommitZombie
  <2>2. ids \in SUBSET Ids /\ \A i \in ids : command[i].status # "uncommitted"
    BY <1>1 DEF FetchesSound, OwnAndCommitted
  <2>3. fetch' \in [Source -> Fetching] /\ zombie' \in [Source -> Fetching]
    BY <1>1, <1>2, <2>1 DEF CommandTypeOK
  <2>4. \A u \in Source : /\ fetch'[u].ids \subseteq fetch[u].ids
                          /\ zombie'[u].ids \subseteq fetch[u].ids \cup zombie[u].ids
    BY <1>1, <1>2, <2>1 DEF CommandTypeOK
  <2> HIDE DEF ids
  <2> QED
    BY <1>3, <2>1, <2>2, <2>3, <2>4, DeliverRows, NothingHanded
<1> QED
  BY <1>4, <1>5, <1>6

LEMMA ReportKeeps ==
  ASSUME LabInv, NEW i \in Ids, BeginResult(i) \/ CommitResult(i) \/ FailResult(i)
  PROVE  LabInv'
<1>1. CommandTypeOK /\ FetchesSound /\ reporting \subseteq Handed
  BY DEF LabInv, Reported
<1>2. /\ fetch' = fetch /\ zombie' = zombie /\ creating' = creating /\ received' = received
      /\ raced' = raced
  BY DEF BeginResult, CommitResult, FailResult
<1>3. reporting' \subseteq Handed
  BY <1>1 DEF BeginResult, CommitResult, FailResult
<1>4. /\ command' \in Seq(Command) /\ DOMAIN command' = Ids /\ Len(command') = Len(command)
      /\ \A j \in Ids :
            /\ command'[j].target = command[j].target
            /\ command'[j].status = "uncommitted" <=> command[j].status = "uncommitted"
            /\ command'[j].status = "pending" => command[j].status = "pending"
            /\ j \in RowsHeld => command'[j].status = command[j].status
            /\ command'[j].status \in {"done", "failed"} =>
                  command[j].status \in {"done", "failed"} \/ j \in Handed
            /\ command'[j].status = "expired" => command[j].status \in {"expired", "pending"}
  <2>1. CASE CommitResult(i)
    <3>1. i \in Handed /\ i \notin RowsHeld
      BY <1>1, <2>1 DEF CommitResult
    <3>2. PICK status \in {"done", "failed"} : command' = [command EXCEPT ![i].status = status]
      BY <2>1 DEF CommitResult
    <3> DEFINE row == [command[i] EXCEPT !.status = status]
    <3>3. command[i] \in Command /\ command[i].status # "uncommitted"
      BY <1>1, <3>1, Rows, WhatIsHanded
    <3>4. row \in Command /\ row.status = status /\ row.target = command[i].target
      BY <3>3 DEF Command, Status
    <3>5. command' = [command EXCEPT ![i] = row]
      BY <3>2
    <3> HIDE DEF row
    <3>6. command \in [Ids -> Command]
      BY <1>1, Rows, SMT DEF CommandTypeOK
    <3>7. /\ command' \in [Ids -> Command] /\ command'[i] = row
          /\ \A j \in Ids \ {i} : command'[j] = command[j]
      BY <3>4, <3>5, <3>6
    <3>8. command' \in Seq(Command) /\ DOMAIN command' = Ids /\ Len(command') = Len(command)
      BY <1>1, <3>7, RowsAgain
    <3>9. ASSUME NEW j \in Ids
          PROVE  /\ command'[j].target = command[j].target
                 /\ command'[j].status = "uncommitted" <=> command[j].status = "uncommitted"
                 /\ command'[j].status = "pending" => command[j].status = "pending"
                 /\ j \in RowsHeld => command'[j].status = command[j].status
                 /\ command'[j].status \in {"done", "failed"} =>
                       command[j].status \in {"done", "failed"} \/ j \in Handed
                 /\ command'[j].status = "expired" => command[j].status \in {"expired", "pending"}
      <4>1. CASE j = i
        BY <3>1, <3>3, <3>4, <3>7, <4>1
      <4>2. CASE j # i
        BY <3>7, <4>2
      <4> QED
        BY <4>1, <4>2
    <3> QED
      BY <3>8, <3>9
  <2>2. CASE ~CommitResult(i)
    <3>1. command' = command
      BY <2>2 DEF BeginResult, FailResult
    <3> QED
      BY <3>1, RowsUnchanged
  <2> QED
    BY <2>1, <2>2
<1>5. fetch' \in [Source -> Fetching] /\ zombie' \in [Source -> Fetching]
  BY <1>1, <1>2 DEF CommandTypeOK
<1>6. raced \subseteq raced' /\ raced' \subseteq raced \cup {"deliveries"}
      /\ \A s \in Source : /\ fetch'[s].ids \subseteq fetch[s].ids
                           /\ zombie'[s].ids \subseteq fetch[s].ids \cup zombie[s].ids
  BY <1>2
<1> QED
  BY <1>2, <1>3, <1>4, <1>5, <1>6, NothingHanded

LEMMA TimeKeeps ==
  ASSUME LabInv, Dashboard \/ \E i \in Ids : Grow(i)
  PROVE  LabInv'
<1>1. CommandTypeOK /\ reporting \subseteq Handed
  BY DEF LabInv, Reported
<1>2. /\ fetch' = fetch /\ zombie' = zombie /\ creating' = creating /\ received' = received
      /\ raced' = raced /\ reporting' = reporting
  BY DEF Dashboard, Grow
<1>3. /\ command' \in [Ids -> Command]
      /\ \A i \in Ids : /\ command'[i].target = command[i].target
                        /\ \/ command'[i].status = command[i].status
                           \/ i \in Stale /\ command'[i].status = "expired"
  <2>1. CASE Dashboard
    <3>1. command' = Written({}, "expired") /\ "expired" \in Status
      BY <2>1 DEF Dashboard, Status
    <3> QED
      BY <1>1, <3>1, WrittenRows
  <2>2. ASSUME NEW i \in Ids, Grow(i)
        PROVE  /\ command' \in [Ids -> Command]
               /\ \A j \in Ids : /\ command'[j].target = command[j].target
                                 /\ command'[j].status = command[j].status
    <3> DEFINE row == [command[i] EXCEPT !.stale = TRUE]
    <3>1. command[i] \in Command /\ command' = [command EXCEPT ![i] = row]
      BY <1>1, <2>2, Rows DEF Grow
    <3>2. row \in Command /\ row.status = command[i].status /\ row.target = command[i].target
      BY <3>1 DEF Command
    <3> HIDE DEF row
    <3>3. command \in [Ids -> Command]
      BY <1>1, Rows, SMT DEF CommandTypeOK
    <3> QED
      BY <3>1, <3>2, <3>3
  <2> QED
    BY <2>1, <2>2
<1>4. command' \in Seq(Command) /\ DOMAIN command' = Ids /\ Len(command') = Len(command)
  BY <1>1, <1>3, RowsAgain
<1>5. \A i \in Stale : command[i].status = "pending" /\ i \notin RowsHeld
  BY DEF Stale
<1>6. fetch' \in [Source -> Fetching] /\ zombie' \in [Source -> Fetching]
  BY <1>1, <1>2 DEF CommandTypeOK
<1>7. raced \subseteq raced' /\ raced' \subseteq raced \cup {"deliveries"}
      /\ \A s \in Source : /\ fetch'[s].ids \subseteq fetch[s].ids
                           /\ zombie'[s].ids \subseteq fetch[s].ids \cup zombie[s].ids
  BY <1>2
<1>8. \A i \in Ids :
            /\ command'[i].target = command[i].target
            /\ command'[i].status = "uncommitted" <=> command[i].status = "uncommitted"
            /\ command'[i].status = "pending" => command[i].status = "pending"
            /\ i \in RowsHeld => command'[i].status = command[i].status
            /\ command'[i].status \in {"done", "failed"} =>
                  command[i].status \in {"done", "failed"} \/ i \in Handed
            /\ command'[i].status = "expired" => command[i].status \in {"expired", "pending"}
  BY <1>3, <1>5
<1> QED
  BY <1>1, <1>2, <1>4, <1>6, <1>7, <1>8, NothingHanded

LEMMA LabStarts == LInit => LabInv
<1> SUFFICES ASSUME LInit PROVE LabInv
  OBVIOUS
<1>1. command = <<>> /\ Ids = {} /\ \A s \in Source : received[s] = <<>> /\ Range(received[s]) = {}
  <2>1. \A s \in Source : received[s] = <<>>
    BY DEF LInit
  <2>2. DOMAIN <<>> = {}
    BY SMT
  <2> QED
    BY <2>1, <2>2 DEF LInit, Ids, Range
<1>2. CommandTypeOK
  <2>1. <<>> \in Seq(Command) /\ <<>> \in Seq(Nat)
    BY SMT
  <2> QED
    BY <2>1 DEF LInit, CommandTypeOK, NoCreate, NoFetch, Fetching
<1>3. \A o \in Creator : ~Open(o) /\ creating[o].expires = {}
  BY DEF LInit, Open, NoCreate
<1>4. \A s \in Source : fetch[s].ids = {} /\ zombie[s].ids = {}
  BY DEF LInit, NoFetch
<1>5. CreatesHold
  BY <1>3 DEF CreatesHold
<1>6. FetchesSound
  BY <1>1, <1>4 DEF FetchesSound
<1>7. HandedInOrder
  <2>1. \A s \in Source : DOMAIN received[s] = {}
    BY <1>1, SMT
  <2> QED
    BY <1>1, <2>1 DEF HandedInOrder, IsInjective
<1>8. NewestPending
  BY <1>1, <1>3 DEF NewestPending
<1>9. Reported /\ BoardTruthful
  BY <1>1 DEF LInit, Reported, BoardTruthful
<1> QED
  BY <1>2, <1>5, <1>6, <1>7, <1>8, <1>9 DEF LabInv

LEMMA LabStepKeeps == LabInv /\ [LNext]_lVars => LabInv'
<1> SUFFICES ASSUME LabInv, [LNext]_lVars PROVE LabInv'
  OBVIOUS
<1>1. CASE UNCHANGED lVars
  <2>1. /\ command' = command /\ fetch' = fetch /\ zombie' = zombie /\ creating' = creating
        /\ received' = received /\ raced' = raced /\ reporting' = reporting
    BY <1>1 DEF lVars
  <2>2. /\ fetch \in [Source -> Fetching] /\ zombie \in [Source -> Fetching]
        /\ reporting \subseteq Handed
    BY DEF LabInv, CommandTypeOK, Reported
  <2>3. \A s \in Source : /\ fetch'[s].ids \subseteq fetch[s].ids
                          /\ zombie'[s].ids \subseteq fetch[s].ids \cup zombie[s].ids
    BY <2>1
  <2>4. raced \subseteq raced' /\ raced' \subseteq raced \cup {"deliveries"}
    BY <2>1
  <2> QED
    BY <2>1, <2>2, <2>3, <2>4, RowsUnchanged, NothingHanded
<1>2. ASSUME NEW o \in Creator, NEW t \in Target, BeginCreate(o, t) PROVE LabInv'
  BY <1>2, BeginCreateKeeps
<1>3. ASSUME NEW o \in Creator, CommitCreate(o) PROVE LabInv'
  BY <1>3, CommitCreateKeeps
<1>4. ASSUME NEW o \in Creator, FailCreate(o) PROVE LabInv'
  BY <1>4, FailCreateKeeps
<1>5. ASSUME NEW s \in Source, BeginFetch(s) PROVE LabInv'
  BY <1>5, BeginFetchKeeps
<1>6. ASSUME NEW s \in Source, CommitFetch(s) PROVE LabInv'
  BY <1>6, CommitFetchKeeps
<1>7. ASSUME NEW s \in Source, GiveUp(s) \/ FailFetch(s) \/ CommitZombie(s) PROVE LabInv'
  BY <1>7, FetchEndsKeeps
<1>8. ASSUME NEW i \in Ids, BeginResult(i) \/ CommitResult(i) \/ FailResult(i) PROVE LabInv'
  BY <1>8, ReportKeeps
<1>9. ASSUME Dashboard \/ \E i \in Ids : Grow(i) PROVE LabInv'
  BY <1>9, TimeKeeps
<1> QED
  BY <1>1, <1>2, <1>3, <1>4, <1>5, <1>6, <1>7, <1>8, <1>9 DEF LNext

(* lab/service.py: over every run, however many owners and machines there are and  *)
(* whatever requests are given up on, fail or overlap, a machine is handed its own *)
(* commands, each once, and those of a target in order unless creates overlapped;  *)
(* and the board says of a command whether it was carried out, unless a fetch was  *)
(* overtaken.                                                                      *)
THEOREM CommandsAreHonest == LabSpec => []CommandsHonest
<1>1. LInit => LabInv
  BY LabStarts
<1>2. LabInv /\ [LNext]_lVars => LabInv'
  BY LabStepKeeps
<1>3. LabInv => CommandsHonest
  <2> SUFFICES ASSUME LabInv PROVE HandedOnce
    BY DEF CommandsHonest, LabInv
  <2> SUFFICES ASSUME NEW s \in Source, NEW i \in DOMAIN received[s], NEW j \in DOMAIN received[s]
               PROVE  /\ IsInjective(received[s])
                      /\ SourceOf[command[received[s][i]].target] = s
                      /\ i < j => After(received[s][i], received[s][j])
    <3>1. \A s \in Source : IsInjective(received[s])
      BY DEF LabInv, HandedInOrder
    <3> QED
      BY <3>1 DEF HandedOnce, After
  <2>1. received[s][i] \in Range(received[s])
    BY DEF Range
  <2> QED
    BY <2>1 DEF LabInv, HandedInOrder, FetchesSound, OwnAndCommitted
<1> QED
  BY <1>1, <1>2, <1>3, PTL DEF LabSpec

-----------------------------------------------------------------------------
(***************************************************************************)
(* SchemaSettles for any processes, releases, tables and indexes.  Every   *)
(* step of a process changes its own entry only (Others), so the parts of  *)
(* SchemaInv that speak of two processes meet at the index in hand: what   *)
(* is under construction is in one hand only (BuildsExact), and whoever    *)
(* drops an index still has it on the list (IndexesOwed).                  *)
(***************************************************************************)

(* The lists of releases only grow. *)
LEMMA ListsGrow ==
    \A r, s \in 0..Latest : r <= s => Listed(r) \subseteq Listed(s)
BY ReleaseAssumption DEF Listed

LEMMA ListedAreIndexes == \A r \in 0..Latest : Listed(r) \subseteq Index
BY ListsGrow, ReleaseAssumption DEF Index

(* The initial state meets the invariant. *)
LEMMA InitMeets == SchemaInit => SchemaInv
<1> SUFFICES ASSUME SchemaInit PROVE SchemaInv
    OBVIOUS
<1>1. SchemaTypeOK
    BY ReleaseAssumption DEF SchemaInit, SchemaTypeOK, Resting, Place
<1>2. PastTransaction /\ AloneRepairs
    BY DEF SchemaInit, PastTransaction, AloneRepairs, Resting, At, Indexing
<1>3. BuildsExact /\ LeftOversKnown
    BY NamesAssumption DEF SchemaInit, BuildsExact, LeftOversKnown, Resting, At
<1>4. IndexesOwed
    BY ReleaseAssumption DEF SchemaInit, IndexesOwed, Listed
<1> QED BY <1>1, <1>2, <1>3, <1>4 DEF SchemaInv

-----------------------------------------------------------------------------
(* How an entry of migrator changes. *)
MigratorOK ==
    migrator \in [Migrator -> [at : Place, entry : {"none", "preflight", "fail_fast", "upgrade"},
                              release : 1..Latest, next : Nat \ {0}]]

Others(m) ==
    \A n \in Migrator \ {m} :
        At(n)' = At(n) /\ Hand(n)' = Hand(n) /\ ReleaseOf(n)' = ReleaseOf(n)

LEMMA Entries ==
    ASSUME SchemaTypeOK, NEW n \in Migrator
    PROVE  At(n) \in Place /\ Hand(n) \in Nat \ {0} /\ ReleaseOf(n) \in 1..Latest
BY DEF SchemaTypeOK, At, Hand, ReleaseOf

LEMMA Moved ==
    ASSUME MigratorOK, NEW m \in Migrator, NEW p \in Place, MoveTo(m, p)
    PROVE  /\ MigratorOK' /\ Others(m)
           /\ At(m)' = p /\ Hand(m)' = Hand(m) /\ ReleaseOf(m)' = ReleaseOf(m)
BY DEF MigratorOK, Others, MoveTo, At, Hand, ReleaseOf

LEMMA WentOn ==
    ASSUME MigratorOK, NEW m \in Migrator, Onward(m)
    PROVE  /\ MigratorOK' /\ Others(m)
           /\ At(m)' = "read" /\ Hand(m)' = Hand(m) + 1 /\ ReleaseOf(m)' = ReleaseOf(m)
<1> DEFINE ahead == [migrator EXCEPT ![m].next = @ + 1]
<1>1. migrator' = [ahead EXCEPT ![m].at = "read"]
    BY DEF Onward
<1>2. /\ ahead \in [Migrator -> [at : Place, entry : {"none", "preflight", "fail_fast", "upgrade"},
                                release : 1..Latest, next : Nat \ {0}]]
      /\ ahead[m].next = Hand(m) + 1 /\ ahead[m].release = ReleaseOf(m)
      /\ \A n \in Migrator \ {m} : ahead[n] = migrator[n]
    BY DEF MigratorOK, Hand, ReleaseOf
<1> HIDE DEF ahead
<1> QED BY <1>1, <1>2 DEF MigratorOK, Others, Place, At, Hand, ReleaseOf

LEMMA Rested ==
    ASSUME MigratorOK, NEW m \in Migrator, migrator' = [migrator EXCEPT ![m] = Resting]
    PROVE  MigratorOK' /\ Others(m) /\ At(m)' = "rest"
BY ReleaseAssumption DEF MigratorOK, Others, Resting, Place, At, Hand, ReleaseOf

LEMMA Begun ==
    ASSUME MigratorOK, NEW m \in Migrator, BeginMigration(m)
    PROVE  MigratorOK' /\ Others(m) /\ At(m)' \in {"check", "lock"}
<1>1. PICK release \in 1..Latest, entry \in {"preflight", "fail_fast", "upgrade"} :
         migrator' = [migrator EXCEPT ![m] =
             [at |-> IF entry = "upgrade" THEN "lock" ELSE "check", entry |-> entry,
              release |-> release, next |-> 1]]
    BY DEF BeginMigration
<1> QED BY <1>1 DEF MigratorOK, Others, Place, At, Hand, ReleaseOf

LEMMA Started ==
    ASSUME MigratorOK, NEW m \in Migrator, Onset(m)
    PROVE  /\ MigratorOK' /\ Others(m)
           /\ At(m)' = "read" /\ Hand(m)' = 1 /\ ReleaseOf(m)' = ReleaseOf(m)
<1> DEFINE there == [migrator EXCEPT ![m].next = 1]
<1>1. migrator' = [there EXCEPT ![m].at = "read"]
    BY DEF Onset
<1>2. /\ there \in [Migrator -> [at : Place, entry : {"none", "preflight", "fail_fast", "upgrade"},
                                release : 1..Latest, next : Nat \ {0}]]
      /\ there[m].next = 1 /\ there[m].release = ReleaseOf(m)
      /\ \A n \in Migrator \ {m} : there[n] = migrator[n]
    BY DEF MigratorOK, ReleaseOf
<1> HIDE DEF there
<1> QED BY <1>1, <1>2 DEF MigratorOK, Others, Place, At, Hand, ReleaseOf

-----------------------------------------------------------------------------
(* What a step of m must do to keep the parts that speak of every process. *)
LEMMA PastStays ==
    ASSUME SchemaTypeOK, SchemaTypeOK', PastTransaction, NEW m \in Migrator, Others(m),
           elements \subseteq elements', version' # version => version' >= version,
           m \in Indexing' \/ At(m)' = "ready" => Current(m)',
           At(m)' \in {"drop", "create", "building"} => Hand(m)' \in Listed(ReleaseOf(m)')
    PROVE  PastTransaction'
<1> SUFFICES ASSUME NEW n \in Migrator, n # m
             PROVE  /\ n \in Indexing' \/ At(n)' = "ready" => Current(n)'
                    /\ At(n)' \in {"drop", "create", "building"}
                           => Hand(n)' \in Listed(ReleaseOf(n)')
    BY DEF PastTransaction, Listed
<1>1. At(n)' = At(n) /\ Hand(n)' = Hand(n) /\ ReleaseOf(n)' = ReleaseOf(n)
    BY DEF Others
<1>2. n \in Indexing' => n \in Indexing
    BY <1>1 DEF Indexing
<1>3. ReleaseOf(n) \in 1..Latest /\ version \in Int /\ version' \in Int
    BY Entries, ReleaseAssumption, SMTT(30) DEF SchemaTypeOK
<1>4. Current(n) => Current(n)'
    BY <1>1, <1>3, ReleaseAssumption DEF Current, Wanted
<1> QED BY <1>1, <1>2, <1>4 DEF PastTransaction, Listed

LEMMA OwedStays ==
    ASSUME SchemaTypeOK, IndexesOwed, NEW m \in Migrator, Others(m),
           version' = version, broken \subseteq broken',
           \A i \in Index \ broken' :
               index[i] = "valid" \/ (m \in Indexing /\ i \in Todo(m))
               => index'[i] = "valid" \/ (m \in Indexing' /\ i \in Todo(m)')
    PROVE  IndexesOwed'
<1> SUFFICES ASSUME NEW i \in Listed(version) \ broken'
             PROVE  index'[i] = "valid" \/ \E n \in Indexing' : i \in Todo(n)'
    BY DEF IndexesOwed, Listed
<1>1. i \in Index /\ i \notin broken
    BY ListedAreIndexes DEF SchemaTypeOK
<1>2. CASE index[i] = "valid" \/ (m \in Indexing /\ i \in Todo(m))
    BY <1>1, <1>2
<1>3. CASE \E n \in Indexing : n # m /\ i \in Todo(n)
    <2>1. PICK n \in Indexing : n # m /\ i \in Todo(n)
        BY <1>3
    <2>2. n \in Indexing' /\ Todo(n)' = Todo(n)
        BY <2>1 DEF Indexing, Todo, Others, Hand
    <2> QED BY <2>1, <2>2
<1> QED BY <1>1, <1>2, <1>3 DEF IndexesOwed

LEMMA AloneStays ==
    ASSUME SchemaTypeOK, AloneRepairs, NEW m \in Migrator, Others(m), alone' \subseteq alone,
           m \notin Indexing => m \notin Indexing' /\ index' = index,
           m \in alone' =>
               /\ m \in Indexing'
               /\ \A i \in Listed(ReleaseOf(m)') : i < Hand(m)' => index'[i] = "valid"
               /\ At(m)' = "create" => index'[Hand(m)'] = "absent"
    PROVE  AloneRepairs'
<1> SUFFICES ASSUME NEW n \in alone'
             PROVE  /\ Indexing' = {n}
                    /\ \A i \in Listed(ReleaseOf(n)') : i < Hand(n)' => index'[i] = "valid"
                    /\ At(n)' = "create" => index'[Hand(n)'] = "absent"
    BY DEF AloneRepairs, Listed
<1>1. n \in Migrator /\ Indexing = {n}
    BY DEF AloneRepairs, SchemaTypeOK
<1>2. CASE n = m
    BY <1>1, <1>2 DEF Indexing, Others
<1>3. CASE n # m
    <2>1. m \notin Indexing' /\ index' = index
        BY <1>1, <1>3
    <2>2. At(n)' = At(n) /\ Hand(n)' = Hand(n) /\ ReleaseOf(n)' = ReleaseOf(n)
        BY <1>1, <1>3 DEF Others
    <2>3. Indexing' = {n}
        BY <1>1, <2>1, <2>2 DEF Indexing, Others
    <2> QED BY <2>1, <2>2, <2>3 DEF AloneRepairs
<1> QED BY <1>2, <1>3

(* What is left of the list when m stays at its index or goes on to the next. *)
LEMMA ListLeft ==
    ASSUME SchemaTypeOK, NEW m \in Migrator, ReleaseOf(m)' = ReleaseOf(m)
    PROVE  /\ Hand(m)' = Hand(m) => Todo(m)' = Todo(m)
           /\ Hand(m)' = Hand(m) + 1 =>
                  \A i \in Todo(m) : i = Hand(m) \/ i \in Todo(m)'
<1>1. Hand(m) \in Nat /\ ListLength[ReleaseOf(m)] \in Nat
    BY Entries, ReleaseAssumption
<1>2. Todo(m) = Hand(m)..ListLength[ReleaseOf(m)] /\ Todo(m)' = Hand(m)'..ListLength[ReleaseOf(m)']
    BY DEF Todo, Hand
<1> QED BY <1>1, <1>2

(* Whoever has an index in hand has it on its list, and it is an index. *)
LEMMA InHand ==
    ASSUME SchemaInv, NEW m \in Migrator, At(m) \in {"drop", "create", "building"}
    PROVE  Hand(m) \in Index /\ Hand(m) \in Todo(m) /\ m \in Indexing
<1>1. Hand(m) \in Listed(ReleaseOf(m)) /\ ReleaseOf(m) \in 1..Latest /\ Hand(m) \in Nat
    BY Entries DEF SchemaInv, PastTransaction
<1>2. Hand(m) \in Index
    BY <1>1, ListedAreIndexes
<1>3. Hand(m) \in Todo(m)
    BY <1>1, ReleaseAssumption DEF Listed, Todo, Hand
<1> QED BY <1>2, <1>3 DEF Indexing

-----------------------------------------------------------------------------
(* Steps of a process that is not among the indexes change nothing of theirs. *)
LEMMA Outside ==
    ASSUME SchemaInv, SchemaTypeOK', NEW m \in Migrator, Others(m),
           m \notin Indexing, m \notin Indexing', At(m)' = "ready" => Current(m)',
           UNCHANGED <<elements, version, index, builder, alone, broken>>
    PROVE  SchemaInv'
<1> USE DEF SchemaInv
<1>1. At(m) \notin {"drop", "create", "building"} /\ At(m)' \notin {"drop", "create", "building"}
    BY DEF Indexing
<1>2. PastTransaction'
    BY <1>1, PastStays
<1>3. BuildsExact'
    BY <1>1 DEF BuildsExact, Others
<1>4. LeftOversKnown'
    BY DEF LeftOversKnown
<1>5. IndexesOwed'
    BY OwedStays
<1>6. AloneRepairs'
    BY AloneStays DEF AloneRepairs
<1> QED BY <1>2, <1>3, <1>4, <1>5, <1>6

LEMMA BeginKeeps ==
    ASSUME SchemaInv, NEW m \in Migrator, BeginMigration(m)
    PROVE  SchemaInv'
<1>1. MigratorOK' /\ Others(m) /\ At(m)' \in {"check", "lock"}
    BY Begun DEF SchemaInv, SchemaTypeOK, MigratorOK
<1>2. SchemaTypeOK'
    BY <1>1 DEF SchemaInv, SchemaTypeOK, MigratorOK, BeginMigration
<1>3. m \notin Indexing /\ m \notin Indexing'
    BY <1>1 DEF BeginMigration, Indexing
<1> QED BY <1>1, <1>2, <1>3, Outside DEF BeginMigration

LEMMA CheckKeeps ==
    ASSUME SchemaInv, NEW m \in Migrator, Check(m)
    PROVE  SchemaInv'
<1>0. MigratorOK
    BY DEF SchemaInv, SchemaTypeOK, MigratorOK
<1>1. /\ MigratorOK' /\ Others(m)
      /\ \/ At(m)' \in {"lock", "rest"}
         \/ At(m)' = "ready" /\ Current(m) /\ ReleaseOf(m)' = ReleaseOf(m)
    <2>1. CASE Current(m)
        BY <1>0, <2>1, Moved DEF Check, Place
    <2>2. CASE ~Current(m) /\ migrator[m].entry = "preflight"
        <3>1. MoveTo(m, "lock")
            BY <2>2 DEF Check
        <3>2. MigratorOK' /\ Others(m) /\ At(m)' = "lock"
            BY <1>0, <3>1, Moved DEF Place
        <3> QED BY <3>2
    <2>3. CASE ~Current(m) /\ migrator[m].entry # "preflight"
        <3>1. migrator' = [migrator EXCEPT ![m] = Resting]
            BY <2>3 DEF Check
        <3>2. MigratorOK' /\ Others(m) /\ At(m)' = "rest"
            BY <1>0, <3>1, Rested
        <3> QED BY <3>2
    <2> QED BY <2>1, <2>2, <2>3
<1>2. SchemaTypeOK'
    BY <1>1 DEF SchemaInv, SchemaTypeOK, MigratorOK, Check
<1>3. m \notin Indexing /\ m \notin Indexing'
    BY <1>1 DEF Check, Indexing
<1>4. At(m)' = "ready" => Current(m)'
    BY <1>1 DEF Check, Current
<1> QED BY <1>1, <1>2, <1>3, <1>4, Outside DEF Check

LEMMA LockKeeps ==
    ASSUME SchemaInv, NEW m \in Migrator, Lock(m)
    PROVE  SchemaInv'
<1>1. MigratorOK' /\ Others(m) /\ At(m)' = "ddl"
    BY Moved DEF SchemaInv, SchemaTypeOK, MigratorOK, Lock, Place
<1>2. SchemaTypeOK'
    BY <1>1 DEF SchemaInv, SchemaTypeOK, MigratorOK, Lock
<1>3. m \notin Indexing /\ m \notin Indexing'
    BY <1>1 DEF Lock, Indexing
<1> QED BY <1>1, <1>2, <1>3, Outside DEF Lock

(* The commit makes the tables of the release, and puts its whole list on m. *)
LEMMA CommitKeeps ==
    ASSUME SchemaInv, NEW m \in Migrator, CommitSchema(m)
    PROVE  SchemaInv'
<1> USE DEF SchemaInv
<1>1. /\ MigratorOK' /\ Others(m) /\ At(m) = "ddl"
      /\ At(m)' = "read" /\ Hand(m)' = 1 /\ ReleaseOf(m)' = ReleaseOf(m)
    BY Started DEF SchemaTypeOK, MigratorOK, CommitSchema
<1>2. /\ ReleaseOf(m) \in 1..Latest /\ version \in 0..Latest
      /\ version' \in 0..Latest /\ version' >= version /\ version' >= ReleaseOf(m)
      /\ version' = version \/ version' = ReleaseOf(m)
    BY Entries, ReleaseAssumption DEF CommitSchema, SchemaTypeOK
<1>3. /\ elements \subseteq elements' /\ Wanted(ReleaseOf(m)) \subseteq elements'
      /\ elements' \subseteq Element
    BY DEF CommitSchema, SchemaTypeOK, Wanted
<1>4. /\ index' \in [Index -> {"absent", "invalid", "valid"}]
      /\ \A i \in Index : \/ index'[i] = index[i]
                          \/ /\ index'[i] = "valid" /\ TableOf[i] \notin elements
                             /\ i \in Listed(ReleaseOf(m))
    BY DEF CommitSchema, SchemaTypeOK
<1>5. SchemaTypeOK'
    BY <1>1, <1>2, <1>3, <1>4 DEF SchemaTypeOK, MigratorOK, CommitSchema
<1>6. PastTransaction'
    BY <1>1, <1>2, <1>3, <1>5, PastStays DEF Current, Wanted
<1>7. \A i \in Index : index[i] # "absent" \/ builder[i] # NoMigrator => index'[i] = index[i]
    BY <1>4 DEF BuildsExact
<1>8. BuildsExact'
    <2>1. \A i \in Index : index'[i] # "absent" => TableOf[i] \in elements'
        BY <1>2, <1>3, <1>4, IndexAssumption DEF BuildsExact
    <2>2. \A i \in Index : builder'[i] # NoMigrator => index'[i] = "invalid"
        BY <1>7 DEF BuildsExact, CommitSchema
    <2>3. \A n \in Migrator : At(n)' = "building" => builder'[Hand(n)'] = n
        BY <1>1 DEF BuildsExact, Others, CommitSchema
    <2>4. \A i \in Index : builder'[i] \in Migrator =>
              At(builder[i])' = "building" /\ Hand(builder[i])' = i
        BY <1>1 DEF BuildsExact, Others, CommitSchema
    <2> QED BY <2>1, <2>2, <2>3, <2>4 DEF BuildsExact, CommitSchema
<1>9. LeftOversKnown'
    BY <1>4 DEF LeftOversKnown, CommitSchema
<1>10. IndexesOwed'
    <2> SUFFICES ASSUME NEW i \in Listed(version') \ broken
                 PROVE  index'[i] = "valid" \/ \E n \in Indexing' : i \in Todo(n)'
        BY DEF IndexesOwed, CommitSchema, Listed
    <2>1. i \in Index
        BY <1>2, ListedAreIndexes
    <2>2. CASE version' = version
        <3>1. CASE index[i] = "valid"
            BY <3>1, <2>1, <1>7
        <3>2. CASE \E n \in Indexing : i \in Todo(n)
            <4>1. PICK n \in Indexing : i \in Todo(n)
                BY <3>2
            <4>2. n # m
                BY <4>1, <1>1 DEF Indexing
            <4>3. n \in Indexing' /\ Todo(n)' = Todo(n)
                BY <4>1, <4>2, <1>1 DEF Indexing, Others, Todo, Hand
            <4> QED BY <4>1, <4>3
        <3> QED BY <3>1, <3>2, <2>2 DEF IndexesOwed
    <2>3. CASE version' = ReleaseOf(m)
        <3>1. m \in Indexing'
            BY <1>1 DEF Indexing
        <3>2. Todo(m)' = Listed(version')
            BY <1>1, <2>3 DEF Todo, Hand, Listed
        <3> QED BY <3>1, <3>2
    <2> QED BY <1>2, <2>2, <2>3
<1>11. AloneRepairs'
    <2> SUFFICES ASSUME NEW n \in alone'
                 PROVE  /\ Indexing' = {n}
                        /\ \A i \in Listed(ReleaseOf(n)') : i < Hand(n)' => index'[i] = "valid"
                        /\ At(n)' = "create" => index'[Hand(n)'] = "absent"
        BY DEF AloneRepairs, Listed
    <2>1. n = m /\ Indexing = {}
        BY DEF CommitSchema
    <2>2. Indexing' = {m}
        BY <1>1, <2>1 DEF Indexing, Others
    <2>3. \A i \in Listed(ReleaseOf(n)') : ~(i < Hand(n)')
        BY <1>1, <1>2, <2>1, ReleaseAssumption DEF Listed
    <2> QED BY <1>1, <2>1, <2>2, <2>3
<1> QED BY <1>5, <1>6, <1>8, <1>9, <1>10, <1>11

-----------------------------------------------------------------------------
(* Steps of a process among the indexes touch the index in hand only; it is    *)
(* left behind valid, or as one that somebody failed on.                       *)
LEMMA InsideOwed ==
    ASSUME SchemaInv, NEW m \in Indexing, m \in Indexing', Others(m),
           version' = version, broken' = broken, ReleaseOf(m)' = ReleaseOf(m),
           \A i \in Index : i # Hand(m) => index'[i] = index[i],
           \/ Hand(m)' = Hand(m) /\ Hand(m) \in Todo(m)
           \/ /\ Hand(m)' = Hand(m) + 1
              /\ Hand(m) \in Index /\ Hand(m) \notin broken => index'[Hand(m)] = "valid"
    PROVE  IndexesOwed'
<1> USE DEF SchemaInv
<1>1. m \in Migrator
    BY DEF Indexing
<1>2. \A i \in Index \ broken : index[i] = "valid" \/ i \in Todo(m)
                              => index'[i] = "valid" \/ i \in Todo(m)'
    <2>1. CASE Hand(m)' = Hand(m) /\ Hand(m) \in Todo(m)
        BY <1>1, <2>1, ListLeft
    <2>2. CASE /\ Hand(m)' = Hand(m) + 1
               /\ Hand(m) \in Index /\ Hand(m) \notin broken => index'[Hand(m)] = "valid"
        <3>1. \A i \in Index : i \in Todo(m) => i = Hand(m) \/ i \in Todo(m)'
            BY <1>1, <2>2, ListLeft
        <3> QED BY <2>2, <3>1
    <2> QED BY <2>1, <2>2
<1> QED BY <1>1, <1>2, OwedStays

LEMMA InsideAlone ==
    ASSUME SchemaInv, NEW m \in Indexing, m \in Indexing', Others(m),
           alone' = alone, ReleaseOf(m)' = ReleaseOf(m),
           \A i \in Index : i # Hand(m) => index'[i] = index[i],
           \/ Hand(m)' = Hand(m)
           \/ Hand(m)' = Hand(m) + 1 /\ (m \in alone => index'[Hand(m)] = "valid"),
           At(m)' = "create" => Hand(m)' = Hand(m) /\ index'[Hand(m)] = "absent"
    PROVE  AloneRepairs'
<1> USE DEF SchemaInv
<1>1. m \in Migrator /\ Hand(m) \in Nat /\ ReleaseOf(m) \in 1..Latest
    BY Entries DEF Indexing
<1>2. \A i \in Listed(ReleaseOf(m)) : i \in Index /\ i \in Int
    BY <1>1, ListedAreIndexes DEF Listed
<1>3. ASSUME m \in alone, NEW i \in Listed(ReleaseOf(m)), i < Hand(m)'
      PROVE  index'[i] = "valid"
    <2>1. i < Hand(m) \/ (i = Hand(m) /\ Hand(m)' = Hand(m) + 1)
        BY <1>1, <1>2, <1>3
    <2>2. CASE i < Hand(m)
        BY <1>1, <1>2, <1>3, <2>2 DEF AloneRepairs
    <2>3. CASE i = Hand(m) /\ Hand(m)' = Hand(m) + 1
        BY <1>1, <1>3, <2>3
    <2> QED BY <2>1, <2>2, <2>3
<1>4. Listed(ReleaseOf(m)') = Listed(ReleaseOf(m))
    OBVIOUS
<1> QED BY <1>1, <1>3, <1>4, AloneStays

LEMMA ReadKeeps ==
    ASSUME SchemaInv, NEW m \in Migrator, ReadValidity(m)
    PROVE  SchemaInv'
<1> USE DEF SchemaInv
<1>0. /\ MigratorOK /\ At(m) = "read" /\ m \in Indexing
      /\ Hand(m) \in Listed(ReleaseOf(m)) /\ Hand(m) \in Todo(m) /\ Hand(m) \in Index
    <2>1. Hand(m) \in Nat \ {0} /\ ReleaseOf(m) \in 1..Latest /\ ListLength[ReleaseOf(m)] \in Nat
        BY Entries, ReleaseAssumption
    <2>2. Hand(m) \in Listed(ReleaseOf(m)) /\ Hand(m) \in Todo(m)
        BY <2>1 DEF ReadValidity, Listed, Todo, Hand
    <2> QED BY <2>1, <2>2, ListedAreIndexes DEF ReadValidity, SchemaTypeOK, MigratorOK, Indexing
<1>1. /\ MigratorOK' /\ Others(m) /\ ReleaseOf(m)' = ReleaseOf(m)
      /\ \/ At(m)' = "read" /\ Hand(m)' = Hand(m) + 1 /\ index[Hand(m)] = "valid"
         \/ At(m)' = "drop" /\ Hand(m)' = Hand(m)
         \/ At(m)' = "create" /\ Hand(m)' = Hand(m) /\ index[Hand(m)] = "absent"
    <2>1. CASE index[Hand(m)] = "valid"
        BY <1>0, <2>1, WentOn DEF ReadValidity
    <2>2. CASE index[Hand(m)] # "valid" /\ LeftOver(Hand(m))
        BY <1>0, <2>2, Moved DEF ReadValidity, Place
    <2>3. CASE index[Hand(m)] # "valid" /\ ~LeftOver(Hand(m))
        <3>1. index[Hand(m)] = "absent"
            BY <1>0, <2>3 DEF LeftOver, SchemaTypeOK
        <3> QED BY <1>0, <2>3, <3>1, Moved DEF ReadValidity, Place
    <2> QED BY <2>1, <2>2, <2>3
<1>2. UNCHANGED <<elements, version, index, builder, alone, broken>> /\ m \in Indexing'
    BY <1>1 DEF ReadValidity, Indexing
<1>3. SchemaTypeOK'
    BY <1>1 DEF SchemaTypeOK, MigratorOK, ReadValidity
<1>4. PastTransaction'
    <2>1. Current(m)'
        BY <1>0, <1>1, <1>2 DEF PastTransaction, Current
    <2>2. At(m)' \in {"drop", "create", "building"} => Hand(m)' \in Listed(ReleaseOf(m)')
        BY <1>0, <1>1
    <2> QED BY <1>1, <1>2, <1>3, <2>1, <2>2, PastStays
<1>5. BuildsExact'
    BY <1>0, <1>1, <1>2 DEF BuildsExact, Others
<1>6. LeftOversKnown'
    BY <1>2 DEF LeftOversKnown
<1>7. IndexesOwed'
    BY <1>0, <1>1, <1>2, InsideOwed
<1>8. AloneRepairs'
    BY <1>0, <1>1, <1>2, InsideAlone
<1> QED BY <1>3, <1>4, <1>5, <1>6, <1>7, <1>8

LEMMA DropKeeps ==
    ASSUME SchemaInv, NEW m \in Migrator, Drop(m)
    PROVE  SchemaInv'
<1> USE DEF SchemaInv
<1>0. MigratorOK /\ At(m) = "drop" /\ Hand(m) \in Index /\ Hand(m) \in Todo(m) /\ m \in Indexing
    BY InHand DEF Drop, SchemaTypeOK, MigratorOK
<1>1. /\ MigratorOK' /\ Others(m) /\ ReleaseOf(m)' = ReleaseOf(m)
      /\ At(m)' = "create" /\ Hand(m)' = Hand(m)
    BY <1>0, Moved DEF Drop, Place
<1>2. /\ UNCHANGED <<elements, version, builder, alone, broken>> /\ m \in Indexing'
      /\ index'[Hand(m)] = "absent" /\ builder[Hand(m)] = NoMigrator
      /\ \A i \in Index : i # Hand(m) => index'[i] = index[i]
    BY <1>0, <1>1 DEF Drop, Indexing, SchemaTypeOK
<1>3. SchemaTypeOK'
    BY <1>0, <1>1 DEF SchemaTypeOK, MigratorOK, Drop
<1>4. PastTransaction'
    <2>1. Current(m)'
        BY <1>0, <1>1, <1>2 DEF PastTransaction, Current
    <2>2. Hand(m)' \in Listed(ReleaseOf(m)')
        BY <1>0, <1>1 DEF PastTransaction
    <2> QED BY <1>1, <1>2, <1>3, <2>1, <2>2, PastStays
<1>5. BuildsExact'
    BY <1>0, <1>1, <1>2 DEF BuildsExact, Others
<1>6. LeftOversKnown'
    BY <1>0, <1>2 DEF LeftOversKnown
<1>7. IndexesOwed'
    BY <1>0, <1>1, <1>2, InsideOwed
<1>8. AloneRepairs'
    BY <1>0, <1>1, <1>2, InsideAlone
<1> QED BY <1>3, <1>4, <1>5, <1>6, <1>7, <1>8

LEMMA CreateKeeps ==
    ASSUME SchemaInv, NEW m \in Migrator, Create(m)
    PROVE  SchemaInv'
<1> USE DEF SchemaInv
<1>0. /\ MigratorOK /\ At(m) = "create" /\ builder[Hand(m)] = NoMigrator
      /\ Hand(m) \in Index /\ Hand(m) \in Todo(m) /\ m \in Indexing
      /\ Hand(m) \in Listed(ReleaseOf(m)) /\ Current(m)
    BY InHand DEF Create, SchemaTypeOK, MigratorOK, PastTransaction
<1>1. CASE index[Hand(m)] = "absent"
    <2>1. /\ MigratorOK' /\ Others(m) /\ ReleaseOf(m)' = ReleaseOf(m)
          /\ At(m)' = "building" /\ Hand(m)' = Hand(m)
        BY <1>0, <1>1, Moved DEF Create, Place
    <2>2. /\ UNCHANGED <<elements, version, alone, broken>> /\ m \in Indexing'
          /\ index'[Hand(m)] = "invalid" /\ builder'[Hand(m)] = m
          /\ \A i \in Index : i # Hand(m) => index'[i] = index[i] /\ builder'[i] = builder[i]
        BY <1>0, <1>1, <2>1 DEF Create, Indexing, SchemaTypeOK
    <2>3. SchemaTypeOK'
        BY <1>0, <1>1, <2>1 DEF SchemaTypeOK, MigratorOK, Create
    <2>4. PastTransaction'
        <3>1. Current(m)' /\ Hand(m)' \in Listed(ReleaseOf(m)')
            BY <1>0, <2>1, <2>2 DEF Current
        <3> QED BY <2>1, <2>2, <2>3, <3>1, PastStays
    <2>5. BuildsExact'
        <3>1. TableOf[Hand(m)] \in elements
            BY <1>0, Entries, IndexAssumption DEF Current
        <3>2. \A i \in Index : index'[i] # "absent" => TableOf[i] \in elements'
            BY <2>2, <3>1 DEF BuildsExact
        <3>3. \A i \in Index : builder'[i] # NoMigrator => index'[i] = "invalid"
            BY <2>2 DEF BuildsExact
        <3>4. ASSUME NEW n \in Migrator, At(n)' = "building" PROVE builder'[Hand(n)'] = n
            <4>1. CASE n = m
                BY <2>1, <2>2, <4>1
            <4>2. CASE n # m
                <5>1. At(n) = "building" /\ Hand(n)' = Hand(n)
                    BY <2>1, <3>4, <4>2 DEF Others
                <5>2. builder[Hand(n)] = n /\ Hand(n) \in Index
                    BY <5>1, InHand DEF BuildsExact
                <5>3. Hand(n) # Hand(m)
                    BY <1>0, <5>2, NamesAssumption
                <5> QED BY <2>2, <5>1, <5>2, <5>3
            <4> QED BY <4>1, <4>2
        <3>5. ASSUME NEW i \in Index, builder'[i] \in Migrator
              PROVE  At(builder[i])' = "building" /\ Hand(builder[i])' = i
            <4>1. CASE i = Hand(m)
                BY <2>1, <2>2, <4>1 DEF At, Hand
            <4>2. CASE i # Hand(m)
                <5>1. builder'[i] = builder[i] /\ At(builder[i]) = "building" /\ Hand(builder[i]) = i
                    BY <2>2, <3>5, <4>2 DEF BuildsExact
                <5>2. builder[i] # m
                    BY <1>0, <5>1
                <5> QED BY <2>1, <3>5, <5>1, <5>2 DEF Others, At, Hand
            <4> QED BY <4>1, <4>2
        <3>6. \A n \in Migrator : At(n)' = "building" => builder'[Hand(n)'] = n
            BY <3>4
        <3>7. \A i \in Index : builder'[i] \in Migrator =>
                  At(builder[i])' = "building" /\ Hand(builder[i])' = i
            BY <3>5
        <3> QED BY <3>2, <3>6, <3>7, <3>3 DEF BuildsExact
    <2>6. LeftOversKnown'
        BY <2>2 DEF LeftOversKnown
    <2>7. IndexesOwed'
        BY <1>0, <2>1, <2>2, InsideOwed
    <2>8. AloneRepairs'
        BY <1>0, <2>1, <2>2, InsideAlone
    <2> QED BY <2>3, <2>4, <2>5, <2>6, <2>7, <2>8
<1>2. CASE index[Hand(m)] # "absent"
    <2>1. /\ MigratorOK' /\ Others(m) /\ ReleaseOf(m)' = ReleaseOf(m)
          /\ At(m)' = "read" /\ Hand(m)' = Hand(m) + 1
        BY <1>0, <1>2, WentOn DEF Create
    <2>2. /\ UNCHANGED <<elements, version, index, builder, alone, broken>> /\ m \in Indexing'
        BY <1>2, <2>1 DEF Create, Indexing
    <2>3. SchemaTypeOK'
        BY <2>1, <2>2 DEF SchemaTypeOK, MigratorOK, Create
    <2>4. PastTransaction'
        <3>1. Current(m)'
            BY <1>0, <2>1, <2>2 DEF Current
        <3> QED BY <2>1, <2>2, <2>3, <3>1, PastStays
    <2>5. BuildsExact'
        BY <1>0, <2>1, <2>2 DEF BuildsExact, Others
    <2>6. LeftOversKnown'
        BY <2>2 DEF LeftOversKnown
    <2>7. Hand(m) \in broken \/ index[Hand(m)] = "valid"
        BY <1>0, <1>2, NamesAssumption DEF LeftOversKnown, SchemaTypeOK
    <2>8. m \notin alone
        BY <1>0, <1>2 DEF AloneRepairs
    <2>9. IndexesOwed'
        BY <1>0, <2>1, <2>2, <2>7, InsideOwed
    <2>10. AloneRepairs'
        BY <1>0, <2>1, <2>2, <2>8, InsideAlone
    <2> QED BY <2>3, <2>4, <2>5, <2>6, <2>9, <2>10
<1> QED BY <1>1, <1>2

LEMMA BuiltKeeps ==
    ASSUME SchemaInv, NEW m \in Migrator, Built(m)
    PROVE  SchemaInv'
<1> USE DEF SchemaInv
<1>0. /\ MigratorOK /\ At(m) = "building" /\ builder[Hand(m)] = m
      /\ Hand(m) \in Index /\ Hand(m) \in Todo(m) /\ m \in Indexing /\ Current(m)
      /\ index[Hand(m)] = "invalid"
    BY InHand, NamesAssumption DEF Built, SchemaTypeOK, MigratorOK, PastTransaction, BuildsExact
<1>1. /\ MigratorOK' /\ Others(m) /\ ReleaseOf(m)' = ReleaseOf(m)
      /\ At(m)' = "read" /\ Hand(m)' = Hand(m) + 1
    BY <1>0, WentOn DEF Built
<1>2. /\ UNCHANGED <<elements, version, alone, broken>> /\ m \in Indexing'
      /\ index'[Hand(m)] = "valid" /\ builder'[Hand(m)] = NoMigrator
      /\ \A i \in Index : i # Hand(m) => index'[i] = index[i] /\ builder'[i] = builder[i]
    BY <1>0, <1>1 DEF Built, Indexing, SchemaTypeOK
<1>3. SchemaTypeOK'
    BY <1>0, <1>1 DEF SchemaTypeOK, MigratorOK, Built
<1>4. PastTransaction'
    <2>1. Current(m)'
        BY <1>0, <1>1, <1>2 DEF Current
    <2> QED BY <1>1, <1>2, <1>3, <2>1, PastStays
<1>5. BuildsExact'
    <2>1. \A i \in Index : index'[i] # "absent" => TableOf[i] \in elements'
        BY <1>0, <1>2 DEF BuildsExact
    <2>2. \A i \in Index : builder'[i] # NoMigrator => index'[i] = "invalid"
        BY <1>2 DEF BuildsExact
    <2>3. ASSUME NEW n \in Migrator, At(n)' = "building" PROVE builder'[Hand(n)'] = n
        <3>1. n # m /\ At(n) = "building" /\ Hand(n)' = Hand(n)
            BY <1>1, <2>3 DEF Others
        <3>2. builder[Hand(n)] = n /\ Hand(n) \in Index
            BY <3>1, InHand DEF BuildsExact
        <3>3. Hand(n) # Hand(m)
            BY <1>0, <3>1, <3>2
        <3> QED BY <1>2, <3>1, <3>2, <3>3
    <2>4. ASSUME NEW i \in Index, builder'[i] \in Migrator
          PROVE  At(builder[i])' = "building" /\ Hand(builder[i])' = i
        <3>1. i # Hand(m)
            BY <1>2, <2>4, NamesAssumption
        <3>2. builder'[i] = builder[i] /\ At(builder[i]) = "building" /\ Hand(builder[i]) = i
            BY <1>2, <2>4, <3>1 DEF BuildsExact
        <3>3. builder[i] # m
            BY <1>0, <3>1, <3>2
        <3> QED BY <1>1, <2>4, <3>2, <3>3 DEF Others, At, Hand
    <2>5. \A n \in Migrator : At(n)' = "building" => builder'[Hand(n)'] = n
        BY <2>3
    <2>6. \A i \in Index : builder'[i] \in Migrator =>
              At(builder[i])' = "building" /\ Hand(builder[i])' = i
        BY <2>4
    <2> QED BY <2>1, <2>2, <2>5, <2>6 DEF BuildsExact
<1>6. LeftOversKnown'
    BY <1>2 DEF LeftOversKnown
<1>7. IndexesOwed'
    BY <1>0, <1>1, <1>2, InsideOwed
<1>8. AloneRepairs'
    BY <1>0, <1>1, <1>2, InsideAlone
<1> QED BY <1>3, <1>4, <1>5, <1>6, <1>7, <1>8

(* Who was alone to the end has made its whole list valid, so nothing it *)
(* forgives is left over.                                                 *)
LEMMA EndKeeps ==
    ASSUME SchemaInv, NEW m \in Migrator, EndMigration(m)
    PROVE  SchemaInv'
<1> USE DEF SchemaInv
<1>0. MigratorOK /\ At(m) = "read" /\ Todo(m) = {} /\ m \in Indexing /\ Current(m)
    BY DEF EndMigration, SchemaTypeOK, MigratorOK, PastTransaction, Indexing
<1>1. /\ MigratorOK' /\ Others(m) /\ ReleaseOf(m)' = ReleaseOf(m) /\ At(m)' = "ready"
    BY <1>0, Moved DEF EndMigration, Place
<1>2. UNCHANGED <<elements, version, index, builder>> /\ m \notin Indexing' /\ alone' = alone \ {m}
    BY <1>1 DEF EndMigration, Indexing
<1>3. /\ broken' \subseteq broken
      /\ \A i \in Index : i \in broken \ broken' => index[i] = "valid"
    <2>1. CASE m \in alone
        <3>1. \A i \in Listed(ReleaseOf(m)) : i < Hand(m)
            BY <1>0, Entries, ReleaseAssumption DEF Listed, Todo, Hand
        <3>2. \A i \in Listed(ReleaseOf(m)) : index[i] = "valid"
            BY <2>1, <3>1 DEF AloneRepairs
        <3> QED BY <2>1, <3>2 DEF EndMigration
    <2>2. CASE m \notin alone
        BY <2>2 DEF EndMigration
    <2> QED BY <2>1, <2>2
<1>4. SchemaTypeOK'
    BY <1>1, <1>2, <1>3 DEF SchemaTypeOK, MigratorOK, EndMigration
<1>5. PastTransaction'
    <2>1. Current(m)'
        BY <1>0, <1>1, <1>2 DEF Current
    <2> QED BY <1>1, <1>2, <1>4, <2>1, PastStays
<1>6. BuildsExact'
    BY <1>0, <1>1, <1>2 DEF BuildsExact, Others
<1>7. LeftOversKnown'
    BY <1>2, <1>3 DEF LeftOversKnown
<1>8. IndexesOwed'
    <2> SUFFICES ASSUME NEW i \in Listed(version) \ broken'
                 PROVE  index[i] = "valid" \/ \E n \in Indexing' : i \in Todo(n)'
        BY <1>2 DEF IndexesOwed, Listed
    <2>1. i \in Index
        BY ListedAreIndexes DEF SchemaTypeOK
    <2>2. CASE i \in broken
        BY <1>3, <2>1, <2>2
    <2>3. CASE i \notin broken /\ \E n \in Indexing : i \in Todo(n)
        <3>1. PICK n \in Indexing : i \in Todo(n)
            BY <2>3
        <3>2. n # m
            BY <1>0, <3>1
        <3>3. n \in Indexing' /\ Todo(n)' = Todo(n)
            BY <1>1, <3>1, <3>2 DEF Indexing, Others, Todo, Hand
        <3> QED BY <3>1, <3>3
    <2> QED BY <2>2, <2>3 DEF IndexesOwed
<1>9. AloneRepairs'
    BY <1>0, <1>1, <1>2, AloneStays
<1> QED BY <1>4, <1>5, <1>6, <1>7, <1>8, <1>9

(* A failure leaves the rest of the list to be known as broken. *)
LEMMA FailKeeps ==
    ASSUME SchemaInv, NEW m \in Migrator, FailMigration(m)
    PROVE  SchemaInv'
<1> USE DEF SchemaInv
<1>0. MigratorOK
    BY DEF SchemaTypeOK, MigratorOK
<1>1. MigratorOK' /\ Others(m) /\ At(m)' = "rest"
    BY <1>0, Rested DEF FailMigration
<1>2. /\ UNCHANGED <<elements, version>> /\ m \notin Indexing' /\ alone' = alone \ {m}
      /\ broken \subseteq broken' /\ (m \in Indexing => Todo(m) \subseteq broken')
    BY <1>1 DEF FailMigration, Indexing
<1>3. broken' \subseteq Index
    <2>1. m \in Indexing => Todo(m) \subseteq Listed(ReleaseOf(m))
        BY Entries, ReleaseAssumption DEF Todo, Hand, Listed
    <2> QED BY <2>1, Entries, ListedAreIndexes, ReleaseAssumption DEF FailMigration, SchemaTypeOK
<1>4. CASE UNCHANGED <<index, builder>> /\ At(m) # "building"
    <2>1. SchemaTypeOK'
        BY <1>1, <1>2, <1>3, <1>4 DEF SchemaTypeOK, MigratorOK, FailMigration
    <2>2. PastTransaction'
        BY <1>1, <1>2, <2>1, PastStays
    <2>3. BuildsExact'
        BY <1>1, <1>2, <1>4 DEF BuildsExact, Others
    <2>4. LeftOversKnown'
        BY <1>2, <1>4 DEF LeftOversKnown
    <2>5. IndexesOwed'
        BY <1>2, <1>1, <1>4, OwedStays
    <2>6. AloneRepairs'
        BY <1>1, <1>2, <1>4, AloneStays
    <2> QED BY <2>1, <2>2, <2>3, <2>4, <2>5, <2>6
<1>5. CASE /\ At(m) = "drop" /\ builder[Hand(m)] = NoMigrator /\ index[Hand(m)] # "absent"
           /\ index' \in {[index EXCEPT ![Hand(m)] = s] : s \in {"invalid", "absent"}}
           /\ UNCHANGED builder
    <2>0. Hand(m) \in Index /\ Hand(m) \in Todo(m) /\ m \in Indexing /\ Hand(m) \in broken'
        BY <1>2, <1>5, InHand
    <2>1. /\ index'[Hand(m)] \in {"invalid", "absent"}
          /\ index' \in [Index -> {"absent", "invalid", "valid"}]
          /\ \A i \in Index : i # Hand(m) => index'[i] = index[i]
        BY <1>5, <2>0 DEF SchemaTypeOK
    <2>2. SchemaTypeOK'
        BY <1>1, <1>2, <1>3, <1>5, <2>1 DEF SchemaTypeOK, MigratorOK, FailMigration
    <2>3. PastTransaction'
        BY <1>1, <1>2, <2>2, PastStays
    <2>4. BuildsExact'
        <3>1. \A i \in Index : index'[i] # "absent" => TableOf[i] \in elements'
            BY <1>2, <1>5, <2>0, <2>1 DEF BuildsExact
        <3>2. \A i \in Index : builder'[i] # NoMigrator => index'[i] = "invalid"
            BY <1>5, <2>1 DEF BuildsExact
        <3>3. \A n \in Migrator : At(n)' = "building" => builder'[Hand(n)'] = n
            BY <1>1, <1>5 DEF BuildsExact, Others
        <3>4. \A i \in Index : builder'[i] \in Migrator =>
                  At(builder[i])' = "building" /\ Hand(builder[i])' = i
            BY <1>1, <1>5 DEF BuildsExact, Others
        <3> QED BY <3>1, <3>2, <3>3, <3>4 DEF BuildsExact
    <2>5. LeftOversKnown'
        BY <1>2, <1>5, <2>0, <2>1 DEF LeftOversKnown
    <2>6. IndexesOwed'
        BY <1>1, <1>2, <2>0, <2>1, OwedStays
    <2>7. AloneRepairs'
        BY <1>1, <1>2, <2>0, AloneStays
    <2> QED BY <2>2, <2>3, <2>4, <2>5, <2>6, <2>7
<1>6. CASE /\ At(m) = "building" /\ UNCHANGED index
           /\ builder' \in {[builder EXCEPT ![Hand(m)] = b] : b \in {NoMigrator, Orphan}}
    <2>0. /\ Hand(m) \in Index /\ Hand(m) \in Todo(m) /\ m \in Indexing /\ Hand(m) \in broken'
          /\ builder[Hand(m)] = m /\ index[Hand(m)] = "invalid"
        BY <1>2, <1>6, InHand, NamesAssumption DEF BuildsExact
    <2>1. /\ builder'[Hand(m)] \notin Migrator
          /\ builder' \in [Index -> Migrator \cup {NoMigrator, Orphan}]
          /\ \A i \in Index : i # Hand(m) => builder'[i] = builder[i]
        BY <1>6, <2>0, NamesAssumption DEF SchemaTypeOK
    <2>2. SchemaTypeOK'
        BY <1>1, <1>2, <1>3, <1>6, <2>1 DEF SchemaTypeOK, MigratorOK, FailMigration
    <2>3. PastTransaction'
        BY <1>1, <1>2, <2>2, PastStays
    <2>4. BuildsExact'
        <3>1. \A i \in Index : index'[i] # "absent" => TableOf[i] \in elements'
            BY <1>2, <1>6 DEF BuildsExact
        <3>2. \A i \in Index : builder'[i] # NoMigrator => index'[i] = "invalid"
            BY <1>6, <2>0, <2>1 DEF BuildsExact
        <3>3. ASSUME NEW n \in Migrator, At(n)' = "building" PROVE builder'[Hand(n)'] = n
            <4>1. n # m /\ At(n) = "building" /\ Hand(n)' = Hand(n)
                BY <1>1, <3>3 DEF Others
            <4>2. builder[Hand(n)] = n /\ Hand(n) \in Index
                BY <4>1, InHand DEF BuildsExact
            <4>3. Hand(n) # Hand(m)
                BY <2>0, <4>1, <4>2
            <4> QED BY <2>1, <4>1, <4>2, <4>3
        <3>4. ASSUME NEW i \in Index, builder'[i] \in Migrator
              PROVE  At(builder[i])' = "building" /\ Hand(builder[i])' = i
            <4>1. i # Hand(m)
                BY <2>1, <3>4
            <4>2. builder'[i] = builder[i] /\ At(builder[i]) = "building" /\ Hand(builder[i]) = i
                BY <2>1, <3>4, <4>1 DEF BuildsExact
            <4>3. builder[i] # m
                BY <2>0, <4>1, <4>2
            <4> QED BY <1>1, <3>4, <4>2, <4>3 DEF Others, At, Hand
        <3>5. \A n \in Migrator : At(n)' = "building" => builder'[Hand(n)'] = n
            BY <3>3
        <3>6. \A i \in Index : builder'[i] \in Migrator =>
                  At(builder[i])' = "building" /\ Hand(builder[i])' = i
            BY <3>4
        <3> QED BY <3>1, <3>2, <3>5, <3>6 DEF BuildsExact
    <2>5. LeftOversKnown'
        BY <1>2, <1>6, <2>0, <2>1 DEF LeftOversKnown
    <2>6. IndexesOwed'
        BY <1>1, <1>2, <1>6, OwedStays
    <2>7. AloneRepairs'
        BY <1>1, <1>2, <2>0, AloneStays
    <2> QED BY <2>2, <2>3, <2>4, <2>5, <2>6, <2>7
<1> QED BY <1>4, <1>5, <1>6 DEF FailMigration

(* The server ends a build whose client is gone, one way or the other. *)
LEMMA ServerKeeps ==
    ASSUME SchemaInv, NEW j \in Index, ServerEnds(j)
    PROVE  SchemaInv'
<1> USE DEF SchemaInv
<1>1. /\ UNCHANGED <<elements, version, migrator, alone, broken>> /\ index[j] = "invalid"
      /\ builder[j] = Orphan /\ builder'[j] = NoMigrator
      /\ \A i \in Index : i # j => index'[i] = index[i] /\ builder'[i] = builder[i]
      /\ index'[j] \in {"invalid", "valid"}
    BY NamesAssumption DEF ServerEnds, BuildsExact, SchemaTypeOK
<1>2. SchemaTypeOK'
    BY DEF SchemaTypeOK, ServerEnds
<1>3. \A n : At(n)' = At(n) /\ Hand(n)' = Hand(n) /\ ReleaseOf(n)' = ReleaseOf(n) /\ Todo(n)' = Todo(n)
    BY <1>1 DEF At, Hand, ReleaseOf, Todo
<1>4. Indexing' = Indexing
    BY <1>3 DEF Indexing
<1>5. PastTransaction'
    BY <1>1, <1>3, <1>4 DEF PastTransaction, Current
<1>6. BuildsExact'
    <2>1. \A i \in Index : index'[i] # "absent" => TableOf[i] \in elements'
        BY <1>1 DEF BuildsExact
    <2>2. \A i \in Index : builder'[i] # NoMigrator => index'[i] = "invalid"
        BY <1>1 DEF BuildsExact
    <2>3. \A n \in Migrator : At(n)' = "building" => builder'[Hand(n)'] = n
        BY <1>1, <1>3, InHand, NamesAssumption DEF BuildsExact
    <2>4. \A i \in Index : builder'[i] \in Migrator =>
              At(builder[i])' = "building" /\ Hand(builder[i])' = i
        BY <1>1, NamesAssumption DEF BuildsExact, At, Hand
    <2> QED BY <2>1, <2>2, <2>3, <2>4 DEF BuildsExact
<1>7. LeftOversKnown'
    BY <1>1, NamesAssumption DEF LeftOversKnown
<1>8. \A i \in Index : index[i] = "valid" => index'[i] = "valid"
    BY <1>1
<1>9. IndexesOwed'
    BY <1>1, <1>3, <1>4, <1>8, ListedAreIndexes DEF IndexesOwed, SchemaTypeOK
<1>10. AloneRepairs'
    <2> SUFFICES ASSUME NEW n \in alone
                 PROVE  /\ Indexing = {n}
                        /\ \A i \in Listed(ReleaseOf(n)) : i < Hand(n) => index'[i] = "valid"
                        /\ At(n) = "create" => index'[Hand(n)] = "absent"
        BY <1>1, <1>3, <1>4 DEF AloneRepairs
    <2>1. n \in Migrator /\ ReleaseOf(n) \in 1..Latest
        BY Entries DEF SchemaTypeOK
    <2>2. At(n) = "create" => Hand(n) \in Index
        BY <2>1, InHand
    <2>3. Listed(ReleaseOf(n)) \subseteq Index
        BY <2>1, ListedAreIndexes
    <2> QED BY <1>1, <1>8, <2>2, <2>3 DEF AloneRepairs
<1> QED BY <1>2, <1>5, <1>6, <1>7, <1>9, <1>10

-----------------------------------------------------------------------------
(* SchemaInv is inductive. *)
LEMMA SchemaInvInductive == SchemaInv /\ [SchemaNext]_migVars => SchemaInv'
<1> SUFFICES ASSUME SchemaInv, [SchemaNext]_migVars PROVE SchemaInv'
    OBVIOUS
<1>1. ASSUME NEW m \in Migrator, BeginMigration(m) PROVE SchemaInv'
    BY <1>1, BeginKeeps
<1>2. ASSUME NEW m \in Migrator, Check(m) PROVE SchemaInv'
    BY <1>2, CheckKeeps
<1>3. ASSUME NEW m \in Migrator, Lock(m) PROVE SchemaInv'
    BY <1>3, LockKeeps
<1>4. ASSUME NEW m \in Migrator, CommitSchema(m) PROVE SchemaInv'
    BY <1>4, CommitKeeps
<1>5. ASSUME NEW m \in Migrator, ReadValidity(m) PROVE SchemaInv'
    BY <1>5, ReadKeeps
<1>6. ASSUME NEW m \in Migrator, Drop(m) PROVE SchemaInv'
    BY <1>6, DropKeeps
<1>7. ASSUME NEW m \in Migrator, Create(m) PROVE SchemaInv'
    BY <1>7, CreateKeeps
<1>8. ASSUME NEW m \in Migrator, Built(m) PROVE SchemaInv'
    BY <1>8, BuiltKeeps
<1>9. ASSUME NEW m \in Migrator, EndMigration(m) PROVE SchemaInv'
    BY <1>9, EndKeeps
<1>10. ASSUME NEW m \in Migrator, FailMigration(m) PROVE SchemaInv'
    BY <1>10, FailKeeps
<1>11. ASSUME NEW j \in Index, ServerEnds(j) PROVE SchemaInv'
    BY <1>11, ServerKeeps
<1>12. CASE UNCHANGED migVars
    BY <1>12 DEF migVars, SchemaInv, SchemaTypeOK, PastTransaction, BuildsExact, LeftOversKnown,
                 IndexesOwed, AloneRepairs, Current, Indexing, At, Hand, Todo, ReleaseOf
<1> QED BY <1>1, <1>2, <1>3, <1>4, <1>5, <1>6, <1>7, <1>8, <1>9, <1>10, <1>11, <1>12 DEF SchemaNext

(* Whoever got through the migration has its schema, and once nobody builds,   *)
(* every index that no process failed on serves (migrate.py: "an invalid one   *)
(* is dropped (concurrently) and rebuilt. A concurrent migrator racing the     *)
(* same build is tolerated").                                                  *)
THEOREM SchemasSettle == SchemaSpec => []SchemaSettles
<1>1. SchemaInv => SchemaSettles
    BY DEF SchemaInv, PastTransaction, IndexesOwed, SchemaSettles
<1> QED BY InitMeets, SchemaInvInductive, <1>1, PTL DEF SchemaSpec

(* A process alone among the indexes leaves every one of its list serving, *)
(* whatever failed before it.                                              *)
THEOREM LoneUpgradeRepairs ==
    SchemaSpec => [][\A m \in alone : EndMigration(m) =>
                        \A i \in Listed(ReleaseOf(m)) : index'[i] = "valid"]_migVars
<1>1. ASSUME SchemaInv, NEW m \in alone, EndMigration(m), NEW i \in Listed(ReleaseOf(m))
      PROVE  index'[i] = "valid"
    <2>1. i < Hand(m)
        BY <1>1, Entries, ReleaseAssumption DEF SchemaInv, SchemaTypeOK, EndMigration, Listed, Todo, Hand
    <2> QED BY <1>1, <2>1 DEF SchemaInv, AloneRepairs, EndMigration
<1>2. SchemaInv => [\A m \in alone : EndMigration(m) =>
                        \A i \in Listed(ReleaseOf(m)) : index'[i] = "valid"]_migVars
    BY <1>1
<1> QED BY InitMeets, SchemaInvInductive, <1>2, PTL DEF SchemaSpec
================================================================================
