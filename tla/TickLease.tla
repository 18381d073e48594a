------------------------------ MODULE TickLease ------------------------------
(***************************************************************************)
(* The database lease that serialises scheduler ticks                      *)
(* (scheduler/state.py), taken and given back by run_tick                  *)
(* (scheduler/tick.py) under a hard deadline and a wall-clock watchdog.    *)
(*                                                                         *)
(* Every invocation of the program has a holder string of its own, so an   *)
(* element of Tick is both the process and its holder string.  One unit of *)
(* clock is any amount of time; TTL, Deadline and Kill are                 *)
(* tick_lease_seconds, tick_hard_deadline_seconds and that plus 60, in     *)
(* those units.                                                            *)
(***************************************************************************)
EXTENDS Integers

CONSTANTS Tick,     \* invocations of "python -m astrolabe.scheduler.tick run"
          NoTick,   \* holder of a lease row that does not exist yet
          Group,    \* the job groups; each has the lease scheduler-<group>
          TTL,      \* tick_lease_seconds
          Deadline, \* tick_hard_deadline_seconds
          Kill,     \* the watchdog: a process is gone this long after its start
          Horizon   \* bound on the clock

ASSUME NoTickAssumption == NoTick \notin Tick

(* config.py: tick_hard_deadline + 60 stays below tick_lease_seconds. *)
ASSUME TimesAssumption ==
    /\ TTL \in Nat /\ Deadline \in Nat /\ Kill \in Nat /\ Horizon \in Nat
    /\ Deadline <= Kill
    /\ Kill <= TTL

VARIABLES clock,   \* the wall clock
          lease,   \* lease[g]: the row scheduler-g; holder NoTick: no such row
          pc,      \* where each invocation is
          group,   \* the --group argument of each invocation
          born,    \* when each process started (the watchdog's origin)
          now,     \* the `now` run_tick captures once, after the preflight
          entered, \* history: the invocations that ever got the lease
          left     \* history: when the last invocation left g's section

leaseVars == <<clock, lease, pc, group, born, now, entered, left>>

Pc == {"new", "preflight", "select", "insert", "update", "working",
       "cleanup", "refused", "done", "dead"}

LeaseRow == [holder : Tick \cup {NoTick}, heldUntil : Nat]

(* run_tick has the lease and has not yet given it up. *)
InSection(t) == pc[t] \in {"working", "cleanup"}

Alive(t) == pc[t] \notin {"new", "refused", "done", "dead"}

TypeOK ==
    /\ clock \in Nat
    /\ lease \in [Group -> LeaseRow]
    /\ pc \in [Tick -> Pc]
    /\ group \in [Tick -> Group]
    /\ born \in [Tick -> Nat]
    /\ now \in [Tick -> Nat]
    /\ entered \in SUBSET Tick
    /\ left \in [Group -> Nat \cup {-1}]

Init ==
    /\ clock = 0
    /\ lease = [g \in Group |-> [holder |-> NoTick, heldUntil |-> 0]]
    /\ pc = [t \in Tick |-> "new"]
    /\ group \in [Tick -> Group]
    /\ born = [t \in Tick |-> 0]
    /\ now = [t \in Tick |-> 0]
    /\ entered = {}
    /\ left = [g \in Group |-> -1]

Goto(t, from, to) ==
    /\ pc[t] = from
    /\ pc' = [pc EXCEPT ![t] = to]

-----------------------------------------------------------------------------
(* main: the process starts and its watchdog with it. *)
Start(t) ==
    /\ Goto(t, "new", "preflight")
    /\ born' = [born EXCEPT ![t] = clock]
    /\ UNCHANGED <<clock, lease, group, now, entered, left>>

(* The preflight takes its time; `now` is read only after it. *)
CaptureNow(t) ==
    /\ Goto(t, "preflight", "select")
    /\ now' = [now EXCEPT ![t] = clock]
    /\ UNCHANGED <<clock, lease, group, born, entered, left>>

(* acquire_lease, the SELECT: insert when there is no row, else try to take *)
(* the row over.                                                            *)
AcquireSelect(t) ==
    /\ pc[t] = "select"
    /\ pc' = [pc EXCEPT ![t] =
                IF lease[group[t]].holder = NoTick THEN "insert" ELSE "update"]
    /\ UNCHANGED <<clock, lease, group, born, now, entered, left>>

(* The values acquire_lease writes; two mutants forget or double the TTL. *)
GrantedExpired(t) == [holder |-> t, heldUntil |-> now[t]]
GrantedDouble(t) == [holder |-> t, heldUntil |-> now[t] + 2 * TTL]

Granted(t) == [holder |-> t, heldUntil |-> now[t] + TTL]

(* The row now names t, and run_tick goes on to its jobs. *)
Grant(t) ==
    /\ lease' = [lease EXCEPT ![group[t]] = Granted(t)]
    /\ pc' = [pc EXCEPT ![t] = "working"]
    /\ entered' = entered \cup {t}

(* acquire_lease, the INSERT: the primary key lets one inserter win; the *)
(* loser rolls back and falls through to the conditional UPDATE.         *)
AcquireInsert(t) ==
    /\ pc[t] = "insert"
    /\ \/ lease[group[t]].holder = NoTick /\ Grant(t)
       \/ /\ lease[group[t]].holder # NoTick
          /\ pc' = [pc EXCEPT ![t] = "update"]
          /\ UNCHANGED <<lease, entered>>
    /\ UNCHANGED <<clock, group, born, now, left>>

(* The UPDATE's WHERE clause; the mutant has none. *)
ExpiredAlways(row, at) == TRUE

Expired(row, at) == row.heldUntil < at

(* acquire_lease, the conditional UPDATE: evaluated and committed as one  *)
(* step by the database.  No row flipped: the tick backs off and exits 0. *)
AcquireUpdate(t) ==
    /\ pc[t] = "update"
    /\ \/ Expired(lease[group[t]], now[t]) /\ Grant(t)
       \/ /\ ~Expired(lease[group[t]], now[t])
          /\ pc' = [pc EXCEPT ![t] = "refused"]
          /\ UNCHANGED <<lease, entered>>
    /\ UNCHANGED <<clock, group, born, now, left>>

(* run_tick enters its finally block: the jobs are over, one raised, or *)
(* wait_for cancelled the tick at the hard deadline.                    *)
EnterCleanup(t) ==
    /\ Goto(t, "working", "cleanup")
    /\ UNCHANGED <<clock, lease, group, born, now, entered, left>>

(* release_lease: give the lease back if the row still names us. *)
Release(t) ==
    /\ Goto(t, "cleanup", "done")
    /\ lease' = [lease EXCEPT ![group[t]] =
                   IF @.holder = t THEN [holder |-> t, heldUntil |-> clock] ELSE @]
    /\ left' = [left EXCEPT ![group[t]] = clock]
    /\ UNCHANGED <<clock, group, born, now, entered>>

(* release_lease fails; run_tick swallows the exception. *)
ReleaseFails(t) ==
    /\ Goto(t, "cleanup", "done")
    /\ left' = [left EXCEPT ![group[t]] = clock]
    /\ UNCHANGED <<clock, lease, group, born, now, entered>>

(* The runner dies, or the watchdog calls os._exit: nothing is released. *)
(* A cancellation before the try block leaves the lease behind as well.  *)
Die(t) ==
    /\ Alive(t)
    /\ pc' = [pc EXCEPT ![t] = "dead"]
    /\ left' = IF InSection(t) THEN [left EXCEPT ![group[t]] = clock] ELSE left
    /\ UNCHANGED <<clock, lease, group, born, now, entered>>

-----------------------------------------------------------------------------
(* wait_for has cancelled the jobs by the hard deadline, and the watchdog *)
(* has ended the process by Kill.                                         *)
MayOutlive(t, at) ==
    /\ Alive(t) /\ pc[t] # "cleanup" => at <= born[t] + Deadline
    /\ pc[t] = "cleanup" => at <= born[t] + Kill

Advance ==
    /\ clock < Horizon
    /\ \A t \in Tick : MayOutlive(t, clock + 1)
    /\ clock' = clock + 1
    /\ UNCHANGED <<lease, pc, group, born, now, entered, left>>

Step(t) ==
    \/ Start(t) \/ CaptureNow(t)
    \/ AcquireSelect(t) \/ AcquireInsert(t) \/ AcquireUpdate(t)
    \/ EnterCleanup(t) \/ Release(t) \/ ReleaseFails(t) \/ Die(t)

Next == Advance \/ \E t \in Tick : Step(t)

Spec == Init /\ [][Next]_leaseVars

-----------------------------------------------------------------------------
(* At most one invocation of a group is inside the job section, whatever *)
(* crashes, cancellations and failed releases happen (state.py: "at most *)
(* one holder can flip an expired/free lease").                          *)
MutualExclusion ==
    \A s, t \in Tick :
        InSection(s) /\ InSection(t) /\ group[s] = group[t] => s = t

(* A tick is refused because of a rival: some other tick of the group got     *)
(* the lease and read its clock at most TTL before.  A tick that died holding *)
(* the lease thus never blocks a tick that starts more than TTL after it.     *)
RefusalJustified ==
    \A t \in Tick :
        pc[t] = "refused" =>
            \E s \in entered \ {t} : /\ group[s] = group[t]
                                     /\ now[t] <= now[s] + TTL

(* While a lease has not expired its row keeps its holder: no second tick *)
(* slips in, not even one that read the table before the row was written  *)
(* (state.py: "at most one holder can flip an expired/free lease").       *)
LiveLeaseKept ==
    [][\A g \in Group :
          lease[g].holder # NoTick /\ clock <= lease[g].heldUntil
            => lease'[g].holder = lease[g].holder]_leaseVars

(* The inductive strengthening.  The section is inhabited only by the *)
(* invocation the row names, with the expiry it was granted;          *)
HoldingExact ==
    \A t \in Tick : InSection(t) => lease[group[t]] = Granted(t) /\ t \in entered

(* the clocks a process captured lie between its start and the present, and *)
(* the watchdog has not been outlived;                                      *)
Timely ==
    \A t \in Tick :
        /\ born[t] <= clock /\ now[t] <= clock
        /\ pc[t] \in {"select", "insert", "update", "working", "cleanup"}
              => born[t] <= now[t]
        /\ Alive(t) => clock <= born[t] + Kill

(* a row expires no later than TTL after its holder's `now`, that holder got *)
(* the lease, and a tick that goes for the UPDATE has a row to look at.      *)
RowsOwned ==
    /\ \A g \in Group : lease[g].holder # NoTick =>
          /\ lease[g].holder \in entered
          /\ group[lease[g].holder] = g
          /\ lease[g].heldUntil <= now[lease[g].holder] + TTL
          /\ left[g] <= lease[g].heldUntil
    /\ \A g \in Group : lease[g].holder = NoTick => left[g] = -1
    /\ \A t \in Tick : pc[t] = "update" => lease[group[t]].holder # NoTick
    /\ \A t \in entered : pc[t] \in {"working", "cleanup", "done", "dead"}

IInv == TypeOK /\ HoldingExact /\ Timely /\ RowsOwned /\ RefusalJustified

(* The lease implements the abstract exclusive section (tick.py: "a DB lease *)
(* admits one heavy tick at a time").                                        *)
Owner(g) ==
    IF \E t \in Tick : InSection(t) /\ group[t] = g
      THEN CHOOSE t \in Tick : InSection(t) /\ group[t] = g
      ELSE NoTick

Section == INSTANCE ExclusiveSection
             WITH owner <- [g \in Group |-> Owner(g)],
                  now <- [t \in Tick |-> IF t \in entered THEN now[t] ELSE 0]

ImplementsSection == Section!SectionSpec
=============================================================================
