-------------------------- MODULE ExclusiveSection --------------------------
(***************************************************************************)
(* What a scheduler lease promises, with no row, expiry or race in sight:  *)
(* for each group at most one invocation is inside the job section, an     *)
(* invocation enters at most once, and the `now` it works with is later    *)
(* than the end of the section before it.  TickLease implements this;      *)
(* SchedulerTick builds on it.                                             *)
(***************************************************************************)
EXTENDS Integers

CONSTANTS Tick,   \* invocations of the program
          NoTick, \* "nobody"
          Group,  \* job groups, each with a section of its own
          Horizon \* bound on the clock

VARIABLES clock,   \* the wall clock
          owner,   \* owner[g]: the invocation inside g's section, or NoTick
          entered, \* the invocations that have been inside a section
          now,     \* now[t]: the time t works with, once it has entered
          left     \* left[g]: when g's last section ended, -1 before

sectionVars == <<clock, owner, entered, now, left>>

SectionTypeOK ==
    /\ clock \in Nat
    /\ owner \in [Group -> Tick \cup {NoTick}]
    /\ entered \in SUBSET Tick
    /\ now \in [Tick -> Nat]
    /\ left \in [Group -> Nat \cup {-1}]

SectionInit ==
    /\ clock = 0
    /\ owner = [g \in Group |-> NoTick]
    /\ entered = {}
    /\ now = [t \in Tick |-> 0]
    /\ left = [g \in Group |-> -1]

Enter(t, g) ==
    /\ owner[g] = NoTick
    /\ t \notin entered
    /\ \E n \in left[g] + 1 .. clock : now' = [now EXCEPT ![t] = n]
    /\ owner' = [owner EXCEPT ![g] = t]
    /\ entered' = entered \cup {t}
    /\ UNCHANGED <<clock, left>>

Leave(g) ==
    /\ owner[g] # NoTick
    /\ owner' = [owner EXCEPT ![g] = NoTick]
    /\ left' = [left EXCEPT ![g] = clock]
    /\ UNCHANGED <<clock, entered, now>>

Pass ==
    /\ clock < Horizon
    /\ clock' = clock + 1
    /\ UNCHANGED <<owner, entered, now, left>>

SectionNext == Pass \/ \E g \in Group : Leave(g) \/ \E t \in Tick : Enter(t, g)

SectionSpec == SectionInit /\ [][SectionNext]_sectionVars
=============================================================================
