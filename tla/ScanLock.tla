------------------------------ MODULE ScanLock ------------------------------
(***************************************************************************)
(* The advisory lock around a complete scan (discovery/scan_store.py) and  *)
(* the run that takes it (discovery/refresh_cli.py, run_refresh): lock,    *)
(* scan, append the scan, refresh the market cache, unlock.  Unlike the    *)
(* scheduler lease this lock is a SELECT followed by an ORM write: the row *)
(* is keyed by the lock's name and the write carries no condition.         *)
(***************************************************************************)
EXTENDS Integers, FiniteSets

CONSTANTS Proc,   \* calls of run_refresh; also their holder strings
          NoProc, \* holder of the absent row
          Lease,  \* scan_lease_seconds
          Limit,  \* scan_timeout_seconds, as a bound on the whole call
          Horizon \* bound on the clock

ASSUME NoProcAssumption == NoProc \notin Proc

(* config.py: scan_timeout_seconds < scan lease TTL. *)
ASSUME LimitAssumption ==
    Lease \in Nat /\ Limit \in Nat /\ Horizon \in Nat /\ Limit < Lease

VARIABLES clock,    \* the wall clock
          row,      \* the lock's row; holder NoProc: no row
          pc,       \* where each call is
          now,      \* the `now` each acquire_lock read
          started,  \* the scan's start, which also names it (scan_id)
          complete, \* the scan's status is "ok"
          broken,   \* a write failed: the call's session refuses further use
          stored,   \* the recorded scans, by their start
          cache,    \* the start of the scan whose markets the cache holds
          granted,  \* history: the calls that ever got the lock
          orphaned  \* history: a call has ended and left its row behind

vars == <<clock, row, pc, now, started, complete, broken, stored, cache,
          granted, orphaned>>

Pc == {"new", "select", "insert", "update", "scan", "record", "cache", "release",
       "delete", "ran", "refused", "failed", "dead"}

Absent == [holder |-> NoProc, until |-> 0]

(* The call holds the lock, as far as it knows. *)
InScan(p) == pc[p] \in {"scan", "record", "cache", "release", "delete"}

Alive(p) == InScan(p) \/ pc[p] \in {"select", "insert", "update"}

TypeOK ==
    /\ clock \in Nat
    /\ row \in [holder : Proc \cup {NoProc}, until : Nat]
    /\ pc \in [Proc -> Pc]
    /\ now \in [Proc -> Nat] /\ started \in [Proc -> Nat]
    /\ complete \in [Proc -> BOOLEAN] /\ broken \in [Proc -> BOOLEAN]
    /\ stored \in SUBSET Nat /\ cache \in Nat \cup {-1}
    /\ granted \in SUBSET Proc /\ orphaned \in BOOLEAN

Init ==
    /\ clock = 0
    /\ row = Absent
    /\ pc = [p \in Proc |-> "new"]
    /\ now = [p \in Proc |-> 0] /\ started = [p \in Proc |-> 0]
    /\ complete = [p \in Proc |-> FALSE] /\ broken = [p \in Proc |-> FALSE]
    /\ stored = {} /\ cache = -1
    /\ granted = {} /\ orphaned = FALSE

Goto(p, from, to) ==
    /\ pc[p] = from
    /\ pc' = [pc EXCEPT ![p] = to]

lockVars == <<row, granted, orphaned>>
scanVars == <<started, complete, stored, cache>>

-----------------------------------------------------------------------------
(* acquire_lock reads the clock. *)
Call(p) ==
    /\ Goto(p, "new", "select")
    /\ now' = [now EXCEPT ![p] = clock]
    /\ UNCHANGED <<clock, lockVars, scanVars, broken>>

(* A live lock: later than `now`, which may be reclaimed when it is equal. *)
Live(r, at) == r.until > at

(* mutant of Decide: a live lock is not respected *)
NeverRefuse(p, r, at) == IF r.holder = NoProc THEN "insert" ELSE "update"

(* acquire_lock's SELECT and its decision. *)
Decide(p, r, at) ==
    IF r.holder = NoProc THEN "insert"
    ELSE IF Live(r, at) THEN "refused"
    ELSE "update"

AcquireSelect(p) ==
    /\ pc[p] = "select"
    /\ pc' = [pc EXCEPT ![p] = Decide(p, row, now[p])]
    /\ UNCHANGED <<clock, lockVars, now, scanVars, broken>>

(* The row an acquired lock leaves. *)
Locked(p, at) == [holder |-> p, until |-> at + Lease]

Grant(p) ==
    /\ row' = Locked(p, now[p])
    /\ granted' = granted \cup {p}
    /\ started' = [started EXCEPT ![p] = clock]
    /\ pc' = [pc EXCEPT ![p] = "scan"]

(* The write did not go through; nothing catches the error. *)
GrantFails(p) ==
    /\ pc' = [pc EXCEPT ![p] = "failed"]
    /\ UNCHANGED <<row, granted, started>>

(* The commit of the INSERT: a rival's row makes it an IntegrityError.        *)
AcquireInsert(p) ==
    /\ pc[p] = "insert"
    /\ \/ row.holder = NoProc /\ Grant(p)
       \/ row.holder # NoProc /\ GrantFails(p)
    /\ UNCHANGED <<clock, orphaned, now, complete, stored, cache, broken>>

(* The commit of the UPDATE by primary key: it overwrites whatever the row *)
(* has become, and only a row deleted meanwhile makes it a StaleDataError. *)
AcquireUpdate(p) ==
    /\ pc[p] = "update"
    /\ \/ row.holder # NoProc /\ Grant(p)
       \/ row.holder = NoProc /\ GrantFails(p)
    /\ UNCHANGED <<clock, orphaned, now, complete, stored, cache, broken>>

(* run_scan returns, complete or not; or it raises, or wait_for aborts it, *)
(* and nothing is recorded.                                                *)
Scan(p) ==
    /\ pc[p] = "scan"
    /\ \/ /\ pc' = [pc EXCEPT ![p] = "record"]
          /\ \E b \in BOOLEAN : complete' = [complete EXCEPT ![p] = b]
       \/ /\ pc' = [pc EXCEPT ![p] = "release"]
          /\ UNCHANGED complete
    /\ UNCHANGED <<clock, lockVars, now, started, stored, cache, broken>>

(* Only a complete scan replaces the cached markets. *)
AfterRecord(p) == IF complete[p] THEN "cache" ELSE "release"

(* record_scan: a no-op when the scan is there already, else one commit.  It *)
(* may fail, and then the session needs a rollback nobody does.              *)
Record(p) ==
    /\ pc[p] = "record"
    /\ \/ /\ pc' = [pc EXCEPT ![p] = AfterRecord(p)]
          /\ stored' = stored \cup {started[p]}
          /\ UNCHANGED broken
       \/ /\ pc' = [pc EXCEPT ![p] = "release"]
          /\ broken' = [broken EXCEPT ![p] = TRUE]
          /\ UNCHANGED stored
    /\ UNCHANGED <<clock, lockVars, now, started, complete, cache>>

(* The best-effort upsert of the scan's markets; its failure or timeout is *)
(* swallowed, but may leave the session unusable.                          *)
CacheMarkets(p) ==
    /\ pc[p] = "cache"
    /\ pc' = [pc EXCEPT ![p] = "release"]
    /\ \/ /\ cache' = started[p]
          /\ UNCHANGED broken
       \/ /\ \E b \in BOOLEAN : broken' = [broken EXCEPT ![p] = b]
          /\ UNCHANGED cache
    /\ UNCHANGED <<clock, lockVars, now, started, complete, stored>>

(* release_lock, the SELECT: go on to delete a row that still names us.  On a *)
(* broken session it raises, and the row stays.                               *)
ReleaseSelect(p) ==
    /\ pc[p] = "release"
    /\ pc' = [pc EXCEPT ![p] = IF broken[p] THEN "failed"
                               ELSE IF row.holder = p THEN "delete" ELSE "ran"]
    /\ orphaned' = (orphaned \/ broken[p])
    /\ UNCHANGED <<clock, row, granted, now, scanVars, broken>>

(* release_lock, the DELETE by primary key, whoever holds the row by now. *)
ReleaseDelete(p) ==
    /\ Goto(p, "delete", "ran")
    /\ row' = Absent
    /\ UNCHANGED <<clock, granted, orphaned, now, scanVars, broken>>

(* The runner dies or is killed: the row stays until its lease is over. *)
Die(p) ==
    /\ Alive(p)
    /\ pc' = [pc EXCEPT ![p] = "dead"]
    /\ orphaned' = (orphaned \/ InScan(p))
    /\ UNCHANGED <<clock, row, granted, now, scanVars, broken>>

(* The scan's timeout, and the tick's deadline around it, end a call in time. *)
Advance ==
    /\ clock < Horizon
    /\ \A p \in Proc : Alive(p) => clock + 1 <= now[p] + Limit
    /\ clock' = clock + 1
    /\ UNCHANGED <<lockVars, pc, now, scanVars, broken>>

Next ==
    \/ Advance
    \/ \E p \in Proc :
         \/ Call(p) \/ AcquireSelect(p) \/ AcquireInsert(p) \/ AcquireUpdate(p)
         \/ Scan(p) \/ Record(p) \/ CacheMarkets(p)
         \/ ReleaseSelect(p) \/ ReleaseDelete(p) \/ Die(p)

Spec == Init /\ [][Next]_vars

-----------------------------------------------------------------------------
(* At most one complete scan runs at a time (scan_store.py: the lease      *)
(* "prevents overlapping scans and recovers a crashed scan's stale lock"). *)
NoOverlappingScans == Cardinality({p \in Proc : InScan(p)}) <= 1

(* As long as no call has died or failed inside its scan, the SELECT and the  *)
(* unconditional writes cannot let two scans in, however they interleave: the *)
(* INSERT meets the primary key, and no live row is up for an UPDATE.         *)
NoOverlapWithoutCrash == ~orphaned => NoOverlappingScans

(* The market cache never goes back to an older scan unless a crash has let *)
(* scans overlap (refresh_cli.py: "keeps Explore on real markets from the   *)
(* latest COMPLETE scan").                                                  *)
CacheNeverOlder == [][~orphaned => cache' >= cache]_vars

(* The inductive invariant.  A call under way is no older than its limit,   *)
(* and so younger than the lease it may hold; no scan starts ahead of time. *)
CallsTimely ==
    \A p \in Proc : /\ Alive(p) => now[p] <= clock /\ clock <= now[p] + Limit
                    /\ started[p] <= clock

(* As long as nobody has left a row behind, a row is that of a call in its *)
(* scan, and the calls in their scans are at most the row's holder; a row  *)
(* once seen is gone or live, so no call has come to its UPDATE.           *)
RowIsHolders ==
    /\ \A p \in Proc : pc[p] # "update" /\ (InScan(p) => row.holder = p)
    /\ row.holder # NoProc => /\ InScan(row.holder)
                              /\ row.until = now[row.holder] + Lease

(* The cached scan is no newer than the scan of a call that holds the lock. *)
CacheBehind ==
    \A p \in Proc : InScan(p) => cache <= started[p]

ScanInv ==
    /\ TypeOK /\ CallsTimely /\ cache <= clock
    /\ ~orphaned => RowIsHolders /\ CacheBehind
=============================================================================
