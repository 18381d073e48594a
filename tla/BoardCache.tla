------------------------------- MODULE BoardCache -------------------------------
(***************************************************************************)
(* opportunity/cache.py: SwrCache, the stale-while-revalidate cache of the  *)
(* Opportunity Board route, shared by the coroutines of one web process.    *)
(*                                                                          *)
(* A coroutine runs without interruption up to an await that suspends: the  *)
(* lock of the key when it is held, a build slot when none is free, and the *)
(* builder, which waits for the network.                                    *)
(***************************************************************************)
EXTENDS Integers, FiniteSets, Sequences

CONSTANTS Task,    \* coroutine slots: a request, or a background refresh
          Board,   \* mode:top:universe:view
          FreshTtl, HardTtl, MaxBoards, Slots,
          BHorizon \* bound on the uptime

ASSUME TtlsOrdered == FreshTtl \in Nat \ {0} /\ HardTtl \in Nat /\ FreshTtl < HardTtl

VARIABLES uptime,     \* time.monotonic
          boards,     \* _entries: when the board of a key was stored
          boardLocks, \* _locks: the lock object of a key
          lockOwner,  \* of each lock object, who holds it
          waiters,    \* and who waits for it, in order
          slotQueue,  \* who waits for _build_slots, in order
          task,       \* per coroutine slot: [pc, key, kind, lock]
          lastStatus, \* last_status, one for the process
          served      \* the last board sent to a client: [age, said, own]

bVars == <<uptime, boards, boardLocks, lockOwner, waiters, slotQueue, task, lastStatus,
           served>>

Nobody == "nobody"

ASSUME TasksAndBoards == Nobody \notin Task /\ IsFiniteSet(Task) /\ IsFiniteSet(Board)

NoEntry == [stored |-> -1]
NoLock == 0
BoardLock == 1..(Cardinality(Task) + Cardinality(Board))   \* enough for the locks in use
IdleTask == [pc |-> "free"]
NoBoard == [age |-> -1, said |-> "none", own |-> "none"]

BInit ==
    /\ uptime = 0
    /\ boards = [k \in Board |-> NoEntry]
    /\ boardLocks = [k \in Board |-> NoLock]
    /\ lockOwner = [l \in BoardLock |-> Nobody] /\ waiters = [l \in BoardLock |-> <<>>]
    /\ slotQueue = <<>>
    /\ task = [t \in Task |-> IdleTask]
    /\ lastStatus = "none" /\ served = NoBoard

-----------------------------------------------------------------------------
Age(k) == uptime - boards[k].stored
Cached(k) == boards[k] # NoEntry
FreshEntry(k) == Cached(k) /\ Age(k) < FreshTtl

StaleEntry(k) == Cached(k) /\ Age(k) >= FreshTtl /\ Age(k) < HardTtl

(* A task between two awaits runs alone; a woken task is ready to run. *)
Alone == \A t \in Task : task[t].pc # "check"
Woken(t) == task[t].pc = "lock" /\ lockOwner[task[t].lock] = Nobody
            /\ Head(waiters[task[t].lock]) = t
Ready(t) == task[t].pc = "start" \/ Woken(t)
LoopIdle == Alone /\ \A t \in Task : ~Ready(t)
Building == {t \in Task : task[t].pc = "build"}

SpareLocks == {l \in BoardLock : /\ \A k \in Board : boardLocks[k] # l
                          /\ lockOwner[l] = Nobody /\ waiters[l] = <<>>}

(* _lock and acquire: take the key's lock, or queue for it. *)
EnterLock(t, k, kind) ==
    LET l == IF boardLocks[k] # NoLock THEN boardLocks[k]
             ELSE CHOOSE u \in SpareLocks : TRUE
        now == lockOwner[l] = Nobody /\ waiters[l] = <<>>
    IN /\ boardLocks' = [boardLocks EXCEPT ![k] = l]
       /\ lockOwner' = IF now THEN [lockOwner EXCEPT ![l] = t] ELSE lockOwner
       /\ waiters' = IF now THEN waiters ELSE [waiters EXCEPT ![l] = Append(@, t)]
       /\ task' = [task EXCEPT ![t] = [pc |-> IF now THEN "check" ELSE "lock",
                                       key |-> k, kind |-> kind, lock |-> l]]

(* The response of the route, with the header X-Board-Cache. *)
Reply(age, own, said) == served' = [age |-> age, said |-> said, own |-> own]

-----------------------------------------------------------------------------
(* SwrCache.get *)
GetFresh(k) ==
    /\ Alone /\ FreshEntry(k)
    /\ lastStatus' = "hit" /\ Reply(Age(k), "hit", "hit")
    /\ UNCHANGED <<uptime, boards, boardLocks, lockOwner, waiters, slotQueue, task>>

GetStale(t, k) ==
    /\ Alone /\ StaleEntry(k) /\ task[t] = IdleTask
    /\ lastStatus' = "stale" /\ Reply(Age(k), "stale", "stale")
    /\ task' = [task EXCEPT ![t] = [pc |-> "start", key |-> k, kind |-> "refresh"]]
    /\ UNCHANGED <<uptime, boards, boardLocks, lockOwner, waiters, slotQueue>>

GetMissing(t, k) ==
    /\ Alone /\ ~FreshEntry(k) /\ ~StaleEntry(k) /\ task[t] = IdleTask
    /\ lastStatus' = "miss" /\ EnterLock(t, k, "request")
    /\ UNCHANGED <<uptime, boards, slotQueue, served>>

(* _spawn_refresh: the background task begins. *)
StartRefresh(t) ==
    /\ Alone /\ task[t].pc = "start"
    /\ EnterLock(t, task[t].key, "refresh")
    /\ UNCHANGED <<uptime, boards, slotQueue, lastStatus, served>>

WakeUp(t) ==
    /\ Alone /\ Woken(t)
    /\ lockOwner' = [lockOwner EXCEPT ![task[t].lock] = t]
    /\ waiters' = [waiters EXCEPT ![task[t].lock] = Tail(@)]
    /\ task' = [task EXCEPT ![t].pc = "check"]
    /\ UNCHANGED <<uptime, boards, boardLocks, slotQueue, lastStatus, served>>

-----------------------------------------------------------------------------
(* What a board stored now leaves: the expired go, then the oldest over the *)
(* bound; a dropped key loses its lock unless the lock is held.             *)
Expired(e) == {k \in Board : e[k] # NoEntry /\ uptime - e[k].stored >= HardTtl}
Retainable(e) == {k \in Board : e[k] # NoEntry} \ Expired(e)
Evictions(e) ==
    {X \in SUBSET Retainable(e) :
        /\ Cardinality(X) = IF Cardinality(Retainable(e)) > MaxBoards
                            THEN Cardinality(Retainable(e)) - MaxBoards ELSE 0
        /\ \A x \in X, y \in Retainable(e) \ X : e[x].stored <= e[y].stored}

(* The lock goes with its board although a build holds it. *)
DropsAnyLock(k) == boardLocks[k] # NoLock

DropsLock(k) == boardLocks[k] # NoLock /\ lockOwner[boardLocks[k]] = Nobody

(* "Another waiter may have refreshed while we waited for the lock." *)
Recheck(k) == FreshEntry(k)

Release(t) == lockOwner' = [lockOwner EXCEPT ![task[t].lock] = Nobody]

FoundRefreshed(t) ==
    /\ task[t].pc = "check" /\ Recheck(task[t].key)
    /\ IF task[t].kind = "request" THEN Reply(Age(task[t].key), "miss", lastStatus)
       ELSE UNCHANGED served
    /\ Release(t) /\ task' = [task EXCEPT ![t] = IdleTask]
    /\ UNCHANGED <<uptime, boards, boardLocks, waiters, slotQueue, lastStatus>>

AskSlot(t) ==
    /\ task[t].pc = "check" /\ ~Recheck(task[t].key)
    /\ LET now == Cardinality(Building) < Slots /\ slotQueue = <<>>
       IN /\ task' = [task EXCEPT ![t].pc = IF now THEN "build" ELSE "slot"]
          /\ slotQueue' = IF now THEN slotQueue ELSE Append(slotQueue, t)
    /\ UNCHANGED <<uptime, boards, boardLocks, lockOwner, waiters, lastStatus,
                   served>>

TakeSlot(t) ==
    /\ Alone /\ slotQueue # <<>> /\ Head(slotQueue) = t /\ Cardinality(Building) < Slots
    /\ slotQueue' = Tail(slotQueue)
    /\ task' = [task EXCEPT ![t].pc = "build"]
    /\ UNCHANGED <<uptime, boards, boardLocks, lockOwner, waiters, lastStatus,
                   served>>

(* The builder returns: the board is stored, others evicted, the request *)
(* answered.  The network answers only once the ready tasks have run.    *)
BuildDone(t) ==
    /\ LoopIdle /\ task[t].pc = "build"
    /\ LET stored == [boards EXCEPT ![task[t].key] = [stored |-> uptime]]
       IN \E X \in Evictions(stored) :
            LET gone == X \cup Expired(stored)
            IN /\ boards' = [k \in Board |-> IF k \in gone THEN NoEntry ELSE stored[k]]
               /\ boardLocks' = [k \in Board |-> IF k \in gone /\ DropsLock(k) THEN NoLock
                                          ELSE boardLocks[k]]
    /\ IF task[t].kind = "request" THEN Reply(0, "miss", lastStatus) ELSE UNCHANGED served
    /\ Release(t) /\ task' = [task EXCEPT ![t] = IdleTask]
    /\ UNCHANGED <<uptime, waiters, slotQueue, lastStatus>>

(* It raises: a request fails, a background refresh is only logged. *)
BuildFails(t) ==
    /\ LoopIdle /\ task[t].pc = "build"
    /\ Release(t) /\ task' = [task EXCEPT ![t] = IdleTask]
    /\ UNCHANGED <<uptime, boards, boardLocks, waiters, slotQueue, lastStatus,
                   served>>

-----------------------------------------------------------------------------
BAdvance == /\ LoopIdle /\ uptime < BHorizon /\ uptime' = uptime + 1
            /\ UNCHANGED <<boards, boardLocks, lockOwner, waiters, slotQueue,
                           task, lastStatus, served>>

BNext ==
    \/ \E k \in Board : GetFresh(k)
    \/ \E t \in Task, k \in Board : GetStale(t, k) \/ GetMissing(t, k)
    \/ \E t \in Task : StartRefresh(t) \/ WakeUp(t) \/ FoundRefreshed(t) \/ AskSlot(t)
                       \/ TakeSlot(t) \/ BuildDone(t) \/ BuildFails(t)
    \/ BAdvance

BSpec == BInit /\ [][BNext]_bVars

-----------------------------------------------------------------------------
(* "Only one build runs per key at a time" (cache.py:13): of the tasks that     *)
(* found no fresh board of a key one alone builds or waits for a slot, although *)
(* locks are dropped and made again while others wait for them.                 *)
OneBuildPerKey ==
    \A k \in Board :
        Cardinality({t \in Task : task[t].pc \in {"slot", "build"} /\ task[t].key = k}) <= 1

-----------------------------------------------------------------------------
Lined == {"lock", "check", "slot", "build"}
Holding == {"check", "slot", "build"}

StartTask == [pc : {"start"}, key : Board, kind : {"refresh"}]
LinedTask == [pc : Lined, key : Board, kind : {"request", "refresh"}, lock : BoardLock]

BoardTypeOK ==
    /\ boardLocks \in [Board -> BoardLock \cup {NoLock}]
    /\ lockOwner \in [BoardLock -> Task \cup {Nobody}]
    /\ waiters \in [BoardLock -> Seq(Task)] /\ slotQueue \in Seq(Task)
    /\ task \in [Task -> {IdleTask} \cup StartTask \cup LinedTask]

(* The lock of a key is that of all who came for it, and of no other key. *)
LocksByKey ==
    /\ \A t \in Task : task[t].pc \in Lined => boardLocks[task[t].key] = task[t].lock
    /\ \A j, k \in Board : boardLocks[j] = boardLocks[k] /\ boardLocks[k] # NoLock => j = k

(* Whoever is past the lock holds it, and nobody else holds one. *)
LocksHeld ==
    \A l \in BoardLock, t \in Task :
        lockOwner[l] = t <=> task[t].pc \in Holding /\ task[t].lock = l

(* The queues are of those who wait there, once each. *)
NoRepeats(q) == \A i, j \in DOMAIN q : q[i] = q[j] => i = j
Waits(q, t) == \E i \in DOMAIN q : q[i] = t
QueuesExact ==
    /\ \A l \in BoardLock, t \in Task :
           Waits(waiters[l], t) <=> task[t].pc = "lock" /\ task[t].lock = l
    /\ \A t \in Task : Waits(slotQueue, t) <=> task[t].pc = "slot"
    /\ \A l \in BoardLock : NoRepeats(waiters[l])
    /\ NoRepeats(slotQueue)

BoardInv == BoardTypeOK /\ LocksByKey /\ LocksHeld /\ QueuesExact
=============================================================================
