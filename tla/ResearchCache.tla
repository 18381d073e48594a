---------------------------- MODULE ResearchCache ----------------------------
(***************************************************************************)
(* The process cache of the research answers (api/research_cache.py): one  *)
(* lock per key, a data version read from aggregates over the tables, the  *)
(* answer stored under it, the oldest answer evicted, and locks dropped    *)
(* with their answers.  Writers commit rows whose ids were drawn earlier,  *)
(* so two writers that overlap may commit out of the order of their ids.   *)
(***************************************************************************)
EXTENDS Integers, Sequences, FiniteSets, SequencesExt

CONSTANTS Asker,      \* requests under way
          Key,        \* cache keys
          NoOne,      \* no holder, no key
          MaxEntries, \* MAX_ENTRIES
          Rows        \* bound: ids of the rows written

ASSUME CacheAssumption ==
    /\ IsFiniteSet(Asker) /\ IsFiniteSet(Key) /\ NoOne \notin Asker \cup Key
    /\ MaxEntries \in Nat \ {0} /\ Rows \in Nat

VARIABLES dataRow,   \* state of each row: "none", "open", "committed"
          overtaken, \* history: rows committed after a row with a higher id
          entries,   \* _entries, oldest first: [key, ver, val, old]
          locks,     \* _locks: key -> lock
          holder, queue, \* of each lock: an asyncio.Lock is fair
          rpc, rkey, rlock, rval, \* per request; rval: the rows its version covers
          shaky      \* history: keys whose lock was dropped with a waiter

rVars == <<dataRow, overtaken, entries, locks, holder, queue,
           rpc, rkey, rlock, rval, shaky>>

LockId == 1..(Cardinality(Asker) + Cardinality(Key))
Committed == {i \in 1..Rows : dataRow[i] = "committed"}

(* data_version, as the highest id: a commit out of order leaves it unchanged. *)
Highest(S) == IF S = {} THEN 0 ELSE CHOOSE i \in S : \A j \in S : j <= i
Version == Highest(Committed)

RInit ==
    /\ dataRow = [i \in 1..Rows |-> "none"] /\ overtaken = {}
    /\ entries = <<>> /\ locks = [k \in Key |-> 0]
    /\ holder = [l \in LockId |-> NoOne] /\ queue = [l \in LockId |-> <<>>]
    /\ rpc = [r \in Asker |-> "idle"] /\ rkey = [r \in Asker |-> NoOne]
    /\ rlock = [r \in Asker |-> 0] /\ rval = [r \in Asker |-> {}]
    /\ shaky = {}

tableVars == <<dataRow, overtaken>>
keyLockVars == <<locks, holder, queue, shaky>>

-----------------------------------------------------------------------------
(* A writer draws the next id, and later commits. *)
OpenRow(i) ==
    /\ dataRow[i] = "none" /\ \A j \in 1..(i - 1) : dataRow[j] # "none"
    /\ dataRow' = [dataRow EXCEPT ![i] = "open"]
    /\ UNCHANGED <<overtaken, entries, keyLockVars, rpc, rkey, rlock, rval>>

CommitRow(i) ==
    /\ dataRow[i] = "open"
    /\ dataRow' = [dataRow EXCEPT ![i] = "committed"]
    /\ overtaken' = IF i < Version THEN overtaken \cup {i} ELSE overtaken
    /\ UNCHANGED <<entries, keyLockVars, rpc, rkey, rlock, rval>>

(* Time passes: an answer reaches its max_age, at any moment. *)
Expire(i) ==
    /\ i \in DOMAIN entries
    /\ entries' = [entries EXCEPT ![i].old = TRUE]
    /\ UNCHANGED <<tableVars, keyLockVars, rpc, rkey, rlock, rval>>

-----------------------------------------------------------------------------
Free(l) == holder[l] = NoOne /\ queue[l] = <<>>
Unused(l) == (\A k \in Key : locks[k] # l) /\ (\A q \in Asker : rlock[q] # l)
LockFor(k) == IF locks[k] # 0 THEN locks[k]
              ELSE CHOOSE l \in LockId : Unused(l)

(* _locks.setdefault, then the lock at once, or a place in its queue. *)
Ask(r, k) ==
    /\ rpc[r] = "idle"
    /\ rkey' = [rkey EXCEPT ![r] = k]
    /\ LET l == LockFor(k) IN
          /\ locks' = [locks EXCEPT ![k] = l]
          /\ rlock' = [rlock EXCEPT ![r] = l]
          /\ IF Free(l)
             THEN /\ holder' = [holder EXCEPT ![l] = r] /\ UNCHANGED queue
                  /\ rpc' = [rpc EXCEPT ![r] = "version"]
             ELSE /\ queue' = [queue EXCEPT ![l] = Append(@, r)] /\ UNCHANGED holder
                  /\ rpc' = [rpc EXCEPT ![r] = "wait"]
    /\ UNCHANGED <<tableVars, entries, rval, shaky>>

(* A released lock goes to the head of its queue, in a later turn of the loop. *)
Wake(r) ==
    LET l == rlock[r] IN
    /\ rpc[r] = "wait" /\ holder[l] = NoOne /\ Head(queue[l]) = r
    /\ holder' = [holder EXCEPT ![l] = r]
    /\ queue' = [queue EXCEPT ![l] = Tail(@)]
    /\ rpc' = [rpc EXCEPT ![r] = "version"]
    /\ UNCHANGED <<tableVars, entries, locks, rkey, rlock, rval, shaky>>

Keys(es) == {es[i].key : i \in DOMAIN es}
Place(k) == CHOOSE i \in DOMAIN entries : entries[i].key = k
Entry(k) == entries[Place(k)]
Others(k) == IF k \in Keys(entries) THEN RemoveAt(entries, Place(k)) ELSE entries

(* The call returns or raises with `es` stored: the lock is released, the locks  *)
(* of evicted answers go unless taken, and so does the key's own lock when there *)
(* is no answer, whoever still waits for it.                                     *)
Finish(r, es) ==
    LET l == rlock[r]
        gone == {k \in Keys(entries) \ Keys(es) : locks[k] # 0 /\ holder[locks[k]] = NoOne}
                  \cup {k \in {rkey[r]} \ Keys(es) : locks[k] = l}
    IN  /\ entries' = es
        /\ holder' = [holder EXCEPT ![l] = NoOne]
        /\ locks' = [k \in Key |-> IF k \in gone THEN 0 ELSE locks[k]]
        /\ shaky' = shaky \cup {k \in gone : queue[locks[k]] # <<>>}
        /\ rpc' = [rpc EXCEPT ![r] = "idle"] /\ rkey' = [rkey EXCEPT ![r] = NoOne]
        /\ rlock' = [rlock EXCEPT ![r] = 0] /\ rval' = [rval EXCEPT ![r] = {}]
        /\ UNCHANGED queue

(* mutant of Hit: any stored answer that is young enough is served *)
HitAnyVersion(k) == k \in Keys(entries) /\ ~Entry(k).old

Hit(k) == k \in Keys(entries) /\ Entry(k).ver = Version /\ ~Entry(k).old

(* The version is read: serve, or drop the entry and compute.  The read may fail. *)
ServeHit(r) ==
    /\ rpc[r] = "version" /\ Hit(rkey[r])
    /\ Finish(r, Append(Others(rkey[r]), Entry(rkey[r])))
    /\ UNCHANGED tableVars

Miss(r) ==
    /\ rpc[r] = "version" /\ ~Hit(rkey[r])
    /\ entries' = Others(rkey[r])
    /\ rval' = [rval EXCEPT ![r] = Committed]
    /\ rpc' = [rpc EXCEPT ![r] = "compute"]
    /\ UNCHANGED <<tableVars, keyLockVars, rkey, rlock>>

(* mutant of Trimmed: nothing is ever evicted *)
Untrimmed(es) == es

Trimmed(es) ==
    SubSeq(es, IF Len(es) > MaxEntries THEN Len(es) - MaxEntries + 1 ELSE 1, Len(es))

(* compute returns: its queries saw the rows of the version, or later ones too. *)
Store(r) ==
    /\ rpc[r] = "compute"
    /\ \E seen \in {rval[r], Committed} :
          Finish(r, Trimmed(Append(Others(rkey[r]),
             [key |-> rkey[r], ver |-> Highest(rval[r]), val |-> seen, old |-> FALSE])))
    /\ UNCHANGED tableVars

Raise(r) ==
    /\ rpc[r] \in {"version", "compute"}
    /\ Finish(r, entries)
    /\ UNCHANGED tableVars

RNext ==
    \/ \E i \in 1..MaxEntries : Expire(i)
    \/ \E i \in 1..Rows : OpenRow(i) \/ CommitRow(i)
    \/ \E r \in Asker : \/ \E k \in Key : Ask(r, k)
                        \/ Wake(r) \/ ServeHit(r) \/ Miss(r) \/ Store(r) \/ Raise(r)

RSpec == RInit /\ [][RNext]_rVars

-----------------------------------------------------------------------------
(* A cached answer that is served holds every committed row, but for rows that  *)
(* committed behind a higher id; and even those are missing only until it ages. *)
CachedAnswersCurrent ==
    \A r \in Asker : rpc[r] = "version" /\ Hit(rkey[r]) =>
        /\ Committed \ Entry(rkey[r]).val \subseteq overtaken
        /\ ~Entry(rkey[r]).old

Computing(k) == {r \in Asker : rkey[r] = k /\ rpc[r] = "compute"}

(* One computation of a key at a time, unless its lock was dropped under a       *)
(* waiter; and the tables stay bounded: a lock belongs to an answer or to a call *)
(* under way, and no more than MaxEntries answers are held.                      *)
SingleFlight ==
    /\ Len(entries) <= MaxEntries
    /\ \A k \in Key \ shaky :
          /\ Cardinality(Computing(k)) <= 1
          /\ locks[k] # 0 => k \in Keys(entries) \/ \E r \in Asker : rkey[r] = k

-----------------------------------------------------------------------------
Inside == {"version", "compute"}
Calling == Inside \cup {"wait"}
Answer == [key : Key, ver : Nat, val : SUBSET (1..Rows), old : BOOLEAN]

ResearchTypeOK ==
    /\ dataRow \in [1..Rows -> {"none", "open", "committed"}]
    /\ entries \in Seq(Answer)
    /\ locks \in [Key -> LockId \cup {0}]
    /\ holder \in [LockId -> Asker \cup {NoOne}] /\ queue \in [LockId -> Seq(Asker)]
    /\ rpc \in [Asker -> Calling \cup {"idle"}]
    /\ rkey \in [Asker -> Key \cup {NoOne}] /\ rlock \in [Asker -> LockId \cup {0}]
    /\ rval \in [Asker -> SUBSET (1..Rows)]
    /\ \A r \in Asker : IF rpc[r] = "idle" THEN rkey[r] = NoOne /\ rlock[r] = 0
                       ELSE rkey[r] \in Key /\ rlock[r] \in LockId

(* A call that runs holds the lock it came for; one that waits is in its queue. *)
Queued(l, r) == \E i \in DOMAIN queue[l] : queue[l][i] = r
CallsHold ==
    /\ \A l \in LockId, r \in Asker : holder[l] = r <=> rpc[r] \in Inside /\ rlock[r] = l
    /\ \A r \in Asker : rpc[r] = "wait" => Queued(rlock[r], r)

(* A lock serves one key, and unless it was dropped it is the key's lock. *)
LockOfKey ==
    /\ \A q, r \in Asker : rpc[r] # "idle" /\ rlock[q] = rlock[r] => rkey[q] = rkey[r]
    /\ \A r \in Asker, k \in Key : rpc[r] # "idle" /\ locks[k] = rlock[r] => rkey[r] = k
    /\ \A j, k \in Key : locks[j] = locks[k] /\ locks[k] # 0 => j = k
    /\ \A r \in Asker : rpc[r] # "idle" /\ rkey[r] \notin shaky => locks[rkey[r]] = rlock[r]

(* A lock belongs to an answer or to a call under way. *)
LocksOwned ==
    \A k \in Key \ shaky : locks[k] # 0 => k \in Keys(entries) \/ \E r \in Asker : rkey[r] = k

(* What a version stands for: of the rows committed now, an answer misses those *)
(* above the version and those that another overtook.                           *)
Covers(version, S) ==
    /\ version <= Version
    /\ \A i \in Committed \ S : version < i \/ i \in overtaken

AnswersSound ==
    /\ Len(entries) <= MaxEntries
    /\ \A i, j \in DOMAIN entries : entries[i].key = entries[j].key => i = j
    /\ \A i \in DOMAIN entries : Covers(entries[i].ver, entries[i].val)
    /\ \A r \in Asker : rpc[r] = "compute" =>
          rval[r] \subseteq Committed /\ Covers(Highest(rval[r]), rval[r])

ResearchInv ==
    ResearchTypeOK /\ CallsHold /\ LockOfKey /\ LocksOwned /\ AnswersSound
=============================================================================
