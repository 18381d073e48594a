------------------------------ MODULE LabCommands ------------------------------
(***************************************************************************)
(* The owner's commands to the research host and to the autopilots on the  *)
(* Mac (lab/service.py).  A machine polls for the commands of its targets, *)
(* which marks them delivered, carries them out and reports; a request it  *)
(* has given up on goes on in the server, but its answer reaches nobody.   *)
(* A request reads in one step and commits in a later one; the rows that   *)
(* an UPDATE of an open transaction touched are locked until it ends.      *)
(***************************************************************************)
EXTENDS Integers, Sequences, FiniteSets, Functions

CONSTANTS Creator, Source, Target,
          SourceOf,     \* target_source: which machine executes a target
          KeepCommands, \* KEEP_COMMANDS
          MaxCommands   \* bound: commands ever created

ASSUME CommandAssumption ==
    SourceOf \in [Target -> Source] /\ KeepCommands \in Nat /\ MaxCommands \in Nat

VARIABLES
    command,   \* lab_commands by id: [target, status, stale]; stale: older than COMMAND_TTL
    creating,  \* per owner, the open create: [id, expires], id 0 when there is none
    fetch,     \* per source, what the fetch it waits for has read: [on, ids]
    zombie,    \* per source, the same for a fetch it has given up on
    reporting, \* the commands whose results are being recorded
    received,  \* per source, the commands it was handed, in order
    raced      \* history: which requests have overlapped: "creates", "deliveries"

lVars == <<command, creating, fetch, zombie, reporting, received, raced>>

NoCreate == [id |-> 0, expires |-> {}]
NoFetch == [on |-> FALSE, ids |-> {}]
Ids == DOMAIN command
RowsHeld == UNION {creating[o].expires : o \in Creator}

LInit ==
    /\ command = <<>>
    /\ creating = [o \in Creator |-> NoCreate]
    /\ fetch = [s \in Source |-> NoFetch] /\ zombie = [s \in Source |-> NoFetch]
    /\ reporting = {} /\ received = [s \in Source |-> <<>>] /\ raced = {}

(* Rows written by their key, and the stale pending ones expired (expire_stale). *)
Stale ==
    {i \in Ids : command[i].status = "pending" /\ command[i].stale /\ i \notin RowsHeld}
Written(ids, status) ==
    [i \in Ids |-> IF i \in ids THEN [command[i] EXCEPT !.status = status]
                   ELSE IF i \in Stale THEN [command[i] EXCEPT !.status = "expired"]
                   ELSE command[i]]

(* A newer command expires the pending ones of its target. *)
Superseded(t) == {i \in Ids : command[i].target = t /\ command[i].status = "pending"}

(* create_command up to its flush: the older commands are expired and the row is *)
(* there, but no other transaction sees either yet.                              *)
BeginCreate(o, t) ==
    /\ creating[o] = NoCreate /\ Len(command) < MaxCommands
    /\ Superseded(t) \cap RowsHeld = {}
    /\ command' = Append(command, [target |-> t, status |-> "uncommitted", stale |-> FALSE])
    /\ creating' = [creating EXCEPT ![o] =
                       [id |-> Len(command) + 1, expires |-> Superseded(t)]]
    /\ raced' = raced \cup {x \in {"creates"} : \E p \in Creator : creating[p] # NoCreate}
    /\ UNCHANGED <<fetch, zombie, reporting, received>>

(* Its commit also deletes all but the newest rows, of those it sees; the delete *)
(* waits for rows that another create has touched.                               *)
Pruned(new) == {i \in Ids : i <= new - KeepCommands /\ command[i].status # "uncommitted"}

CommitCreate(o) ==
    LET new == creating[o].id
    IN /\ new # 0 /\ \A p \in Creator \ {o} : Pruned(new) \cap creating[p].expires = {}
       /\ command' = [i \in Ids |->
            CASE i = new -> [command[i] EXCEPT !.status = "pending"]
              [] i # new /\ i \in Pruned(new) -> [command[i] EXCEPT !.status = "deleted"]
              [] OTHER -> Written(creating[o].expires, "expired")[i]]
       /\ creating' = [creating EXCEPT ![o] = NoCreate]
       /\ UNCHANGED <<fetch, zombie, reporting, received, raced>>

FailCreate(o) ==
    /\ creating[o].id # 0
    /\ command' = [command EXCEPT ![creating[o].id].status = "deleted"]
    /\ creating' = [creating EXCEPT ![o] = NoCreate]
    /\ UNCHANGED <<fetch, zombie, reporting, received, raced>>

-----------------------------------------------------------------------------
(* mutant of Handable: a command delivered before is handed out again           *)
HandableAgain(s) ==
    {i \in Ids : /\ command[i].status \in {"pending", "delivered"}
                 /\ SourceOf[command[i].target] = s}

(* The pending commands of the source, unless they are too old. *)
Handable(s) ==
    {i \in Ids : /\ command[i].status = "pending" /\ i \notin Stale
                 /\ SourceOf[command[i].target] = s}

(* fetch_commands reads; two fetches overlap, or one overlaps a create or a report. *)
BeginFetch(s) ==
    /\ ~fetch[s].on
    /\ fetch' = [fetch EXCEPT ![s] = [on |-> TRUE, ids |-> Handable(s)]]
    /\ UNCHANGED <<command, creating, zombie, reporting, received, raced>>

(* What the answer of a fetch overwrites although it has changed since. *)
Overtaken(ids) == \E i \in ids : command[i].status # "pending"

(* A row deleted meanwhile makes the update fail, and with it the whole fetch. *)
Deliver(ids) ==
    /\ ids \cap RowsHeld = {} /\ \A i \in ids : command[i].status # "deleted"
    /\ command' = Written(ids, "delivered")
    /\ raced' = IF Overtaken(ids) THEN raced \cup {"deliveries"} ELSE raced

InOrder(ids) == {f \in [1..Cardinality(ids) -> ids] : \A i, j \in DOMAIN f : i < j => f[i] < f[j]}

CommitFetch(s) ==
    /\ fetch[s].on /\ Deliver(fetch[s].ids)
    /\ \/ \E batch \in InOrder(fetch[s].ids) : received' = [received EXCEPT ![s] = @ \o batch]
       \/ UNCHANGED received
    /\ fetch' = [fetch EXCEPT ![s] = NoFetch]
    /\ UNCHANGED <<creating, zombie, reporting>>

(* The client gives up; the server goes on. *)
GiveUp(s) ==
    /\ fetch[s].on /\ ~zombie[s].on
    /\ zombie' = [zombie EXCEPT ![s] = fetch[s]]
    /\ fetch' = [fetch EXCEPT ![s] = NoFetch]
    /\ UNCHANGED <<command, creating, reporting, received, raced>>

CommitZombie(s) ==
    /\ zombie[s].on /\ Deliver(zombie[s].ids)
    /\ zombie' = [zombie EXCEPT ![s] = NoFetch]
    /\ UNCHANGED <<creating, fetch, reporting, received>>

FailFetch(s) ==
    /\ \/ fetch[s].on /\ fetch' = [fetch EXCEPT ![s] = NoFetch] /\ UNCHANGED zombie
       \/ zombie[s].on /\ zombie' = [zombie EXCEPT ![s] = NoFetch] /\ UNCHANGED fetch
    /\ UNCHANGED <<command, creating, reporting, received, raced>>

-----------------------------------------------------------------------------
Handed == UNION {Range(received[s]) : s \in Source}

(* record_result accepts a report about a delivered command of the source. *)
BeginResult(i) ==
    /\ i \in Handed \ reporting /\ command[i].status = "delivered"
    /\ reporting' = reporting \cup {i}
    /\ UNCHANGED <<command, creating, fetch, zombie, received, raced>>

CommitResult(i) ==
    /\ i \in reporting /\ i \notin RowsHeld /\ command[i].status # "deleted"
    /\ \E status \in {"done", "failed"} : command' = [command EXCEPT ![i].status = status]
    /\ reporting' = reporting \ {i}
    /\ UNCHANGED <<creating, fetch, zombie, received, raced>>

FailResult(i) ==
    /\ i \in reporting
    /\ reporting' = reporting \ {i}
    /\ UNCHANGED <<command, creating, fetch, zombie, received, raced>>

(* dashboard expires what is stale. *)
Dashboard ==
    /\ Stale # {} /\ command' = Written({}, "expired")
    /\ UNCHANGED <<creating, fetch, zombie, reporting, received, raced>>

(* COMMAND_TTL goes by. *)
Grow(i) ==
    /\ command[i].status = "pending" /\ ~command[i].stale
    /\ command' = [command EXCEPT ![i].stale = TRUE]
    /\ UNCHANGED <<creating, fetch, zombie, reporting, received, raced>>

LNext ==
    \/ \E o \in Creator :
          CommitCreate(o) \/ FailCreate(o) \/ \E t \in Target : BeginCreate(o, t)
    \/ \E s \in Source : \/ BeginFetch(s) \/ CommitFetch(s)
                         \/ GiveUp(s) \/ CommitZombie(s) \/ FailFetch(s)
    \/ \E i \in Ids : BeginResult(i) \/ CommitResult(i) \/ FailResult(i) \/ Grow(i)
    \/ Dashboard

-----------------------------------------------------------------------------
(* A machine is handed a command at most once, only its own, and those of a      *)
(* target in the order they were given, whatever requests are lost or overlap;   *)
(* two owners who command the same target at once may be served in either order. *)
HandedOnce ==
    \A s \in Source :
        /\ IsInjective(received[s])
        /\ \A i, j \in DOMAIN received[s] :
             LET c == received[s][i]
                 d == received[s][j]
             IN /\ SourceOf[command[c].target] = s
                /\ i < j /\ command[c].target = command[d].target =>
                       c < d \/ "creates" \in raced

(* What the board says of a command is so: an expired one was never carried out *)
(* and a done or failed one was, unless a fetch was overtaken by another        *)
(* request about the same command.                                              *)
BoardTruthful ==
    \A i \in Ids :
        /\ command[i].status \in {"done", "failed"} => i \in Handed
        /\ command[i].status \in {"pending", "expired"} /\ "deliveries" \notin raced =>
               i \notin Handed

(* An owner can trust the queue: a command is executed once or not at all, in *)
(* order, and its status on the board tells which.                            *)
CommandsHonest == HandedOnce /\ BoardTruthful

-----------------------------------------------------------------------------
Status == {"uncommitted", "pending", "expired", "delivered", "done", "failed", "deleted"}
Command == [target : Target, status : Status, stale : BOOLEAN]
Fetching == [on : BOOLEAN, ids : SUBSET Nat]

CommandTypeOK ==
    /\ command \in Seq(Command)
    /\ creating \in [Creator -> [id : Nat, expires : SUBSET Nat]]
    /\ fetch \in [Source -> Fetching] /\ zombie \in [Source -> Fetching]
    /\ received \in [Source -> Seq(Nat)]
    /\ raced \subseteq {"creates", "deliveries"}

(* A create holds its own row, which nobody sees, and pending rows of its target. *)
Open(o) == creating[o].id # 0
CreatesHold ==
    /\ \A o \in Creator : Open(o) =>
          creating[o].id \in Ids /\ command[creating[o].id].status = "uncommitted"
    /\ \A o \in Creator : \A i \in creating[o].expires :
          /\ Open(o) /\ i \in Ids /\ command[i].status = "pending"
          /\ command[i].target = command[creating[o].id].target
    /\ \A o, p \in Creator : Open(o) /\ o # p =>
          /\ creating[o].id # creating[p].id
          /\ creating[o].expires \cap creating[p].expires = {}

(* What a machine was handed, or is about to be, is its own and committed; what it *)
(* was handed is pending no more, and is not in what it waits for.                 *)
OwnAndCommitted(s, i) ==
    i \in Ids /\ command[i].status # "uncommitted" /\ SourceOf[command[i].target] = s
FetchesSound ==
    \A s \in Source :
        /\ \A i \in fetch[s].ids \cup zombie[s].ids : OwnAndCommitted(s, i)
        /\ \A i \in Range(received[s]) : /\ OwnAndCommitted(s, i)
                                         /\ command[i].status # "pending"
                                         /\ i \notin fetch[s].ids

(* What is handed out comes after what was. *)
After(c, d) == command[c].target = command[d].target => c < d \/ "creates" \in raced
HandedInOrder ==
    \A s \in Source :
        /\ IsInjective(received[s])
        /\ \A i, j \in DOMAIN received[s] : i < j => After(received[s][i], received[s][j])
        /\ \A c \in Range(received[s]), d \in fetch[s].ids : After(c, d)

(* While creates do not overlap, a command that is pending is the newest of its *)
(* target that anyone has seen.                                                 *)
Asked == UNION {fetch[s].ids \cup zombie[s].ids : s \in Source}
NewestPending ==
    "creates" \notin raced =>
        /\ \A o, p \in Creator : Open(o) /\ Open(p) => o = p
        /\ \A o \in Creator : Open(o) =>
              /\ creating[o].id = Len(command)
              /\ \A d \in Ids : /\ command[d].status = "pending"
                               /\ command[d].target = command[creating[o].id].target
                               => d \in creating[o].expires
        /\ \A c, d \in Ids : /\ d < c /\ command[c].target = command[d].target
                            /\ command[d].status = "pending"
                            => command[c].status # "pending" /\ c \notin Asked \cup Handed

Reported == reporting \subseteq Handed

LabInv ==
    /\ CommandTypeOK /\ CreatesHold /\ FetchesSound /\ HandedInOrder /\ NewestPending
    /\ Reported /\ BoardTruthful

LabSpec == LInit /\ [][LNext]_lVars
=============================================================================
