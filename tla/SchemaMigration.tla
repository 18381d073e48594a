---------------------------- MODULE SchemaMigration ----------------------------
(***************************************************************************)
(* The additive migration of the database (storage/migrate.py), which      *)
(* every tick, digest, web process and command runs before its work, so    *)
(* that several run at once and processes of an older release among them.  *)
(* The tables, columns and the version are one transaction under an        *)
(* advisory lock.  The indexes that old tables lack are built after it,    *)
(* outside any transaction, one by one: the validity of each is read, a    *)
(* leftover dropped, the index built, and a rival may come between any two *)
(* of these.  A process may fail anywhere; the server may finish a build   *)
(* whose client is gone.                                                   *)
(***************************************************************************)
EXTENDS Integers, FiniteSets

CONSTANTS Migrator, NoMigrator,
          Latest,     \* SCHEMA_VERSION of the newest release that runs
          Element,    \* tables and columns
          Since,      \* the release that brought an element
          ListLength, \* per release: the length of _FK_INDEXES, 0 when there is
                      \* no schema; releases append to it
          TableOf,    \* the table of an index
          MaxUpgrades \* bound: migrations ever started

Listed(release) == 1..ListLength[release]
Index == Listed(Latest)

Wanted(release) == {e \in Element : Since[e] <= release}

ASSUME ReleaseAssumption ==
    /\ Latest \in Nat \ {0}
    /\ Since \in [Element -> 1..Latest]
    /\ ListLength \in [0..Latest -> Nat] /\ ListLength[0] = 0
    /\ \A r, s \in 0..Latest : r <= s => ListLength[r] <= ListLength[s]

(* An index of a release is on a table of that release. *)
ASSUME IndexAssumption ==
    /\ TableOf \in [Index -> Element]
    /\ \A r \in 1..Latest : \A i \in Listed(r) : TableOf[i] \in Wanted(r)

VARIABLES
    elements,  \* the tables and columns of the live database
    version,   \* MAX(version) of schema_migrations, 0 when it is empty
    index,     \* per index: "absent", "invalid" or "valid"
    advisory,  \* who holds _MIGRATION_LOCK_KEY
    builder,   \* per index: whose build holds the table, possibly the server for a
               \* client that is gone
    migrator,  \* per process: where it is, its entry and release, its place in the list
    started,   \* migrations started
    alone,     \* history: the processes that no other has joined in building indexes
    broken     \* history: indexes on which a process failed, since the last one that
               \* went through them alone

migVars == <<elements, version, index, advisory, builder, migrator, started, alone, broken>>

Orphan == "server"
ASSUME NamesAssumption == NoMigrator \notin Migrator \cup {Orphan} /\ Orphan \notin Migrator

Resting == [at |-> "rest", entry |-> "none", release |-> 1, next |-> 1]

SchemaInit ==
    /\ elements = {} /\ version = 0
    /\ index = [i \in Index |-> "absent"]
    /\ advisory = NoMigrator
    /\ builder = [i \in Index |-> NoMigrator]
    /\ migrator = [m \in Migrator |-> Resting] /\ started = 0
    /\ alone = {} /\ broken = {}

At(m) == migrator[m].at
ReleaseOf(m) == migrator[m].release

(* _ensure_fk_indexes_concurrently is under way, with the index at next; *)
(* those from there on are still to do.                                    *)
Indexing == {m \in Migrator : At(m) \in {"read", "drop", "create", "building"}}
Hand(m) == migrator[m].next
Todo(m) == migrator[m].next..ListLength[ReleaseOf(m)]

MoveTo(m, place) == migrator' = [migrator EXCEPT ![m].at = place]

(* The list begins. *)
Onset(m) == migrator' = [migrator EXCEPT ![m].next = 1, ![m].at = "read"]

(* Done with the index at hand. *)
Onward(m) ==
    migrator' = [migrator EXCEPT ![m].next = @ + 1, ![m].at = "read"]

-----------------------------------------------------------------------------
(* A process of some release begins: preflight, the preflight of AUTO_MIGRATE  *)
(* off, or upgrade itself (bootstrap, the command, the import).                *)
BeginMigration(m) ==
    /\ At(m) \in {"rest", "ready"} /\ started < MaxUpgrades
    /\ \E release \in 1..Latest, entry \in {"preflight", "fail_fast", "upgrade"} :
         migrator' = [migrator EXCEPT ![m] =
             [at |-> IF entry = "upgrade" THEN "lock" ELSE "check", entry |-> entry,
              release |-> release, next |-> 1]]
    /\ started' = started + 1
    /\ UNCHANGED <<elements, version, index, advisory, builder, alone, broken>>

(* check *)
Current(m) == Wanted(ReleaseOf(m)) \subseteq elements /\ version >= ReleaseOf(m)

(* preflight: a current schema is all it asks for, or it migrates, or raises. *)
Check(m) ==
    /\ At(m) = "check"
    /\ IF Current(m) THEN MoveTo(m, "ready")
       ELSE IF migrator[m].entry = "preflight" THEN MoveTo(m, "lock")
       ELSE migrator' = [migrator EXCEPT ![m] = Resting]
    /\ UNCHANGED <<elements, version, index, advisory, builder, started, alone, broken>>

Lock(m) ==
    /\ At(m) = "lock" /\ advisory = NoMigrator
    /\ advisory' = m /\ MoveTo(m, "ddl")
    /\ UNCHANGED <<elements, version, index, builder, started, alone, broken>>

(* _upgrade_sync commits: what is missing is added, a new table with its       *)
(* indexes; the version is recorded if it advances; the lock goes with the     *)
(* transaction.                                                                *)
CommitSchema(m) ==
    /\ At(m) = "ddl"
    /\ LET new == {i \in Listed(ReleaseOf(m)) : TableOf[i] \notin elements}
       IN index' = [i \in Index |-> IF i \in new THEN "valid" ELSE index[i]]
    /\ elements' = elements \cup Wanted(ReleaseOf(m))
    /\ version' = IF version < ReleaseOf(m) THEN ReleaseOf(m) ELSE version
    /\ advisory' = NoMigrator
    /\ Onset(m)
    /\ alone' = IF Indexing = {} THEN {m} ELSE {}
    /\ UNCHANGED <<builder, started, broken>>

(* mutant of LeftOver: an index that exists is taken for one that serves *)
LeftOverKept(i) == FALSE

(* indisvalid is read as False: an interrupted build, or one under way. *)
LeftOver(i) == index[i] = "invalid"

ReadValidity(m) ==
    /\ At(m) = "read" /\ Todo(m) # {}
    /\ IF index[Hand(m)] = "valid" THEN Onward(m)
       ELSE IF LeftOver(Hand(m)) THEN MoveTo(m, "drop")
       ELSE MoveTo(m, "create")
    /\ UNCHANGED <<elements, version, index, advisory, builder, started, alone, broken>>

(* DROP INDEX CONCURRENTLY waits for the builder of the table; what it drops *)
(* may have become valid since it was read.                                   *)
Drop(m) ==
    /\ At(m) = "drop" /\ builder[Hand(m)] = NoMigrator
    /\ index' = [index EXCEPT ![Hand(m)] = "absent"]
    /\ MoveTo(m, "create")
    /\ UNCHANGED <<elements, version, advisory, builder, started, alone, broken>>

(* CREATE INDEX CONCURRENTLY IF NOT EXISTS: the index is there, but invalid,   *)
(* while it is being built; one that exists by now is left as it is.           *)
Create(m) ==
    /\ At(m) = "create" /\ builder[Hand(m)] = NoMigrator
    /\ IF index[Hand(m)] = "absent"
       THEN /\ index' = [index EXCEPT ![Hand(m)] = "invalid"]
            /\ builder' = [builder EXCEPT ![Hand(m)] = m]
            /\ MoveTo(m, "building")
       ELSE Onward(m) /\ UNCHANGED <<index, builder>>
    /\ UNCHANGED <<elements, version, advisory, started, alone, broken>>

Built(m) ==
    /\ At(m) = "building"
    /\ index' = [index EXCEPT ![Hand(m)] = "valid"]
    /\ builder' = [builder EXCEPT ![Hand(m)] = NoMigrator]
    /\ Onward(m)
    /\ UNCHANGED <<elements, version, advisory, started, alone, broken>>

(* upgrade returns, and preflight after its second check. *)
EndMigration(m) ==
    /\ At(m) = "read" /\ Todo(m) = {}
    /\ MoveTo(m, "ready")
    /\ alone' = alone \ {m}
    /\ broken' = IF m \in alone THEN broken \ Listed(ReleaseOf(m)) ELSE broken
    /\ UNCHANGED <<elements, version, index, advisory, builder, started>>

(* An error or a death anywhere: the transaction goes with its lock, a drop   *)
(* may be half done, a build ends as a leftover or is ended by the server.    *)
FailMigration(m) ==
    /\ At(m) \notin {"rest", "ready"}
    /\ advisory' = IF advisory = m THEN NoMigrator ELSE advisory
    /\ \/ At(m) = "drop" /\ builder[Hand(m)] = NoMigrator /\ index[Hand(m)] # "absent"
          /\ index' \in {[index EXCEPT ![Hand(m)] = s] : s \in {"invalid", "absent"}}
          /\ UNCHANGED builder
       \/ At(m) = "building"
          /\ builder' \in {[builder EXCEPT ![Hand(m)] = b] : b \in {NoMigrator, Orphan}}
          /\ UNCHANGED index
       \/ At(m) # "building" /\ UNCHANGED <<index, builder>>
    /\ broken' = IF m \in Indexing THEN broken \cup Todo(m) ELSE broken
    /\ alone' = alone \ {m}
    /\ migrator' = [migrator EXCEPT ![m] = Resting]
    /\ UNCHANGED <<elements, version, started>>

ServerEnds(i) ==
    /\ builder[i] = Orphan
    /\ builder' = [builder EXCEPT ![i] = NoMigrator]
    /\ index' = [index EXCEPT ![i] = "valid"] \/ UNCHANGED index
    /\ UNCHANGED <<elements, version, advisory, migrator, started, alone, broken>>

SchemaNext ==
    \/ \E m \in Migrator :
         \/ BeginMigration(m) \/ Check(m) \/ Lock(m) \/ CommitSchema(m)
         \/ ReadValidity(m) \/ Drop(m) \/ Create(m) \/ Built(m)
         \/ EndMigration(m) \/ FailMigration(m)
    \/ \E i \in Index : ServerEnds(i)

SchemaSpec == SchemaInit /\ [][SchemaNext]_migVars

-----------------------------------------------------------------------------
Place == {"rest", "check", "lock", "ddl", "read", "drop", "create", "building", "ready"}

SchemaTypeOK ==
    /\ elements \subseteq Element /\ version \in 0..Latest
    /\ index \in [Index -> {"absent", "invalid", "valid"}]
    /\ advisory \in Migrator \cup {NoMigrator}
    /\ builder \in [Index -> Migrator \cup {NoMigrator, Orphan}]
    /\ migrator \in [Migrator -> [at : Place, entry : {"none", "preflight", "fail_fast", "upgrade"},
                                  release : 1..Latest, next : Nat \ {0}]]
    /\ started \in Nat /\ alone \subseteq Migrator /\ broken \subseteq Index

(* The parts of the invariant.  Who is past the transaction found or made its  *)
(* schema, and stays in its list.                                              *)
PastTransaction ==
    \A m \in Migrator :
        /\ m \in Indexing \/ At(m) = "ready" => Current(m)
        /\ At(m) \in {"drop", "create", "building"} => Hand(m) \in Listed(ReleaseOf(m))

(* An index has its table; one under construction is not valid, and the process *)
(* that builds it stands at it.                                                 *)
BuildsExact ==
    /\ \A i \in Index : index[i] # "absent" => TableOf[i] \in elements
    /\ \A i \in Index : builder[i] # NoMigrator => index[i] = "invalid"
    /\ \A m \in Migrator : At(m) = "building" => builder[Hand(m)] = m
    /\ \A i \in Index : builder[i] \in Migrator =>
           At(builder[i]) = "building" /\ Hand(builder[i]) = i

(* A leftover is one that somebody failed on, and an index that does not serve *)
(* yet is still to come for some process.                                      *)
LeftOversKnown ==
    \A i \in Index \ broken : index[i] = "invalid" => builder[i] \in Migrator
IndexesOwed ==
    \A i \in Listed(version) \ broken :
        index[i] = "valid" \/ \E m \in Indexing : i \in Todo(m)

(* Who was never joined has made valid what lies behind it. *)
AloneRepairs ==
    \A m \in alone :
        /\ Indexing = {m}
        /\ \A i \in Listed(ReleaseOf(m)) : i < Hand(m) => index[i] = "valid"
        /\ At(m) = "create" => index[Hand(m)] = "absent"

SchemaInv ==
    SchemaTypeOK /\ PastTransaction /\ BuildsExact /\ LeftOversKnown /\ IndexesOwed
    /\ AloneRepairs

(* A process that got through has every table and column of its release, also  *)
(* when another release migrated before or after it.  And once nobody is       *)
(* building, the indexes of the recorded version serve, whatever rivals did to *)
(* each other's builds, except those a process failed on; and those too once   *)
(* an upgrade has gone through them alone (migrate.py: "an invalid one is      *)
(* dropped (concurrently) and rebuilt. A concurrent migrator racing the same   *)
(* build is tolerated").                                                       *)
SchemaSettles ==
    /\ \A m \in Migrator : At(m) = "ready" => Current(m)
    /\ Indexing = {} =>
           \A i \in Listed(version) \ broken : index[i] = "valid"
=============================================================================
