----------------------------- MODULE DailySnapshot -----------------------------
(***************************************************************************)
(* opportunity/snapshot.py: the immutable daily snapshot of the Opportunity *)
(* Board, which each run of the snapshot command tries to freeze.           *)
(***************************************************************************)
EXTENDS Integers

CONSTANTS Run,     \* runs of the command
          LastDate \* bound on the date

VARIABLES today, \* the date
          gen,   \* per run: the date its board was built for and the one it freezes
          frozen \* the rows [date, built, run]; the date is the primary key
dVars == <<today, gen, frozen>>

DInit ==
    /\ today = 0
    /\ gen = [r \in Run |-> [pc |-> "idle", built |-> -1, date |-> -1]]
    /\ frozen = {}

SnapshotsOf(date) == {s \in frozen : s.date = date}

(* run_daily_snapshot builds the board first. *)
BuildDaily(r) ==
    /\ gen[r].pc = "idle"
    /\ gen' = [gen EXCEPT ![r] = [@ EXCEPT !.pc = "built", !.built = today]]
    /\ UNCHANGED <<today, frozen>>

(* The builder raises and nothing is frozen. *)
BuildDailyFails(r) ==
    /\ gen[r].pc = "idle" /\ gen' = [gen EXCEPT ![r].pc = "failed"]
    /\ UNCHANGED <<today, frozen>>

(* generate_snapshot takes the date and returns the row it finds. *)
LookUp(r) ==
    /\ gen[r].pc = "built"
    /\ gen' = [gen EXCEPT ![r] = [@ EXCEPT !.date = today,
                   !.pc = IF SnapshotsOf(today) = {} THEN "insert" ELSE "done"]]
    /\ UNCHANGED <<today, frozen>>

(* An insert that replaces the row of its date. *)
InsertsOver(r) == TRUE

(* Of two runs that found no row the primary key lets one commit. *)
Inserts(r) == SnapshotsOf(gen[r].date) = {}

Insert(r) ==
    /\ gen[r].pc = "insert"
    /\ frozen' = IF Inserts(r)
                 THEN (frozen \ SnapshotsOf(gen[r].date))
                        \cup {[date |-> gen[r].date, built |-> gen[r].built, run |-> r]}
                 ELSE frozen
    /\ gen' = [gen EXCEPT ![r].pc = IF Inserts(r) THEN "done" ELSE "failed"]
    /\ UNCHANGED today

DAdvance == today < LastDate /\ today' = today + 1 /\ UNCHANGED <<gen, frozen>>

DNext ==
    \/ \E r \in Run : BuildDaily(r) \/ BuildDailyFails(r) \/ LookUp(r) \/ Insert(r)
    \/ DAdvance

-----------------------------------------------------------------------------
(* "The first run for a date freezes that day's top-N board; later runs for the *)
(* same date return the stored snapshot unchanged" (snapshot.py:3): a row once  *)
(* there stays as it is, whichever of two overlapping runs commits second.      *)
SnapshotFrozen ==
    [][\A s \in frozen : {f \in frozen' : f.date = s.date} = {s}]_dVars

(* The primary key. *)
OnePerDate == \A r, s \in frozen : r.date = s.date => r = s

=============================================================================
