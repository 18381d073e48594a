---------------------------- MODULE CohortFreeze ----------------------------
(***************************************************************************)
(* Frozen research cohorts and the scans they came from.  Three writers    *)
(* share the database: complete scans are appended, a tick of one group    *)
(* freezes one cohort per period from the latest complete scan             *)
(* (discovery/cohort_from_scan.py, evaluation/research_engine.py), a tick  *)
(* of another group prunes old scans (scheduler/retention.py).  Each reads *)
(* in one transaction step what it acts upon in a later one.               *)
(*                                                                         *)
(* A scan is named by its start; one cadence is modelled, with clock 0 on  *)
(* a boundary.                                                             *)
(***************************************************************************)
EXTENDS Integers

CONSTANTS Freezer,  \* calls of freeze_cohort_from_scan
          Manual,   \* those by hand or with --force: no due check, no deadline
          Pruner,   \* calls of run_retention
          Period,   \* the cadence
          Deadline, \* tick_hard_deadline_seconds: bounds scans and ticks
          Window,   \* signal_history_retention_days
          Horizon   \* bound on the clock

ASSUME ProcessAssumption == Manual \subseteq Freezer

(* config.py: research_freeze_cadences is "6h", the shortest retention window *)
(* two days, a tick's hard deadline 35 minutes.  A cadence as long as the     *)
(* window would break this, and with it ProvenanceKept.                       *)
ASSUME WindowAssumption ==
    /\ Period \in Nat \ {0} /\ Deadline \in Nat /\ Window \in Nat /\ Horizon \in Nat
    /\ Period + Deadline <= Window

VARIABLES clock,
          scans,     \* the stored scans
          complete,  \* the starts whose scan is complete (pagination_complete)
          cohorts,   \* the frozen cohorts
          fpc, fnow, \* each freezer: where it is, its tick's `now`
          pick,      \* the scan it is going to freeze from
          rpc, rnow, \* each pruner: where it is, its tick's `now`
          protected, \* the scans it is not going to prune
          doomed,    \* the scans it is going to prune
          newest     \* history: the newest complete scan ever recorded, or -1

scanVars == <<scans, complete, newest>>
freezeVars == <<cohorts, fpc, fnow, pick>>
pruneVars == <<rpc, rnow, protected, doomed>>
vars == <<clock, scanVars, freezeVars, pruneVars>>

Cohort == [cutoff : Nat, scan : Nat, scheduled : BOOLEAN]

TypeOK ==
    /\ clock \in Nat
    /\ scans \in SUBSET Nat /\ complete \in SUBSET Nat
    /\ cohorts \in SUBSET Cohort
    /\ fpc \in [Freezer -> {"idle", "check", "pick", "load", "commit", "done"}]
    /\ fnow \in [Freezer -> Nat] /\ pick \in [Freezer -> Nat]
    /\ rpc \in [Pruner -> {"idle", "refs", "latest", "select", "prune", "done"}]
    /\ rnow \in [Pruner -> Nat]
    /\ protected \in [Pruner -> SUBSET Nat] /\ doomed \in [Pruner -> SUBSET Nat]
    /\ newest \in Nat \cup {-1}

Init ==
    /\ clock = 0
    /\ scans = {} /\ complete = {} /\ newest = -1
    /\ cohorts = {}
    /\ fpc = [f \in Freezer |-> "idle"]
    /\ fnow = [f \in Freezer |-> 0] /\ pick = [f \in Freezer |-> 0]
    /\ rpc = [r \in Pruner |-> "idle"]
    /\ rnow = [r \in Pruner |-> 0]
    /\ protected = [r \in Pruner |-> {}] /\ doomed = [r \in Pruner |-> {}]

-----------------------------------------------------------------------------
(* record_scan: one commit, a while after the scan's start. *)
RecordScan ==
    /\ \E s \in 0 .. clock :
         /\ clock - s <= Deadline
         /\ s \notin scans
         /\ scans' = scans \cup {s}
         /\ \/ /\ complete' = complete \cup {s}
               /\ newest' = IF s > newest THEN s ELSE newest
            \/ s \notin complete /\ UNCHANGED <<complete, newest>>
    /\ UNCHANGED <<clock, freezeVars, pruneVars>>

Stored == scans \cap complete

(* latest_complete_scan, when there is one. *)
IsLatest(s) == s \in Stored /\ \A u \in Stored : u <= s

(* cadence_cutoff: down to the cadence boundary. *)
Cutoff(t) == t - (t % Period)

Frozen(k) == \E c \in cohorts : c.cutoff = k

(* The call returns or raises; what it had read is gone. *)
EndFreeze(f) ==
    /\ fpc' = [fpc EXCEPT ![f] = "done"]
    /\ fnow' = [fnow EXCEPT ![f] = 0] /\ pick' = [pick EXCEPT ![f] = 0]

StartTick(f) ==
    /\ fpc[f] = "idle"
    /\ fpc' = [fpc EXCEPT ![f] = IF f \in Manual THEN "pick" ELSE "check"]
    /\ fnow' = [fnow EXCEPT ![f] = clock]
    /\ UNCHANGED <<clock, scanVars, cohorts, pick, pruneVars>>

(* _freeze_due_cadences' test of the latest complete scan s at time t. *)
Due(s, t) == s >= Cutoff(t) /\ ~Frozen(Cutoff(t))

(* _freeze_due_cadences: an in-period scan is there and no cohort yet. *)
CheckDue(f) ==
    /\ fpc[f] = "check"
    /\ \/ /\ \E s \in scans : IsLatest(s) /\ Due(s, fnow[f])
          /\ fpc' = [fpc EXCEPT ![f] = "pick"]
          /\ UNCHANGED <<fnow, pick>>
       \/ /\ \A s \in scans : IsLatest(s) => ~Due(s, fnow[f])
          /\ EndFreeze(f)
    /\ UNCHANGED <<clock, scanVars, cohorts, pruneVars>>

(* freeze_cohort_from_scan looks the latest complete scan up again; by hand it *)
(* may be told which scan to take.  No scan, or an incomplete one: refused.    *)
PickScan(f) ==
    /\ fpc[f] = "pick"
    /\ \/ \E s \in Stored :
            /\ f \in Manual \/ IsLatest(s)
            /\ pick' = [pick EXCEPT ![f] = s]
            /\ fpc' = [fpc EXCEPT ![f] = "load"]
            /\ UNCHANGED fnow
       \/ (f \in Manual \/ Stored = {}) /\ EndFreeze(f)
    /\ UNCHANGED <<clock, scanVars, cohorts, pruneVars>>

(* It loads the scan's snapshots, and gives up when there are none: the scan *)
(* is gone or has analysed nothing.                                          *)
LoadRows(f) ==
    /\ fpc[f] = "load"
    /\ \/ /\ pick[f] \in scans
          /\ fpc' = [fpc EXCEPT ![f] = "commit"]
          /\ UNCHANGED <<fnow, pick>>
       \/ EndFreeze(f)
    /\ UNCHANGED <<clock, scanVars, cohorts, pruneVars>>

(* What freeze_from_inputs writes: the cohort of the scan's own period. *)
NewCohort(f) ==
    [cutoff |-> Cutoff(pick[f]), scan |-> pick[f], scheduled |-> f \notin Manual]

(* freeze_from_inputs: cohort, entries and the frozen flag in one transaction. *)
(* A cohort that is there, or a rival that wins the unique (cadence, cutoff),  *)
(* makes it a no-op.                                                           *)
MayCreate(k) == ~Frozen(k)

Commit(f) ==
    /\ fpc[f] = "commit"
    /\ EndFreeze(f)
    /\ \/ MayCreate(Cutoff(pick[f])) /\ cohorts' = cohorts \cup {NewCohort(f)}
       \/ ~MayCreate(Cutoff(pick[f])) /\ UNCHANGED cohorts
    /\ UNCHANGED <<clock, scanVars, pruneVars>>

(* An error or the end of the process before the commit leaves nothing. *)
AbortFreeze(f) ==
    /\ fpc[f] \in {"check", "pick", "load", "commit"}
    /\ EndFreeze(f)
    /\ UNCHANGED <<clock, scanVars, cohorts, pruneVars>>

-----------------------------------------------------------------------------
EndRetention(r) ==
    /\ rpc' = [rpc EXCEPT ![r] = "done"]
    /\ rnow' = [rnow EXCEPT ![r] = 0]
    /\ protected' = [protected EXCEPT ![r] = {}]
    /\ doomed' = [doomed EXCEPT ![r] = {}]

StartRetention(r) ==
    /\ rpc[r] = "idle"
    /\ rpc' = [rpc EXCEPT ![r] = "refs"]
    /\ rnow' = [rnow EXCEPT ![r] = clock]
    /\ UNCHANGED <<clock, scanVars, freezeVars, protected, doomed>>

(* _cohort_referenced_scan_ids; a mutant that looks at nothing. *)
NoReference == {}

Referenced == {c.scan : c \in cohorts}

ReadReferences(r) ==
    /\ rpc[r] = "refs"
    /\ rpc' = [rpc EXCEPT ![r] = "latest"]
    /\ protected' = [protected EXCEPT ![r] = Referenced]
    /\ UNCHANGED <<clock, scanVars, freezeVars, rnow, doomed>>

(* The scan that is current product state; a mutant that takes the latest of *)
(* any kind for it.                                                          *)
CurrentOfAnyKind == {s \in scans : \A u \in scans : u <= s}

Current == {s \in scans : IsLatest(s)}

ReadLatest(r) ==
    /\ rpc[r] = "latest"
    /\ rpc' = [rpc EXCEPT ![r] = "select"]
    /\ protected' = [protected EXCEPT ![r] = @ \cup Current]
    /\ UNCHANGED <<clock, scanVars, freezeVars, rnow, doomed>>

(* The candidates: older than the window. *)
SelectCandidates(r) ==
    /\ rpc[r] = "select"
    /\ rpc' = [rpc EXCEPT ![r] = "prune"]
    /\ doomed' = [doomed EXCEPT ![r] =
                    {s \in scans : s < rnow[r] - Window} \ protected[r]]
    /\ UNCHANGED <<clock, scanVars, freezeVars, rnow, protected>>

(* One commit deletes them, except those that could not be archived first. *)
Prune(r) ==
    /\ rpc[r] = "prune"
    /\ EndRetention(r)
    /\ \E kept \in SUBSET doomed[r] : scans' = scans \ (doomed[r] \ kept)
    /\ UNCHANGED <<clock, complete, newest, freezeVars>>

AbortRetention(r) ==
    /\ rpc[r] \in {"refs", "latest", "select", "prune"}
    /\ EndRetention(r)
    /\ UNCHANGED <<clock, scanVars, freezeVars>>

(* Ticks are over by their hard deadline; who freezes by hand has all day. *)
Advance ==
    /\ clock < Horizon
    /\ \A f \in Freezer \ Manual :
         fpc[f] \in {"check", "pick", "load", "commit"} => clock < fnow[f] + Deadline
    /\ \A r \in Pruner :
         rpc[r] \in {"refs", "latest", "select", "prune"} => clock < rnow[r] + Deadline
    /\ clock' = clock + 1
    /\ UNCHANGED <<scanVars, freezeVars, pruneVars>>

Next ==
    \/ Advance \/ RecordScan
    \/ \E f \in Freezer :
         \/ StartTick(f) \/ CheckDue(f) \/ PickScan(f) \/ LoadRows(f)
         \/ Commit(f) \/ AbortFreeze(f)
    \/ \E r \in Pruner :
         \/ StartRetention(r) \/ ReadReferences(r) \/ ReadLatest(r)
         \/ SelectCandidates(r) \/ Prune(r) \/ AbortRetention(r)

Spec == Init /\ [][Next]_vars

-----------------------------------------------------------------------------
(* The scan a scheduled cohort was frozen from is never pruned, not even by a *)
(* retention pass that read the references before the cohort was committed    *)
(* (retention.py: "permanent provenance, never pruned").                      *)
ProvenanceKept ==
    \A c \in cohorts : c.scheduled => c.scan \in scans

(* The newest complete scan outlives every retention pass, whatever its age *)
(* (retention.py: "Never prune the latest complete scan").                  *)
NewestKept == newest # -1 => newest \in scans

(* A period gets one cohort, ever: of several freezers that found it due at *)
(* most one creates it (research_engine.py: "Idempotently create the        *)
(* (cadence, cutoff) cohort").                                              *)
OneCohortPerPeriod ==
    \A c, d \in cohorts : c.cutoff = d.cutoff => c = d

(* A scheduled freezer never writes into a period that is over when its tick *)
(* starts, although it looks the scan up again after the due check (tick.py: *)
(* "cannot freeze without look-ahead").                                      *)
NoBackfill ==
    \A f \in Freezer \ Manual :
        fpc[f] = "commit" => Cutoff(pick[f]) >= Cutoff(fnow[f])

-----------------------------------------------------------------------------
(* The inductive strengthening.  A scheduled freezer works within its tick's   *)
(* deadline on a stored scan that is not older than the period its tick is in; *)
Freezing(f) == fpc[f] \in {"check", "pick", "load", "commit"}

FreezersCurrent ==
    \A f \in Freezer \ Manual :
        /\ Freezing(f) => fnow[f] <= clock /\ clock <= fnow[f] + Deadline
        /\ fpc[f] = "pick" => \E s \in Stored : s >= Cutoff(fnow[f])
        /\ fpc[f] \in {"load", "commit"} =>
              pick[f] \in Stored /\ pick[f] >= Cutoff(fnow[f])

(* a scan a pruner may still doom is older than its window, so it is neither *)
(* the scan of a scheduled cohort nor the newest one, unless that was read;  *)
Spared(r, s) == s \in protected[r] \/ s >= rnow[r] - Window

PrunersAware ==
    \A r \in Pruner :
        /\ rpc[r] # "idle" => rnow[r] <= clock
        /\ rpc[r] \in {"latest", "select"} =>
              \A c \in cohorts : c.scheduled => Spared(r, c.scan)
        /\ rpc[r] = "select" /\ newest # -1 => Spared(r, newest)
        /\ rpc[r] = "prune" =>
              /\ \A s \in doomed[r] : s < rnow[r] - Window
              /\ \A c \in cohorts : c.scheduled => c.scan \notin doomed[r]
              /\ newest \notin doomed[r]

(* newest is the latest complete scan, and a cohort is filed under the period of *)
(* its scan.                                                                     *)
NewestIsLatest ==
    /\ \A s \in complete : s <= newest
    /\ newest # -1 => newest \in complete

CohortsFiled == \A c \in cohorts : c.cutoff = Cutoff(c.scan)

IInv == /\ TypeOK /\ FreezersCurrent /\ PrunersAware /\ NewestIsLatest /\ CohortsFiled
        /\ ProvenanceKept /\ NewestKept /\ OneCohortPerPeriod
=============================================================================
