---------------------------- MODULE SchedulerTick ----------------------------
(***************************************************************************)
(* What a tick does while it holds its lease: run_tick visits its jobs in  *)
(* order, each behind a gate on the job's last recorded success, and books *)
(* the outcome of every visit with record_attempt (scheduler/tick.py,      *)
(* scheduler/state.py).  The jobs here are the ones gated by an interval:  *)
(* forward, preclose, resolve and retention.  Between ticks it relies on   *)
(* what ExclusiveSection promises, which TickLease delivers.               *)
(***************************************************************************)
EXTENDS ExclusiveSection, Sequences

CONSTANTS JobOrder, \* the jobs of a group, in the order run_tick visits them
          Interval  \* Interval[job]: the gate, in units of the clock

Never == -1           \* SQL NULL in last_success_at

Job == {JobOrder[i] : i \in DOMAIN JobOrder}

ASSUME TickAssumption ==
    NoTick \notin Tick /\ Horizon \in Nat /\ JobOrder \in Seq(Job)
    /\ Interval \in [Job -> Nat]

VARIABLES
    todo,        \* todo[t]: the selected jobs t has not finished visiting
    force,       \* force[t]: the --force argument
    step,        \* step[t]: where t is in _job(Head(todo[t]))
    outcome,     \* outcome[t]: what t is going to book
    saw,         \* saw[t]: the time record_attempt read before its SELECT
    summaryOk,   \* summaryOk[t]: the ok flag of run_tick's summary
    exit,        \* exit[t]: how the process ended: "zero", "nonzero", "none" yet
    lastSuccess, \* lastSuccess[j]: last_success_at of job j's row
    ranAt,       \* history: when the last real run of j was booked
    owed,        \* history: the due jobs begun and not booked as a success since
    open         \* history: open[t], the jobs t began and did not book so

localVars == <<todo, force, step, outcome, saw, summaryOk>>
bookVars == <<lastSuccess, ranAt, owed>>
tickVars == <<localVars, exit, bookVars, open>>
vars == <<sectionVars, tickVars>>

Outcomes == {"ran", "skipped", "failed"}

TickTypeOK ==
    /\ todo \in [Tick -> Seq(Job)]
    /\ force \in [Tick -> BOOLEAN] /\ summaryOk \in [Tick -> BOOLEAN]
    /\ step \in [Tick -> {"gate", "run", "read", "commit"}]
    /\ outcome \in [Tick -> Outcomes]
    /\ saw \in [Tick -> Nat]
    /\ exit \in [Tick -> {"none", "zero", "nonzero"}]
    /\ lastSuccess \in [Job -> Nat \cup {Never}]
    /\ ranAt \in [Job -> Nat \cup {Never}]
    /\ owed \in SUBSET Job /\ open \in [Tick -> SUBSET Job]

TickInit ==
    /\ SectionInit
    /\ todo = [t \in Tick |-> <<>>]
    /\ force = [t \in Tick |-> FALSE]
    /\ step = [t \in Tick |-> "gate"]
    /\ outcome = [t \in Tick |-> "ran"]
    /\ saw = [t \in Tick |-> 0]
    /\ summaryOk = [t \in Tick |-> TRUE]
    /\ exit = [t \in Tick |-> "none"]
    /\ lastSuccess = [j \in Job |-> Never]
    /\ ranAt = [j \in Job |-> Never]
    /\ owed = {}
    /\ open = [t \in Tick |-> {}]

(* --only picks one job of the group, otherwise the tick visits them all. *)
Selections == {JobOrder} \cup {<<j>> : j \in Job}

-----------------------------------------------------------------------------
(* The tick gets the group's lease, with a `now` of its own. *)
Begin(t) ==
    /\ \E g \in Group : Enter(t, g)
    /\ \E jobs \in Selections : todo' = [todo EXCEPT ![t] = jobs]
    /\ \E b \in BOOLEAN : force' = [force EXCEPT ![t] = b]
    /\ UNCHANGED <<step, outcome, saw, summaryOk, exit, bookVars, open>>

(* _due_by_interval: an elapsed time against the tick's `now`. *)
DueByInterval(last, interval, at) == last = Never \/ at - last >= interval

Working(t) == \E g \in Group : owner[g] = t

Visiting(t, at) == Working(t) /\ todo[t] # <<>> /\ step[t] = at

(* The gate of a job: skip it or begin its work. *)
Gate(t) ==
    /\ Visiting(t, "gate")
    /\ LET j == Head(todo[t]) IN
       \/ /\ force[t] \/ DueByInterval(lastSuccess[j], Interval[j], now[t])
          /\ step' = [step EXCEPT ![t] = "run"]
          /\ owed' = IF DueByInterval(lastSuccess[j], Interval[j], now[t])
                     THEN owed \cup {j} ELSE owed
          /\ open' = [open EXCEPT ![t] = @ \cup {j}]
          /\ UNCHANGED outcome
       \/ /\ ~force[t] /\ ~DueByInterval(lastSuccess[j], Interval[j], now[t])
          /\ step' = [step EXCEPT ![t] = "read"]
          /\ outcome' = [outcome EXCEPT ![t] = "skipped"]
          /\ UNCHANGED <<owed, open>>
    /\ UNCHANGED <<sectionVars, todo, force, saw, summaryOk, exit, lastSuccess,
                   ranAt>>

(* The job's coroutine returns, or raises: one job's failure is booked and *)
(* does not abort the others.                                              *)
RunJob(t) ==
    /\ Visiting(t, "run")
    /\ step' = [step EXCEPT ![t] = "read"]
    /\ \/ /\ outcome' = [outcome EXCEPT ![t] = "ran"]
          /\ UNCHANGED summaryOk
       \/ /\ outcome' = [outcome EXCEPT ![t] = "failed"]
          /\ summaryOk' = [summaryOk EXCEPT ![t] = FALSE]
    /\ UNCHANGED <<sectionVars, todo, force, saw, exit, bookVars, open>>

(* record_attempt reads the clock and the job's row. *)
RecordRead(t) ==
    /\ Visiting(t, "read")
    /\ step' = [step EXCEPT ![t] = "commit"]
    /\ saw' = [saw EXCEPT ![t] = clock]
    /\ UNCHANGED <<sectionVars, todo, force, outcome, summaryOk, exit, bookVars,
                   open>>

(* _job books "ok" for every coroutine that returned, a skip included; the *)
(* mutant does so for one that raised, too.                                *)
BookedAll(o) == o \in Outcomes

BookedOk(o) == o \in {"ran", "skipped"}

(* last_success_at after the booking. *)
SuccessAfter(t, j) == IF BookedOk(outcome[t]) THEN saw[t] ELSE lastSuccess[j]

(* record_attempt's bookkeeping and its commit; _job then moves on. *)
RecordCommit(t) ==
    /\ Visiting(t, "commit")
    /\ LET j == Head(todo[t]) IN
       /\ lastSuccess' = [lastSuccess EXCEPT ![j] = SuccessAfter(t, j)]
       /\ ranAt' = [ranAt EXCEPT ![j] = IF outcome[t] = "ran" THEN saw[t] ELSE @]
       /\ owed' = IF outcome[t] = "ran" THEN owed \ {j} ELSE owed
       /\ open' = [open EXCEPT ![t] = IF outcome[t] = "ran" THEN @ \ {j} ELSE @]
    /\ todo' = [todo EXCEPT ![t] = Tail(@)]
    /\ step' = [step EXCEPT ![t] = "gate"]
    /\ UNCHANGED <<sectionVars, force, outcome, saw, summaryOk, exit>>

(* run_tick leaves its section, the process ends and its local state with it. *)
EndTick(t, code) ==
    /\ \E g \in Group : owner[g] = t /\ Leave(g)
    /\ exit' = [exit EXCEPT ![t] = code]
    /\ force' = [force EXCEPT ![t] = FALSE]
    /\ step' = [step EXCEPT ![t] = "gate"]
    /\ outcome' = [outcome EXCEPT ![t] = "ran"]
    /\ saw' = [saw EXCEPT ![t] = 0]
    /\ summaryOk' = [summaryOk EXCEPT ![t] = TRUE]
    /\ UNCHANGED bookVars

(* The booking itself raises (a lost connection, or another group's tick  *)
(* inserting the same row).  The first time _job books a failure instead; *)
(* raised from there the error ends the tick.                             *)
RecordRaises(t) ==
    /\ Visiting(t, "commit")
    /\ \/ /\ outcome[t] # "failed"
          /\ outcome' = [outcome EXCEPT ![t] = "failed"]
          /\ step' = [step EXCEPT ![t] = "read"]
          /\ summaryOk' = [summaryOk EXCEPT ![t] = FALSE]
          /\ UNCHANGED <<sectionVars, todo, force, saw, exit, bookVars, open>>
       \/ /\ outcome[t] = "failed"
          /\ EndTick(t, "nonzero")
          /\ UNCHANGED <<todo, open>>

(* The exit code says whether a job failed; the mutant ends well anyway. *)
ExitZero(t) == "zero"

ExitCode(t) == IF summaryOk[t] THEN "zero" ELSE "nonzero"

(* The jobs are over. *)
Finish(t) ==
    /\ Working(t) /\ todo[t] = <<>>
    /\ EndTick(t, ExitCode(t))
    /\ UNCHANGED <<todo, open>>

(* _run's wait_for cancels the tick at the hard deadline and exits non-zero;  *)
(* the watchdog or a dying runner ends it the same way, only less gracefully. *)
CutShort(t) ==
    /\ Working(t)
    /\ EndTick(t, "nonzero")
    /\ UNCHANGED <<todo, open>>

TickNext ==
    \/ Pass /\ UNCHANGED tickVars
    \/ \E t \in Tick :
          \/ Begin(t) \/ Gate(t) \/ RunJob(t) \/ RecordRead(t) \/ RecordCommit(t)
          \/ RecordRaises(t) \/ Finish(t) \/ CutShort(t)

TickSpec == TickInit /\ [][TickNext]_vars

-----------------------------------------------------------------------------
Skips(t) == step[t] = "gate" /\ step'[t] = "read"

(* The last success of a job never moves back: the next tick of the group *)
(* starts from the newest booking (state.py: "one row per job").          *)
LastSuccessMonotone ==
    [][\A j \in Job : lastSuccess'[j] >= lastSuccess[j]]_vars

(* A tick that reports ok has booked a success for every job it began and *)
(* visited every selected one (tick.py: "Exit code is non-zero if any due *)
(* job failed, so the runner surfaces the failure").                      *)
ExitHonest ==
    \A t \in Tick :
        exit[t] = "zero" => open[t] = {} /\ todo[t] = <<>>

(* A failure shows: it reaches the exit code, and a due job that was begun *)
(* and failed, was cancelled or died with its process is not skipped by a  *)
(* later tick until it has succeeded (tick.py: "Missed tick -- the next    *)
(* wake catches up").                                                      *)
FailureShows ==
    [][/\ ExitHonest'
       /\ \A t \in Tick : Skips(t) => Head(todo[t]) \notin owed]_vars

(* A job is skipped only when it really ran less than its interval ago    *)
(* (tick.py: "do only what is DUE"; config.py: "run retention/maintenance *)
(* roughly once a day").                                                  *)
SkipsOnlyRecentWork ==
    [][\A t \in Tick :
         Skips(t) => LET j == Head(todo[t])
                     IN  now[t] - ranAt[j] < Interval[j]]_vars

-----------------------------------------------------------------------------
(* The invariants of the proofs.  A tick works in one section, which it has *)
(* entered, with a `now` that is past; a tick that never entered or has     *)
(* ended has nothing under way.                                             *)
WorkSound ==
    /\ \A g \in Group : owner[g] # NoTick => /\ owner[g] \in entered
                                             /\ now[owner[g]] <= clock
                                             /\ exit[owner[g]] = "none"
    /\ \A g, h \in Group : owner[g] = owner[h] /\ owner[g] # NoTick => g = h
    /\ \A t \in Tick : ~Working(t) => step[t] = "gate"
    /\ \A t \in Tick \ entered : exit[t] = "none" /\ todo[t] = <<>> /\ open[t] = {}
    /\ \A t \in Tick : todo[t] = <<>> => step[t] = "gate"

(* A tick with no failure so far has booked every job it began, but for the *)
(* one it is at.                                                            *)
BegunAreBooked ==
    \A t \in Tick :
        Working(t) /\ summaryOk[t] =>
            /\ step[t] \in {"read", "commit"} => outcome[t] # "failed"
            /\ \/ open[t] = {}
               \/ open[t] = {Head(todo[t])} /\ step[t] = "run"
               \/ open[t] = {Head(todo[t])} /\ step[t] \in {"read", "commit"}
                  /\ outcome[t] = "ran"

(* With one group: the bookings are past, the one under way is the newest... *)
BookingsPast ==
    /\ \A j \in Job : lastSuccess[j] <= clock
    /\ \A t \in Tick : Working(t) /\ step[t] = "commit" =>
           saw[t] <= clock /\ \A j \in Job : lastSuccess[j] <= saw[t]

(* ... and an owed job is due for the tick at work, or for the next one, so *)
(* the job that a tick is going to book as skipped is not owed.             *)
OwedAreDue(g) ==
    /\ \A j \in owed :
           DueByInterval(lastSuccess[j], Interval[j],
                         IF owner[g] = NoTick THEN left[g] + 1 ELSE now[owner[g]])
    /\ \A t \in Tick :
           Working(t) /\ step[t] \in {"read", "commit"} /\ outcome[t] = "skipped"
               => Head(todo[t]) \notin owed

TickInv == SectionTypeOK /\ TickTypeOK /\ WorkSound /\ BegunAreBooked /\ ExitHonest

OneGroupInv(g) == TickInv /\ BookingsPast /\ OwedAreDue(g)
=============================================================================
