---------------------------- MODULE DigestDelivery ----------------------------
(***************************************************************************)
(* The signal digest of one user (digest/service.py).  Runs are serialised *)
(* by the lease digest_delivery, taken with the same acquire_lease as the  *)
(* scheduler's: they build on ExclusiveSection.  A run may die between any *)
(* two commits; an email may have gone out although its answer was lost.   *)
(*                                                                         *)
(* The mail provider is external: it sends one email per idempotency key   *)
(* and forgets a key Idem after it accepted it.                            *)
(***************************************************************************)
EXTENDS ExclusiveSection, FiniteSets

CONSTANTS Scan,    \* the complete scans a digest may be built from
          Period,  \* the digest's frequency; windows begin at its multiples
          Idem,    \* the provider's idempotency window
          Retries, \* digest_max_retries
          Deadline \* timeout-minutes of the digest workflow: bounds a run

ASSUME DigestAssumption ==
    /\ Period \in Nat \ {0} /\ Idem \in Nat /\ Retries \in Nat /\ Deadline \in Nat
    /\ Horizon \in Nat /\ Scan # {}
    /\ NoTick \notin Tick

(* There is one digest lease. *)
ASSUME OneLease == \E g \in Group : Group = {g}

NotYet == -1         \* SQL NULL in last_attempt_at

VARIABLES subscribed, \* the user is active and wants this frequency
          deliv,      \* deliv[w]: the delivery row of window w
          mails,      \* mails[w]: the emails the provider sent for window w
          step,       \* step[t]: where run t is
          tries,      \* tries[t]: attempts that run has made
          ok          \* ok[t]: the answer to its last attempt

runVars == <<step, tries, ok>>
digestVars == <<subscribed, deliv, mails, runVars>>
vars == <<sectionVars, digestVars>>

(* window_start: down to the boundary, which names the window. *)
Boundary(n) == n - (n % Period)

Window == {Boundary(n) : n \in 0 .. Horizon}

Status == {"absent", "created", "sending", "failed", "sent", "skipped_empty", "uncertain"}

AnyScan == CHOOSE s \in Scan : TRUE
NoRow == [status |-> "absent", scan |-> AnyScan, last |-> NotYet]

DigestTypeOK ==
    /\ clock \in 0 .. Horizon
    /\ owner \in [Group -> Tick \cup {NoTick}]
    /\ now \in [Tick -> Nat]
    /\ left \in [Group -> Nat \cup {-1}]
    /\ subscribed \in BOOLEAN
    /\ deliv \in [Window -> [status : Status, scan : Scan, last : Nat \cup {NotYet}]]
    /\ mails \in [Window -> SUBSET [at : Nat, scan : Scan]]
    /\ step \in [Tick -> {"query", "snapshot", "send", "attempt", "request", "result"}]
    /\ tries \in [Tick -> Nat]
    /\ ok \in [Tick -> BOOLEAN]

DigestInit ==
    /\ SectionInit
    /\ subscribed = TRUE
    /\ deliv = [w \in Window |-> NoRow]
    /\ mails = [w \in Window |-> {}]
    /\ step = [t \in Tick |-> "query"]
    /\ tries = [t \in Tick |-> 0]
    /\ ok = [t \in Tick |-> FALSE]

(* due_window_key: the boundary before the run's `now`. *)
Due(t) == Boundary(now[t])

Running(t) == \E g \in Group : owner[g] = t

At(t, s) == Running(t) /\ step[t] = s

Goto(t, s) == step' = [step EXCEPT ![t] = s]

(* The delivery of window w gets a status and the time of its last attempt. *)
Book(w, status, last) ==
    deliv' = [deliv EXCEPT ![w] =
                [status |-> status, scan |-> deliv[w].scan, last |-> last]]

(* run_due releases the lease; what the run held in memory is gone. *)
EndRun(t) ==
    /\ \E g \in Group : owner[g] = t /\ Leave(g)
    /\ step' = [step EXCEPT ![t] = "query"]
    /\ tries' = [tries EXCEPT ![t] = 0]
    /\ ok' = [ok EXCEPT ![t] = FALSE]

-----------------------------------------------------------------------------
(* run_due takes its `now` and then the lease. *)
Begin(t) ==
    /\ \E g \in Group : Enter(t, g)
    /\ clock <= now'[t] + Deadline
    /\ UNCHANGED digestVars

(* A delivery that is settled. *)
Settled(s) == s \in {"sent", "skipped_empty", "uncertain"}

(* The query for users whose digest of this window is not settled. *)
Query(t) ==
    /\ At(t, "query")
    /\ \/ /\ subscribed /\ ~Settled(deliv[Due(t)].status)
          /\ Goto(t, "snapshot")
          /\ UNCHANGED <<sectionVars, tries, ok>>
       \/ /\ ~subscribed \/ Settled(deliv[Due(t)].status)
          /\ EndRun(t)
    /\ UNCHANGED <<subscribed, deliv, mails>>

(* _existing: the window has its row. *)
Existing(w) == deliv[w].status # "absent"

(* create_snapshot: the row there is, or a new one from the latest fresh   *)
(* complete scan, in one commit.  With no signal to report the delivery is *)
(* settled at once; with no fresh scan the window is left for a later run. *)
Snapshot(t) ==
    /\ At(t, "snapshot")
    /\ \/ /\ Existing(Due(t))
          /\ Goto(t, "send")
          /\ UNCHANGED <<sectionVars, deliv, tries, ok>>
       \/ /\ ~Existing(Due(t))
          /\ \E s \in Scan, status \in {"created", "skipped_empty"} :
               deliv' = [deliv EXCEPT ![Due(t)] =
                           [status |-> status, scan |-> s, last |-> NotYet]]
          /\ Goto(t, "send")
          /\ UNCHANGED <<sectionVars, tries, ok>>
       \/ ~Existing(Due(t)) /\ EndRun(t) /\ UNCHANGED deliv
    /\ UNCHANGED <<subscribed, mails>>

(* The last attempt is too old for the provider to recognise a repetition. *)
TooOld(t) ==
    LET last == deliv[Due(t)].last IN last # NotYet /\ now[t] - last >= Idem

(* send: stop at a settled delivery or an uncertain one, else start attempts. *)
Send(t) ==
    /\ At(t, "send")
    /\ \/ Settled(deliv[Due(t)].status) /\ EndRun(t) /\ UNCHANGED deliv
       \/ /\ ~Settled(deliv[Due(t)].status) /\ TooOld(t)
          /\ Book(Due(t), "uncertain", deliv[Due(t)].last)
          /\ EndRun(t)
       \/ /\ ~Settled(deliv[Due(t)].status) /\ ~TooOld(t)
          /\ Goto(t, "attempt")
          /\ UNCHANGED <<sectionVars, deliv, tries, ok>>
    /\ UNCHANGED <<subscribed, mails>>

(* An attempt is booked before it is made, at the run's `now`. *)
Attempt(t) ==
    /\ At(t, "attempt")
    /\ Goto(t, "request")
    /\ Book(Due(t), "sending", now[t])
    /\ tries' = [tries EXCEPT ![t] = @ + 1]
    /\ UNCHANGED <<sectionVars, subscribed, mails, ok>>

(* The provider still knows the key, which names the delivery and its window. *)
(* The mutant makes up a key for each attempt.                                *)
FreshKey(w, at) == FALSE

Known(w, at) == \E m \in mails[w] : at < m.at + Idem

Accepted(w, at) ==
    IF Known(w, at) THEN mails[w]
    ELSE mails[w] \cup {[at |-> at, scan |-> deliv[w].scan]}

(* The request is accepted and answered, accepted but the answer is lost, or *)
(* refused or never received.                                                *)
Request(t) ==
    /\ At(t, "request")
    /\ Goto(t, "result")
    /\ \/ /\ mails' = [mails EXCEPT ![Due(t)] = Accepted(Due(t), clock)]
          /\ \E b \in BOOLEAN : ok' = [ok EXCEPT ![t] = b]
       \/ /\ ok' = [ok EXCEPT ![t] = FALSE]
          /\ UNCHANGED mails
    /\ UNCHANGED <<sectionVars, subscribed, deliv, tries>>

(* The status an answer leads to. *)
StatusAfter(b) == IF b THEN "sent" ELSE "failed"

(* The answer is booked; a failure is retried within the run. *)
Result(t) ==
    /\ At(t, "result")
    /\ Book(Due(t), StatusAfter(ok[t]), deliv[Due(t)].last)
    /\ \/ /\ ~ok[t] /\ tries[t] <= Retries
          /\ Goto(t, "attempt")
          /\ UNCHANGED <<sectionVars, tries, ok>>
       \/ /\ ok[t] \/ tries[t] > Retries
          /\ EndRun(t)
    /\ UNCHANGED <<subscribed, mails>>

(* The runner dies, or an error ends the user's turn. *)
Crash(t) ==
    /\ Running(t)
    /\ EndRun(t)
    /\ UNCHANGED <<subscribed, deliv, mails>>

(* The user unsubscribes, by the link or the settings, or opts in again. *)
ChangePreference ==
    /\ subscribed' = ~subscribed
    /\ UNCHANGED <<sectionVars, deliv, mails, runVars>>

PassTime ==
    /\ Pass
    /\ \A t \in Tick : Running(t) => clock < now[t] + Deadline
    /\ UNCHANGED digestVars

DigestNext ==
    \/ PassTime \/ ChangePreference
    \/ \E t \in Tick :
         \/ Begin(t) \/ Query(t) \/ Snapshot(t) \/ Send(t)
         \/ Attempt(t) \/ Request(t) \/ Result(t) \/ Crash(t)

DigestSpec == DigestInit /\ [][DigestNext]_vars

-----------------------------------------------------------------------------
(* No window and the run that straddles its end outlast what the provider     *)
(* remembers: the six-hourly and the twice-daily digest.  A daily window is   *)
(* as long as that memory, a weekly one longer.                               *)
ShortWindow == Period + Deadline <= Idem

(* Claimed for every frequency: a user gets at most one email for a window,   *)
(* whatever dies or is lost and retried (accounts/models.py: "the provider    *)
(* idempotency key prevents a successful external send being repeated on      *)
(* retry").                                                                   *)
NoDuplicateEmail == \A w \in Window : Cardinality(mails[w]) <= 1

(* What holds whatever dies or is lost and retried: a window is mailed again  *)
(* only once the provider has forgotten the email before, and never later     *)
(* than by a run that began in it.  That leaves one email in a six-hourly or  *)
(* twice-daily window; in a daily one a second only from the run that outlives *)
(* the window; in a weekly one as many as the provider forgets.               *)
RepeatsOnlyForgotten ==
    \A w \in Window : \A m, n \in mails[w] :
        /\ w <= m.at /\ m.at < w + Period + Deadline
        /\ m = n \/ m.at + Idem <= n.at \/ n.at + Idem <= m.at

(* Every email of a window shows the snapshot of its delivery, retries by *)
(* later runs included (service.py: "A retry returns the original rows    *)
(* unchanged").                                                           *)
EmailsShowSnapshot ==
    \A w \in Window : \A m \in mails[w] : m.scan = deliv[w].scan

(* A digest the history shows as sent has gone out (service.py, *)
(* list_digest_history shows the rows with status sent).        *)
SentWasMailed ==
    \A w \in Window : deliv[w].status = "sent" => mails[w] # {}

(* A settled delivery stays as it is: no later run of the window, and no crash *)
(* in one, reopens it (service.py: "after it expires, stop automatically").    *)
SettledStays ==
    [][\A w \in Window :
         deliv[w].status \in {"sent", "skipped_empty", "uncertain"} =>
            deliv'[w] = deliv[w]]_vars

-----------------------------------------------------------------------------
(* The inductive strengthening: a run is alone and over by its deadline, *)
RunsTimely ==
    /\ \A s, t \in Tick : Running(s) /\ Running(t) => s = t
    /\ \A t \in Tick :
         /\ now[t] <= clock
         /\ Running(t) => clock <= now[t] + Deadline
         /\ step[t] # "query" => Running(t)

(* a run that goes on to send has its row and finds it unsettled, and a success *)
(* it has been told of is an email,                                             *)
RunsSound ==
    \A t \in Tick :
        /\ step[t] # "query" => deliv[Due(t)].status \notin {"sent", "uncertain"}
        /\ step[t] \in {"send", "attempt", "request", "result"} => Existing(Due(t))
        /\ step[t] \in {"attempt", "request", "result"} =>
              ~Settled(deliv[Due(t)].status)
        /\ step[t] = "result" /\ ok[t] => mails[Due(t)] # {}

(* and emails belong to a delivery and were sent by a run of their window.      *)
MailsSound ==
    \A w \in Window :
        /\ mails[w] # {} => Existing(w)
        /\ \A m \in mails[w] :
              w <= m.at /\ m.at <= clock /\ m.at < w + Period + Deadline

IInv ==
    /\ DigestTypeOK /\ RunsTimely /\ RunsSound /\ MailsSound
    /\ EmailsShowSnapshot /\ SentWasMailed
=============================================================================
