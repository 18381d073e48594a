--------------------------------- MODULE Alerts ---------------------------------
(***************************************************************************)
(* Immediate alerts (alerts/service.py and alerts/user_alerts.py) to the   *)
(* users who want them and to the operator's one recipient, who is told of *)
(* every card that passes the gates.  A run loads the recipients with      *)
(* their preferences once and works with those; for every card and         *)
(* recipient it looks for a recent delivery, sends with retries, and       *)
(* records the outcome.  A run takes the time when it begins and reckons   *)
(* and records with that, however late it sends.  Runs may overlap, an     *)
(* answer of the mail provider may be lost, and a process may end between  *)
(* any two of these steps.                                                 *)
(***************************************************************************)
EXTENDS Integers, Sequences, FiniteSets

CONSTANTS User, Operator, Card, Run,
          Cooldown,   \* cooldown_hours
          MaxRetries, \* max_retries
          MaxRuns,    \* bound: runs ever started
          AHorizon    \* bound on the clock

Recipient == User \cup {Operator}

ASSUME AlertsAssumption == Operator \notin User /\ Cooldown \in Nat /\ MaxRetries \in Nat

VARIABLES
    anow,
    user,       \* per user: [verified, wants]; wants is empty unless email is on, and
                \* while it is paused or unsubscribed
    run,        \* per process: [at, todo, wants, mode, pair, tries]; at 0: not running
    runs,       \* runs started
    delivery,   \* alert_deliveries and alert_history: [to, card, status, at]
    mailed,     \* history: emails that arrived, in order: [to, card, at, began, run];
                \* at: when it was sent, began: when its run took its time
    unrecorded, \* history: what arrived without being recorded as sent
    runsMet     \* history: two runs were in progress at once

aVars == <<anow, user, run, runs, delivery, mailed, unrecorded, runsMet>>

NoPair == [none |-> TRUE]
Idle == [at |-> 0, id |-> 0, todo |-> {}, wants |-> <<>>, mode |-> "off", pair |-> NoPair,
         tries |-> 0]

AInit ==
    /\ anow = 1
    /\ user = [u \in User |-> [verified |-> FALSE, wants |-> {}]]
    /\ run = [r \in Run |-> Idle] /\ runs = 0
    /\ delivery = {} /\ mailed = <<>>
    /\ unrecorded = {} /\ runsMet = FALSE

-----------------------------------------------------------------------------
(* What users do: confirm their address, save their preferences, leave. *)
Confirm(u) ==
    /\ u \in DOMAIN user /\ ~user[u].verified
    /\ user' = [user EXCEPT ![u].verified = TRUE]
    /\ UNCHANGED <<anow, run, runs, delivery, mailed, unrecorded, runsMet>>

(* update_preferences, on a row that get_or_create_preferences makes sure of. *)
Prefer(u) ==
    /\ u \in DOMAIN user
    /\ \E wants \in (SUBSET Card) \ {user[u].wants} : user' = [user EXCEPT ![u].wants = wants]
    /\ UNCHANGED <<anow, run, runs, delivery, mailed, unrecorded, runsMet>>

(* delete_account: their deliveries go with them. *)
LeaveService(u) ==
    /\ u \in DOMAIN user
    /\ user' = [v \in DOMAIN user \ {u} |-> user[v]]
    /\ delivery' = {d \in delivery : d.to # u}
    /\ UNCHANGED <<anow, run, runs, mailed, unrecorded, runsMet>>

-----------------------------------------------------------------------------
(* _eligible_users *)
EligibleUsers == {u \in DOMAIN user : user[u].verified /\ user[u].wants # {}}

(* user_matches, for the preferences as they were read.  They cannot come to *)
(* bar a card that the floor of base_quality_ok let through.                 *)
Matching(u) == IF u = Operator THEN Card ELSE user[u].wants

(* process_board of either service: cards is what is high priority and of good *)
(* enough quality, for the operator or for the users.                          *)
BeginRun(r) ==
    /\ run[r].at = 0 /\ runs < MaxRuns
    /\ \E cards \in SUBSET Card, mode \in {"test", "send"},
          to \in {{Operator}, EligibleUsers} :
         /\ run' = [run EXCEPT ![r] =
              [at |-> anow, id |-> runs + 1, todo |-> cards \X to,
               wants |-> [u \in to |-> Matching(u)], mode |-> mode, pair |-> NoPair,
               tries |-> 0]]
    /\ runs' = runs + 1
    /\ runsMet' = (runsMet \/ \E q \in Run : run[q].at # 0)
    /\ UNCHANGED <<anow, user, delivery, mailed, unrecorded>>

(* mutant of Recent: a delivery exactly as long ago as the cooldown is too old  *)
RecentButOne(r, c, u) ==
    \E d \in delivery : d.to = u /\ d.card = c /\ d.status \in {"sent", "test"}
                        /\ d.at > run[r].at - Cooldown

(* _recent_send and _recent_delivery *)
Recent(r, c, u) ==
    \E d \in delivery : d.to = u /\ d.card = c /\ d.status \in {"sent", "test"}
                        /\ d.at >= run[r].at - Cooldown

(* process_card and process_card_for_user up to the email. *)
Consider(r, c, u) ==
    /\ run[r].pair = NoPair /\ <<c, u>> \in run[r].todo
    /\ run' = [run EXCEPT ![r].todo = @ \ {<<c, u>>},
                          ![r].pair = IF c \in run[r].wants[u] /\ ~Recent(r, c, u)
                                      THEN [card |-> c, to |-> u] ELSE NoPair,
                          ![r].tries = 0]
    /\ UNCHANGED <<anow, user, runs, delivery, mailed, unrecorded, runsMet>>

Sending(r) == run[r].pair # NoPair /\ run[r].mode = "send" /\ run[r].tries <= MaxRetries
Arrive(r) ==
    mailed' = Append(mailed, [to |-> run[r].pair.to, card |-> run[r].pair.card,
                              at |-> anow, began |-> run[r].at, run |-> run[r].id])
Mailed(r) == \E i \in DOMAIN mailed : mailed[i].run = run[r].id
                 /\ mailed[i].to = run[r].pair.to /\ mailed[i].card = run[r].pair.card

(* _record commits a row of its own; the foreign key refuses one of a user who *)
(* has left, which ends the run.                                               *)
Record(r, status) ==
    LET p == run[r].pair
    IN IF p.to = Operator \/ p.to \in DOMAIN user
       THEN /\ delivery' = delivery \cup
                  {[to |-> p.to, card |-> p.card, status |-> status, at |-> run[r].at]}
            /\ run' = [run EXCEPT ![r].pair = NoPair]
       ELSE run' = [run EXCEPT ![r] = Idle] /\ UNCHANGED delivery

(* The provider takes the email, and says so. *)
SendOk(r) ==
    /\ Sending(r) /\ Arrive(r) /\ Record(r, "sent")
    /\ UNCHANGED <<anow, user, runs, unrecorded, runsMet>>

(* It fails, or the answer is lost; the attempt is repeated at once. *)
SendFails(r) ==
    /\ Sending(r)
    /\ Arrive(r) \/ UNCHANGED mailed
    /\ run' = [run EXCEPT ![r].tries = @ + 1]
    /\ UNCHANGED <<anow, user, runs, delivery, unrecorded, runsMet>>

NoteUnrecorded(r) ==
    unrecorded' = IF run[r].pair # NoPair /\ Mailed(r)
                  THEN unrecorded \cup {run[r].pair} ELSE unrecorded

RecordFailed(r) ==
    /\ run[r].pair # NoPair /\ run[r].tries > MaxRetries
    /\ Record(r, "failed") /\ NoteUnrecorded(r)
    /\ UNCHANGED <<anow, user, runs, mailed, runsMet>>

RecordTest(r) ==
    /\ run[r].pair # NoPair /\ run[r].mode = "test"
    /\ Record(r, "test")
    /\ UNCHANGED <<anow, user, runs, mailed, unrecorded, runsMet>>

(* The run has been through its board, or its process ends. *)
End(r) ==
    /\ run[r].at # 0
    /\ run' = [run EXCEPT ![r] = Idle]
    /\ NoteUnrecorded(r)
    /\ UNCHANGED <<anow, user, runs, delivery, mailed, runsMet>>

AAdvance ==
    /\ anow < AHorizon /\ anow' = anow + 1
    /\ UNCHANGED <<user, run, runs, delivery, mailed, unrecorded, runsMet>>

ANext ==
    \/ AAdvance
    \/ \E u \in User : Confirm(u) \/ Prefer(u) \/ LeaveService(u)
    \/ \E r \in Run :
         \/ BeginRun(r) \/ SendOk(r) \/ SendFails(r) \/ RecordFailed(r)
         \/ RecordTest(r) \/ End(r)
         \/ \E c \in Card, u \in Recipient : Consider(r, c, u)

ASpec == AInit /\ [][ANext]_aVars

-----------------------------------------------------------------------------
(* The cooldown between the emails of two runs: it is over between their       *)
(* beginnings, and between the emails but for what the first run took to send. *)
CooledDown(e, f) ==
    /\ f.began - e.began > Cooldown
    /\ f.at - e.at > Cooldown - (e.at - e.began)

(* Two runs that tell somebody of the same market have let the cooldown pass,  *)
(* unless the runs overlapped, the first one's email arrived but was never     *)
(* recorded as sent, or the account and its deliveries were deleted in between *)
(* (service.py: "A per-market cooldown deduplicates repeat alerts").           *)
OneAlertPerCooldown ==
    \A i, j \in DOMAIN mailed :
        LET e == mailed[i]
            f == mailed[j]
        IN  /\ e.run < f.run /\ e.to = f.to /\ e.card = f.card
            /\ ~runsMet /\ e.to \in DOMAIN user \cup {Operator}
            => CooledDown(e, f) \/ [card |-> e.card, to |-> e.to] \in unrecorded

-----------------------------------------------------------------------------
Pairs == [card : Card, to : Recipient]

RunRecord ==
    [at : Nat, id : Nat, todo : SUBSET (Card \X Recipient),
     wants : UNION {[to -> SUBSET Card] : to \in SUBSET Recipient},
     mode : {"off", "test", "send"}, pair : Pairs \cup {NoPair}, tries : Nat]
Email == [to : Recipient, card : Card, at : Nat, began : Nat, run : Nat]

AlertsTypeOK ==
    /\ anow \in Nat \ {0} /\ runs \in Nat /\ runsMet \in BOOLEAN
    /\ DOMAIN user \subseteq User
    /\ user \in [DOMAIN user -> [verified : BOOLEAN, wants : SUBSET Card]]
    /\ run \in [Run -> RunRecord]
    /\ delivery \subseteq [to : Recipient, card : Card, status : {"sent", "failed", "test"},
                          at : Nat]
    /\ mailed \in Seq(Email)
    /\ unrecorded \subseteq Pairs

PairOf(e) == [card |-> e.card, to |-> e.to]
Reachable == DOMAIN user \cup {Operator}

(* Runs are numbered as they begin, and while they do not meet the one in *)
(* progress is the last one.                                              *)
RunsInTurn ==
    /\ \A r \in Run : run[r].id <= runs
    /\ \A r \in Run : run[r].at = 0 => run[r].pair = NoPair /\ run[r].todo = {}
    /\ \A r \in Run : run[r].at <= anow
    /\ \A i \in DOMAIN mailed : mailed[i].run <= runs /\ mailed[i].began <= mailed[i].at
    /\ ~runsMet => \A r \in Run : run[r].at # 0 =>
                      run[r].id = runs /\ \A q \in Run : run[q].at # 0 => q = r

(* An email that arrived is recorded as sent or known not to be, or its run is *)
(* still at it.                                                                *)
EmailsAccounted ==
    \A i \in DOMAIN mailed :
        LET e == mailed[i]
        IN  e.to \in Reachable =>
               \/ PairOf(e) \in unrecorded
               \/ \E d \in delivery : /\ d.to = e.to /\ d.card = e.card
                                      /\ d.status = "sent" /\ d.at = e.began
               \/ \E r \in Run : /\ run[r].id = e.run /\ run[r].at = e.began
                                 /\ run[r].mode = "send" /\ run[r].pair = PairOf(e)

(* What a run is about to send has not arrived from an earlier one lately, *)
(* unless that was not recorded.                                           *)
PairIsFresh ==
    \A r \in Run, i \in DOMAIN mailed :
        /\ run[r].pair = PairOf(mailed[i]) /\ mailed[i].to \in Reachable
        /\ mailed[i].run < run[r].id /\ run[r].at - mailed[i].began <= Cooldown
        => PairOf(mailed[i]) \in unrecorded

AlertsInv ==
    /\ AlertsTypeOK /\ RunsInTurn /\ OneAlertPerCooldown
    /\ ~runsMet => EmailsAccounted /\ PairIsFresh
=============================================================================
