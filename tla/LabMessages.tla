------------------------------ MODULE LabMessages ------------------------------
(***************************************************************************)
(* The owner's messages to the autopilot on the Mac (lab/service.py).      *)
(* Every request to the API reads rows in one step and writes them, by     *)
(* their key and without a condition, in a later one; requests overlap,    *)
(* and one the client has given up on goes on in the server.               *)
(*                                                                         *)
(* The Mac is external: it fetches messages, appends each to an INBOX.md,  *)
(* once, and reports what has become of them until the API knows.          *)
(***************************************************************************)
EXTENDS Integers

CONSTANTS Message,
          Handler \* as many requests as are handled at a time

Report == {"delivered", "read", "failed"}
MessageStatus == {"unsent", "pending", "fetched", "cancelled"} \cup Report

VARIABLES
    status,     \* status[m]: the row of message m; "unsent": no row yet
    recent,     \* the messages fetched less than MESSAGE_REFETCH_AFTER ago
    op,         \* op[h]: the request handler h works on, "none" when free
    about,      \* about[h]: the messages it is about
    wants,      \* wants[h]: the state a status report wants
    saw,        \* saw[h]: the statuses it read
    held,       \* what the Mac has received and not yet written
    inbox,      \* what it has written to an inbox
    taken,      \* what the session has moved out of its inbox
    unwritable, \* what the Mac could not write
    overlapped, \* history: two requests that write have overlapped
    quiet       \* from now on requests and answers get through

handlerVars == <<op, about, wants, saw, overlapped>>
macVars == <<held, inbox, taken, unwritable>>
messageVars == <<status, recent, handlerVars, macVars, quiet>>

MessageTypeOK ==
    /\ status \in [Message -> MessageStatus]
    /\ op \in [Handler -> {"none", "cancel", "fetch", "report"}]
    /\ about \in [Handler -> SUBSET Message]
    /\ wants \in [Handler -> Report]
    /\ saw \in [Handler -> [Message -> MessageStatus]]
    /\ recent \cup held \cup inbox \cup taken \cup unwritable \subseteq Message
    /\ overlapped \in BOOLEAN /\ quiet \in BOOLEAN

AllUnsent == [m \in Message |-> "unsent"]

MessageInit ==
    /\ status = AllUnsent
    /\ recent = {}
    /\ op = [h \in Handler |-> "none"]
    /\ about = [h \in Handler |-> {}]
    /\ wants = [h \in Handler |-> "read"]
    /\ saw = [h \in Handler |-> AllUnsent]
    /\ held = {} /\ inbox = {} /\ taken = {} /\ unwritable = {}
    /\ overlapped = FALSE /\ quiet = FALSE

(* A handler reads the rows its request is about. *)
Read(h, kind, messages) ==
    /\ op[h] = "none"
    /\ op' = [op EXCEPT ![h] = kind]
    /\ about' = [about EXCEPT ![h] = messages]
    /\ saw' = [saw EXCEPT ![h] =
                 [m \in Message |-> IF m \in messages THEN status[m] ELSE "unsent"]]
    /\ overlapped' = (overlapped \/ \E g \in Handler \ {h} : op[g] # "none")

EndRequest(h) ==
    /\ op' = [op EXCEPT ![h] = "none"]
    /\ about' = [about EXCEPT ![h] = {}]
    /\ wants' = [wants EXCEPT ![h] = "read"]
    /\ saw' = [saw EXCEPT ![h] = AllUnsent]
    /\ UNCHANGED overlapped

-----------------------------------------------------------------------------
(* create_message: a new row. *)
Create(m) ==
    /\ status[m] = "unsent"
    /\ status' = [status EXCEPT ![m] = "pending"]
    /\ UNCHANGED <<recent, handlerVars, macVars, quiet>>

StartCancel(h, m) ==
    /\ status[m] # "unsent"
    /\ Read(h, "cancel", {m})
    /\ UNCHANGED <<status, recent, wants, macVars, quiet>>

(* Only a pending message may be cancelled. *)
MayCancel(s) == s = "pending"

(* cancel_message, or its refusal. *)
FinishCancel(h) ==
    /\ op[h] = "cancel"
    /\ status' = [m \in Message |->
                    IF m \in about[h] /\ MayCancel(saw[h][m]) THEN "cancelled" ELSE status[m]]
    /\ EndRequest(h)
    /\ UNCHANGED <<recent, macVars, quiet>>

(* What a fetch hands out: new messages, and those it handed out long ago without *)
(* a report since; the mutant forgets the latter.                                 *)
DueOnce(m) == status[m] = "pending"

MessageDue(m) == status[m] = "pending" \/ (status[m] = "fetched" /\ m \notin recent)

StartFetch(h) ==
    /\ Read(h, "fetch", {m \in Message : MessageDue(m)})
    /\ UNCHANGED <<status, recent, wants, macVars, quiet>>

(* The ORM leaves the status alone unless the value it read changes; the mutant *)
(* takes what it hands out for delivered.                                       *)
HandedDelivered(read, current) == IF read = "fetched" THEN current ELSE "delivered"

HandedOut(read, current) == IF read = "fetched" THEN current ELSE "fetched"

(* fetch_messages commits; the answer reaches the Mac, or is lost. *)
FinishFetch(h) ==
    /\ op[h] = "fetch"
    /\ status' = [m \in Message |->
                    IF m \in about[h] THEN HandedOut(saw[h][m], status[m]) ELSE status[m]]
    /\ recent' = recent \cup about[h]
    /\ \/ held' = held \cup about[h]
       \/ ~quiet /\ UNCHANGED held
    /\ EndRequest(h)
    /\ UNCHANGED <<inbox, taken, unwritable, quiet>>

(* What the Mac may truthfully report. *)
Reportable(m, s) ==
    \/ s = "delivered" /\ m \in inbox
    \/ s = "read" /\ m \in taken
    \/ s = "failed" /\ m \in unwritable

StartReport(h, m, s) ==
    /\ Reportable(m, s)
    /\ Read(h, "report", {m})
    /\ wants' = [wants EXCEPT ![h] = s]
    /\ UNCHANGED <<status, recent, macVars, quiet>>

(* _MESSAGE_MOVES: the statuses a report may move from. *)
Moves(s) ==
    IF s = "read" THEN {"pending", "fetched", "delivered"} ELSE {"pending", "fetched"}

(* record_message_state, a harmless repeat, or a conflict. *)
FinishReport(h) ==
    /\ op[h] = "report"
    /\ status' = [m \in Message |->
                    IF m \in about[h] /\ saw[h][m] \in Moves(wants[h]) THEN wants[h]
                    ELSE status[m]]
    /\ EndRequest(h)
    /\ UNCHANGED <<recent, macVars, quiet>>

(* The API process ends, or the request fails before its commit. *)
AbortRequest(h) ==
    /\ ~quiet /\ op[h] # "none"
    /\ EndRequest(h)
    /\ UNCHANGED <<status, recent, macVars, quiet>>

(* MESSAGE_REFETCH_AFTER goes by. *)
Age(m) ==
    /\ m \in recent
    /\ recent' = recent \ {m}
    /\ UNCHANGED <<status, handlerVars, macVars, quiet>>

-----------------------------------------------------------------------------
(* The Mac appends a message unless its marker is there, or cannot. *)
WriteInbox(m) ==
    /\ m \in held
    /\ held' = held \ {m}
    /\ \/ inbox' = inbox \cup {m} /\ UNCHANGED unwritable
       \/ unwritable' = unwritable \cup {m} /\ UNCHANGED inbox
    /\ UNCHANGED <<status, recent, handlerVars, taken, quiet>>

(* The session moves the inbox away. *)
Take(m) ==
    /\ m \in inbox \ taken
    /\ taken' = taken \cup {m}
    /\ UNCHANGED <<status, recent, handlerVars, held, inbox, unwritable, quiet>>

Quieten ==
    /\ ~quiet /\ quiet' = TRUE
    /\ UNCHANGED <<status, recent, handlerVars, macVars>>

Handle(h) == FinishCancel(h) \/ FinishFetch(h) \/ FinishReport(h)

MessageNext ==
    \/ \E m \in Message : Create(m) \/ Age(m) \/ WriteInbox(m) \/ Take(m)
    \/ \E h \in Handler :
         \/ StartFetch(h) \/ Handle(h) \/ AbortRequest(h)
         \/ \E m \in Message :
              StartCancel(h, m) \/ \E s \in Report : StartReport(h, m, s)
    \/ Quieten

MessageSpec == MessageInit /\ [][MessageNext]_messageVars

-----------------------------------------------------------------------------
(* The board never claims more than has happened on the Mac, whatever requests *)
(* are lost, repeated or overlap (lab/models.py: "delivered (appended to the   *)
(* instance's INBOX.md) -> read (the session moved INBOX.md away)").           *)
Truthful ==
    \A m \in Message :
        /\ status[m] = "delivered" => m \in inbox
        /\ status[m] = "read" => m \in taken
        /\ status[m] = "failed" => m \in unwritable

(* A cancelled message never gets to the Mac, unless requests have overlapped *)
(* (LAB_DASHBOARD_SPEC.md: cancel is "pending only").                         *)
CancelHonoured ==
    \A m \in Message :
        ~overlapped /\ status[m] = "cancelled" => m \notin held \cup inbox \cup unwritable

(* Late and repeated reports move nothing back, unless requests have          *)
(* overlapped (LAB_DASHBOARD_SPEC.md: "Repeats are harmless; moving backwards *)
(* is 409").                                                                  *)
FinalStays ==
    [][\A m \in Message :
         ~overlapped /\ status[m] \in {"cancelled", "failed", "read"} =>
            status'[m] = status[m]]_messageVars

MessageSettled(m) == status[m] \in {"unsent", "cancelled"} \cup Report

(* Once requests get through every message is written, or settled otherwise, *)
(* and stays so: an answer lost on the way to the Mac is made up for by a    *)
(* later fetch (service.py: "fetched > 30 min ago without a report").        *)
EveryMessageSettles ==
    \A m \in Message : (quiet /\ status[m] # "unsent") ~> []MessageSettled(m)

-----------------------------------------------------------------------------
(* The inductive strengthening: a report on its way is true, and what the Mac *)
(* knows of a message it once received.                                       *)
ReportsTrue ==
    \A h \in Handler : \A m \in about[h] :
        /\ status[m] # "unsent"
        /\ op[h] = "report" => Reportable(m, wants[h])

(* Before requests have overlapped, a handler is alone and what it has read *)
(* still holds, and the Mac has only what was handed out and not cancelled. *)
Alone ==
    ~overlapped =>
        /\ \A g, h \in Handler : op[g] # "none" /\ op[h] # "none" => g = h
        /\ \A h \in Handler : \A m \in about[h] : saw[h][m] = status[m]

HandedOutOnly ==
    \A m \in held \cup inbox \cup unwritable :
        /\ status[m] # "unsent"
        /\ ~overlapped => status[m] \in {"fetched"} \cup Report

Bookkeeping ==
    /\ \A h \in Handler :
         /\ op[h] = "none" => about[h] = {}
         /\ \A m \in about[h] :
              saw[h][m] # "unsent"
              /\ (op[h] = "fetch" => saw[h][m] \in {"pending", "fetched"})
    /\ taken \subseteq inbox

MessageInv ==
    /\ MessageTypeOK /\ Bookkeeping /\ ReportsTrue /\ Alone /\ HandedOutOnly
    /\ Truthful /\ CancelHonoured
=============================================================================
