------------------------------- MODULE BookStream -------------------------------
(***************************************************************************)
(* The order-book stream (clients/clob_ws.py): one run() task that         *)
(* connects, subscribes, consumes messages and reconnects with a growing   *)
(* backoff, declares itself degraded after a streak of failed cycles, and  *)
(* keeps the book of a token from snapshots and changes that may arrive    *)
(* twice.  The venue is external: it sends the whole book when subscribed  *)
(* to and then every change, each with the hash of the resulting book and  *)
(* a time of its own, over connections that break.                         *)
(***************************************************************************)
EXTENDS Integers, Sequences, FiniteSets

CONSTANTS Level, Size,   \* price levels of the book and sizes, 0 among them
          DegradedAfter, \* degraded_after_failures
          BackoffMax,    \* doublings until ws_reconnect_max_seconds
          DedupMax,      \* dedup_maxlen
          MaxChanges,    \* bound: changes of the venue's book
          MaxQueue       \* bound: messages on their way

ASSUME StreamAssumption == MaxChanges \in Nat

VARIABLES
    venueBook, \* the venue's book and the time of its last change: [book, ts]
    queue,     \* messages of the open connection on their way, oldest first
    at,        \* where run() is
    connState, \* state
    failures,  \* _consecutive_failures, as far as it is compared with DegradedAfter
    notified,  \* _degraded_notified
    received,  \* _session_received_message
    backoff,   \* doublings of ws_reconnect_base_seconds
    healthy,   \* cycle_ok of the cycle that ended
    book,      \* _books of the token
    dedup,     \* _dedup, oldest first
    stopping,  \* _stop_event
    told,      \* history: the hash of the last message handled since a snapshot
    fired      \* history: on_degraded calls since the last healthy cycle

streamVars == <<queue, book, dedup, told>>
wVars == <<venueBook, streamVars, at, connState, failures, notified, received, backoff, healthy,
           stopping, fired>>

Empty == [l \in Level |-> 0]
Unsure == <<>>

WInit ==
    /\ venueBook = [book |-> Empty, ts |-> 0] /\ queue = <<>>
    /\ at = "created" /\ connState = "disconnected"
    /\ failures = 0 /\ notified = FALSE /\ received = FALSE /\ backoff = 0 /\ healthy = FALSE
    /\ book = Empty /\ dedup = <<>> /\ stopping = FALSE /\ told = Unsure /\ fired = 0

-----------------------------------------------------------------------------
(* The venue changes its book and tells the subscriber, once or twice. *)
Copies(m) == {<<m>>, <<m, m>>}
Change ==
    /\ venueBook.ts < MaxChanges
    /\ \E l \in Level, s \in Size :
         LET new == [venueBook.book EXCEPT ![l] = s]
             m == [kind |-> "price_change", level |-> l, size |-> s,
                   hash |-> new, ts |-> venueBook.ts + 1]
         IN /\ new # venueBook.book
            /\ venueBook' = [book |-> new, ts |-> venueBook.ts + 1]
            /\ IF at = "session"
               THEN \E c \in Copies(m) : /\ Len(queue) + Len(c) <= MaxQueue
                                         /\ queue' = queue \o c
               ELSE UNCHANGED queue
    /\ UNCHANGED <<book, dedup, told, at, connState, failures, notified, received,
                   backoff, healthy, stopping, fired>>

(* A trade, a tick size, something unparseable: a message that changes no book. *)
Other ==
    /\ at = "session" /\ Len(queue) < MaxQueue
    /\ queue' = Append(queue, [kind |-> "other"])
    /\ UNCHANGED <<venueBook, book, dedup, told, at, connState, failures,
                   notified, received, backoff, healthy, stopping, fired>>

-----------------------------------------------------------------------------
(* run() begins, and forgets a stop() that came before.  The flag of a session *)
(* is cleared here already: nothing reads it before the next one begins.       *)
Connecting ==
    /\ at' = "connecting" /\ connState' = "connecting" /\ received' = FALSE
    /\ UNCHANGED <<venueBook, streamVars, failures, notified, healthy, fired>>

Start == at = "created" /\ Connecting /\ backoff' = 0 /\ stopping' = FALSE

(* _on_failure, and the end of the cycle. *)
Notifies(n) == n >= DegradedAfter /\ ~notified

Failed ==
    LET n == IF failures < DegradedAfter THEN failures + 1 ELSE failures
    IN /\ failures' = n
       /\ connState' = IF n >= DegradedAfter THEN "degraded" ELSE "disconnected"
       /\ notified' = (notified \/ Notifies(n))
       /\ fired' = IF Notifies(n) THEN fired + 1 ELSE fired
       /\ healthy' = FALSE

(* The connection is closed and run() sleeps. *)
Closed == at' = "sleeping" /\ queue' = <<>> /\ told' = Unsure

ConnectFails ==
    /\ at = "connecting" /\ Failed /\ Closed
    /\ UNCHANGED <<venueBook, book, dedup, received, backoff, stopping>>

(* The subscription gets the snapshot on its way, possibly twice. *)
Subscribe ==
    /\ at = "connecting" /\ at' = "session" /\ connState' = "connected"
    /\ \E c \in Copies([kind |-> "book", book |-> venueBook.book, hash |-> venueBook.book,
                        ts |-> venueBook.ts]) : queue' = c
    /\ UNCHANGED <<venueBook, book, dedup, told, failures, notified, received,
                   backoff, healthy, stopping, fired>>

(* mutant of Key: the time of the message is left out                          *)
KeyWithoutTime(m) == <<m.kind, m.hash, 0>>

(* _seen and _mark_seen *)
Key(m) == <<m.kind, m.hash, m.ts>>
Seen(m) == \E i \in DOMAIN dedup : dedup[i] = Key(m)
Marked(m) ==
    LET all == Append(dedup, Key(m))
    IN  IF Len(all) > DedupMax THEN Tail(all) ELSE all

(* _dispatch: a snapshot replaces the book, a change sets one level. *)
Dispatch(m) ==
    IF m.kind = "other" THEN UNCHANGED <<book, dedup, told>>
    ELSE /\ told' = IF m.kind = "book" \/ told # Unsure THEN <<m.hash>> ELSE Unsure
         /\ IF Seen(m) THEN UNCHANGED <<book, dedup>>
            ELSE /\ dedup' = Marked(m)
                 /\ book' = IF m.kind = "book" THEN m.book
                            ELSE [book EXCEPT ![m.level] = m.size]

Receive ==
    /\ at = "session" /\ queue # <<>>
    /\ Dispatch(Head(queue)) /\ queue' = Tail(queue) /\ received' = TRUE
    /\ UNCHANGED <<venueBook, at, connState, failures, notified, backoff, healthy,
                   stopping, fired>>

(* Nothing, not even a pong, for ws_stale_seconds: healthy if it had messages.  *)
Stale ==
    /\ at = "session" /\ Closed
    /\ IF received
       THEN /\ healthy' = TRUE /\ failures' = 0 /\ notified' = FALSE /\ fired' = 0
            /\ UNCHANGED connState
       ELSE Failed
    /\ UNCHANGED <<venueBook, book, dedup, received, backoff, stopping>>

(* Subscribing or receiving raises. *)
Breaks ==
    /\ at = "session" /\ Failed /\ Closed
    /\ UNCHANGED <<venueBook, book, dedup, received, backoff, stopping>>

Reconnect ==
    /\ at = "sleeping" /\ Connecting /\ UNCHANGED stopping
    /\ backoff' = IF healthy THEN 0 ELSE IF backoff < BackoffMax THEN backoff + 1 ELSE backoff

(* stop() sets the event and cancels the task, once it runs, at what it awaits. *)
Stop ==
    /\ at # "done" /\ stopping' = TRUE
    /\ UNCHANGED <<venueBook, streamVars, at, connState, failures, notified,
                   received, backoff, healthy, fired>>

Cancelled ==
    /\ stopping /\ at \notin {"created", "done"}
    /\ at' = "done" /\ connState' = "disconnected" /\ queue' = <<>> /\ told' = Unsure
    /\ UNCHANGED <<venueBook, book, dedup, failures, notified, received, backoff,
                   healthy, stopping, fired>>

WNext ==
    \/ Change \/ Other \/ Start \/ ConnectFails \/ Subscribe \/ Receive \/ Stale \/ Breaks
    \/ Reconnect \/ Stop \/ Cancelled

-----------------------------------------------------------------------------
(* Once a session has had its snapshot, the book is the venue's as of the last *)
(* message handled, although messages repeat and earlier sessions missed some. *)
BookFaithful == told # Unsure => told = <<book>>

-----------------------------------------------------------------------------
Book == [Level -> Size \cup {0}]
Stamp == 0..MaxChanges
OtherMessage == [kind : {"other"}]
Snapshot == [kind : {"book"}, book : Book, hash : Book, ts : Stamp]
PriceChange == [kind : {"price_change"}, level : Level, size : Size, hash : Book, ts : Stamp]

StreamTypeOK ==
    /\ venueBook \in [book : Book, ts : Stamp]
    /\ queue \in Seq(OtherMessage \cup Snapshot \cup PriceChange)
    /\ dedup \in Seq({"book", "price_change"} \X Book \X Stamp)
    /\ book \in Book

(* The venue's books of all times, h, bear out what is on its way and what was seen. *)
AboutBook(m) == m.kind # "other"
BorneOut(h, m) ==
    /\ m.ts <= venueBook.ts /\ m.hash = h[m.ts]
    /\ IF m.kind = "book" THEN m.book = m.hash
       ELSE m.ts > 0 /\ m.hash = [h[m.ts - 1] EXCEPT ![m.level] = m.size]
VenueHistory(h) ==
    /\ venueBook.book = h[venueBook.ts]
    /\ \A i \in DOMAIN queue : AboutBook(queue[i]) => BorneOut(h, queue[i])
    /\ \A i, j \in DOMAIN queue :
          AboutBook(queue[i]) /\ AboutBook(queue[j]) /\ i < j => queue[i].ts <= queue[j].ts
    /\ \A i \in DOMAIN dedup : dedup[i][3] <= venueBook.ts

(* A snapshot that would be dropped as a repetition is of the book that is held. *)
RepeatHarmless(h, t) ==
    (\E i \in DOMAIN dedup : dedup[i] = <<"book", h[t], t>>) => book = h[t]

(* The session has come to the venue's time t, or will with the snapshot that is *)
(* first on its way; every later change is still to come.                        *)
ComeTo(h, t) ==
    /\ t <= venueBook.ts
    /\ IF told = Unsure
       THEN /\ queue # <<>> /\ queue[1].kind = "book" /\ queue[1].ts = t
            /\ RepeatHarmless(h, t)
       ELSE told = <<h[t]>> /\ book = h[t]
    /\ \A i \in DOMAIN dedup : dedup[i][3] <= t
    /\ \A i \in DOMAIN queue : AboutBook(queue[i]) =>
          t <= queue[i].ts /\ (queue[i].kind = "book" => queue[i].ts = t)
    /\ \A u \in (t + 1)..venueBook.ts :
          \E i \in DOMAIN queue : queue[i].kind = "price_change" /\ queue[i].ts = u

Witnessed(h) ==
    /\ VenueHistory(h)
    /\ IF at = "session" THEN \E t \in Stamp : ComeTo(h, t)
       ELSE queue = <<>> /\ told = Unsure /\ RepeatHarmless(h, venueBook.ts)

StreamInv == StreamTypeOK /\ \E h \in [Stamp -> Book] : Witnessed(h)

StreamSpec == WInit /\ [][WNext]_wVars
=============================================================================
