----------------------------- MODULE People_proofs -----------------------------
(***************************************************************************)
(* Proofs about what reaches people and what they may do: the digest, the  *)
(* alerts, the hardware-key proof of a browser and the Lab's members.      *)
(***************************************************************************)
EXTENDS DigestDelivery, Alerts, StepUp, Members, FiniteSetTheorems,
        SequenceTheorems, TLAPS

-----------------------------------------------------------------------------
(***************************************************************************)
(* What holds of the digest of a user for any number of runs and windows.  *)
(* IInv is inductive: each of the first lemmas shows that one action keeps *)
(* its conjuncts.  That emails of a window are as far apart as the         *)
(* provider's memory follows for every frequency; that there is only one   *)
(* needs, besides, that the window is over before the provider forgets the *)
(* key (ShortWindow).                                                      *)
(***************************************************************************)

(* The window of a time: it begins at most a period before it. *)
LEMMA WindowOf ==
    ASSUME NEW n \in 0 .. Horizon
    PROVE  /\ Boundary(n) \in Window /\ Boundary(n) \in Nat
           /\ Boundary(n) <= n /\ n < Boundary(n) + Period
PROOF
<1>1. n % Period \in 0 .. Period - 1
  BY DigestAssumption
<1>2. n % Period <= n
  BY DigestAssumption
<1> QED BY <1>1, <1>2, DigestAssumption DEF Window, Boundary

(* The window a run works for. *)
LEMMA DueWindow ==
    ASSUME DigestTypeOK, RunsTimely, NEW t \in Tick
    PROVE  /\ Due(t) \in Window /\ Due(t) \in Nat
           /\ Due(t) <= now[t] /\ now[t] < Due(t) + Period
PROOF
<1>1. now[t] \in 0 .. Horizon
  BY DigestAssumption DEF DigestTypeOK, RunsTimely
<1> QED BY <1>1, WindowOf DEF Due

(* Time does not outrun a run. *)
LEMMA PassTimeKeeps ==
    ASSUME IInv, PassTime
    PROVE  IInv'
PROOF
<1> USE DEF PassTime, Pass, sectionVars, digestVars, runVars, IInv, DigestTypeOK
<1>1. DigestTypeOK'
  BY DigestAssumption, OneLease DEF Status, Due
<1>2. RunsTimely'
  BY DigestAssumption, OneLease DEF RunsTimely, Running, Due
<1>3. RunsSound'
  BY DigestAssumption, OneLease DEF RunsSound, RunsTimely, Running, Existing, Settled, Status, Due
<1>4. MailsSound'
  BY DigestAssumption, OneLease DEF MailsSound, RunsSound, Existing, Due
<1>5. EmailsShowSnapshot'
  BY DigestAssumption, OneLease DEF EmailsShowSnapshot, MailsSound, Existing, Due
<1>6. SentWasMailed'
  BY DigestAssumption, OneLease DEF SentWasMailed, RunsSound, MailsSound, Due
<1> QED BY <1>1, <1>2, <1>3, <1>4, <1>5, <1>6

(* A preference disturbs nothing that is under way. *)
LEMMA ChangePreferenceKeeps ==
    ASSUME IInv, ChangePreference
    PROVE  IInv'
PROOF
<1> USE DEF ChangePreference, sectionVars, digestVars, runVars, IInv, DigestTypeOK
<1>1. DigestTypeOK'
  BY DigestAssumption, OneLease DEF Status, Due
<1>2. RunsTimely'
  BY DigestAssumption, OneLease DEF RunsTimely, Running, Due
<1>3. RunsSound'
  BY DigestAssumption, OneLease DEF RunsSound, RunsTimely, Running, Existing, Settled, Status, Due
<1>4. MailsSound'
  BY DigestAssumption, OneLease DEF MailsSound, RunsSound, Existing, Due
<1>5. EmailsShowSnapshot'
  BY DigestAssumption, OneLease DEF EmailsShowSnapshot, MailsSound, Existing, Due
<1>6. SentWasMailed'
  BY DigestAssumption, OneLease DEF SentWasMailed, RunsSound, MailsSound, Due
<1> QED BY <1>1, <1>2, <1>3, <1>4, <1>5, <1>6

(* A run begins alone and at its query. *)
LEMMA BeginKeeps ==
    ASSUME IInv, NEW t \in Tick, Begin(t)
    PROVE  IInv'
PROOF
<1> USE DEF Begin, Enter, sectionVars, digestVars, runVars, IInv, DigestTypeOK
<1>0. /\ Due(t) \in Window /\ Due(t) \in Nat
      /\ Due(t) <= now[t] /\ now[t] < Due(t) + Period
  BY DueWindow
<1>1. DigestTypeOK'
  BY <1>0, DigestAssumption, OneLease DEF Status, Due
<1>2. RunsTimely'
  BY <1>0, DigestAssumption, OneLease DEF RunsTimely, Running, Due
<1>3. RunsSound'
  BY <1>0, DigestAssumption, OneLease DEF RunsSound, RunsTimely, Running, Existing, Settled, Status, Due
<1>4. MailsSound'
  BY <1>0, DigestAssumption, OneLease DEF MailsSound, RunsSound, Existing, Due
<1>5. EmailsShowSnapshot'
  BY <1>0, DigestAssumption, OneLease DEF EmailsShowSnapshot, MailsSound, Existing, Due
<1>6. SentWasMailed'
  BY <1>0, DigestAssumption, OneLease DEF SentWasMailed, RunsSound, MailsSound, Due
<1> QED BY <1>1, <1>2, <1>3, <1>4, <1>5, <1>6

(* A run goes on for an unsettled window only. *)
LEMMA QueryKeeps ==
    ASSUME IInv, NEW t \in Tick, Query(t)
    PROVE  IInv'
PROOF
<1> USE DEF Query, At, Goto, EndRun, Leave, sectionVars, digestVars, runVars, IInv, DigestTypeOK
<1>0. /\ Due(t) \in Window /\ Due(t) \in Nat
      /\ Due(t) <= now[t] /\ now[t] < Due(t) + Period
  BY DueWindow
<1>1. DigestTypeOK'
  <2>1. /\ clock' \in 0 .. Horizon
        /\ owner' \in [Group -> Tick \cup {NoTick}]
        /\ now' \in [Tick -> Nat]
        /\ left' \in [Group -> Nat \cup {-1}]
    BY DigestAssumption
  <2>2. subscribed' \in BOOLEAN
    OBVIOUS
  <2>3. deliv' \in [Window -> [status : Status, scan : Scan, last : Nat \cup {NotYet}]]
    BY <1>0 DEF Status
  <2>4. mails' \in [Window -> SUBSET [at : Nat, scan : Scan]]
    BY <1>0
  <2>5. step' \in [Tick -> {"query", "snapshot", "send", "attempt", "request", "result"}]
    OBVIOUS
  <2>6. tries' \in [Tick -> Nat]
    BY DigestAssumption
  <2>7. ok' \in [Tick -> BOOLEAN]
    OBVIOUS
  <2> QED BY <2>1, <2>2, <2>3, <2>4, <2>5, <2>6, <2>7
<1>2. RunsTimely'
  BY <1>0, DigestAssumption, OneLease DEF RunsTimely, Running, Due
<1>3. RunsSound'
  BY <1>0, DigestAssumption, OneLease DEF RunsSound, RunsTimely, Running, Existing, Settled, Status, Due
<1>4. MailsSound'
  BY <1>0, DigestAssumption, OneLease DEF MailsSound, RunsSound, Existing, Due
<1>5. EmailsShowSnapshot'
  BY <1>0, DigestAssumption, OneLease DEF EmailsShowSnapshot, MailsSound, Existing, Due
<1>6. SentWasMailed'
  BY <1>0, DigestAssumption, OneLease DEF SentWasMailed, RunsSound, MailsSound, Due
<1> QED BY <1>1, <1>2, <1>3, <1>4, <1>5, <1>6

(* A run goes on with a row, an old or a new one. *)
LEMMA SnapshotKeeps ==
    ASSUME IInv, NEW t \in Tick, Snapshot(t)
    PROVE  IInv'
PROOF
<1> USE DEF Snapshot, At, Goto, EndRun, Leave, sectionVars, digestVars, runVars, IInv, DigestTypeOK
<1>0. /\ Due(t) \in Window /\ Due(t) \in Nat
      /\ Due(t) <= now[t] /\ now[t] < Due(t) + Period
  BY DueWindow
<1>1. DigestTypeOK'
  <2>1. /\ clock' \in 0 .. Horizon
        /\ owner' \in [Group -> Tick \cup {NoTick}]
        /\ now' \in [Tick -> Nat]
        /\ left' \in [Group -> Nat \cup {-1}]
    BY DigestAssumption, SMTT(30)
  <2>2. subscribed' \in BOOLEAN
    OBVIOUS
  <2>3. deliv' \in [Window -> [status : Status, scan : Scan, last : Nat \cup {NotYet}]]
    BY <1>0 DEF Status
  <2>4. mails' \in [Window -> SUBSET [at : Nat, scan : Scan]]
    BY <1>0
  <2>5. step' \in [Tick -> {"query", "snapshot", "send", "attempt", "request", "result"}]
    OBVIOUS
  <2>6. tries' \in [Tick -> Nat]
    BY DigestAssumption
  <2>7. ok' \in [Tick -> BOOLEAN]
    OBVIOUS
  <2> QED BY <2>1, <2>2, <2>3, <2>4, <2>5, <2>6, <2>7
<1>2. RunsTimely'
  BY <1>0, DigestAssumption, OneLease DEF RunsTimely, Running, Due
<1>3. RunsSound'
  BY <1>0, DigestAssumption, OneLease DEF RunsSound, RunsTimely, Running, Existing, Settled, Status, Due
<1>4. MailsSound'
  <2>1. \A w \in Window : Existing(w) => Existing(w)'
    BY <1>0 DEF Existing
  <2> QED BY <2>1 DEF MailsSound
<1>5. EmailsShowSnapshot'
  BY <1>0, DigestAssumption, OneLease DEF EmailsShowSnapshot, MailsSound, Existing, Due
<1>6. SentWasMailed'
  <2>1. \A w \in Window : deliv'[w].status = "sent" => deliv[w].status = "sent"
    BY <1>0
  <2> QED BY <2>1 DEF SentWasMailed
<1> QED BY <1>1, <1>2, <1>3, <1>4, <1>5, <1>6

(* A run attempts nothing for a settled delivery. *)
LEMMA SendKeeps ==
    ASSUME IInv, NEW t \in Tick, Send(t)
    PROVE  IInv'
PROOF
<1> USE DEF Send, At, Goto, Book, EndRun, Leave, sectionVars, digestVars, runVars, IInv, DigestTypeOK
<1>0. /\ Due(t) \in Window /\ Due(t) \in Nat
      /\ Due(t) <= now[t] /\ now[t] < Due(t) + Period
  BY DueWindow
<1>1. DigestTypeOK'
  <2>1. /\ clock' \in 0 .. Horizon
        /\ owner' \in [Group -> Tick \cup {NoTick}]
        /\ now' \in [Tick -> Nat]
        /\ left' \in [Group -> Nat \cup {-1}]
    BY DigestAssumption
  <2>2. subscribed' \in BOOLEAN
    OBVIOUS
  <2>3. deliv' \in [Window -> [status : Status, scan : Scan, last : Nat \cup {NotYet}]]
    BY <1>0 DEF Status
  <2>4. mails' \in [Window -> SUBSET [at : Nat, scan : Scan]]
    BY <1>0
  <2>5. step' \in [Tick -> {"query", "snapshot", "send", "attempt", "request", "result"}]
    OBVIOUS
  <2>6. tries' \in [Tick -> Nat]
    BY DigestAssumption
  <2>7. ok' \in [Tick -> BOOLEAN]
    OBVIOUS
  <2> QED BY <2>1, <2>2, <2>3, <2>4, <2>5, <2>6, <2>7
<1>2. RunsTimely'
  BY <1>0, DigestAssumption, OneLease DEF RunsTimely, Running, Due
<1>3. RunsSound'
  BY <1>0, DigestAssumption, OneLease DEF RunsSound, RunsTimely, Running, Existing, Settled, Status, Due
<1>4. MailsSound'
  BY <1>0, DigestAssumption, OneLease DEF MailsSound, RunsSound, Existing, Due
<1>5. EmailsShowSnapshot'
  BY <1>0, DigestAssumption, OneLease DEF EmailsShowSnapshot, MailsSound, Existing, Due
<1>6. SentWasMailed'
  BY <1>0, DigestAssumption, OneLease DEF SentWasMailed, RunsSound, MailsSound, Due
<1> QED BY <1>1, <1>2, <1>3, <1>4, <1>5, <1>6

(* An attempt keeps the snapshot. *)
LEMMA AttemptKeeps ==
    ASSUME IInv, NEW t \in Tick, Attempt(t)
    PROVE  IInv'
PROOF
<1> USE DEF Attempt, At, Goto, Book, sectionVars, digestVars, runVars, IInv, DigestTypeOK
<1>0. /\ Due(t) \in Window /\ Due(t) \in Nat
      /\ Due(t) <= now[t] /\ now[t] < Due(t) + Period
  BY DueWindow
<1>1. DigestTypeOK'
  <2>1. /\ clock' \in 0 .. Horizon
        /\ owner' \in [Group -> Tick \cup {NoTick}]
        /\ now' \in [Tick -> Nat]
        /\ left' \in [Group -> Nat \cup {-1}]
    BY DigestAssumption
  <2>2. subscribed' \in BOOLEAN
    OBVIOUS
  <2>3. deliv' \in [Window -> [status : Status, scan : Scan, last : Nat \cup {NotYet}]]
    BY <1>0 DEF Status
  <2>4. mails' \in [Window -> SUBSET [at : Nat, scan : Scan]]
    BY <1>0
  <2>5. step' \in [Tick -> {"query", "snapshot", "send", "attempt", "request", "result"}]
    OBVIOUS
  <2>6. tries' \in [Tick -> Nat]
    BY DigestAssumption
  <2>7. ok' \in [Tick -> BOOLEAN]
    OBVIOUS
  <2> QED BY <2>1, <2>2, <2>3, <2>4, <2>5, <2>6, <2>7
<1>2. RunsTimely'
  BY <1>0, DigestAssumption, OneLease DEF RunsTimely, Running, Due
<1>3. RunsSound'
  BY <1>0, DigestAssumption, OneLease DEF RunsSound, RunsTimely, Running, Existing, Settled, Status, Due
<1>4. MailsSound'
  BY <1>0, DigestAssumption, OneLease DEF MailsSound, RunsSound, Existing, Due
<1>5. EmailsShowSnapshot'
  BY <1>0, DigestAssumption, OneLease DEF EmailsShowSnapshot, MailsSound, Existing, Due
<1>6. SentWasMailed'
  BY <1>0, DigestAssumption, OneLease DEF SentWasMailed, RunsSound, MailsSound, Due
<1> QED BY <1>1, <1>2, <1>3, <1>4, <1>5, <1>6

(* A request is made in time and shows the snapshot. *)
LEMMA RequestKeeps ==
    ASSUME IInv, NEW t \in Tick, Request(t)
    PROVE  IInv'
PROOF
<1> USE DEF Request, At, Goto, Accepted, sectionVars, digestVars, runVars, IInv, DigestTypeOK
<1>0. /\ Due(t) \in Window /\ Due(t) \in Nat
      /\ Due(t) <= now[t] /\ now[t] < Due(t) + Period
  BY DueWindow
<1>1. DigestTypeOK'
  <2>1. /\ clock' \in 0 .. Horizon
        /\ owner' \in [Group -> Tick \cup {NoTick}]
        /\ now' \in [Tick -> Nat]
        /\ left' \in [Group -> Nat \cup {-1}]
    BY DigestAssumption
  <2>2. subscribed' \in BOOLEAN
    OBVIOUS
  <2>3. deliv' \in [Window -> [status : Status, scan : Scan, last : Nat \cup {NotYet}]]
    BY <1>0 DEF Status
  <2>4. mails' \in [Window -> SUBSET [at : Nat, scan : Scan]]
    BY <1>0
  <2>5. step' \in [Tick -> {"query", "snapshot", "send", "attempt", "request", "result"}]
    OBVIOUS
  <2>6. tries' \in [Tick -> Nat]
    BY DigestAssumption
  <2>7. ok' \in [Tick -> BOOLEAN]
    OBVIOUS
  <2> QED BY <2>1, <2>2, <2>3, <2>4, <2>5, <2>6, <2>7
<1>2. RunsTimely'
  BY <1>0, DigestAssumption, OneLease DEF RunsTimely, Running, Due
<1>3. RunsSound'
  <2>1. \A s \in Tick : s # t => step'[s] = "query"
    BY DEF RunsTimely
  <2>2. ok'[t] => mails'[Due(t)] # {}
    <3>1. Accepted(Due(t), clock) # {}
      BY DEF Accepted, Known
    <3> QED BY <3>1, <1>0
  <2> QED BY <2>1, <2>2 DEF RunsSound, Existing, Settled, Due
<1>4. MailsSound'
  <2> SUFFICES ASSUME NEW w \in Window
               PROVE  /\ mails'[w] # {} => Existing(w)'
                      /\ \A m \in mails'[w] :
                            w <= m.at /\ m.at <= clock' /\ m.at < w + Period + Deadline
    BY DEF MailsSound
  <2>1. CASE w # Due(t) \/ mails' = mails
    BY <2>1, <1>0 DEF MailsSound, Existing
  <2>2. CASE w = Due(t) /\ mails'[w] = Accepted(w, clock)
    <3>1. now[t] <= clock /\ clock <= now[t] + Deadline
      BY DEF RunsTimely
    <3>2. w <= clock /\ clock < w + Period + Deadline
      BY <1>0, <2>2, <3>1, DigestAssumption
    <3>3. \A m \in mails'[w] : m \in mails[w] \/ m = [at |-> clock, scan |-> deliv[w].scan]
      BY <2>2 DEF Accepted
    <3>4. Existing(w)
      BY <2>2 DEF RunsSound
    <3> QED BY <3>2, <3>3, <3>4 DEF MailsSound, Existing
  <2> QED BY <2>1, <2>2, <1>0
<1>5. EmailsShowSnapshot'
  BY <1>0, DigestAssumption, OneLease DEF EmailsShowSnapshot, MailsSound, Existing, Due
<1>6. SentWasMailed'
  BY <1>0, DigestAssumption, OneLease DEF SentWasMailed, RunsSound, MailsSound, Due
<1> QED BY <1>1, <1>2, <1>3, <1>4, <1>5, <1>6

(* A success is booked for a mail that was accepted. *)
LEMMA ResultKeeps ==
    ASSUME IInv, NEW t \in Tick, Result(t)
    PROVE  IInv'
PROOF
<1> USE DEF Result, At, Goto, Book, StatusAfter, EndRun, Leave, sectionVars, digestVars, runVars, IInv, DigestTypeOK
<1>0. /\ Due(t) \in Window /\ Due(t) \in Nat
      /\ Due(t) <= now[t] /\ now[t] < Due(t) + Period
  BY DueWindow
<1>1. DigestTypeOK'
  <2>1. /\ clock' \in 0 .. Horizon
        /\ owner' \in [Group -> Tick \cup {NoTick}]
        /\ now' \in [Tick -> Nat]
        /\ left' \in [Group -> Nat \cup {-1}]
    BY DigestAssumption
  <2>2. subscribed' \in BOOLEAN
    OBVIOUS
  <2>3. deliv' \in [Window -> [status : Status, scan : Scan, last : Nat \cup {NotYet}]]
    BY <1>0 DEF Status
  <2>4. mails' \in [Window -> SUBSET [at : Nat, scan : Scan]]
    BY <1>0
  <2>5. step' \in [Tick -> {"query", "snapshot", "send", "attempt", "request", "result"}]
    OBVIOUS
  <2>6. tries' \in [Tick -> Nat]
    BY DigestAssumption
  <2>7. ok' \in [Tick -> BOOLEAN]
    OBVIOUS
  <2> QED BY <2>1, <2>2, <2>3, <2>4, <2>5, <2>6, <2>7
<1>2. RunsTimely'
  BY <1>0, DigestAssumption, OneLease DEF RunsTimely, Running, Due
<1>3. RunsSound'
  BY <1>0, DigestAssumption, OneLease DEF RunsSound, RunsTimely, Running, Existing, Settled, Status, Due
<1>4. MailsSound'
  BY <1>0, DigestAssumption, OneLease DEF MailsSound, RunsSound, Existing, Due
<1>5. EmailsShowSnapshot'
  BY <1>0, DigestAssumption, OneLease DEF EmailsShowSnapshot, MailsSound, Existing, Due
<1>6. SentWasMailed'
  BY <1>0, DigestAssumption, OneLease DEF SentWasMailed, RunsSound, MailsSound, Due
<1> QED BY <1>1, <1>2, <1>3, <1>4, <1>5, <1>6

(* A crash leaves the rows as they are. *)
LEMMA CrashKeeps ==
    ASSUME IInv, NEW t \in Tick, Crash(t)
    PROVE  IInv'
PROOF
<1> USE DEF Crash, EndRun, Leave, sectionVars, digestVars, runVars, IInv, DigestTypeOK
<1>0. /\ Due(t) \in Window /\ Due(t) \in Nat
      /\ Due(t) <= now[t] /\ now[t] < Due(t) + Period
  BY DueWindow
<1>1. DigestTypeOK'
  BY <1>0, DigestAssumption, OneLease DEF Status, Due
<1>2. RunsTimely'
  BY <1>0, DigestAssumption, OneLease DEF RunsTimely, Running, Due
<1>3. RunsSound'
  BY <1>0, DigestAssumption, OneLease DEF RunsSound, RunsTimely, Running, Existing, Settled, Status, Due
<1>4. MailsSound'
  BY <1>0, DigestAssumption, OneLease DEF MailsSound, RunsSound, Existing, Due
<1>5. EmailsShowSnapshot'
  BY <1>0, DigestAssumption, OneLease DEF EmailsShowSnapshot, MailsSound, Existing, Due
<1>6. SentWasMailed'
  BY <1>0, DigestAssumption, OneLease DEF SentWasMailed, RunsSound, MailsSound, Due
<1> QED BY <1>1, <1>2, <1>3, <1>4, <1>5, <1>6

(* Every step keeps the inductive invariant. *)
LEMMA StepKeeps == IInv /\ [DigestNext]_vars => IInv'
PROOF
<1> SUFFICES ASSUME IInv, [DigestNext]_vars PROVE IInv'
  OBVIOUS
<1>1. CASE UNCHANGED vars
  <2> USE <1>1 DEF vars, sectionVars, digestVars, runVars, IInv
  <2>1. DigestTypeOK' BY DEF DigestTypeOK
  <2>2. RunsTimely' BY DEF RunsTimely, Running
  <2>3. RunsSound' BY DEF RunsSound, Due, Existing, Settled
  <2>4. MailsSound' BY DEF MailsSound, Existing
  <2>5. EmailsShowSnapshot' /\ SentWasMailed' BY DEF EmailsShowSnapshot, SentWasMailed
  <2> QED BY <2>1, <2>2, <2>3, <2>4, <2>5
<1>2. CASE PassTime \/ ChangePreference
  BY <1>2, PassTimeKeeps, ChangePreferenceKeeps
<1>3. ASSUME NEW t \in Tick,
             \/ Begin(t) \/ Query(t) \/ Snapshot(t) \/ Send(t)
             \/ Attempt(t) \/ Request(t) \/ Result(t) \/ Crash(t)
      PROVE  IInv'
  BY <1>3, BeginKeeps, QueryKeeps, SnapshotKeeps, SendKeeps, AttemptKeeps,
     RequestKeeps, ResultKeeps, CrashKeeps
<1> QED BY <1>1, <1>2, <1>3 DEF DigestNext

(* The invariant that TLC checks is inductive, for every number of runs, every *)
(* frequency, retry count, deadline and idempotency window.                    *)
THEOREM InductiveInvariant == DigestSpec => []IInv
PROOF
<1>1. DigestInit => IInv
  <2> SUFFICES ASSUME DigestInit PROVE IInv
    OBVIOUS
  <2> USE DigestAssumption, OneLease DEF DigestInit, SectionInit
  <2>1. \A t \in Tick : ~Running(t)
    BY DEF Running
  <2>2. DigestTypeOK
    <3>1. AnyScan \in Scan
      BY DEF AnyScan
    <3> QED BY <3>1 DEF DigestTypeOK, NoRow, Status
  <2>3. RunsTimely BY <2>1 DEF RunsTimely
  <2>4. RunsSound BY DEF RunsSound
  <2>5. MailsSound BY DEF MailsSound
  <2>6. EmailsShowSnapshot /\ SentWasMailed
    BY DEF EmailsShowSnapshot, SentWasMailed, NoRow
  <2> QED BY <2>2, <2>3, <2>4, <2>5, <2>6 DEF IInv
<1> QED BY <1>1, StepKeeps, PTL DEF DigestSpec

(* Every email of a window shows the one snapshot of its delivery. *)
THEOREM OneSnapshot == DigestSpec => []EmailsShowSnapshot
PROOF
<1>1. IInv => EmailsShowSnapshot BY DEF IInv
<1> QED BY <1>1, InductiveInvariant, PTL

(* What the history shows as sent was mailed. *)
THEOREM HistoryHonest == DigestSpec => []SentWasMailed
PROOF
<1>1. IInv => SentWasMailed BY DEF IInv
<1> QED BY <1>1, InductiveInvariant, PTL

(* Two emails of a window are as far apart as the provider's memory. *)
Apart ==
    \A w \in Window : \A m, n \in mails[w] :
        m = n \/ m.at + Idem <= n.at \/ n.at + Idem <= m.at

(* A request adds an email only when the provider knows none of the window. *)
LEMMA RequestKeepsApart ==
    ASSUME IInv, Apart, NEW t \in Tick, Request(t)
    PROVE  Apart'
PROOF
<1> DEFINE w == Due(t)
<1>1. w \in Window
  BY DueWindow DEF IInv
<1>2. mails' = mails \/ mails' = [mails EXCEPT ![w] = Accepted(w, clock)]
  BY DEF Request
<1>3. mails \in [Window -> SUBSET [at : Nat, scan : Scan]] /\ clock \in Nat
  BY DigestAssumption DEF IInv, DigestTypeOK
<1>4. ASSUME NEW m \in mails[w], ~Known(w, clock) PROVE m.at + Idem <= clock
  <2>1. m.at \in Nat
    BY <1>1, <1>3
  <2>2. ~(clock < m.at + Idem)
    BY <1>4 DEF Known
  <2> QED BY <2>1, <2>2, <1>3, DigestAssumption
<1>5. \A m, n \in Accepted(w, clock) :
         m = n \/ m.at + Idem <= n.at \/ n.at + Idem <= m.at
  BY <1>1, <1>4 DEF Accepted, Apart
<1> HIDE DEF w
<1> QED BY <1>1, <1>2, <1>3, <1>5 DEF Apart

(* RepeatsOnlyForgotten, for every frequency: a window is mailed again only  *)
(* once the provider has forgotten the email before, and by a run that began *)
(* in it, whatever runs die, time out, retry or lose their answers.          *)
THEOREM RepeatsAreLate == DigestSpec => []RepeatsOnlyForgotten
PROOF
<1>1. DigestInit => Apart
  BY DEF DigestInit, Apart
<1>2. IInv /\ Apart /\ [DigestNext]_vars => Apart'
  <2> SUFFICES ASSUME IInv, Apart, [DigestNext]_vars PROVE Apart'
    OBVIOUS
  <2>1. ASSUME NEW t \in Tick, Request(t) PROVE Apart'
    BY <2>1, RequestKeepsApart
  <2>2. ASSUME NEW t \in Tick,
               \/ Begin(t) \/ Query(t) \/ Snapshot(t) \/ Send(t)
               \/ Attempt(t) \/ Result(t) \/ Crash(t)
        PROVE  mails' = mails
    BY <2>2 DEF Begin, Query, Snapshot, Send, Attempt, Result, Crash, digestVars
  <2>3. CASE PassTime \/ ChangePreference \/ UNCHANGED vars
    BY <2>3 DEF PassTime, ChangePreference, vars, digestVars, Apart
  <2> QED BY <2>1, <2>2, <2>3 DEF DigestNext, Apart
<1>3. IInv /\ Apart => RepeatsOnlyForgotten
  BY DEF IInv, MailsSound, Apart, RepeatsOnlyForgotten
<1> QED BY <1>1, <1>2, <1>3, InductiveInvariant, PTL DEF DigestSpec

(* A six-hourly or twice-daily digest, whose window and a run of it are over *)
(* before the provider forgets, is mailed at most once.                      *)
THEOREM AtMostOneEmail ==
    ASSUME ShortWindow
    PROVE  DigestSpec => []NoDuplicateEmail
PROOF
<1>1. ASSUME IInv, RepeatsOnlyForgotten PROVE NoDuplicateEmail
  <2> SUFFICES ASSUME NEW w \in Window PROVE Cardinality(mails[w]) <= 1
    BY DEF NoDuplicateEmail
  <2>1. w \in Nat
    <3>1. \A n \in 0 .. Horizon : Boundary(n) \in Nat
      BY WindowOf
    <3> QED BY <3>1 DEF Window
  <2>2. ASSUME NEW m \in mails[w], NEW n \in mails[w] PROVE m = n
    <3>1. m.at \in Nat /\ n.at \in Nat
      BY <1>1 DEF IInv, DigestTypeOK
    <3>2. /\ w <= m.at /\ m.at < w + Period + Deadline
          /\ w <= n.at /\ n.at < w + Period + Deadline
          /\ m = n \/ m.at + Idem <= n.at \/ n.at + Idem <= m.at
      BY <1>1 DEF RepeatsOnlyForgotten
    <3> QED BY <2>1, <3>1, <3>2, DigestAssumption DEF ShortWindow
  <2>3. CASE mails[w] = {}
    BY <2>3, FS_EmptySet
  <2>4. ASSUME NEW m \in mails[w] PROVE Cardinality(mails[w]) <= 1
    <3>1. \A n : n \in mails[w] <=> n \in {m}
      BY <2>2, <2>4
    <3>2. mails[w] = {m}
      BY <3>1
    <3>3. Cardinality({m}) = 1
      BY FS_Singleton
    <3> QED BY <3>2, <3>3
  <2> QED BY <2>3, <2>4
<1> QED BY <1>1, InductiveInvariant, RepeatsAreLate, PTL

(* A settled delivery stays as it is: only a run can touch it, and a run that *)
(* writes has found it unsettled and is alone.                                *)
THEOREM SettledForGood == DigestSpec => SettledStays
PROOF
<1> DEFINE Stays == \A w \in Window :
                      deliv[w].status \in {"sent", "skipped_empty", "uncertain"} =>
                         deliv'[w] = deliv[w]
<1>1. ASSUME IInv, [DigestNext]_vars PROVE Stays
  <2> SUFFICES ASSUME NEW w \in Window,
                      deliv[w].status \in {"sent", "skipped_empty", "uncertain"}
               PROVE  deliv'[w] = deliv[w]
    OBVIOUS
  <2>1. ASSUME NEW t \in Tick, Snapshot(t) PROVE deliv'[w] = deliv[w]
    BY <1>1, <2>1 DEF Snapshot, Existing, IInv, DigestTypeOK
  <2>2. ASSUME NEW t \in Tick, Send(t) PROVE deliv'[w] = deliv[w]
    BY <1>1, <2>2 DEF Send, Settled, Book, IInv, DigestTypeOK
  <2>3. ASSUME NEW t \in Tick, Attempt(t) \/ Result(t) PROVE deliv'[w] = deliv[w]
    BY <1>1, <2>3 DEF Attempt, Result, At, Book, IInv, RunsSound, Settled, DigestTypeOK
  <2>4. ASSUME NEW t \in Tick, Begin(t) \/ Query(t) \/ Request(t) \/ Crash(t)
        PROVE  deliv' = deliv
    BY <2>4 DEF Begin, Query, Request, Crash, digestVars
  <2>5. CASE PassTime \/ ChangePreference \/ UNCHANGED vars
    BY <2>5 DEF PassTime, ChangePreference, vars, digestVars
  <2> QED BY <1>1, <2>1, <2>2, <2>3, <2>4, <2>5 DEF DigestNext
<1>2. DigestSpec => [][Stays]_vars
  <2>1. IInv /\ [DigestNext]_vars => [Stays]_vars
    BY <1>1
  <2> QED BY <2>1, InductiveInvariant, PTL DEF DigestSpec
<1> QED BY <1>2 DEF SettledStays

(* The runs keep to the section that the digest's lease gives them: with the  *)
(* theorem that TickLease implements ExclusiveSection, they may rely on it.   *)
THEOREM RunsUseTheSection == DigestSpec => SectionSpec
PROOF
<1>1. DigestInit => SectionInit
  BY DEF DigestInit
<1>2. [DigestNext]_vars => [SectionNext]_sectionVars
  <2> SUFFICES ASSUME [DigestNext]_vars PROVE SectionNext \/ UNCHANGED sectionVars
    OBVIOUS
  <2>1. CASE UNCHANGED vars
    BY <2>1 DEF vars
  <2>2. CASE PassTime \/ ChangePreference
    BY <2>2 DEF SectionNext, PassTime, ChangePreference
  <2>3. ASSUME NEW t \in Tick,
               \/ Begin(t) \/ Query(t) \/ Snapshot(t) \/ Send(t)
               \/ Attempt(t) \/ Request(t) \/ Result(t) \/ Crash(t)
        PROVE  SectionNext \/ UNCHANGED sectionVars
    BY <2>3 DEF SectionNext, Begin, Query, Snapshot, Send, Attempt, Request, Result, Crash,
                EndRun
  <2> QED BY <2>1, <2>2, <2>3 DEF DigestNext
<1> QED BY <1>1, <1>2, PTL DEF DigestSpec, SectionSpec

-----------------------------------------------------------------------------
(***************************************************************************)
(* Alerts.  The inductive invariant follows an email from the lookup that  *)
(* found no delivery to the delivery that records it.                      *)
(***************************************************************************)

(* No pair is none of the pairs. *)
LEMMA NoPairIsNone == NoPair \notin Pairs
PROOF
<1>1. "none" \in DOMAIN NoPair
  BY DEF NoPair
<1>2. \A p \in Pairs : "none" \notin DOMAIN p
  BY DEF Pairs
<1> QED BY <1>1, <1>2

LEMMA IdleTyped == Idle \in RunRecord
PROOF
<1>1. <<>> \in [{} -> SUBSET Card]
  OBVIOUS
<1>2. <<>> \in UNION {[to -> SUBSET Card] : to \in SUBSET Recipient}
  BY <1>1
<1> QED BY <1>2 DEF Idle, RunRecord

LEMMA AlertsInitHolds ==
    ASSUME AInit
    PROVE  AlertsInv
PROOF
<1>1. AlertsTypeOK
  <2>1. run \in [Run -> RunRecord]
    BY IdleTyped DEF AInit
  <2>2. /\ DOMAIN user \subseteq User
        /\ user \in [DOMAIN user -> [verified : BOOLEAN, wants : SUBSET Card]]
    <3>1. user \in [User -> [verified : BOOLEAN, wants : SUBSET Card]] /\ DOMAIN user = User
      BY DEF AInit
    <3> QED BY <3>1
  <2>4. delivery = {} /\ unrecorded = {}
    BY DEF AInit
  <2>3. mailed \in Seq(Email)
    BY DEF AInit
  <2>5. anow \in Nat \ {0} /\ runs \in Nat
    <3>1. anow = 1 /\ runs = 0
      BY DEF AInit
    <3> QED BY <3>1
  <2>7. runsMet \in BOOLEAN
    BY DEF AInit
  <2>6. /\ delivery \subseteq [to : Recipient, card : Card,
                               status : {"sent", "failed", "test"}, at : Nat]
        /\ unrecorded \subseteq Pairs
    BY <2>4
  <2> QED BY <2>1, <2>2, <2>3, <2>5, <2>6, <2>7 DEF AlertsTypeOK
<1>2. /\ mailed = <<>> /\ DOMAIN mailed = {} /\ runs = 0 /\ anow = 1
      /\ \A r \in Run : /\ run[r].at = 0 /\ run[r].id = 0
                        /\ run[r].pair = NoPair /\ run[r].todo = {}
  BY DEF AInit, Idle
<1> QED BY <1>1, <1>2 DEF AlertsInv, RunsInTurn, OneAlertPerCooldown, EmailsAccounted, PairIsFresh

(* An email is one of a pair. *)
LEMMA EmailTyped ==
    ASSUME AlertsTypeOK, NEW i \in DOMAIN mailed
    PROVE  mailed[i] \in Email /\ PairOf(mailed[i]) \in Pairs /\ PairOf(mailed[i]) # NoPair
PROOF
<1>1. mailed \in Seq(Email)
  BY DEF AlertsTypeOK, Email
<1>2. mailed[i] \in Email
  BY <1>1, ElementOfSeq
<1>3. PairOf(mailed[i]) \in Pairs
  BY <1>2 DEF Email, PairOf, Pairs
<1> QED BY <1>2, <1>3, NoPairIsNone

(* The email a run sends is one more, at the end. *)
LEMMA EmailArrives ==
    ASSUME AlertsTypeOK, NEW r \in Run, run[r].pair # NoPair, Arrive(r)
    PROVE  /\ mailed' \in Seq(Email) /\ DOMAIN mailed \subseteq DOMAIN mailed'
           /\ \A i \in DOMAIN mailed : mailed'[i] = mailed[i]
           /\ \A i \in DOMAIN mailed' \ DOMAIN mailed :
                /\ PairOf(mailed'[i]) = run[r].pair
                /\ mailed'[i].began = run[r].at /\ mailed'[i].run = run[r].id /\ mailed'[i].at = anow
                /\ mailed'[i].to = run[r].pair.to
PROOF
<1> DEFINE e == [to |-> run[r].pair.to, card |-> run[r].pair.card,
                 at |-> anow, began |-> run[r].at, run |-> run[r].id]
<1>1. run[r].pair \in Pairs /\ run[r].at \in Nat /\ run[r].id \in Nat /\ anow \in Nat
  BY DEF AlertsTypeOK, RunRecord
<1>2. e \in Email
  BY <1>1 DEF Email, Pairs
<1>3. PairOf(e) = run[r].pair
  BY <1>1 DEF PairOf, Pairs
<1>4. mailed \in Seq(Email) /\ mailed' = Append(mailed, e)
  BY DEF AlertsTypeOK, Email, Arrive
<1>f. e.at = anow /\ e.began = run[r].at /\ e.run = run[r].id /\ e.to = run[r].pair.to
  OBVIOUS
<1> HIDE DEF e
<1>5. /\ mailed' \in Seq(Email) /\ DOMAIN mailed = 1 .. Len(mailed)
      /\ DOMAIN mailed' = 1 .. Len(mailed) + 1
      /\ \A i \in 1 .. Len(mailed) : mailed'[i] = mailed[i]
      /\ mailed'[Len(mailed) + 1] = e /\ Len(mailed) \in Nat
  BY <1>2, <1>4
<1>6. \A i \in DOMAIN mailed' \ DOMAIN mailed : i = Len(mailed) + 1
  BY <1>5
<1> QED BY <1>3, <1>5, <1>6, <1>f

(* While runs do not meet, an email that is accounted for stays so when nothing *)
(* of its run, nor any delivery to its recipient, is taken away.                *)
LEMMA StaysAccounted ==
    ASSUME EmailsAccounted, UNCHANGED mailed, unrecorded \subseteq unrecorded',
           Reachable' \subseteq Reachable,
           \A d \in delivery : d.to \in Reachable' => d \in delivery',
           \A i \in DOMAIN mailed, r \in Run :
              /\ run[r].id = mailed[i].run /\ run[r].at = mailed[i].began
              /\ run[r].mode = "send" /\ run[r].pair = PairOf(mailed[i])
              /\ mailed[i].to \in Reachable'
              => \/ run'[r] = run[r]
                 \/ PairOf(mailed[i]) \in unrecorded'
    PROVE  EmailsAccounted'
PROOF
<1> SUFFICES ASSUME NEW i \in DOMAIN mailed, mailed[i].to \in Reachable'
             PROVE  \/ PairOf(mailed[i]) \in unrecorded'
                    \/ \E d \in delivery' : /\ d.to = mailed[i].to /\ d.card = mailed[i].card
                                            /\ d.status = "sent" /\ d.at = mailed[i].began
                    \/ \E r \in Run : /\ run'[r].id = mailed[i].run /\ run'[r].at = mailed[i].began
                                      /\ run'[r].mode = "send"
                                      /\ run'[r].pair = PairOf(mailed[i])
  BY DEF EmailsAccounted, PairOf
<1>1. CASE PairOf(mailed[i]) \in unrecorded
  BY <1>1
<1>2. CASE \E d \in delivery : /\ d.to = mailed[i].to /\ d.card = mailed[i].card
                               /\ d.status = "sent" /\ d.at = mailed[i].began
  BY <1>2
<1>3. CASE \E r \in Run : /\ run[r].id = mailed[i].run /\ run[r].at = mailed[i].began
                          /\ run[r].mode = "send" /\ run[r].pair = PairOf(mailed[i])
  BY <1>3
<1> QED BY <1>1, <1>2, <1>3 DEF EmailsAccounted

(* The same for what runs are about to send. *)
LEMMA StaysFresh ==
    ASSUME PairIsFresh, UNCHANGED mailed, unrecorded \subseteq unrecorded',
           Reachable' \subseteq Reachable,
           \A r \in Run : \/ run'[r].pair = NoPair
                          \/ /\ run'[r].pair = run[r].pair /\ run'[r].id = run[r].id
                             /\ run'[r].at = run[r].at,
           AlertsTypeOK
    PROVE  PairIsFresh'
PROOF
<1>1. \A i \in DOMAIN mailed : PairOf(mailed[i]) \in Pairs
  BY EmailTyped
<1> QED BY <1>1, NoPairIsNone DEF PairIsFresh, PairOf

(* The property itself depends on what has arrived and whom it can reach. *)
LEMMA StaysOne ==
    ASSUME OneAlertPerCooldown, UNCHANGED mailed, unrecorded \subseteq unrecorded',
           Reachable' \subseteq Reachable, runsMet => runsMet'
    PROVE  OneAlertPerCooldown'
PROOF
<1> QED BY DEF OneAlertPerCooldown, Reachable

(* What users do takes nothing away from those that stay. *)
LEMMA UsersKeep ==
    ASSUME AlertsInv, NEW u \in User, Confirm(u) \/ Prefer(u) \/ LeaveService(u)
    PROVE  AlertsInv'
PROOF
<1>1. /\ UNCHANGED <<anow, run, runs, mailed, unrecorded, runsMet>>
      /\ Reachable' \subseteq Reachable
  BY DEF Confirm, Prefer, LeaveService, Reachable
<1>2. \A d \in delivery : d.to \in Reachable' => d \in delivery'
  BY AlertsAssumption DEF Confirm, Prefer, LeaveService, Reachable, AlertsInv, AlertsTypeOK
<1>3. /\ DOMAIN user' \subseteq User
      /\ user' \in [DOMAIN user' -> [verified : BOOLEAN, wants : SUBSET Card]]
  <2> DEFINE U == [verified : BOOLEAN, wants : SUBSET Card]
  <2>1. DOMAIN user \subseteq User /\ user \in [DOMAIN user -> U]
    BY DEF AlertsInv, AlertsTypeOK
  <2>2. CASE Confirm(u)
    BY <2>1, <2>2 DEF Confirm
  <2>3. CASE Prefer(u)
    <3>1. PICK wants \in SUBSET Card : user' = [user EXCEPT ![u].wants = wants]
      BY <2>3 DEF Prefer
    <3> QED BY <2>1, <3>1
  <2>4. CASE LeaveService(u)
    BY <2>1, <2>4 DEF LeaveService
  <2> QED BY <2>2, <2>3, <2>4
<1>4. delivery' \subseteq delivery
  BY DEF Confirm, Prefer, LeaveService
<1>5. AlertsTypeOK'
  BY <1>1, <1>3, <1>4 DEF AlertsInv, AlertsTypeOK
<1>6. RunsInTurn'
  BY <1>1 DEF AlertsInv, RunsInTurn
<1>7. OneAlertPerCooldown'
  BY <1>1, StaysOne DEF AlertsInv
<1>8. ASSUME ~runsMet' PROVE EmailsAccounted' /\ PairIsFresh'
  BY <1>1, <1>2, <1>8, StaysAccounted, StaysFresh DEF AlertsInv
<1> QED BY <1>5, <1>6, <1>7, <1>8 DEF AlertsInv

LEMMA AAdvanceKeeps ==
    ASSUME AlertsInv, AAdvance
    PROVE  AlertsInv'
PROOF
<1>1. UNCHANGED <<user, run, runs, delivery, mailed, unrecorded, runsMet>> /\ anow' = anow + 1
  BY DEF AAdvance
<1>2. AlertsTypeOK'
  BY <1>1 DEF AlertsInv, AlertsTypeOK
<1>3. RunsInTurn' /\ OneAlertPerCooldown'
  <2>1. \A r \in Run : run[r].at \in Nat
    BY DEF AlertsInv, AlertsTypeOK, RunRecord
  <2>2. anow \in Nat
    BY DEF AlertsInv, AlertsTypeOK
  <2>3. \A r \in Run : run'[r].at <= anow'
    BY <1>1, <2>1, <2>2 DEF AlertsInv, RunsInTurn
  <2>4. RunsInTurn'
    BY <1>1, <2>3 DEF AlertsInv, RunsInTurn
  <2> QED BY <1>1, <2>4 DEF AlertsInv, OneAlertPerCooldown, CooledDown
<1>4. (EmailsAccounted /\ PairIsFresh) => (EmailsAccounted /\ PairIsFresh)'
  BY <1>1 DEF EmailsAccounted, PairIsFresh, Reachable, PairOf
<1> QED BY <1>1, <1>2, <1>3, <1>4 DEF AlertsInv

(* A run begins with a number of its own, and with nothing in hand. *)
LEMMA BeginRunKeeps ==
    ASSUME AlertsInv, NEW r \in Run, BeginRun(r)
    PROVE  AlertsInv'
PROOF
<1>0. PICK cards \in SUBSET Card, mode \in {"test", "send"}, to \in {{Operator}, EligibleUsers} :
        run' = [run EXCEPT ![r] =
              [at |-> anow, id |-> runs + 1, todo |-> cards \X to,
               wants |-> [u \in to |-> Matching(u)], mode |-> mode, pair |-> NoPair,
               tries |-> 0]]
  BY DEF BeginRun
<1> DEFINE todo == cards \X to
           wants == [u \in to |-> Matching(u)]
           new == [at |-> anow, id |-> runs + 1, todo |-> todo, wants |-> wants,
                   mode |-> mode, pair |-> NoPair, tries |-> 0]
<1>1. /\ UNCHANGED <<anow, user, delivery, mailed, unrecorded>> /\ runs' = runs + 1
      /\ run[r].at = 0 /\ run[r].pair = NoPair
      /\ runsMet' = (runsMet \/ \E q \in Run : run[q].at # 0)
      /\ anow \in Nat \ {0} /\ runs \in Nat /\ runsMet \in BOOLEAN
  BY DEF BeginRun, AlertsInv, AlertsTypeOK, RunsInTurn
<1>2. new \in RunRecord
  <2>1. to \subseteq Recipient
    BY DEF EligibleUsers, Recipient, AlertsInv, AlertsTypeOK
  <2>2. \A u \in to : Matching(u) \in SUBSET Card
    BY DEF Matching, EligibleUsers, AlertsInv, AlertsTypeOK
  <2>3. [u \in to |-> Matching(u)] \in [to -> SUBSET Card]
    BY <2>2
  <2>4. [u \in to |-> Matching(u)] \in UNION {[s -> SUBSET Card] : s \in SUBSET Recipient}
    BY <2>1, <2>3
  <2>5. cards \X to \in SUBSET (Card \X Recipient)
    BY <2>1
  <2> DEFINE W == UNION {[s -> SUBSET Card] : s \in SUBSET Recipient}
  <2>7. todo \in SUBSET (Card \X Recipient) /\ wants \in W
    BY <2>4, <2>5
  <2> HIDE DEF todo, wants, W
  <2>8. new \in [at : Nat, id : Nat, todo : SUBSET (Card \X Recipient), wants : W,
                 mode : {"off", "test", "send"}, pair : Pairs \cup {NoPair}, tries : Nat]
    BY <1>1, <2>7
  <2> HIDE DEF new
  <2> QED BY <2>8 DEF W, RunRecord
<1>3. new.at = anow /\ new.id = runs + 1 /\ new.pair = NoPair
  BY DEF Idle
<1>d. run' = [run EXCEPT ![r] = new]
  BY <1>0
<1> HIDE DEF new
<1>4. /\ run' \in [Run -> RunRecord] /\ run'[r] = new
      /\ \A q \in Run \ {r} : run'[q] = run[q]
  BY <1>d, <1>2 DEF AlertsInv, AlertsTypeOK
<1>5. AlertsTypeOK'
  BY <1>1, <1>4, SMTT(30) DEF AlertsInv, AlertsTypeOK, RunRecord
<1>6. RunsInTurn'
  <2>5. \A q \in Run : run'[q].at <= anow'
    BY <1>1, <1>3, <1>4 DEF AlertsInv, RunsInTurn
  <2>1. \A i \in DOMAIN mailed : /\ mailed[i].run <= runs /\ mailed[i].run \in Nat
                                /\ mailed[i].began <= mailed[i].at
    <3>1. \A i \in DOMAIN mailed : mailed[i] \in Email
      BY EmailTyped DEF AlertsInv
    <3> QED BY <3>1 DEF AlertsInv, RunsInTurn, Email
  <2>4. \A q \in Run : run'[q].id <= runs + 1
    <3>1. \A q \in Run : run[q].id <= runs /\ run[q].id \in Nat
      BY DEF AlertsInv, RunsInTurn, AlertsTypeOK, RunRecord
    <3> QED BY <1>1, <1>3, <1>4, <3>1
  <2>2. \A q \in Run : run'[q].at = 0 => run'[q].pair = NoPair /\ run'[q].todo = {}
    <3>1. \A q \in Run : run[q].at = 0 => run[q].pair = NoPair /\ run[q].todo = {}
      BY DEF AlertsInv, RunsInTurn
    <3>2. run'[r].at # 0
      BY <1>1, <1>3, <1>4
    <3> QED BY <1>4, <3>1, <3>2
  <2>3. ~runsMet' => \A q \in Run \ {r} : run[q].at = 0
    BY <1>1
  <2>6. \A i \in DOMAIN mailed' : mailed'[i].run <= runs' /\ mailed'[i].began <= mailed'[i].at
    BY <1>1, <2>1
  <2>7. \A q \in Run : run'[q].id <= runs'
    BY <1>1, <2>4
  <2>8. ~runsMet' => \A q \in Run : run'[q].at # 0 =>
            run'[q].id = runs' /\ \A p \in Run : run'[p].at # 0 => p = q
    BY <1>1, <1>3, <1>4, <2>3
  <2> QED BY <2>2, <2>5, <2>6, <2>7, <2>8 DEF RunsInTurn
<1>7. OneAlertPerCooldown'
  BY <1>1, StaysOne DEF AlertsInv, Reachable
<1>8. ASSUME ~runsMet' PROVE EmailsAccounted' /\ PairIsFresh'
  <2>1. EmailsAccounted /\ PairIsFresh /\ AlertsTypeOK
    BY <1>1, <1>8 DEF AlertsInv
  <2>2. \A i \in DOMAIN mailed : PairOf(mailed[i]) # NoPair
    BY <2>1, EmailTyped
  <2>3. EmailsAccounted'
    BY <1>1, <1>4, <2>1, <2>2, StaysAccounted DEF Reachable
  <2>4. PairIsFresh'
    BY <1>1, <1>3, <1>4, <2>1, StaysFresh DEF Reachable
  <2> QED BY <2>3, <2>4
<1> QED BY <1>5, <1>6, <1>7, <1>8 DEF AlertsInv

(* A run takes up a pair only when no delivery of it is recent. *)
LEMMA ConsiderKeeps ==
    ASSUME AlertsInv, NEW r \in Run, NEW c \in Card, NEW u \in Recipient, Consider(r, c, u)
    PROVE  AlertsInv'
PROOF
<1> DEFINE p == IF c \in run[r].wants[u] /\ ~Recent(r, c, u)
                THEN [card |-> c, to |-> u] ELSE NoPair
<1>1. /\ UNCHANGED <<anow, user, runs, delivery, mailed, unrecorded, runsMet>>
      /\ run[r].pair = NoPair /\ run[r] \in RunRecord /\ <<c, u>> \in run[r].todo
      /\ p \in Pairs \cup {NoPair}
  BY DEF Consider, AlertsInv, AlertsTypeOK, RunRecord, Pairs
<1>2. /\ run' \in [Run -> RunRecord]
      /\ run'[r].at = run[r].at /\ run'[r].id = run[r].id /\ run'[r].pair = p
      /\ \A q \in Run \ {r} : run'[q] = run[q]
  <2>1. run' = [run EXCEPT ![r] = [run[r] EXCEPT !.todo = @ \ {<<c, u>>}, !.pair = p, !.tries = 0]]
    BY DEF Consider, AlertsInv, AlertsTypeOK
  <2> HIDE DEF p
  <2>2. [run[r] EXCEPT !.todo = @ \ {<<c, u>>}, !.pair = p, !.tries = 0] \in RunRecord
    BY <1>1 DEF RunRecord
  <2> QED BY <1>1, <2>1, <2>2 DEF AlertsInv, AlertsTypeOK, RunRecord
<1>3. AlertsTypeOK'
  BY <1>1, <1>2 DEF AlertsInv, AlertsTypeOK, RunRecord
<1>4. run[r].at # 0
  BY DEF Consider, AlertsInv, RunsInTurn, AlertsTypeOK
<1>5. RunsInTurn'
  BY <1>1, <1>2, <1>4 DEF AlertsInv, RunsInTurn
<1>6. OneAlertPerCooldown'
  BY <1>1, StaysOne DEF AlertsInv, Reachable
<1>7. ASSUME ~runsMet' PROVE EmailsAccounted' /\ PairIsFresh'
  <2>1. EmailsAccounted /\ PairIsFresh /\ AlertsTypeOK /\ ~runsMet
    BY <1>1, <1>7 DEF AlertsInv
  <2>2. \A i \in DOMAIN mailed : PairOf(mailed[i]) # NoPair
    BY <2>1, EmailTyped
  <2>3. EmailsAccounted'
    BY <1>1, <1>2, <2>1, <2>2, StaysAccounted DEF Reachable
  <2>4. ASSUME NEW i \in DOMAIN mailed, p = PairOf(mailed[i]), mailed[i].to \in Reachable,
               mailed[i].run < run[r].id, run[r].at - mailed[i].began <= Cooldown
        PROVE  PairOf(mailed[i]) \in unrecorded
    <3>1. mailed[i] \in Email /\ run[r].id \in Nat /\ run[r].at \in Nat
      BY <1>1, <2>1, EmailTyped DEF RunRecord
    <3>2. ~Recent(r, c, u) /\ c = mailed[i].card /\ u = mailed[i].to
      BY <2>2, <2>4, <3>1 DEF PairOf, Email
    <3>3. ~ \E d \in delivery : /\ d.to = mailed[i].to /\ d.card = mailed[i].card
                                /\ d.status = "sent" /\ d.at = mailed[i].began
      BY <2>4, <3>1, <3>2, AlertsAssumption DEF Recent, Email
    <3>4. ~ \E q \in Run : run[q].id = mailed[i].run /\ run[q].pair = PairOf(mailed[i])
      <4> SUFFICES ASSUME NEW q \in Run, run[q].id = mailed[i].run, run[q].pair = PairOf(mailed[i])
                   PROVE  FALSE
        OBVIOUS
      <4>1. run[q].at # 0
        BY <2>2 DEF AlertsInv, RunsInTurn
      <4>2. q = r
        BY <1>4, <2>1, <4>1 DEF AlertsInv, RunsInTurn
      <4> QED BY <2>4, <3>1, <4>2 DEF Email
    <3> QED BY <2>1, <2>4, <3>3, <3>4 DEF EmailsAccounted
  <2>5. PairIsFresh'
    <3>1. ASSUME NEW q \in Run \ {r}, NEW i \in DOMAIN mailed,
                 run'[q].pair = PairOf(mailed[i]), mailed[i].to \in Reachable,
                 mailed[i].run < run'[q].id, run'[q].at - mailed[i].began <= Cooldown
          PROVE  PairOf(mailed[i]) \in unrecorded
      BY <1>2, <2>1, <3>1 DEF PairIsFresh
    <3> HIDE DEF p
    <3> QED BY <1>1, <1>2, <2>4, <3>1 DEF PairIsFresh, PairOf, Reachable
  <2> QED BY <2>3, <2>5
<1> QED BY <1>3, <1>5, <1>6, <1>7 DEF AlertsInv

(* A row of the outcome ends the pair, and the run if the account is gone. *)
LEMMA RecordDone ==
    ASSUME AlertsTypeOK, NEW r \in Run, run[r].pair # NoPair,
           NEW status \in {"sent", "failed", "test"}, Record(r, status)
    PROVE  /\ run' \in [Run -> RunRecord] /\ run'[r].pair = NoPair
           /\ \/ run'[r] = Idle
              \/ run'[r].at = run[r].at /\ run'[r].id = run[r].id /\ run'[r].todo = run[r].todo
           /\ \A q \in Run \ {r} : run'[q] = run[q]
           /\ delivery \subseteq delivery'
           /\ delivery' \subseteq [to : Recipient, card : Card,
                                   status : {"sent", "failed", "test"}, at : Nat]
           /\ run[r].pair.to \in Reachable =>
                \E d \in delivery' : /\ d.to = run[r].pair.to /\ d.card = run[r].pair.card
                                     /\ d.status = status /\ d.at = run[r].at
PROOF
<1> DEFINE p == run[r].pair
           row == [to |-> p.to, card |-> p.card, status |-> status, at |-> run[r].at]
           D == [to : Recipient, card : Card, status : {"sent", "failed", "test"}, at : Nat]
<1>1. p \in Pairs /\ run[r] \in RunRecord /\ run[r].at \in Nat /\ delivery \subseteq D
      /\ run \in [Run -> RunRecord]
  BY DEF AlertsTypeOK, RunRecord
<1>2. row \in D
  BY <1>1 DEF Pairs
<1>3. CASE p.to \in Reachable
  <2>1. delivery' = delivery \cup {row} /\ run' = [run EXCEPT ![r] = [run[r] EXCEPT !.pair = NoPair]]
    BY <1>1, <1>3 DEF Record, Reachable
  <2>2. [run[r] EXCEPT !.pair = NoPair] \in RunRecord
    BY <1>1 DEF RunRecord
  <2>3. delivery' \subseteq D /\ row \in delivery'
    BY <1>1, <1>2, <2>1
  <2>4. /\ run'[r] = [run[r] EXCEPT !.pair = NoPair] /\ run' \in [Run -> RunRecord]
        /\ \A q \in Run \ {r} : run'[q] = run[q]
    BY <1>1, <2>1, <2>2
  <2>5. /\ run'[r].pair = NoPair /\ run'[r].at = run[r].at /\ run'[r].id = run[r].id
        /\ run'[r].todo = run[r].todo
    BY <1>1, <2>4 DEF RunRecord
  <2>6. row.to = p.to /\ row.card = p.card /\ row.status = status /\ row.at = run[r].at
    OBVIOUS
  <2> HIDE DEF row, D, p
  <2>7. \E d \in delivery' : d.to = p.to /\ d.card = p.card /\ d.status = status /\ d.at = run[r].at
    BY <2>3, <2>6
  <2> QED BY <2>1, <2>3, <2>4, <2>5, <2>7 DEF p, D
<1>4. CASE p.to \notin Reachable
  <2>1. run' = [run EXCEPT ![r] = Idle] /\ delivery' = delivery
    BY <1>4 DEF Record, Reachable
  <2>2. /\ run'[r] = Idle /\ run' \in [Run -> RunRecord]
        /\ \A q \in Run \ {r} : run'[q] = run[q]
    BY <1>1, <2>1, IdleTyped
  <2> QED BY <1>1, <1>4, <2>1, <2>2 DEF Idle
<1> QED BY <1>3, <1>4

(* When one run of those in turn ends a pair or ends, they are still in turn. *)
LEMMA StaysInTurn ==
    ASSUME RunsInTurn, NEW r \in Run, run[r].at # 0,
           \/ run'[r] = Idle
           \/ run'[r].at = run[r].at /\ run'[r].id = run[r].id,
           \A q \in Run \ {r} : run'[q] = run[q],
           \A i \in DOMAIN mailed' : mailed'[i].run <= runs /\ mailed'[i].began <= mailed'[i].at,
           UNCHANGED <<runs, runsMet, anow>>, runs \in Nat, anow \in Nat
    PROVE  RunsInTurn'
PROOF
<1>1. run'[r] = Idle => run'[r].at = 0 /\ run'[r].id = 0 /\ run'[r].pair = NoPair /\ run'[r].todo = {}
  BY DEF Idle
<1> QED BY <1>1 DEF RunsInTurn

(* A run in the middle of a pair is in progress. *)
LEMMA InProgress ==
    ASSUME AlertsInv, NEW r \in Run, run[r].pair # NoPair
    PROVE  /\ run[r].at # 0 /\ run[r].id \in Nat /\ run[r].at \in Nat /\ run[r] \in RunRecord
           /\ run[r].pair \in Pairs
           /\ ~runsMet => /\ run[r].id = runs
                          /\ \A q \in Run : q # r => run[q].at = 0 /\ run[q].pair = NoPair
PROOF
<1> QED BY DEF AlertsInv, RunsInTurn, AlertsTypeOK, RunRecord

(* What a run sends comes after everything an earlier run sent lately that *)
(* was recorded.                                                           *)
LEMMA ArrivesOnce ==
    ASSUME AlertsInv, NEW r \in Run, run[r].pair # NoPair, Arrive(r),
           UNCHANGED <<runs, runsMet, unrecorded, user>>
    PROVE  /\ OneAlertPerCooldown'
           /\ \A i \in DOMAIN mailed' : mailed'[i].run <= runs /\ mailed'[i].began <= mailed'[i].at
PROOF
<1>1. \A i \in DOMAIN mailed : /\ mailed[i].run <= runs /\ mailed[i] \in Email
                              /\ mailed[i].began <= mailed[i].at
  BY EmailTyped DEF AlertsInv, RunsInTurn
<1>2. /\ \A i \in DOMAIN mailed : mailed'[i] = mailed[i]
      /\ \A i \in DOMAIN mailed' \ DOMAIN mailed :
           /\ PairOf(mailed'[i]) = run[r].pair
           /\ mailed'[i].began = run[r].at /\ mailed'[i].run = run[r].id /\ mailed'[i].at = anow
           /\ mailed'[i].to = run[r].pair.to
  BY EmailArrives DEF AlertsInv
<1>3. /\ run[r].id <= runs /\ run[r].id \in Nat
      /\ run[r].at <= anow /\ run[r].at \in Nat /\ anow \in Nat
  <2>1. /\ run[r].at # 0 /\ run[r].id \in Nat /\ (~runsMet => run[r].id = runs)
        /\ run[r].at \in Nat
    BY InProgress
  <2> QED BY <2>1 DEF AlertsInv, AlertsTypeOK, RunsInTurn
<1>4. \A i \in DOMAIN mailed' : /\ mailed'[i].run <= runs /\ mailed'[i].run \in Nat
                               /\ mailed'[i].began <= mailed'[i].at
                               /\ mailed'[i].began \in Nat /\ mailed'[i].at \in Nat
  BY <1>1, <1>2, <1>3 DEF Email
<1>5. ASSUME NEW i \in DOMAIN mailed', NEW j \in DOMAIN mailed', ~runsMet,
             mailed'[i].run < mailed'[j].run, mailed'[i].to = mailed'[j].to,
             mailed'[i].card = mailed'[j].card, mailed'[j].began - mailed'[i].began <= Cooldown,
             mailed'[i].to \in Reachable
      PROVE  PairOf(mailed'[i]) \in unrecorded
  <2>1. CASE j \in DOMAIN mailed /\ i \in DOMAIN mailed
    <3>1. mailed'[i] = mailed[i] /\ mailed'[j] = mailed[j]
      BY <1>2, <2>1
    <3>2. ~CooledDown(mailed[i], mailed[j])
      BY <1>4, <1>5, <3>1, AlertsAssumption DEF CooledDown
    <3> QED BY <1>5, <2>1, <3>1, <3>2 DEF AlertsInv, OneAlertPerCooldown, PairOf, Reachable
  <2>2. CASE i \notin DOMAIN mailed
    <3>1. mailed'[i].run = runs
      BY <1>2, <1>5, <2>2, InProgress
    <3> QED BY <1>4, <1>5, <3>1 DEF AlertsInv, AlertsTypeOK
  <2>3. CASE j \notin DOMAIN mailed /\ i \in DOMAIN mailed
    <3>1. /\ run[r].pair = PairOf(mailed'[j]) /\ mailed'[j].began = run[r].at
          /\ mailed'[j].run = run[r].id /\ mailed'[i] = mailed[i]
      BY <1>2, <2>3
    <3>2. PairOf(mailed'[j]) = PairOf(mailed[i])
      BY <1>5, <3>1 DEF PairOf
    <3> QED BY <1>5, <2>3, <3>1, <3>2 DEF AlertsInv, PairIsFresh
  <2> QED BY <2>1, <2>2, <2>3
<1>6. ASSUME NEW i \in DOMAIN mailed', NEW j \in DOMAIN mailed',
             ~(mailed'[j].began - mailed'[i].began <= Cooldown)
      PROVE  CooledDown(mailed'[i], mailed'[j])
  BY <1>4, <1>6, AlertsAssumption DEF CooledDown
<1>7. OneAlertPerCooldown'
  <2> SUFFICES ASSUME NEW i \in DOMAIN mailed', NEW j \in DOMAIN mailed', ~runsMet,
                      mailed'[i].run < mailed'[j].run, mailed'[i].to = mailed'[j].to,
                      mailed'[i].card = mailed'[j].card, mailed'[i].to \in Reachable
               PROVE  CooledDown(mailed'[i], mailed'[j]) \/ PairOf(mailed'[i]) \in unrecorded
    BY DEF OneAlertPerCooldown, CooledDown, PairOf, Reachable
  <2> QED BY <1>5, <1>6
<1> QED BY <1>4, <1>7

LEMMA SendOkKeeps ==
    ASSUME AlertsInv, NEW r \in Run, SendOk(r)
    PROVE  AlertsInv'
PROOF
<1>1. /\ Arrive(r) /\ Record(r, "sent") /\ run[r].pair # NoPair
      /\ UNCHANGED <<anow, user, runs, unrecorded, runsMet>> /\ AlertsTypeOK
  BY DEF SendOk, Sending, AlertsInv
<1>2. /\ run' \in [Run -> RunRecord] /\ run'[r].pair = NoPair
      /\ \/ run'[r] = Idle
         \/ run'[r].at = run[r].at /\ run'[r].id = run[r].id /\ run'[r].todo = run[r].todo
      /\ \A q \in Run \ {r} : run'[q] = run[q]
      /\ delivery \subseteq delivery'
      /\ delivery' \subseteq [to : Recipient, card : Card,
                              status : {"sent", "failed", "test"}, at : Nat]
      /\ run[r].pair.to \in Reachable =>
           \E d \in delivery' : /\ d.to = run[r].pair.to /\ d.card = run[r].pair.card
                                /\ d.status = "sent" /\ d.at = run[r].at
  BY <1>1, RecordDone
<1>3. /\ mailed' \in Seq(Email) /\ DOMAIN mailed \subseteq DOMAIN mailed'
      /\ \A i \in DOMAIN mailed : mailed'[i] = mailed[i]
      /\ \A i \in DOMAIN mailed' \ DOMAIN mailed :
           /\ PairOf(mailed'[i]) = run[r].pair
           /\ mailed'[i].began = run[r].at /\ mailed'[i].run = run[r].id /\ mailed'[i].at = anow
           /\ mailed'[i].to = run[r].pair.to
  BY <1>1, EmailArrives
<1>4. AlertsTypeOK'
  BY <1>1, <1>2, <1>3 DEF AlertsTypeOK
<1>5. /\ OneAlertPerCooldown'
      /\ \A i \in DOMAIN mailed' : mailed'[i].run <= runs /\ mailed'[i].began <= mailed'[i].at
  BY <1>1, ArrivesOnce
<1>6. RunsInTurn'
  BY <1>1, <1>2, <1>5, InProgress, StaysInTurn DEF AlertsInv, AlertsTypeOK
<1>7. ASSUME ~runsMet' PROVE EmailsAccounted' /\ PairIsFresh'
  <2>1. /\ EmailsAccounted /\ PairIsFresh /\ run[r].pair \in Pairs
        /\ \A q \in Run : q # r => run[q].pair = NoPair /\ run'[q].pair = NoPair
    BY <1>1, <1>2, <1>7, InProgress DEF AlertsInv
  <2>2. ASSUME NEW i \in DOMAIN mailed', mailed'[i].to \in Reachable
        PROVE  \/ PairOf(mailed'[i]) \in unrecorded
               \/ \E d \in delivery' : /\ d.to = mailed'[i].to /\ d.card = mailed'[i].card
                                       /\ d.status = "sent" /\ d.at = mailed'[i].began
    <3>1. ASSUME PairOf(mailed'[i]) = run[r].pair, mailed'[i].began = run[r].at
          PROVE  \E d \in delivery' : /\ d.to = mailed'[i].to /\ d.card = mailed'[i].card
                                      /\ d.status = "sent" /\ d.at = mailed'[i].began
      <4>1. run[r].pair.to = mailed'[i].to /\ run[r].pair.card = mailed'[i].card
        BY <3>1 DEF PairOf
      <4> QED BY <1>2, <2>2, <3>1, <4>1
    <3>2. CASE i \notin DOMAIN mailed
      BY <1>3, <3>1, <3>2
    <3>3. CASE i \in DOMAIN mailed
      <4>1. mailed'[i] = mailed[i] /\ PairOf(mailed[i]) # NoPair
        BY <1>1, <1>3, <3>3, EmailTyped
      <4>2. CASE \E q \in Run : /\ run[q].id = mailed[i].run /\ run[q].at = mailed[i].began
                                /\ run[q].mode = "send" /\ run[q].pair = PairOf(mailed[i])
        <5>1. run[r].at = mailed[i].began /\ run[r].pair = PairOf(mailed[i])
          BY <2>1, <4>1, <4>2
        <5>2. PairOf(mailed'[i]) = run[r].pair
          BY <4>1, <5>1 DEF PairOf
        <5> QED BY <3>1, <4>1, <5>1, <5>2
      <4>3. CASE PairOf(mailed[i]) \in unrecorded
        BY <4>1, <4>3 DEF PairOf
      <4>4. CASE \E d \in delivery : /\ d.to = mailed[i].to /\ d.card = mailed[i].card
                                     /\ d.status = "sent" /\ d.at = mailed[i].began
        BY <1>2, <4>1, <4>4
      <4> QED BY <2>1, <2>2, <3>3, <4>1, <4>2, <4>3, <4>4 DEF EmailsAccounted
    <3> QED BY <3>2, <3>3
  <2>3. EmailsAccounted'
    BY <1>1, <2>2 DEF EmailsAccounted, Reachable, PairOf
  <2>4. \A i \in DOMAIN mailed' : PairOf(mailed'[i]) # NoPair
    BY <1>1, <1>3, <2>1, NoPairIsNone, EmailTyped DEF PairOf
  <2>5. PairIsFresh'
    BY <1>2, <2>1, <2>4 DEF PairIsFresh, PairOf
  <2> QED BY <2>3, <2>5
<1> QED BY <1>4, <1>5, <1>6, <1>7 DEF AlertsInv

LEMMA SendFailsKeeps ==
    ASSUME AlertsInv, NEW r \in Run, SendFails(r)
    PROVE  AlertsInv'
PROOF
<1>1. /\ Arrive(r) \/ UNCHANGED mailed
      /\ run[r].pair # NoPair /\ run[r].mode = "send"
      /\ UNCHANGED <<anow, user, runs, delivery, unrecorded, runsMet>> /\ AlertsTypeOK
      /\ run[r] \in RunRecord
  BY InProgress DEF SendFails, Sending, AlertsInv
<1>2. /\ run' \in [Run -> RunRecord]
      /\ run'[r].pair = run[r].pair /\ run'[r].at = run[r].at /\ run'[r].id = run[r].id
      /\ run'[r].mode = run[r].mode
      /\ \A q \in Run \ {r} : run'[q] = run[q]
  <2>1. run' = [run EXCEPT ![r] = [run[r] EXCEPT !.tries = @ + 1]]
    BY <1>1 DEF SendFails, AlertsTypeOK
  <2>2. [run[r] EXCEPT !.tries = @ + 1] \in RunRecord
    BY <1>1 DEF RunRecord
  <2> QED BY <1>1, <2>1, <2>2 DEF AlertsTypeOK, RunRecord
<1>3. /\ mailed' \in Seq(Email) /\ DOMAIN mailed \subseteq DOMAIN mailed'
      /\ \A i \in DOMAIN mailed : mailed'[i] = mailed[i]
      /\ \A i \in DOMAIN mailed' \ DOMAIN mailed :
           /\ PairOf(mailed'[i]) = run[r].pair
           /\ mailed'[i].began = run[r].at /\ mailed'[i].run = run[r].id /\ mailed'[i].at = anow
           /\ mailed'[i].to = run[r].pair.to
  BY <1>1, EmailArrives DEF AlertsTypeOK
<1>4. AlertsTypeOK'
  BY <1>1, <1>2, <1>3 DEF AlertsTypeOK
<1>5. /\ OneAlertPerCooldown'
      /\ \A i \in DOMAIN mailed' : mailed'[i].run <= runs /\ mailed'[i].began <= mailed'[i].at
  <2>1. CASE Arrive(r)
    BY <1>1, <2>1, ArrivesOnce
  <2>2. CASE UNCHANGED mailed
    BY <1>1, <2>2, StaysOne DEF AlertsInv, RunsInTurn, Reachable
  <2> QED BY <1>1, <2>1, <2>2
<1>6. RunsInTurn'
  BY <1>1, <1>2, <1>5, InProgress, StaysInTurn DEF AlertsInv, AlertsTypeOK
<1>7. ASSUME ~runsMet' PROVE EmailsAccounted' /\ PairIsFresh'
  <2>1. /\ EmailsAccounted /\ PairIsFresh /\ run[r].id \in Nat
        /\ \A q \in Run : q # r => run[q].pair = NoPair /\ run'[q].pair = NoPair
    BY <1>1, <1>2, <1>7, InProgress DEF AlertsInv
  <2>2. ASSUME NEW i \in DOMAIN mailed', mailed'[i].to \in Reachable
        PROVE  \/ PairOf(mailed'[i]) \in unrecorded
               \/ \E d \in delivery : /\ d.to = mailed'[i].to /\ d.card = mailed'[i].card
                                      /\ d.status = "sent" /\ d.at = mailed'[i].began
               \/ \E q \in Run : /\ run'[q].id = mailed'[i].run /\ run'[q].at = mailed'[i].began
                                 /\ run'[q].mode = "send" /\ run'[q].pair = PairOf(mailed'[i])
    <3>1. CASE i \notin DOMAIN mailed
      BY <1>1, <1>2, <1>3, <3>1
    <3>2. CASE i \in DOMAIN mailed
      <4>1. mailed'[i] = mailed[i] /\ PairOf(mailed'[i]) = PairOf(mailed[i])
        BY <1>3, <3>2 DEF PairOf
      <4>2. \/ PairOf(mailed[i]) \in unrecorded
            \/ \E d \in delivery : /\ d.to = mailed[i].to /\ d.card = mailed[i].card
                                   /\ d.status = "sent" /\ d.at = mailed[i].began
            \/ \E q \in Run : /\ run[q].id = mailed[i].run /\ run[q].at = mailed[i].began
                              /\ run[q].mode = "send" /\ run[q].pair = PairOf(mailed[i])
        BY <2>1, <2>2, <3>2, <4>1 DEF EmailsAccounted
      <4> QED BY <1>2, <4>1, <4>2
    <3> QED BY <3>1, <3>2
  <2>3. EmailsAccounted'
    BY <1>1, <2>2 DEF EmailsAccounted, Reachable, PairOf
  <2>4. ASSUME NEW i \in DOMAIN mailed', run[r].pair = PairOf(mailed'[i]),
               mailed'[i].to \in Reachable, mailed'[i].run < run[r].id,
               run[r].at - mailed'[i].began <= Cooldown
        PROVE  PairOf(mailed'[i]) \in unrecorded
    <3>1. CASE i \notin DOMAIN mailed
      BY <1>3, <2>1, <2>4, <3>1
    <3>2. CASE i \in DOMAIN mailed
      <4>1. mailed'[i] = mailed[i] /\ PairOf(mailed'[i]) = PairOf(mailed[i])
        BY <1>3, <3>2 DEF PairOf
      <4> QED BY <2>1, <2>4, <3>2, <4>1 DEF PairIsFresh
    <3> QED BY <3>1, <3>2
  <2>5. \A i \in DOMAIN mailed' : PairOf(mailed'[i]) # NoPair
    <3>1. ASSUME NEW i \in DOMAIN mailed' PROVE PairOf(mailed'[i]) # NoPair
      <4>1. CASE i \in DOMAIN mailed
        BY <1>1, <1>3, <4>1, EmailTyped DEF PairOf
      <4>2. CASE i \notin DOMAIN mailed
        BY <1>1, <1>3, <4>2
      <4> QED BY <4>1, <4>2
    <3> QED BY <3>1
  <2>6. PairIsFresh'
    <3> SUFFICES ASSUME NEW q \in Run, NEW i \in DOMAIN mailed',
                        run'[q].pair = PairOf(mailed'[i]), mailed'[i].to \in Reachable,
                        mailed'[i].run < run'[q].id, run'[q].at - mailed'[i].began <= Cooldown
                 PROVE  PairOf(mailed'[i]) \in unrecorded
      BY <1>1 DEF PairIsFresh, Reachable, PairOf
    <3>1. q = r
      BY <2>1, <2>5
    <3> QED BY <1>2, <2>4, <3>1
  <2> QED BY <2>3, <2>6
<1> QED BY <1>4, <1>5, <1>6, <1>7 DEF AlertsInv

(* Emails of a pair that ends without being recorded as sent are noted. *)
LEMMA PairEnds ==
    ASSUME AlertsInv, NEW r \in Run, NoteUnrecorded(r) \/ run[r].mode # "send",
           unrecorded \subseteq unrecorded', unrecorded' \subseteq unrecorded \cup {run[r].pair},
           \A d \in delivery : d \in delivery', run'[r].pair = NoPair,
           \A q \in Run \ {r} : run'[q] = run[q], UNCHANGED <<user, mailed, runsMet>>
    PROVE  ~runsMet' => EmailsAccounted' /\ PairIsFresh'
PROOF
<1> SUFFICES ASSUME ~runsMet' PROVE EmailsAccounted' /\ PairIsFresh'
  OBVIOUS
<1>1. EmailsAccounted /\ PairIsFresh /\ AlertsTypeOK /\ Reachable' = Reachable
  BY DEF AlertsInv, Reachable
<1>2. ASSUME NEW i \in DOMAIN mailed, NEW q \in Run,
             run[q].id = mailed[i].run, run[q].mode = "send", run[q].pair = PairOf(mailed[i])
      PROVE  run'[q] = run[q] \/ PairOf(mailed[i]) \in unrecorded'
  <2>1. CASE q # r
    BY <2>1
  <2>2. CASE q = r
    <3>1. mailed[i].to = run[r].pair.to /\ mailed[i].card = run[r].pair.card
      BY <1>2, <2>2 DEF PairOf
    <3>2. Mailed(r) /\ run[r].pair # NoPair
      BY <1>1, <1>2, <2>2, <3>1, EmailTyped DEF Mailed
    <3> QED BY <1>2, <2>2, <3>2 DEF NoteUnrecorded
  <2> QED BY <2>1, <2>2
<1>3. EmailsAccounted'
  BY <1>1, <1>2, StaysAccounted
<1>4. PairIsFresh'
  BY <1>1, StaysFresh
<1> QED BY <1>3, <1>4

LEMMA RecordFailedKeeps ==
    ASSUME AlertsInv, NEW r \in Run, RecordFailed(r) \/ RecordTest(r)
    PROVE  AlertsInv'
PROOF
<1>1. /\ \E status \in {"failed", "test"} : Record(r, status)
      /\ run[r].pair # NoPair
      /\ UNCHANGED <<anow, user, runs, mailed, runsMet>> /\ AlertsTypeOK
      /\ NoteUnrecorded(r) \/ run[r].mode # "send"
      /\ unrecorded \subseteq unrecorded' /\ unrecorded' \subseteq unrecorded \cup {run[r].pair}
  BY DEF RecordFailed, RecordTest, AlertsInv, NoteUnrecorded
<1>2. /\ run' \in [Run -> RunRecord] /\ run'[r].pair = NoPair
      /\ \/ run'[r] = Idle
         \/ run'[r].at = run[r].at /\ run'[r].id = run[r].id /\ run'[r].todo = run[r].todo
      /\ \A q \in Run \ {r} : run'[q] = run[q]
      /\ delivery \subseteq delivery'
      /\ delivery' \subseteq [to : Recipient, card : Card,
                              status : {"sent", "failed", "test"}, at : Nat]
  BY <1>1, RecordDone
<1>3. run[r].at # 0 /\ run[r].pair \in Pairs
  BY <1>1, InProgress
<1>4. AlertsTypeOK'
  BY <1>1, <1>2, <1>3 DEF AlertsTypeOK
<1>5. RunsInTurn'
  <2>1. \A i \in DOMAIN mailed' : mailed'[i].run <= runs /\ mailed'[i].began <= mailed'[i].at
    BY <1>1 DEF AlertsInv, RunsInTurn
  <2> QED BY <1>1, <1>2, <1>3, <2>1, StaysInTurn DEF AlertsInv, AlertsTypeOK
<1>6. OneAlertPerCooldown'
  BY <1>1, StaysOne DEF AlertsInv, Reachable
<1>7. ~runsMet' => EmailsAccounted' /\ PairIsFresh'
  BY <1>1, <1>2, PairEnds
<1> QED BY <1>4, <1>5, <1>6, <1>7 DEF AlertsInv

LEMMA EndKeeps ==
    ASSUME AlertsInv, NEW r \in Run, End(r)
    PROVE  AlertsInv'
PROOF
<1>1. /\ NoteUnrecorded(r) /\ run[r].at # 0 /\ AlertsTypeOK
      /\ UNCHANGED <<anow, user, runs, delivery, mailed, runsMet>>
      /\ unrecorded \subseteq unrecorded' /\ unrecorded' \subseteq unrecorded \cup {run[r].pair}
      /\ run[r].pair = NoPair => unrecorded' = unrecorded
  BY DEF End, AlertsInv, NoteUnrecorded
<1>2. /\ run' \in [Run -> RunRecord] /\ run'[r] = Idle /\ Idle.pair = NoPair
      /\ \A q \in Run \ {r} : run'[q] = run[q]
  BY <1>1, IdleTyped DEF End, AlertsTypeOK, Idle
<1>3. AlertsTypeOK'
  <2>1. unrecorded' \subseteq Pairs
    BY <1>1, InProgress DEF AlertsTypeOK
  <2> QED BY <1>1, <1>2, <2>1 DEF AlertsTypeOK
<1>4. RunsInTurn'
  <2>1. \A i \in DOMAIN mailed' : mailed'[i].run <= runs /\ mailed'[i].began <= mailed'[i].at
    BY <1>1 DEF AlertsInv, RunsInTurn
  <2> QED BY <1>1, <1>2, <2>1, StaysInTurn DEF AlertsInv, AlertsTypeOK
<1>5. OneAlertPerCooldown'
  BY <1>1, StaysOne DEF AlertsInv, Reachable
<1>6. ~runsMet' => EmailsAccounted' /\ PairIsFresh'
  BY <1>1, <1>2, PairEnds
<1> QED BY <1>3, <1>4, <1>5, <1>6 DEF AlertsInv

(* OneAlertPerCooldown: two runs that did not overlap tell somebody of the     *)
(* same card only when the cooldown is over between their beginnings, and      *)
(* between their emails but for what the first run took to send, unless the    *)
(* first email was never recorded or the account is gone, for any number of    *)
(* runs, users, cards and retries, and whichever answers are lost and          *)
(* processes end.                                                              *)
THEOREM AlertsAreNotRepeated == ASpec => []OneAlertPerCooldown
PROOF
<1>1. AlertsInv /\ [ANext]_aVars => AlertsInv'
  <2> SUFFICES ASSUME AlertsInv, [ANext]_aVars PROVE AlertsInv'
    OBVIOUS
  <2>1. CASE UNCHANGED aVars
    BY <2>1 DEF aVars, AlertsInv, AlertsTypeOK, RunsInTurn, OneAlertPerCooldown,
                EmailsAccounted, PairIsFresh, Reachable
  <2>2. CASE AAdvance
    BY <2>2, AAdvanceKeeps
  <2>3. ASSUME NEW u \in User, Confirm(u) \/ Prefer(u) \/ LeaveService(u)
        PROVE AlertsInv'
    BY <2>3, UsersKeep
  <2>4. ASSUME NEW r \in Run,
               \/ BeginRun(r) \/ SendOk(r) \/ SendFails(r) \/ RecordFailed(r)
               \/ RecordTest(r) \/ End(r)
        PROVE AlertsInv'
    BY <2>4, BeginRunKeeps, SendOkKeeps, SendFailsKeeps, RecordFailedKeeps, EndKeeps
  <2>5. ASSUME NEW r \in Run, NEW c \in Card, NEW u \in Recipient, Consider(r, c, u)
        PROVE AlertsInv'
    BY <2>5, ConsiderKeeps
  <2> QED BY <2>1, <2>2, <2>3, <2>4, <2>5 DEF ANext
<1>2. AlertsInv => OneAlertPerCooldown
  BY DEF AlertsInv
<1> QED BY <1>1, <1>2, AlertsInitHolds, PTL DEF ASpec

-----------------------------------------------------------------------------
(***************************************************************************)
(* The key step-up.  StepUpInv ties every row that unlocks to the use of a *)
(* key or a code that it records.                                          *)
(***************************************************************************)

LEMMA StepUpInitHolds ==
    ASSUME SInit
    PROVE  StepUpInv
PROOF
<1>1. device = <<>> => DOMAIN device = {}
  OBVIOUS
<1> QED BY <1>1 DEF SInit, StepUpInv, ProofsTypeOK, ProofsHeld

(* A ceremony's look at the device rows: the browser has one with the given *)
(* trust, and the rows there are were there.                                *)
LEMMA SeeRows ==
    ASSUME ProofsTypeOK, NEW b \in Browser, NEW until \in Nat, See(b, until)
    PROVE  /\ DOMAIN device' \subseteq Browser
           /\ device' \in [DOMAIN device' -> [until : Nat, seen : Nat]]
           /\ b \in DOMAIN device' /\ device'[b].until = until
           /\ \A d \in DOMAIN device' \ {b} : d \in DOMAIN device /\ device'[d] = device[d]
PROOF
<1> DEFINE new == [until |-> until, seen |-> snow]
<1>1. new \in [until : Nat, seen : Nat]
  BY DEF ProofsTypeOK
<1>2. CASE b \in DOMAIN device
  <2>1. device' = [device EXCEPT ![b] = new]
    BY <1>2 DEF See
  <2> QED BY <1>1, <1>2, <2>1 DEF ProofsTypeOK
<1>3. CASE b \notin DOMAIN device
  <2>1. PICK old \in SUBSET Untrustworthy :
          device' = [d \in (DOMAIN device \ old) \cup {b} |-> IF d = b THEN new ELSE device[d]]
    BY <1>3 DEF See
  <2> HIDE DEF new
  <2>2. DOMAIN device' = (DOMAIN device \ old) \cup {b}
    BY <2>1
  <2>3. \A d \in DOMAIN device' : device'[d] = IF d = b THEN new ELSE device[d]
    BY <2>1, <2>2
  <2>4. \A d \in DOMAIN device' : device'[d] \in [until : Nat, seen : Nat]
    BY <1>1, <2>2, <2>3 DEF ProofsTypeOK
  <2>5. device' \in [DOMAIN device' -> [until : Nat, seen : Nat]]
    BY <2>1, <2>2, <2>4
  <2>6. new.until = until
    BY DEF new
  <2> QED BY <2>2, <2>3, <2>5, <2>6 DEF ProofsTypeOK
<1> QED BY <1>2, <1>3

(* Seen with the trust it has, or with that of a proof made now. *)
LEMMA SeeKeeps ==
    ASSUME StepUpInv, NEW b \in Browser, See(b, Until(b)), proved' = proved
    PROVE  /\ DOMAIN device' \subseteq Browser
           /\ device' \in [DOMAIN device' -> [until : Nat, seen : Nat]]
           /\ \A d \in DOMAIN device' : device'[d].until # 0 =>
                proved[d].trust # 0 /\ device'[d].until = proved[d].trust + TrustFor
PROOF
<1>1. Until(b) \in Nat
  BY DEF Until, StepUpInv, ProofsTypeOK
<1>2. Until(b) # 0 => b \in DOMAIN device /\ device[b].until = Until(b)
  BY DEF Until
<1> QED BY <1>1, <1>2, SeeRows DEF StepUpInv, ProofsHeld

(* A proof of the step-up: the rest of proved is as it was. *)
LEMMA StepSessionKeeps ==
    ASSUME StepUpInv, NEW b \in Browser, StepSession(b)
    PROVE  /\ stepup' \in [Browser -> Nat]
           /\ proved' \in [Browser -> [step : Nat, trust : Nat]]
           /\ \A c \in Browser :
                /\ proved'[c].trust = proved[c].trust
                /\ stepup'[c] # 0 => proved'[c].step # 0
                                     /\ stepup'[c] = proved'[c].step + StepupFor
PROOF
<1>1. snow \in Nat \ {0} /\ snow + StepupFor \in Nat
  BY StepUpAssumption DEF StepUpInv, ProofsTypeOK
<1>2. proved' \in [Browser -> [step : Nat, trust : Nat]]
  BY <1>1 DEF StepSession, StepUpInv, ProofsTypeOK
<1>3. stepup' \in [Browser -> Nat]
  BY <1>1 DEF StepSession, StepUpInv, ProofsTypeOK
<1>4. \A c \in Browser : proved'[c].trust = proved[c].trust
  BY DEF StepSession, StepUpInv, ProofsTypeOK
<1>5. /\ stepup'[b] = snow + StepupFor /\ proved'[b].step = snow
      /\ \A c \in Browser \ {b} : stepup'[c] = stepup[c] /\ proved'[c] = proved[c]
  BY DEF StepSession, StepUpInv, ProofsTypeOK
<1>6. \A c \in Browser : stepup'[c] # 0 => proved'[c].step # 0
                                     /\ stepup'[c] = proved'[c].step + StepupFor
  BY <1>1, <1>5 DEF StepUpInv, ProofsHeld
<1> QED BY <1>2, <1>3, <1>4, <1>6

(* Key and code ceremonies. *)
LEMMA SteppedCeremony ==
    ASSUME StepUpInv, NEW b \in Browser, StepSession(b), See(b, Until(b)), snow' = snow
    PROVE  StepUpInv'
PROOF
<1>0. Until(b) \in Nat /\ (Until(b) # 0 => b \in DOMAIN device /\ device[b].until = Until(b))
  BY DEF Until, StepUpInv, ProofsTypeOK
<1>1. /\ DOMAIN device' \subseteq Browser
      /\ device' \in [DOMAIN device' -> [until : Nat, seen : Nat]]
      /\ \A d \in DOMAIN device' : device'[d].until # 0 =>
           d \in DOMAIN device /\ device'[d].until = device[d].until
  BY <1>0, SeeRows DEF StepUpInv
<1>2. ProofsTypeOK'
  BY <1>1, StepSessionKeeps DEF StepUpInv, ProofsTypeOK
<1>3. \A d \in DOMAIN device' : device'[d].until # 0 =>
           proved'[d].trust # 0 /\ device'[d].until = proved'[d].trust + TrustFor
  <2> SUFFICES ASSUME NEW d \in DOMAIN device', device'[d].until # 0
               PROVE  proved'[d].trust # 0 /\ device'[d].until = proved'[d].trust + TrustFor
    OBVIOUS
  <2>1. d \in DOMAIN device /\ d \in Browser /\ device[d].until = device'[d].until
    BY <1>1
  <2>2. proved[d].trust # 0 /\ device[d].until = proved[d].trust + TrustFor
    BY <2>1 DEF StepUpInv, ProofsHeld
  <2>3. proved'[d].trust = proved[d].trust
    BY <2>1, StepSessionKeeps
  <2> QED BY <2>1, <2>2, <2>3
<1>4. ProofsHeld'
  BY <1>3, StepSessionKeeps DEF ProofsHeld
<1> QED BY <1>2, <1>4 DEF StepUpInv

LEMMA RegisterKeeps ==
    ASSUME StepUpInv, NEW b \in Browser, NEW k \in KeyId, Register(b, k)
    PROVE  StepUpInv'
PROOF
<1>1. CASE keys = {}
  BY <1>1, SteppedCeremony DEF Register
<1>2. CASE keys # {}
  <2>1. UNCHANGED <<snow, stepup, proved>> /\ See(b, Until(b))
    BY <1>2 DEF Register
  <2> QED BY <2>1, SeeKeeps DEF StepUpInv, ProofsTypeOK, ProofsHeld
<1> QED BY <1>1, <1>2

LEMMA TrustKeeps ==
    ASSUME StepUpInv, NEW b \in Browser, Trust(b)
    PROVE  StepUpInv'
PROOF
<1>1. snow \in Nat \ {0} /\ snow + TrustFor \in Nat
  BY StepUpAssumption DEF StepUpInv, ProofsTypeOK
<1>2. /\ DOMAIN device' \subseteq Browser
      /\ device' \in [DOMAIN device' -> [until : Nat, seen : Nat]]
      /\ b \in DOMAIN device' /\ device'[b].until = snow + TrustFor
      /\ \A d \in DOMAIN device' \ {b} : d \in DOMAIN device /\ device'[d] = device[d]
  BY <1>1, SeeRows DEF Trust, StepUpInv
<1>3. /\ proved' \in [Browser -> [step : Nat, trust : Nat]]
      /\ proved'[b].trust = snow /\ proved'[b].step = proved[b].step
      /\ \A c \in Browser \ {b} : proved'[c] = proved[c]
  BY <1>1 DEF Trust, StepUpInv, ProofsTypeOK
<1>4. UNCHANGED <<snow, stepup>>
  BY DEF Trust
<1>5. ProofsTypeOK'
  BY <1>2, <1>3, <1>4 DEF StepUpInv, ProofsTypeOK
<1>6. ProofsHeld'
  BY <1>1, <1>2, <1>3, <1>4 DEF StepUpInv, ProofsHeld
<1> QED BY <1>5, <1>6 DEF StepUpInv

LEMMA ForgottenRows ==
    ASSUME ProofsTypeOK, NEW d
    PROVE  /\ DOMAIN Forgotten(d) = DOMAIN device
           /\ Forgotten(d) \in [DOMAIN device -> [until : Nat, seen : Nat]]
           /\ \A e \in DOMAIN device :
                Forgotten(d)[e].until = IF e = d THEN 0 ELSE device[e].until
PROOF
<1> QED BY DEF ProofsTypeOK, Forgotten

LEMMA LockNowKeeps ==
    ASSUME StepUpInv, NEW b \in Browser, LockNow(b)
    PROVE  StepUpInv'
PROOF
<1>1. /\ DOMAIN device' = DOMAIN device
      /\ device' \in [DOMAIN device -> [until : Nat, seen : Nat]]
      /\ \A e \in DOMAIN device : device'[e].until = IF e = b THEN 0 ELSE device[e].until
  BY ForgottenRows DEF LockNow, StepUpInv
<1>2. /\ proved' \in [Browser -> [step : Nat, trust : Nat]] /\ stepup' \in [Browser -> Nat]
      /\ stepup'[b] = 0
      /\ \A c \in Browser \ {b} : proved'[c] = proved[c] /\ stepup'[c] = stepup[c]
  BY DEF LockNow, StepUpInv, ProofsTypeOK
<1>3. ProofsTypeOK'
  BY <1>1, <1>2 DEF LockNow, StepUpInv, ProofsTypeOK
<1>4. ProofsHeld'
  BY <1>1, <1>2 DEF StepUpInv, ProofsHeld, ProofsTypeOK
<1> QED BY <1>3, <1>4 DEF StepUpInv

LEMMA EndTrustKeeps ==
    ASSUME StepUpInv, NEW b \in Browser, NEW d \in Browser, EndTrust(b, d)
    PROVE  StepUpInv'
PROOF
<1>1. /\ DOMAIN device' \subseteq DOMAIN device
      /\ device' \in [DOMAIN device' -> [until : Nat, seen : Nat]]
      /\ \A e \in DOMAIN device' : device'[e].until = IF e = d THEN 0 ELSE device[e].until
  <2>1. CASE device' = Forgotten(d)
    BY <2>1, ForgottenRows DEF StepUpInv
  <2>2. CASE device' = [e \in DOMAIN device \ {d} |-> device[e]]
    BY <2>2 DEF StepUpInv, ProofsTypeOK
  <2> QED BY <2>1, <2>2 DEF EndTrust
<1>2. /\ proved' \in [Browser -> [step : Nat, trust : Nat]]
      /\ proved'[d].step = proved[d].step
      /\ \A c \in Browser \ {d} : proved'[c] = proved[c]
  BY DEF EndTrust, StepUpInv, ProofsTypeOK
<1>3. UNCHANGED <<snow, stepup>>
  BY DEF EndTrust
<1>4. ProofsTypeOK'
  BY <1>1, <1>2, <1>3 DEF StepUpInv, ProofsTypeOK
<1>5. ProofsHeld'
  BY <1>1, <1>2, <1>3 DEF StepUpInv, ProofsHeld, ProofsTypeOK
<1> QED BY <1>4, <1>5 DEF StepUpInv

(* The requests that give no proof and take none away. *)
LEMMA UnprovedKeeps ==
    ASSUME StepUpInv, UNCHANGED <<stepup, device, proved>>, snow' \in {snow, snow + 1}
    PROVE  StepUpInv'
PROOF
<1> QED BY DEF StepUpInv, ProofsTypeOK, ProofsHeld

(* UnlockedByProof: while keys are enforced, a browser gets through only on a *)
(* key or a code used, or a trust proved, recently enough and not withdrawn   *)
(* since, whatever the ceremonies of the browsers interleave to, however many *)
(* devices are dropped for the cap and however often the mode is changed.     *)
THEOREM LabStaysLocked == SSpec => []UnlockedByProof
PROOF
<1>1. StepUpInv /\ [SNext]_sVars => StepUpInv'
  <2> SUFFICES ASSUME StepUpInv, [SNext]_sVars PROVE StepUpInv'
    OBVIOUS
  <2>1. CASE UNCHANGED sVars
    BY <2>1, UnprovedKeeps DEF sVars
  <2>2. CASE WrongCode \/ Reconfigure \/ SAdvance
    BY <2>2, UnprovedKeeps DEF WrongCode, Reconfigure, SAdvance
  <2>3. ASSUME NEW b \in Browser, NEW p \in {"register", "authenticate"},
               Options(b, p) \/ Refuse(b, p)
        PROVE StepUpInv'
    BY <2>3, UnprovedKeeps DEF Options, Refuse
  <2>4. ASSUME NEW b \in Browser, NEW k \in KeyId, Register(b, k) \/ DeleteKey(b, k)
        PROVE StepUpInv'
    BY <2>4, RegisterKeeps, UnprovedKeeps DEF DeleteKey
  <2>5. ASSUME NEW b \in Browser, Authenticate(b) \/ Recover(b)
        PROVE StepUpInv'
    BY <2>5, SteppedCeremony DEF Authenticate, Recover
  <2>6. ASSUME NEW b \in Browser, Trust(b) \/ RegenerateCodes(b) \/ LockNow(b)
        PROVE StepUpInv'
    BY <2>6, TrustKeeps, LockNowKeeps, UnprovedKeeps DEF RegenerateCodes
  <2>7. ASSUME NEW b \in Browser, NEW d \in Browser, EndTrust(b, d)
        PROVE StepUpInv'
    BY <2>7, EndTrustKeeps
  <2> QED BY <2>1, <2>2, <2>3, <2>4, <2>5, <2>6, <2>7 DEF SNext
<1>2. StepUpInv => UnlockedByProof
  <2> SUFFICES ASSUME StepUpInv, NEW b \in Browser, keys # {}, enforcement # "off",
                      Stepped(b) \/ Trusted(b)
               PROVE  \/ proved[b].step # 0 /\ snow < proved[b].step + StepupFor
                      \/ proved[b].trust # 0 /\ snow < proved[b].trust + TrustFor
    BY DEF UnlockedByProof, UnlockedOwner, LockedOut
  <2>1. CASE Stepped(b)
    BY <2>1 DEF Stepped, StepUpInv, ProofsTypeOK, ProofsHeld
  <2>2. CASE Trusted(b)
    BY <2>2 DEF Trusted, TrustedRow, StepUpInv, ProofsTypeOK, ProofsHeld
  <2> QED BY <2>1, <2>2
<1> QED BY <1>1, <1>2, StepUpInitHolds, PTL DEF SSpec

-----------------------------------------------------------------------------
(***************************************************************************)
(* Members.  MembersInv says what a request that passed its guards may rely*)
(* on while no other request of an owner is under way.                     *)
(***************************************************************************)

LEMMA MembersInitHolds ==
    ASSUME MInit
    PROVE  MembersInv
PROOF
<1> USE FoundersArePeople DEF MInit, Members
<1>1. MembersTypeOK
  BY DEF MembersTypeOK, Nothing
<1>2. AskerRemains
  BY DEF AskerRemains
<1> QED BY <1>1, <1>2 DEF MembersInv

(* A request with an act is one of the acts of the endpoints. *)
LEMMA RequestTyped ==
    ASSUME MembersTypeOK, NEW a \in Person, request[a] # Nothing
    PROVE  request[a].act \in Acts /\ request[a].of \in Person
PROOF
<1> QED BY DEF MembersTypeOK

(* Only an owner with rights asks, and only for what they may do. *)
LEMMA AskKeeps ==
    ASSUME MembersInv, NEW a \in Person, NEW act \in Acts, NEW t \in Members, Ask(a, act, t)
    PROVE  MembersInv'
PROOF
<1> USE DEF Ask, Members, MembersInv
<1>0. t \in Person
  BY DEF MembersTypeOK
<1>1. MembersTypeOK'
  BY <1>0 DEF MembersTypeOK
<1>2. EffectiveAdmins' = EffectiveAdmins
  BY DEF EffectiveAdmins
<1>3. act \in {"suspend", "admin_revoke", "delete"} => t # a
  BY DEF Permitted, MayRevoke, MaySuspend, MayDelete
<1>4. ASSUME ~overlapped'
      PROVE  AskerRemains'
  <2>1. ~overlapped /\ \A b \in Person \ {a} : request[b] = Nothing
    BY <1>4 DEF MembersTypeOK
  <2>2. /\ request'[a] = [act |-> act, of |-> t]
        /\ \A b \in Person \ {a} : request'[b] = Nothing
    BY <2>1 DEF MembersTypeOK
  <2>3. request'[a].act = act /\ request'[a].of = t /\ a \in EffectiveAdmins'
    BY <1>2, <2>2
  <2> QED BY <1>3, <2>2, <2>3 DEF AskerRemains
<1> QED BY <1>1, <1>4 DEF MembersTypeOK

(* The effect of a request of another owner, or of one that takes nothing away, *)
(* leaves an owner one.                                                         *)
LEMMA EffectKeepsOwner ==
    ASSUME MembersTypeOK, AskerRemains, NEW a \in Person, request[a] # Nothing, Commit(a)
    PROVE  a \in EffectiveAdmins'
PROOF
<1> DEFINE act == request[a].act  t == request[a].of
<1>1. act \in Acts /\ a \in EffectiveAdmins
  BY RequestTyped DEF AskerRemains
<1>2. member' = [p \in Members |-> IF p = t THEN Effect(act, member[p]) ELSE member[p]]
  BY DEF Commit
<1>3. act \in {"suspend", "admin_revoke", "delete"} => t # a
  BY DEF AskerRemains
<1> HIDE DEF act, t
<1>4. /\ a \in DOMAIN member /\ member[a].active /\ member[a].verified /\ member[a].admin
      /\ member[a] \in [active : BOOLEAN, verified : BOOLEAN, admin : BOOLEAN]
  BY <1>1 DEF EffectiveAdmins, Members, MembersTypeOK
<1>5. a \in DOMAIN member'
      /\ member'[a] = IF a = t THEN Effect(act, member[a]) ELSE member[a]
  BY <1>2, <1>4 DEF Members
<1>6. a = t => act \in {"password_reset", "verification_email", "verify", "restore", "admin_grant"}
  BY <1>1, <1>3 DEF Acts, EmailActs
<1>7. a = t => LET m == Effect(act, member[a]) IN m.active /\ m.verified /\ m.admin
  BY <1>4, <1>6 DEF Effect
<1> QED BY <1>4, <1>5, <1>7 DEF EffectiveAdmins, Members

LEMMA EffectTyped ==
    ASSUME NEW m \in [active : BOOLEAN, verified : BOOLEAN, admin : BOOLEAN], NEW act \in Acts
    PROVE  Effect(act, m) \in [active : BOOLEAN, verified : BOOLEAN, admin : BOOLEAN]
PROOF
<1> QED BY DEF Effect, Acts, EmailActs

(* What is left after a request is over: no request, if they do not overlap. *)
LEMMA RequestOver ==
    ASSUME MembersTypeOK, AskerRemains, NEW a \in Person, request[a] # Nothing,
           request' = [request EXCEPT ![a] = Nothing]
    PROVE  AskerRemains'
PROOF
<1>1. \A b \in Person : request'[b] = Nothing
  BY DEF MembersTypeOK, AskerRemains
<1> QED BY <1>1 DEF AskerRemains

LEMMA CommitKeeps ==
    ASSUME MembersInv, NEW a \in Person, request[a] # Nothing, Commit(a)
    PROVE  MembersInv' /\ (~overlapped' => EffectiveAdmins' # {})
PROOF
<1> USE DEF MembersInv
<1>1. request[a].act \in Acts
  BY RequestTyped
<1>2. MembersTypeOK'
  BY <1>1, EffectTyped DEF MembersTypeOK, Commit, Done, Members
<1>3. ASSUME ~overlapped'
      PROVE  EffectiveAdmins' # {} /\ AskerRemains'
  <2>1. AskerRemains
    BY <1>3 DEF Commit, Done
  <2>2. a \in EffectiveAdmins'
    BY <2>1, EffectKeepsOwner
  <2>3. AskerRemains'
    BY <2>1, RequestOver DEF Commit, Done
  <2> QED BY <2>2, <2>3
<1> QED BY <1>2, <1>3 DEF MembersTypeOK

LEMMA CommitDeleteKeeps ==
    ASSUME MembersInv, NEW a \in Person, request[a] # Nothing, CommitDelete(a)
    PROVE  MembersInv' /\ (~overlapped' => EffectiveAdmins' # {})
PROOF
<1> USE DEF MembersInv
<1> DEFINE t == request[a].of
<1>1. /\ member' = [p \in Members \ {t} |-> member[p]]
      /\ request' = [request EXCEPT ![a] = Nothing]
      /\ UNCHANGED <<overlapped, outside>> /\ request[a].act = "delete"
  BY DEF CommitDelete, Done
<1> HIDE DEF t
<1>2. MembersTypeOK'
  BY <1>1 DEF MembersTypeOK, Members
<1>3. ASSUME ~overlapped'
      PROVE  EffectiveAdmins' # {} /\ AskerRemains'
  <2>1. AskerRemains
    BY <1>1, <1>3
  <2>2. a \in EffectiveAdmins /\ t # a
    BY <1>1, <2>1 DEF AskerRemains, t
  <2>3. a \in EffectiveAdmins'
    BY <1>1, <2>2 DEF EffectiveAdmins, Members
  <2>4. AskerRemains'
    BY <1>1, <2>1, RequestOver
  <2> QED BY <2>3, <2>4
<1> QED BY <1>2, <1>3 DEF MembersTypeOK

LEMMA AbandonKeeps ==
    ASSUME MembersInv, NEW a \in Person, Abandon(a)
    PROVE  MembersInv'
PROOF
<1> USE DEF MembersInv, Abandon
<1>1. MembersTypeOK'
  BY DEF MembersTypeOK, Members
<1>2. EffectiveAdmins' = EffectiveAdmins
  BY DEF EffectiveAdmins, Members
<1> QED BY <1>1, <1>2, RequestOver

(* Members come and verify themselves; owners stay. *)
LEMMA JoinKeeps ==
    ASSUME MembersInv, NEW p \in Person, SignUp(p) \/ VerifyOwn(p)
    PROVE  MembersInv' /\ EffectiveAdmins \subseteq EffectiveAdmins'
PROOF
<1> USE DEF MembersInv
<1> DEFINE Account == [active : BOOLEAN, verified : BOOLEAN, admin : BOOLEAN]
<1>1. MembersTypeOK'
  <2>1. /\ request' = request /\ overlapped' = overlapped /\ outside' = outside
        /\ member \in [Members -> Account] /\ Members \subseteq Person
    BY DEF MembersTypeOK, SignUp, VerifyOwn
  <2>2. ASSUME SignUp(p) PROVE member' \in [Members \cup {p} -> Account]
    <3>1. [active |-> TRUE, verified |-> FALSE, admin |-> FALSE] \in Account
      OBVIOUS
    <3> QED BY <2>1, <2>2, <3>1 DEF SignUp
  <2>3. ASSUME VerifyOwn(p) PROVE member' \in [Members -> Account]
    BY <2>1, <2>3 DEF VerifyOwn
  <2>4. Members' \subseteq Person /\ member' \in [Members' -> Account]
    BY <2>1, <2>2, <2>3 DEF Members
  <2> QED BY <2>1, <2>4 DEF MembersTypeOK
<1>2. EffectiveAdmins \subseteq EffectiveAdmins'
  BY DEF EffectiveAdmins, MembersTypeOK, Members, SignUp, VerifyOwn
<1>3. AskerRemains => AskerRemains'
  BY <1>2 DEF AskerRemains, SignUp, VerifyOwn
<1> QED BY <1>1, <1>2, <1>3 DEF SignUp, VerifyOwn

(* What goes round the administration either meets no request of an owner or *)
(* is noted as an overlap.                                                   *)
LEMMA OutsideKeeps ==
    ASSUME MembersInv, NEW p \in Person, NEW q \in Person,
           DeleteOwn(p) \/ ChangeEmail(p) \/ PatchUser(q, p) \/ RemoveUser(q, p)
    PROVE  MembersInv'
PROOF
<1> USE DEF MembersInv
<1> DEFINE Account == [active : BOOLEAN, verified : BOOLEAN, admin : BOOLEAN]
<1>1. Outside(p) /\ request' = request
  BY DEF DeleteOwn, ChangeEmail, PatchUser, RemoveUser
<1>2. /\ Members \subseteq Person /\ member \in [Members -> Account]
      /\ request \in [Person -> {Nothing} \cup [act : Acts, of : Person]]
      /\ overlapped \in BOOLEAN /\ outside \subseteq Person
  BY DEF MembersTypeOK
<1>3. Members' \subseteq Person /\ member' \in [Members' -> Account]
  <2>1. CASE DeleteOwn(p) \/ RemoveUser(q, p)
    BY <1>2, <2>1 DEF DeleteOwn, RemoveUser, Erase, Members
  <2>2. CASE ChangeEmail(p)
    <3>1. member' = [member EXCEPT ![p].verified = FALSE] /\ p \in Members
      BY <2>2 DEF ChangeEmail
    <3> QED BY <1>2, <3>1 DEF Members
  <2>3. CASE PatchUser(q, p)
    <3>1. PICK active \in BOOLEAN, verified \in BOOLEAN, admin \in BOOLEAN :
            member' = [member EXCEPT ![p] =
                         [active |-> active, verified |-> verified, admin |-> admin]]
      BY <2>3 DEF PatchUser
    <3> QED BY <1>2, <3>1 DEF Members
  <2> QED BY <1>1, <2>1, <2>2, <2>3,
          DeleteOwn(p) \/ ChangeEmail(p) \/ PatchUser(q, p) \/ RemoveUser(q, p)
<1>4. MembersTypeOK'
  BY <1>1, <1>2, <1>3 DEF MembersTypeOK, Outside
<1>5. overlapped' \/ AskerRemains'
  BY <1>1, <1>2 DEF Outside, AskerRemains
<1> QED BY <1>4, <1>5

(* An owner who patches or removes somebody else is still one. *)
LEMMA OthersLeaveTheActor ==
    ASSUME MembersInv, NEW p \in EffectiveAdmins, NEW t \in Members, t # p,
           PatchUser(p, t) \/ RemoveUser(p, t)
    PROVE  p \in EffectiveAdmins'
PROOF
<1>1. /\ p \in DOMAIN member /\ member[p].active /\ member[p].verified /\ member[p].admin
      /\ member = [m \in DOMAIN member |-> member[m]]
  BY DEF EffectiveAdmins, Members, MembersInv, MembersTypeOK
<1>2. p \in DOMAIN member' /\ member'[p] = member[p]
  <2>1. CASE RemoveUser(p, t)
    BY <1>1, <2>1 DEF RemoveUser, Erase, Members
  <2>2. CASE PatchUser(p, t)
    <3>1. PICK active \in BOOLEAN, verified \in BOOLEAN, admin \in BOOLEAN :
            member' = [member EXCEPT ![t] =
                         [active |-> active, verified |-> verified, admin |-> admin]]
      BY <2>2 DEF PatchUser
    <3> QED BY <1>1, <3>1
  <2> QED BY <2>1, <2>2
<1> QED BY <1>1, <1>2 DEF EffectiveAdmins, Members

(* Every step keeps the invariant, and takes the last owner only as stated. *)
LEMMA StepKeepsOwner ==
    ASSUME MembersInv, MNext
    PROVE  /\ MembersInv'
           /\ EffectiveAdmins # {} /\ EffectiveAdmins' = {} => overlapped' \/ Unguarded
PROOF
<1>1. ASSUME NEW p \in Person, NEW act \in Acts, NEW t \in Members, Ask(p, act, t)
      PROVE  MembersInv' /\ EffectiveAdmins' = EffectiveAdmins
  BY <1>1, AskKeeps DEF Ask, EffectiveAdmins, Members
<1>2. ASSUME NEW p \in Person, request[p] # Nothing, Commit(p) \/ CommitDelete(p)
      PROVE  MembersInv' /\ (~overlapped' => EffectiveAdmins' # {})
  BY <1>2, CommitKeeps, CommitDeleteKeeps
<1>3. ASSUME NEW p \in Person, Abandon(p)
      PROVE  MembersInv' /\ EffectiveAdmins' = EffectiveAdmins
  BY <1>3, AbandonKeeps DEF Abandon, EffectiveAdmins, Members
<1>4. ASSUME NEW p \in Person, SignUp(p) \/ VerifyOwn(p)
      PROVE  MembersInv' /\ EffectiveAdmins \subseteq EffectiveAdmins'
  BY <1>4, JoinKeeps
<1>5. ASSUME NEW p \in Person, DeleteOwn(p) \/ ChangeEmail(p)
      PROVE  MembersInv' /\ Unguarded
  BY <1>5, OutsideKeeps DEF Unguarded
<1>6. ASSUME NEW p \in Person, NEW t \in Members, PatchUser(p, t) \/ RemoveUser(p, t)
      PROVE  MembersInv' /\ (Unguarded \/ EffectiveAdmins' # {})
  <2>1. t \in Person
    BY DEF MembersInv, MembersTypeOK
  <2>2. CASE t = p \/ p \notin EffectiveAdmins
    BY <1>6, <2>1, <2>2, OutsideKeeps DEF Unguarded
  <2>3. CASE t # p /\ p \in EffectiveAdmins
    BY <1>6, <2>1, <2>3, OutsideKeeps, OthersLeaveTheActor
  <2> QED BY <2>2, <2>3
<1> QED BY <1>1, <1>2, <1>3, <1>4, <1>5, <1>6 DEF MNext

(* OwnerRemains: as long as the owners' requests do not overlap, the site       *)
(* loses its last owner only by what nothing guards (Unguarded), whatever the   *)
(* owners grant, revoke, suspend, patch and delete, and whichever requests fail. *)
THEOREM OwnersRemain == MSpec => OwnerRemains
PROOF
<1> DEFINE Stays == EffectiveAdmins # {} /\ EffectiveAdmins' = {} => overlapped' \/ Unguarded
<1>1. MembersInv /\ [MNext]_mVars => MembersInv'
  <2>1. ASSUME MembersInv, UNCHANGED mVars PROVE MembersInv'
    BY <2>1 DEF mVars, MembersInv, MembersTypeOK, Members, EffectiveAdmins, AskerRemains
  <2> QED BY <2>1, StepKeepsOwner
<1>2. MembersInv /\ [MNext]_mVars => [Stays]_mVars
  BY StepKeepsOwner
<1>3. MSpec => [][Stays]_mVars
  BY <1>1, <1>2, MembersInitHolds, PTL DEF MSpec
<1> QED BY <1>3 DEF OwnerRemains
================================================================================
