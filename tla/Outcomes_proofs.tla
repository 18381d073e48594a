---------------------------- MODULE Outcomes_proofs ----------------------------
(***************************************************************************)
(* Proofs about what overlapping collectors and requests write of what they*)
(* read before: forward and pre-close observations, and the Lab's messages.*)
(***************************************************************************)
EXTENDS ForwardCollect, PreClose, LabMessages, TLAPS

-----------------------------------------------------------------------------
(***************************************************************************)
(* The forward observations for any collectors, entries, horizons, closes  *)
(* and deadline.  A pass acts on a `now` it read long before its commit.   *)
(* PassTimely bounds how long for a tick, and PlansSound keeps what a pass *)
(* decided at that time; together they put every quote that is filed into  *)
(* its window, which for the command has no end.                           *)
(***************************************************************************)

LEMMA TargetsExist == \A k \in Key : Target(k) \in Nat /\ k[1] \in Entry
BY LengthAssumption DEF Key, Target, Label

LEMMA InitSound == Init => IInv
<1> SUFFICES ASSUME Init PROVE IInv
    OBVIOUS
<1>1. TypeOK
    BY LengthAssumption DEF Init, TypeOK, NoQuotes
<1>2. PassTimely /\ PlansSound /\ QuoteInWindow
    BY DEF Init, PassTimely, PlansSound, QuoteInWindow, NoQuotes, Pending
<1> QED BY <1>1, <1>2 DEF IInv

-----------------------------------------------------------------------------
(* A pass that ends plans nothing more, and the others keep their plans. *)
LEMMA Ended ==
    ASSUME IInv, NEW c \in Collector, EndPass(c)
    PROVE  /\ pc' \in [Collector -> {"idle", "count", "decide", "fetch", "persist"}]
           /\ now' \in [Collector -> Nat]
           /\ terminal' \in [Collector -> SUBSET Key] /\ due' \in [Collector -> SUBSET Key]
           /\ asked' \in [Collector -> SUBSET Entry]
           /\ quotes' \in [Collector -> [Entry -> Nat \cup {-1}]]
           /\ pc'[c] = "idle" /\ terminal'[c] = {} /\ due'[c] = {}
           /\ \A e \in Entry : quotes'[c][e] = -1
           /\ \A d \in Collector \ {c} :
                 /\ pc'[d] = pc[d] /\ now'[d] = now[d]
                 /\ terminal'[d] = terminal[d] /\ due'[d] = due[d] /\ quotes'[d] = quotes[d]
BY DEF IInv, TypeOK, EndPass, NoQuotes

LEMMA EndSound ==
    ASSUME IInv, NEW c \in Collector, EndPass(c), UNCHANGED clock
    PROVE  PassTimely' /\ PlansSound'
<1>1. PassTimely'
    BY Ended DEF IInv, PassTimely
<1>2. ASSUME NEW d \in Collector
      PROVE  /\ pc'[d] \in {"idle", "count", "decide"} => due'[d] = {} /\ terminal'[d] = {}
             /\ \A k \in due'[d] : Target(k) <= now'[d] /\ now'[d] < Close[k[1]]
             /\ \A k \in terminal'[d] : Close[k[1]] <= now'[d]
             /\ \A e \in Entry : quotes'[d][e] # -1 =>
                   /\ pc'[d] \in {"fetch", "persist"}
                   /\ now'[d] <= quotes'[d][e] /\ quotes'[d][e] <= clock'
    <2>1. CASE d = c
        BY <2>1, Ended
    <2>2. CASE d # c
        <3>1. /\ pc'[d] = pc[d] /\ now'[d] = now[d]
              /\ terminal'[d] = terminal[d] /\ due'[d] = due[d] /\ quotes'[d] = quotes[d]
            BY <2>2, Ended
        <3>2. /\ pc[d] \in {"idle", "count", "decide"} => due[d] = {} /\ terminal[d] = {}
              /\ \A k \in due[d] : Target(k) <= now[d] /\ now[d] < Close[k[1]]
              /\ \A k \in terminal[d] : Close[k[1]] <= now[d]
              /\ \A e \in Entry : quotes[d][e] # -1 =>
                    /\ pc[d] \in {"fetch", "persist"}
                    /\ now[d] <= quotes[d][e] /\ quotes[d][e] <= clock
            BY DEF IInv, PlansSound
        <3> QED BY <3>1, <3>2
    <2> QED BY <2>1, <2>2
<1> QED BY <1>1, <1>2 DEF PlansSound

-----------------------------------------------------------------------------
(* The steps of a pass before its commit write no row. *)
LEMMA BeginSound ==
    ASSUME IInv, NEW c \in Collector, Begin(c)
    PROVE  IInv'
<1>1. TypeOK'
    BY DEF IInv, TypeOK, Begin
<1>2. PassTimely'
    BY LengthAssumption DEF IInv, TypeOK, PassTimely, Begin
<1>3. QuoteInWindow'
    BY DEF IInv, QuoteInWindow, Begin
<1>4. PlansSound'
    <2>1. pc[c] = "idle" /\ pc' = [pc EXCEPT ![c] = "count"] /\ now' = [now EXCEPT ![c] = clock]
          /\ UNCHANGED <<clock, terminal, due, quotes>>
        BY DEF Begin
    <2>2. due[c] = {} /\ terminal[c] = {} /\ \A e \in Entry : quotes[c][e] = -1
        BY <2>1 DEF IInv, PlansSound
    <2> QED BY <2>1, <2>2 DEF IInv, TypeOK, PlansSound
<1> QED BY <1>1, <1>2, <1>3, <1>4 DEF IInv

LEMMA CountSound ==
    ASSUME IInv, NEW c \in Collector, Count(c)
    PROVE  IInv'
<1>1. CASE EndPass(c)
    <2>1. TypeOK'
        BY <1>1, Ended DEF IInv, TypeOK, Count
    <2>2. PassTimely' /\ PlansSound'
        BY <1>1, EndSound DEF Count
    <2>3. QuoteInWindow'
        BY DEF IInv, QuoteInWindow, Count
    <2> QED BY <2>1, <2>2, <2>3 DEF IInv
<1>2. CASE pc' = [pc EXCEPT ![c] = "decide"] /\ UNCHANGED <<now, terminal, due, asked, quotes>>
    <2>1. TypeOK'
        BY <1>2 DEF IInv, TypeOK, Count
    <2>2. PassTimely'
        BY <1>2 DEF IInv, TypeOK, PassTimely, Count
    <2>3. PlansSound'
        BY <1>2 DEF IInv, TypeOK, PlansSound, Count
    <2>4. QuoteInWindow'
        BY DEF IInv, QuoteInWindow, Count
    <2> QED BY <2>1, <2>2, <2>3, <2>4 DEF IInv
<1> QED BY <1>1, <1>2 DEF Count

LEMMA DecideSound ==
    ASSUME IInv, NEW c \in Collector, Decide(c)
    PROVE  IInv'
<1> DEFINE shut == {k \in Elapsed(now[c]) : Close[k[1]] <= now[c]}
           open == {k \in Elapsed(now[c]) : Close[k[1]] > now[c]}
<1>1. /\ pc[c] = "decide" /\ pc' = [pc EXCEPT ![c] = "fetch"]
      /\ terminal' = [terminal EXCEPT ![c] = shut] /\ due' = [due EXCEPT ![c] = open]
      /\ UNCHANGED <<clock, calm, obs, byHand, now, asked, quotes>>
    BY DEF Decide
<1>2. /\ shut \subseteq Key /\ open \subseteq Key
      /\ \A k \in open : Target(k) <= now[c] /\ now[c] < Close[k[1]]
      /\ \A k \in shut : Close[k[1]] <= now[c]
    BY TargetsExist, LengthAssumption DEF Elapsed, IInv, TypeOK
<1> HIDE DEF shut, open
<1>3. TypeOK'
    BY <1>1, <1>2 DEF IInv, TypeOK
<1>4. PassTimely'
    BY <1>1 DEF IInv, TypeOK, PassTimely
<1>5. PlansSound'
    BY <1>1, <1>2 DEF IInv, TypeOK, PlansSound
<1>6. QuoteInWindow'
    BY <1>1 DEF IInv, QuoteInWindow
<1> QED BY <1>3, <1>4, <1>5, <1>6 DEF IInv

LEMMA FetchSound ==
    ASSUME IInv, NEW c \in Collector, Fetch(c)
    PROVE  IInv'
<1>1. PICK got \in SUBSET Tokens(c) :
         quotes' = [quotes EXCEPT ![c] = [e \in Entry |-> IF e \in got THEN clock ELSE -1]]
    BY DEF Fetch
<1> DEFINE answer == [e \in Entry |-> IF e \in got THEN clock ELSE -1]
<1>2. /\ pc[c] = "fetch" /\ pc' = [pc EXCEPT ![c] = "persist"]
      /\ quotes' = [quotes EXCEPT ![c] = answer]
      /\ UNCHANGED <<clock, calm, obs, byHand, now, terminal, due, asked>>
    BY <1>1 DEF Fetch
<1>3. /\ answer \in [Entry -> Nat \cup {-1}]
      /\ \A e \in Entry : answer[e] # -1 => answer[e] = clock
    BY DEF IInv, TypeOK
<1> HIDE DEF answer
<1>4. TypeOK'
    BY <1>2, <1>3 DEF IInv, TypeOK
<1>5. PassTimely'
    BY <1>2 DEF IInv, TypeOK, PassTimely
<1>6. PlansSound'
    <2>1. now[c] <= clock /\ clock \in Nat
        BY <1>2 DEF IInv, TypeOK, PassTimely
    <2> QED BY <1>2, <1>3, <2>1 DEF IInv, TypeOK, PlansSound
<1>7. QuoteInWindow'
    BY <1>2 DEF IInv, QuoteInWindow
<1> QED BY <1>4, <1>5, <1>6, <1>7 DEF IInv

LEMMA AskSound ==
    ASSUME IInv, NEW c \in Collector, Ask(c)
    PROVE  IInv'
<1>1. PICK e \in Tokens(c) \ asked[c], answer \in {clock, -1} :
        /\ pc[c] = "fetch"
        /\ asked' = [asked EXCEPT ![c] = @ \cup {e}]
        /\ quotes' = [quotes EXCEPT ![c][e] = answer]
        /\ UNCHANGED <<clock, calm, obs, byHand, pc, now, terminal, due>>
    BY DEF Ask
<1>2. e \in Entry /\ answer \in Nat \cup {-1} /\ clock \in Nat
    BY TargetsExist DEF Tokens, IInv, TypeOK
<1>3. TypeOK'
    BY <1>1, <1>2 DEF IInv, TypeOK
<1>4. PassTimely'
    BY <1>1 DEF IInv, PassTimely
<1>5. PlansSound'
    <2>1. now[c] <= clock /\ now[c] \in Nat
        BY <1>1 DEF IInv, TypeOK, PassTimely
    <2>2. \A d \in Collector, x \in Entry :
             quotes'[d][x] = IF d = c /\ x = e THEN answer ELSE quotes[d][x]
        BY <1>1, <1>2 DEF IInv, TypeOK
    <2>3. \A d \in Collector, x \in Entry : quotes'[d][x] # -1 =>
             /\ pc[d] \in {"fetch", "persist"}
             /\ now[d] <= quotes'[d][x] /\ quotes'[d][x] <= clock
        BY <1>1, <1>2, <2>1, <2>2 DEF IInv, PlansSound
    <2> QED BY <1>1, <2>3 DEF IInv, PlansSound
<1>6. QuoteInWindow'
    BY <1>1 DEF IInv, QuoteInWindow
<1> QED BY <1>3, <1>4, <1>5, <1>6 DEF IInv

LEMMA GatheredSound ==
    ASSUME IInv, NEW c \in Collector, Gathered(c)
    PROVE  IInv'
<1>1. /\ pc[c] = "fetch" /\ pc' = [pc EXCEPT ![c] = "persist"]
      /\ UNCHANGED <<clock, calm, obs, byHand, now, terminal, due, asked, quotes>>
    BY DEF Gathered
<1>2. TypeOK'
    BY <1>1 DEF IInv, TypeOK
<1>3. PassTimely' /\ PlansSound' /\ QuoteInWindow'
    BY <1>1 DEF IInv, TypeOK, PassTimely, PlansSound, QuoteInWindow
<1> QED BY <1>2, <1>3 DEF IInv

-----------------------------------------------------------------------------
(* The row a pass files: what was decided at `now` bounds the observation     *)
(* time, and a tick's deadline bounds how much later the quote was taken.     *)
LEMMA ObservationInWindow ==
    ASSUME IInv, NEW c \in Collector, pc[c] = "persist", NEW k \in Batch(c)
    PROVE  /\ Observation(c, k) \in Row
           /\ Observation(c, k).kind = "quote" =>
                 /\ Target(k) <= Observation(c, k).at
                 /\ Observation(c, k).at <= Observation(c, k).taken
                 /\ c \notin Manual =>
                       Observation(c, k).taken <= Observation(c, k).at + Deadline
                 /\ Observation(c, k).at < Close[k[1]]
<1>1. k \in Key /\ k[1] \in Entry
    BY TargetsExist DEF Batch, IInv, TypeOK
<1>2. now[c] \in Nat /\ quotes[c][k[1]] \in Nat \cup {-1} /\ clock \in Nat
    BY <1>1 DEF IInv, TypeOK
<1>3. CASE k \in terminal[c] \/ quotes[c][k[1]] = -1
    BY <1>2, <1>3 DEF Observation, Row
<1>4. CASE k \notin terminal[c] /\ quotes[c][k[1]] # -1
    <2>1. Observation(c, k) = [kind |-> "quote", at |-> now[c], taken |-> quotes[c][k[1]]]
        BY <1>4 DEF Observation
    <2>2. k \in due[c]
        BY <1>4 DEF Batch
    <2>3. /\ Target(k) <= now[c] /\ now[c] < Close[k[1]]
          /\ now[c] <= quotes[c][k[1]] /\ quotes[c][k[1]] <= clock
        BY <1>1, <1>4, <2>2 DEF IInv, PlansSound
    <2>4. c \notin Manual => clock <= now[c] + Deadline
        BY DEF IInv, PassTimely
    <2>5. /\ quotes[c][k[1]] \in Nat
          /\ c \notin Manual => quotes[c][k[1]] <= now[c] + Deadline
        BY <1>2, <1>4, <2>3, <2>4, LengthAssumption
    <2> QED BY <1>2, <2>1, <2>3, <2>5 DEF Row
<1> QED BY <1>3, <1>4

LEMMA PersistSound ==
    ASSUME IInv, NEW c \in Collector, Persist(c)
    PROVE  /\ IInv'
           /\ \A k \in Key : obs[k] # Pending => obs'[k] = obs[k]
<1>1. EndPass(c) /\ UNCHANGED <<clock, calm>> /\ pc[c] = "persist"
    BY DEF Persist
<1>2. PassTimely' /\ PlansSound'
    BY <1>1, EndSound
<1>3. CASE UNCHANGED <<obs, byHand>>
    <2>1. TypeOK'
        BY <1>1, <1>3, Ended DEF IInv, TypeOK
    <2>2. QuoteInWindow'
        BY <1>3 DEF IInv, QuoteInWindow
    <2> QED BY <1>2, <1>3, <2>1, <2>2 DEF IInv
<1>4. CASE /\ Unique(c)
           /\ obs' = [k \in Key |-> IF k \in Batch(c) THEN Observation(c, k) ELSE obs[k]]
           /\ byHand' = IF c \in Manual THEN byHand \cup Batch(c) ELSE byHand
    <2>1. obs' \in [Key -> Row \cup {Pending}]
        BY <1>1, <1>4, ObservationInWindow DEF IInv, TypeOK
    <2>5. Batch(c) \subseteq Key
        BY DEF Batch, IInv, TypeOK
    <2>2. TypeOK'
        BY <1>1, <1>4, <2>1, <2>5, Ended DEF IInv, TypeOK
    <2>3. QuoteInWindow'
        <3> SUFFICES ASSUME NEW k \in Key, obs'[k].kind = "quote"
                     PROVE  /\ Target(k) <= obs'[k].at
                            /\ obs'[k].at <= obs'[k].taken
                            /\ k \notin byHand' => obs'[k].taken <= obs'[k].at + Deadline
                            /\ obs'[k].at < Close[k[1]]
            BY DEF QuoteInWindow
        <3>1. CASE k \in Batch(c)
            BY <1>1, <1>4, <3>1, ObservationInWindow
        <3>2. CASE k \notin Batch(c)
            BY <1>4, <3>2 DEF IInv, QuoteInWindow
        <3> QED BY <3>1, <3>2
    <2>4. \A k \in Key : obs[k] # Pending => obs'[k] = obs[k]
        BY <1>4 DEF Unique, Recorded
    <2> QED BY <1>2, <2>2, <2>3, <2>4 DEF IInv
<1> QED BY <1>3, <1>4 DEF Persist

LEMMA AbortSound ==
    ASSUME IInv, NEW c \in Collector, Abort(c)
    PROVE  IInv'
<1>1. EndPass(c) /\ UNCHANGED <<clock, calm, obs, byHand>>
    BY DEF Abort
<1>2. TypeOK'
    BY <1>1, Ended DEF IInv, TypeOK
<1>3. PassTimely' /\ PlansSound'
    BY <1>1, EndSound
<1>4. QuoteInWindow'
    BY <1>1 DEF IInv, QuoteInWindow
<1> QED BY <1>2, <1>3, <1>4 DEF IInv

LEMMA AdvanceSound == IInv /\ Advance => IInv'
<1> SUFFICES ASSUME IInv, Advance PROVE IInv'
    OBVIOUS
<1>1. TypeOK'
    BY DEF IInv, TypeOK, Advance, passVars
<1>2. PassTimely'
    BY LengthAssumption DEF IInv, TypeOK, PassTimely, Advance, passVars
<1>3. PlansSound'
    <2>1. clock \in Nat /\ clock' = clock + 1 /\ UNCHANGED passVars
        BY DEF IInv, TypeOK, Advance
    <2>2. \A c \in Collector, e \in Entry : quotes[c][e] \in Nat \cup {-1}
        BY DEF IInv, TypeOK
    <2> QED BY <2>1, <2>2 DEF IInv, PlansSound, passVars
<1>4. QuoteInWindow'
    BY DEF IInv, QuoteInWindow, Advance
<1> QED BY <1>1, <1>2, <1>3, <1>4 DEF IInv

-----------------------------------------------------------------------------
LEMMA CalmSound == IInv /\ (Calm \/ UNCHANGED vars) => IInv'
BY DEF IInv, TypeOK, PassTimely, PlansSound, QuoteInWindow, Calm, vars, passVars

LEMMA StepSound == IInv /\ [Next]_vars => IInv'
BY BeginSound, CountSound, DecideSound, FetchSound, AskSound, GatheredSound, PersistSound, AbortSound, AdvanceSound, CalmSound
   DEF Next, Work

(* No look-ahead and no late stand-in: a quote filed under a horizon was taken *)
(* once the horizon had elapsed and not before the stated observation time,    *)
(* which is before the market's close; a tick took it within a deadline of     *)
(* that time.                                                                  *)
THEOREM QuotesInWindow == Spec => []QuoteInWindow
<1>1. IInv => QuoteInWindow
    BY DEF IInv
<1> QED BY InitSound, StepSound, <1>1, PTL DEF Spec

(* A row once written never changes, however passes overlap (research_      *)
(* tracking.py: "written once per (entry, horizon) and never overwritten"). *)
THEOREM RowsWrittenOnce == Spec => WriteOnce
<1>1. IInv /\ [Next]_vars => [\A k \in Key : obs[k] # Pending => obs'[k] = obs[k]]_vars
    <2> SUFFICES ASSUME IInv, Next
                 PROVE  \A k \in Key : obs[k] # Pending => obs'[k] = obs[k]
        OBVIOUS
    <2>1. CASE \E c \in Collector : Persist(c)
        BY <2>1, PersistSound
    <2>2. CASE UNCHANGED obs
        BY <2>2
    <2> QED BY <2>1, <2>2 DEF Next, Work, Begin, Count, Decide, Fetch, Ask, Gathered, Abort, Advance, Calm
<1> QED BY InitSound, StepSound, <1>1, PTL DEF Spec, WriteOnce

-----------------------------------------------------------------------------
(***************************************************************************)
(* The freeze-to-close rows for any passes, entries and closes.            *)
(* The quote that is kept comes from before the close although the commit  *)
(* may come after it, because a pass carries its quotes with their own     *)
(* timestamps (PassSound); and a row is never reopened because an update   *)
(* writes the changed columns only and an insert onto a row that appeared  *)
(* meanwhile fails (Conflict).                                             *)
(***************************************************************************)

LEMMA PreCloseInitSound == PreCloseInit => PreCloseInv
<1> SUFFICES ASSUME PreCloseInit PROVE PreCloseInv
    OBVIOUS
<1>1. PreCloseTypeOK
    BY DEF PreCloseInit, PreCloseTypeOK, Blank, Absent
<1>2. PassSound /\ FinalIsPreClose
    BY DEF PreCloseInit, PassSound, FinalIsPreClose, Blank, Absent
<1> QED BY <1>1, <1>2 DEF PreCloseInv

-----------------------------------------------------------------------------
(* A pass that ends leaves nothing behind, and the others keep what they have. *)
LEMMA Finished ==
    ASSUME PreCloseInv, NEW c \in Observer, FinishPass(c)
    PROVE  /\ obsPc' \in [Observer -> {"idle", "select", "load", "visit"}]
           /\ passNow' \in [Observer -> Nat] /\ todo' \in [Observer -> SUBSET Watched]
           /\ image' \in [Observer -> [Watched -> FinalRow \cup {Absent}]]
           /\ change' \in [Observer ->
                 [Watched -> {"none", "untouched", "closed", "unavailable", "quote"}]]
           /\ stamp' \in [Observer -> [Watched -> Nat]]
           /\ obsPc'[c] = "idle"
           /\ \A e \in Watched : change'[c][e] = "none" /\ image'[c][e] = Absent
           /\ \A d \in Observer \ {c} :
                 /\ obsPc'[d] = obsPc[d] /\ passNow'[d] = passNow[d] /\ image'[d] = image[d]
                 /\ change'[d] = change[d] /\ stamp'[d] = stamp[d]
BY DEF PreCloseInv, PreCloseTypeOK, FinishPass, Blank

(* So ending keeps PassSound, if no row disappears. *)
LEMMA FinishSound ==
    ASSUME PreCloseInv, NEW c \in Observer, FinishPass(c), UNCHANGED minute,
           \A e \in Watched : rows[e] # Absent => rows'[e] # Absent
    PROVE  PassSound'
<1> SUFFICES ASSUME NEW d \in Observer
             PROVE  /\ \A e \in Watched : change'[d][e] = "quote" => stamp'[d][e] < ClosesAt[e]
                    /\ \A e \in Watched : image'[d][e] # Absent => rows'[e] # Absent
    BY DEF PassSound
<1>1. CASE d = c
    BY <1>1, Finished
<1>2. CASE d # c
    <2>1. /\ obsPc'[d] = obsPc[d] /\ passNow'[d] = passNow[d] /\ image'[d] = image[d]
          /\ change'[d] = change[d] /\ stamp'[d] = stamp[d]
        BY <1>2, Finished
    <2>2. /\ \A e \in Watched : change[d][e] = "quote" => stamp[d][e] < ClosesAt[e]
          /\ \A e \in Watched : image[d][e] # Absent => rows[e] # Absent
        BY DEF PreCloseInv, PassSound
    <2> QED BY <2>1, <2>2
<1> QED BY <1>1, <1>2

-----------------------------------------------------------------------------
(* The steps of a pass up to its commit write no row. *)
LEMMA PreCloseBeginSound ==
    ASSUME PreCloseInv, NEW c \in Observer, BeginPass(c)
    PROVE  PreCloseInv'
<1>1. PreCloseTypeOK'
    BY DEF PreCloseInv, PreCloseTypeOK, BeginPass
<1>2. PassSound'
    BY CloseAssumption DEF PreCloseInv, PreCloseTypeOK, PassSound, BeginPass
<1>3. FinalIsPreClose'
    BY DEF PreCloseInv, FinalIsPreClose, BeginPass
<1> QED BY <1>1, <1>2, <1>3 DEF PreCloseInv

LEMMA SelectSound ==
    ASSUME PreCloseInv, NEW c \in Observer, Select(c)
    PROVE  PreCloseInv'
<1>1. PreCloseTypeOK'
    BY DEF PreCloseInv, PreCloseTypeOK, Select
<1>2. PassSound'
    BY DEF PreCloseInv, PreCloseTypeOK, PassSound, Select
<1>3. FinalIsPreClose'
    BY DEF PreCloseInv, FinalIsPreClose, Select
<1> QED BY <1>1, <1>2, <1>3 DEF PreCloseInv

LEMMA LoadSound ==
    ASSUME PreCloseInv, NEW c \in Observer, Load(c)
    PROVE  PreCloseInv'
<1> DEFINE loaded == [e \in Watched |-> IF e \in todo[c] THEN rows[e] ELSE Absent]
           plan == [e \in Watched |-> IF e \in todo[c] THEN "untouched" ELSE "none"]
<1>1. /\ image' = [image EXCEPT ![c] = loaded] /\ change' = [change EXCEPT ![c] = plan]
      /\ obsPc' = [obsPc EXCEPT ![c] = "visit"] /\ obsPc[c] = "load"
      /\ UNCHANGED <<minute, rows, passNow, todo, stamp, undisturbed>>
    BY DEF Load
<1>2. /\ loaded \in [Watched -> FinalRow \cup {Absent}]
      /\ plan \in [Watched -> {"untouched", "none"}]
      /\ \A e \in Watched : loaded[e] # Absent => rows[e] # Absent
    BY DEF PreCloseInv, PreCloseTypeOK
<1> HIDE DEF loaded, plan
<1>3. PreCloseTypeOK'
    <2>1. image' \in [Observer -> [Watched -> FinalRow \cup {Absent}]]
        BY <1>1, <1>2 DEF PreCloseInv, PreCloseTypeOK
    <2>2. change' \in [Observer ->
              [Watched -> {"none", "untouched", "closed", "unavailable", "quote"}]]
        BY <1>1, <1>2 DEF PreCloseInv, PreCloseTypeOK
    <2> QED BY <1>1, <2>1, <2>2 DEF PreCloseInv, PreCloseTypeOK
<1>4. PassSound'
    <2> SUFFICES ASSUME NEW d \in Observer
                 PROVE  /\ \A e \in Watched : change'[d][e] = "quote" => stamp'[d][e] < ClosesAt[e]
                        /\ \A e \in Watched : image'[d][e] # Absent => rows'[e] # Absent
        BY DEF PassSound
    <2>1. CASE d = c
        <3>1. obsPc'[c] = "visit" /\ image'[c] = loaded /\ change'[c] = plan
            BY <1>1 DEF PreCloseInv, PreCloseTypeOK
        <3> QED BY <1>1, <1>2, <2>1, <3>1 DEF PreCloseInv, PassSound
    <2>2. CASE d # c
        BY <1>1, <2>2 DEF PreCloseInv, PreCloseTypeOK, PassSound
    <2> QED BY <2>1, <2>2
<1>5. FinalIsPreClose'
    BY <1>1 DEF PreCloseInv, FinalIsPreClose
<1> QED BY <1>3, <1>4, <1>5 DEF PreCloseInv

LEMMA VisitSound ==
    ASSUME PreCloseInv, NEW c \in Observer, Visit(c)
    PROVE  PreCloseInv'
<1>1. PICK e \in todo[c] :
         /\ todo' = [todo EXCEPT ![c] = @ \ {e}]
         /\ \/ /\ change' = [change EXCEPT ![c][e] =
                               IF image[c][e].closed THEN "untouched" ELSE "closed"]
               /\ UNCHANGED stamp
            \/ change' = [change EXCEPT ![c][e] = "unavailable"] /\ UNCHANGED stamp
            \/ UNCHANGED <<change, stamp>>
            \/ /\ minute < ClosesAt[e]
               /\ change' = [change EXCEPT ![c][e] = "quote"]
               /\ stamp' = [stamp EXCEPT ![c][e] = minute]
    BY DEF Visit, Acceptable
<1>2. UNCHANGED <<minute, rows, obsPc, passNow, image, undisturbed>>
    BY DEF Visit
<1>3. e \in Watched
    BY <1>1 DEF PreCloseInv, PreCloseTypeOK
<1>4. PICK plan \in {"none", "untouched", "closed", "unavailable", "quote"} :
         change' = [change EXCEPT ![c][e] = plan]
    <2>1. CASE UNCHANGED <<change, stamp>>
        <3>1. change' = [change EXCEPT ![c][e] = change[c][e]]
            BY <1>3, <2>1 DEF PreCloseInv, PreCloseTypeOK
        <3>2. change[c][e] \in {"none", "untouched", "closed", "unavailable", "quote"}
            BY <1>3 DEF PreCloseInv, PreCloseTypeOK
        <3> QED BY <3>1, <3>2
    <2> QED BY <1>1, <2>1
<1>5. PreCloseTypeOK'
    <2>1. change' \in [Observer ->
              [Watched -> {"none", "untouched", "closed", "unavailable", "quote"}]]
        BY <1>3, <1>4 DEF PreCloseInv, PreCloseTypeOK
    <2>2. stamp' \in [Observer -> [Watched -> Nat]]
        <3>1. stamp \in [Observer -> [Watched -> Nat]] /\ minute \in Nat
            BY DEF PreCloseInv, PreCloseTypeOK
        <3>2. CASE UNCHANGED stamp
            BY <3>1, <3>2
        <3>3. CASE stamp' = [stamp EXCEPT ![c][e] = minute]
            BY <1>3, <3>1, <3>3
        <3> QED BY <1>1, <3>2, <3>3
    <2>3. todo' \in [Observer -> SUBSET Watched]
        BY <1>1 DEF PreCloseInv, PreCloseTypeOK
    <2> QED BY <1>2, <2>1, <2>2, <2>3 DEF PreCloseInv, PreCloseTypeOK
<1>6. \A d \in Observer : \A f \in Watched : change'[d][f] = "quote" => stamp'[d][f] < ClosesAt[f]
    BY <1>1, <1>3 DEF PreCloseInv, PreCloseTypeOK, PassSound
<1>7. PassSound'
    BY <1>2, <1>6 DEF PreCloseInv, PassSound
<1>8. FinalIsPreClose'
    BY <1>2 DEF PreCloseInv, FinalIsPreClose
<1> QED BY <1>5, <1>7, <1>8 DEF PreCloseInv

-----------------------------------------------------------------------------
(* What Changed makes of a row: it stays a row, keeps closed, and a price that *)
(* is there is from before the close.                                          *)
PriceSound(row, e) == row.last # None => row.source < ClosesAt[e]

LEMMA ChangedSound ==
    ASSUME PreCloseInv, NEW c \in Observer, NEW e \in Watched,
           NEW base \in FinalRow, NEW seen \in FinalRow, PriceSound(base, e)
    PROVE  /\ Changed(c, e, base, seen) \in FinalRow
           /\ base.closed => Changed(c, e, base, seen).closed
           /\ PriceSound(Changed(c, e, base, seen), e)
<1>1. passNow[c] \in Nat /\ stamp[c][e] \in Nat
    BY DEF PreCloseInv, PreCloseTypeOK
<1>2. CASE change[c][e] = "closed"
    BY <1>2 DEF Changed, FinalRow, PriceSound
<1>3. CASE change[c][e] = "quote"
    <2>1. stamp[c][e] < ClosesAt[e]
        BY <1>3 DEF PreCloseInv, PassSound
    <2>2. Changed(c, e, base, seen) =
             [base EXCEPT !.first = IF seen.first = None THEN passNow[c] ELSE @,
                          !.last = passNow[c], !.source = stamp[c][e]]
        BY <1>3 DEF Changed
    <2> QED BY <1>1, <2>1, <2>2 DEF FinalRow, PriceSound
<1>4. CASE change[c][e] \notin {"closed", "quote"}
    BY <1>4 DEF Changed
<1> QED BY <1>2, <1>3, <1>4

LEMMA RowsDiffer == Absent \notin FinalRow /\ Fresh \in FinalRow
BY DEF Absent, Fresh, FinalRow, None

(* What the commit writes, when no insert meets a row. *)
LEMMA WrittenSound ==
    ASSUME PreCloseInv, NEW c \in Observer, NEW e \in Touched(c), ~Conflict(c)
    PROVE  /\ Written(c, e) \in FinalRow
           /\ rows[e].closed => Written(c, e).closed
           /\ PriceSound(Written(c, e), e)
<1>1. e \in Watched
    BY DEF Touched
<1>2. CASE image[c][e] = Absent
    <2>1. rows[e] = Absent
        BY <1>2 DEF Conflict
    <2>2. ~rows[e].closed /\ PriceSound(Fresh, e)
        BY <2>1 DEF Absent, Fresh, PriceSound
    <2>3. Written(c, e) = Changed(c, e, Fresh, Fresh)
        BY <1>2 DEF Written
    <2> QED BY <1>1, <2>2, <2>3, ChangedSound, RowsDiffer
<1>3. CASE image[c][e] # Absent
    <2>1. rows[e] \in FinalRow /\ image[c][e] \in FinalRow /\ PriceSound(rows[e], e)
        BY <1>1, <1>3 DEF PreCloseInv, PreCloseTypeOK, PassSound, FinalIsPreClose, PriceSound
    <2>2. Written(c, e) = Changed(c, e, rows[e], image[c][e])
        BY <1>3 DEF Written
    <2> QED BY <1>1, <2>1, <2>2, ChangedSound
<1> QED BY <1>2, <1>3

LEMMA CommitSound ==
    ASSUME PreCloseInv, NEW c \in Observer, Commit(c)
    PROVE  /\ PreCloseInv'
           /\ \A e \in Watched : rows[e].closed => rows'[e].closed
<1>1. FinishPass(c) /\ UNCHANGED <<minute, undisturbed>>
    BY DEF Commit
<1>2. CASE /\ ~Conflict(c)
           /\ rows' = [e \in Watched |-> IF e \in Touched(c) THEN Written(c, e) ELSE rows[e]]
    <2>1. \A e \in Watched :
             /\ rows'[e] \in FinalRow \cup {Absent}
             /\ rows[e] # Absent => rows'[e] # Absent
             /\ rows[e].closed => rows'[e].closed
             /\ rows'[e] # Absent => PriceSound(rows'[e], e)
        <3> SUFFICES ASSUME NEW e \in Watched
                     PROVE  /\ rows'[e] \in FinalRow \cup {Absent}
                            /\ rows[e] # Absent => rows'[e] # Absent
                            /\ rows[e].closed => rows'[e].closed
                            /\ rows'[e] # Absent => PriceSound(rows'[e], e)
            OBVIOUS
        <3>1. CASE e \in Touched(c)
            BY <1>2, <3>1, WrittenSound, RowsDiffer
        <3>2. CASE e \notin Touched(c)
            BY <1>2, <3>2 DEF PreCloseInv, PreCloseTypeOK, FinalIsPreClose, PriceSound
        <3> QED BY <3>1, <3>2
    <2>2. rows' \in [Watched -> FinalRow \cup {Absent}]
        BY <1>2, <2>1
    <2>3. PreCloseTypeOK'
        BY <1>1, <2>2, Finished DEF PreCloseInv, PreCloseTypeOK
    <2>4. PassSound'
        BY <1>1, <2>1, FinishSound
    <2>5. FinalIsPreClose'
        BY <2>1 DEF FinalIsPreClose, PriceSound
    <2> QED BY <2>1, <2>3, <2>4, <2>5 DEF PreCloseInv
<1>3. CASE UNCHANGED rows
    <2>1. PreCloseTypeOK'
        BY <1>1, <1>3, Finished DEF PreCloseInv, PreCloseTypeOK
    <2>2. PassSound'
        BY <1>1, <1>3, FinishSound
    <2>3. FinalIsPreClose'
        BY <1>3 DEF PreCloseInv, FinalIsPreClose
    <2> QED BY <1>3, <2>1, <2>2, <2>3 DEF PreCloseInv
<1> QED BY <1>2, <1>3 DEF Commit

LEMMA PreCloseAbortSound ==
    ASSUME PreCloseInv, NEW c \in Observer, AbortPass(c)
    PROVE  PreCloseInv'
<1>1. FinishPass(c) /\ UNCHANGED <<minute, rows, undisturbed>>
    BY DEF AbortPass
<1>2. PreCloseTypeOK'
    BY <1>1, Finished DEF PreCloseInv, PreCloseTypeOK
<1>3. PassSound'
    BY <1>1, FinishSound
<1>4. FinalIsPreClose'
    BY <1>1 DEF PreCloseInv, FinalIsPreClose
<1> QED BY <1>2, <1>3, <1>4 DEF PreCloseInv

LEMMA ElapseSound == PreCloseInv /\ Elapse => PreCloseInv'
<1> SUFFICES ASSUME PreCloseInv, Elapse PROVE PreCloseInv'
    OBVIOUS
<1>1. PreCloseTypeOK'
    BY DEF PreCloseInv, PreCloseTypeOK, Elapse, obsPassVars
<1>2. PassSound'
    BY CloseAssumption DEF PreCloseInv, PreCloseTypeOK, PassSound, Elapse, obsPassVars
<1>3. FinalIsPreClose'
    BY DEF PreCloseInv, FinalIsPreClose, Elapse
<1> QED BY <1>1, <1>2, <1>3 DEF PreCloseInv

-----------------------------------------------------------------------------
LEMMA PreCloseCalmSound == PreCloseInv /\ (BecomeCalm \/ UNCHANGED preCloseVars) => PreCloseInv'
BY DEF PreCloseInv, PreCloseTypeOK, PassSound, FinalIsPreClose, BecomeCalm, preCloseVars,
       obsPassVars

LEMMA PreCloseStepSound == PreCloseInv /\ [PreCloseNext]_preCloseVars => PreCloseInv'
BY PreCloseBeginSound, SelectSound, LoadSound, VisitSound, CommitSound, PreCloseAbortSound, ElapseSound, PreCloseCalmSound
   DEF PreCloseNext, PassWork

(* The price kept for a market is one from before its close, although a pass *)
(* may straddle the close and commit long after it (research_preclose.py: "a *)
(* quote observed at or after close is rejected and never overwrites it").   *)
THEOREM FinalPricePreClose == PreCloseSpec => []FinalIsPreClose
<1>1. PreCloseInv => FinalIsPreClose
    BY DEF PreCloseInv
<1> QED BY PreCloseInitSound, PreCloseStepSound, <1>1, PTL DEF PreCloseSpec

(* A finalised row is never reopened, not even by a pass that loaded it before *)
(* and commits after (research_preclose.py: "a closed row is terminal").       *)
THEOREM ClosedIsTerminal == PreCloseSpec => ClosedStays
<1>1. PreCloseInv /\ [PreCloseNext]_preCloseVars =>
          [\A e \in Watched : rows[e].closed => rows'[e].closed]_preCloseVars
    <2> SUFFICES ASSUME PreCloseInv, PreCloseNext
                 PROVE  \A e \in Watched : rows[e].closed => rows'[e].closed
        OBVIOUS
    <2>1. CASE \E c \in Observer : Commit(c)
        BY <2>1, CommitSound
    <2>2. CASE UNCHANGED rows
        BY <2>2
    <2> QED BY <2>1, <2>2 DEF PreCloseNext, PassWork, BeginPass, Select, Load, Visit, AbortPass,
                              Elapse, BecomeCalm
<1> QED BY PreCloseInitSound, PreCloseStepSound, <1>1, PTL DEF PreCloseSpec, ClosedStays

-----------------------------------------------------------------------------
(***************************************************************************)
(* What holds of the messages for any number of messages and of requests   *)
(* handled at a time.  IInv is inductive: each lemma below shows that one  *)
(* action keeps its conjuncts.                                             *)
(***************************************************************************)

(* A new message disturbs no request and is nothing the Mac has. *)
LEMMA CreateKeeps ==
    ASSUME MessageInv, NEW m \in Message, Create(m)
    PROVE  MessageInv'
PROOF
<1> USE DEF Create, handlerVars, macVars, MessageInv, MessageTypeOK
<1>1. MessageTypeOK'
  BY DEF MessageStatus, Report
<1>2. Bookkeeping'
  BY DEF Bookkeeping, HandedOutOnly, MessageStatus, Report, Reportable
<1>3. ReportsTrue'
  BY DEF Bookkeeping, ReportsTrue, HandedOutOnly, Reportable
<1>4. Alone'
  BY DEF Bookkeeping, Alone
<1>5. HandedOutOnly'
  BY DEF Bookkeeping, ReportsTrue, Alone, HandedOutOnly, Report
<1>6. Truthful'
  BY DEF Truthful, ReportsTrue, Report, Reportable
<1>7. CancelHonoured'
  BY DEF Alone, HandedOutOnly, CancelHonoured, Report
<1> QED BY <1>1, <1>2, <1>3, <1>4, <1>5, <1>6, <1>7

(* Reading for a cancellation. *)
LEMMA StartCancelKeeps ==
    ASSUME MessageInv, NEW h \in Handler, NEW m \in Message, StartCancel(h, m)
    PROVE  MessageInv'
PROOF
<1> USE DEF StartCancel, Read, AllUnsent, handlerVars, macVars, MessageInv, MessageTypeOK
<1>1. MessageTypeOK'
  BY DEF MessageStatus, Report
<1>2. Bookkeeping'
  BY DEF Bookkeeping, HandedOutOnly, MessageStatus, Report, Reportable
<1>3. ReportsTrue'
  BY DEF Bookkeeping, ReportsTrue, HandedOutOnly, Reportable
<1>4. Alone'
  <2>1. CASE \E g \in Handler \ {h} : op[g] # "none"
    BY <2>1 DEF Alone
  <2>2. CASE \A g \in Handler \ {h} : op[g] = "none"
    <3>1. \A g \in Handler \ {h} : op'[g] = "none" /\ about'[g] = {}
      BY <2>2 DEF Bookkeeping
    <3>2. about'[h] = {m} /\ saw'[h][m] = status[m] /\ status' = status
      OBVIOUS
    <3> QED BY <3>1, <3>2 DEF Alone
  <2> QED BY <2>1, <2>2
<1>5. HandedOutOnly'
  BY DEF Bookkeeping, ReportsTrue, Alone, HandedOutOnly, Report
<1>6. Truthful'
  BY DEF Truthful, ReportsTrue, Report, Reportable
<1>7. CancelHonoured'
  BY DEF Alone, HandedOutOnly, CancelHonoured, Report
<1> QED BY <1>1, <1>2, <1>3, <1>4, <1>5, <1>6, <1>7

(* A lone cancellation finds the message pending, so the Mac has not got it. *)
LEMMA FinishCancelKeeps ==
    ASSUME MessageInv, NEW h \in Handler, FinishCancel(h)
    PROVE  MessageInv'
PROOF
<1> USE DEF FinishCancel, EndRequest, MayCancel, AllUnsent, handlerVars, macVars, MessageInv, MessageTypeOK
<1>1. MessageTypeOK'
  BY DEF MessageStatus, Report
<1>2. Bookkeeping'
  BY DEF Bookkeeping, HandedOutOnly, MessageStatus, Report, Reportable
<1>3. ReportsTrue'
  BY DEF Bookkeeping, ReportsTrue, HandedOutOnly, Reportable
<1>4. Alone'
  BY DEF Bookkeeping, Alone
<1>5. HandedOutOnly'
  BY DEF Bookkeeping, ReportsTrue, Alone, HandedOutOnly, Report
<1>6. Truthful'
  BY DEF Truthful, ReportsTrue, Report, Reportable
<1>7. CancelHonoured'
  BY DEF Alone, HandedOutOnly, CancelHonoured, Report
<1> QED BY <1>1, <1>2, <1>3, <1>4, <1>5, <1>6, <1>7

(* Reading for a fetch. *)
LEMMA StartFetchKeeps ==
    ASSUME MessageInv, NEW h \in Handler, StartFetch(h)
    PROVE  MessageInv'
PROOF
<1> USE DEF StartFetch, Read, MessageDue, AllUnsent, handlerVars, macVars, MessageInv, MessageTypeOK
<1>1. MessageTypeOK'
  BY DEF MessageStatus, Report
<1>2. Bookkeeping'
  BY DEF Bookkeeping, HandedOutOnly, MessageStatus, Report, Reportable
<1>3. ReportsTrue'
  BY DEF Bookkeeping, ReportsTrue, HandedOutOnly, Reportable
<1>4. Alone'
  BY DEF Bookkeeping, Alone
<1>5. HandedOutOnly'
  BY DEF Bookkeeping, ReportsTrue, Alone, HandedOutOnly, Report
<1>6. Truthful'
  BY DEF Truthful, ReportsTrue, Report, Reportable
<1>7. CancelHonoured'
  BY DEF Alone, HandedOutOnly, CancelHonoured, Report
<1> QED BY <1>1, <1>2, <1>3, <1>4, <1>5, <1>6, <1>7

(* A lone fetch hands out what is still due. *)
LEMMA FinishFetchKeeps ==
    ASSUME MessageInv, NEW h \in Handler, FinishFetch(h)
    PROVE  MessageInv'
PROOF
<1> USE DEF FinishFetch, EndRequest, HandedOut, AllUnsent, handlerVars, macVars, MessageInv, MessageTypeOK
<1>1. MessageTypeOK'
  BY DEF MessageStatus, Report
<1>2. Bookkeeping'
  BY DEF Bookkeeping, HandedOutOnly, MessageStatus, Report, Reportable
<1>3. ReportsTrue'
  BY DEF Bookkeeping, ReportsTrue, HandedOutOnly, Reportable
<1>4. Alone'
  BY DEF Bookkeeping, Alone
<1>5. HandedOutOnly'
  BY DEF Bookkeeping, ReportsTrue, Alone, HandedOutOnly, Report
<1>6. Truthful'
  BY DEF Truthful, ReportsTrue, Report, Reportable
<1>7. CancelHonoured'
  BY DEF Alone, HandedOutOnly, CancelHonoured, Report
<1> QED BY <1>1, <1>2, <1>3, <1>4, <1>5, <1>6, <1>7

(* Reading for a report that is true. *)
LEMMA StartReportKeeps ==
    ASSUME MessageInv, NEW h \in Handler, NEW m \in Message, NEW s \in Report, StartReport(h, m, s)
    PROVE  MessageInv'
PROOF
<1> USE DEF StartReport, Read, AllUnsent, handlerVars, macVars, MessageInv, MessageTypeOK
<1>1. MessageTypeOK'
  BY DEF MessageStatus, Report
<1>2. Bookkeeping'
  BY DEF Bookkeeping, HandedOutOnly, MessageStatus, Report, Reportable
<1>3. ReportsTrue'
  BY DEF Bookkeeping, ReportsTrue, HandedOutOnly, Reportable
<1>4. Alone'
  <2>1. CASE \E g \in Handler \ {h} : op[g] # "none"
    BY <2>1 DEF Alone
  <2>2. CASE \A g \in Handler \ {h} : op[g] = "none"
    <3>1. \A g \in Handler \ {h} : op'[g] = "none" /\ about'[g] = {}
      BY <2>2 DEF Bookkeeping
    <3>2. about'[h] = {m} /\ saw'[h][m] = status[m] /\ status' = status
      OBVIOUS
    <3> QED BY <3>1, <3>2 DEF Alone
  <2> QED BY <2>1, <2>2
<1>5. HandedOutOnly'
  BY DEF Bookkeeping, ReportsTrue, Alone, HandedOutOnly, Report
<1>6. Truthful'
  BY DEF Truthful, ReportsTrue, Report, Reportable
<1>7. CancelHonoured'
  BY DEF Alone, HandedOutOnly, CancelHonoured, Report
<1> QED BY <1>1, <1>2, <1>3, <1>4, <1>5, <1>6, <1>7

(* What a report writes has happened. *)
LEMMA FinishReportKeeps ==
    ASSUME MessageInv, NEW h \in Handler, FinishReport(h)
    PROVE  MessageInv'
PROOF
<1> USE DEF FinishReport, EndRequest, Moves, AllUnsent, handlerVars, macVars, MessageInv, MessageTypeOK
<1>1. MessageTypeOK'
  BY DEF MessageStatus, Report
<1>2. Bookkeeping'
  BY DEF Bookkeeping, HandedOutOnly, MessageStatus, Report, Reportable
<1>3. ReportsTrue'
  BY DEF Bookkeeping, ReportsTrue, HandedOutOnly, Reportable
<1>4. Alone'
  BY DEF Bookkeeping, Alone
<1>5. HandedOutOnly'
  BY DEF Bookkeeping, ReportsTrue, Alone, HandedOutOnly, Report
<1>6. Truthful'
  BY DEF Truthful, ReportsTrue, Report, Reportable
<1>7. CancelHonoured'
  BY DEF Alone, HandedOutOnly, CancelHonoured, Report
<1> QED BY <1>1, <1>2, <1>3, <1>4, <1>5, <1>6, <1>7

(* An aborted request is forgotten. *)
LEMMA AbortKeeps ==
    ASSUME MessageInv, NEW h \in Handler, AbortRequest(h)
    PROVE  MessageInv'
PROOF
<1> USE DEF AbortRequest, EndRequest, AllUnsent, handlerVars, macVars, MessageInv, MessageTypeOK
<1>1. MessageTypeOK'
  BY DEF MessageStatus, Report
<1>2. Bookkeeping'
  BY DEF Bookkeeping, HandedOutOnly, MessageStatus, Report, Reportable
<1>3. ReportsTrue'
  BY DEF Bookkeeping, ReportsTrue, HandedOutOnly, Reportable
<1>4. Alone'
  BY DEF Bookkeeping, Alone
<1>5. HandedOutOnly'
  BY DEF Bookkeeping, ReportsTrue, Alone, HandedOutOnly, Report
<1>6. Truthful'
  BY DEF Truthful, ReportsTrue, Report, Reportable
<1>7. CancelHonoured'
  BY DEF Alone, HandedOutOnly, CancelHonoured, Report
<1> QED BY <1>1, <1>2, <1>3, <1>4, <1>5, <1>6, <1>7

(* Time alone disturbs nothing. *)
LEMMA AgeKeeps ==
    ASSUME MessageInv, NEW m \in Message, Age(m)
    PROVE  MessageInv'
PROOF
<1> USE DEF Age, handlerVars, macVars, MessageInv, MessageTypeOK
<1>1. MessageTypeOK'
  BY DEF MessageStatus, Report
<1>2. Bookkeeping'
  BY DEF Bookkeeping, HandedOutOnly, MessageStatus, Report, Reportable
<1>3. ReportsTrue'
  BY DEF Bookkeeping, ReportsTrue, HandedOutOnly, Reportable
<1>4. Alone'
  BY DEF Bookkeeping, Alone
<1>5. HandedOutOnly'
  BY DEF Bookkeeping, ReportsTrue, Alone, HandedOutOnly, Report
<1>6. Truthful'
  BY DEF Truthful, ReportsTrue, Report, Reportable
<1>7. CancelHonoured'
  BY DEF Alone, HandedOutOnly, CancelHonoured, Report
<1> QED BY <1>1, <1>2, <1>3, <1>4, <1>5, <1>6, <1>7

(* What the Mac has only grows. *)
LEMMA AppendKeeps ==
    ASSUME MessageInv, NEW m \in Message, WriteInbox(m)
    PROVE  MessageInv'
PROOF
<1> USE DEF WriteInbox, handlerVars, macVars, MessageInv, MessageTypeOK
<1>1. MessageTypeOK'
  BY DEF MessageStatus, Report
<1>2. Bookkeeping'
  BY DEF Bookkeeping, HandedOutOnly, MessageStatus, Report, Reportable
<1>3. ReportsTrue'
  BY DEF Bookkeeping, ReportsTrue, HandedOutOnly, Reportable
<1>4. Alone'
  BY DEF Bookkeeping, Alone
<1>5. HandedOutOnly'
  BY DEF Bookkeeping, ReportsTrue, Alone, HandedOutOnly, Report
<1>6. Truthful'
  BY DEF Truthful, ReportsTrue, Report, Reportable
<1>7. CancelHonoured'
  BY DEF Alone, HandedOutOnly, CancelHonoured, Report
<1> QED BY <1>1, <1>2, <1>3, <1>4, <1>5, <1>6, <1>7

(* What the session has taken was in its inbox. *)
LEMMA TakeKeeps ==
    ASSUME MessageInv, NEW m \in Message, Take(m)
    PROVE  MessageInv'
PROOF
<1> USE DEF Take, handlerVars, macVars, MessageInv, MessageTypeOK
<1>1. MessageTypeOK'
  BY DEF MessageStatus, Report
<1>2. Bookkeeping'
  BY DEF Bookkeeping, HandedOutOnly, MessageStatus, Report, Reportable
<1>3. ReportsTrue'
  BY DEF Bookkeeping, ReportsTrue, HandedOutOnly, Reportable
<1>4. Alone'
  BY DEF Bookkeeping, Alone
<1>5. HandedOutOnly'
  BY DEF Bookkeeping, ReportsTrue, Alone, HandedOutOnly, Report
<1>6. Truthful'
  BY DEF Truthful, ReportsTrue, Report, Reportable
<1>7. CancelHonoured'
  BY DEF Alone, HandedOutOnly, CancelHonoured, Report
<1> QED BY <1>1, <1>2, <1>3, <1>4, <1>5, <1>6, <1>7

(* Every step keeps the inductive invariant. *)
LEMMA StepKeeps == MessageInv /\ [MessageNext]_messageVars => MessageInv'
PROOF
<1> SUFFICES ASSUME MessageInv, [MessageNext]_messageVars PROVE MessageInv'
  OBVIOUS
<1>1. ASSUME NEW m \in Message, Create(m) \/ Age(m) \/ WriteInbox(m) \/ Take(m)
      PROVE  MessageInv'
  BY <1>1, CreateKeeps, AgeKeeps, AppendKeeps, TakeKeeps
<1>2. ASSUME NEW h \in Handler, StartFetch(h) \/ Handle(h) \/ AbortRequest(h)
      PROVE  MessageInv'
  BY <1>2, StartFetchKeeps, FinishCancelKeeps, FinishFetchKeeps, FinishReportKeeps,
     AbortKeeps DEF Handle
<1>3. ASSUME NEW h \in Handler, NEW m \in Message, StartCancel(h, m)
      PROVE  MessageInv'
  BY <1>3, StartCancelKeeps
<1>4. ASSUME NEW h \in Handler, NEW m \in Message, NEW s \in Report, StartReport(h, m, s)
      PROVE  MessageInv'
  BY <1>4, StartReportKeeps
<1>5. CASE Quieten \/ UNCHANGED messageVars
  <2> USE <1>5 DEF Quieten, messageVars, handlerVars, macVars, MessageInv
  <2>1. MessageTypeOK'
    <3>1. quiet' \in BOOLEAN
      BY DEF MessageTypeOK
    <3> QED BY <3>1 DEF MessageTypeOK
  <2>2. Bookkeeping' /\ Alone' BY DEF Bookkeeping, Alone
  <2>3. ReportsTrue' BY DEF ReportsTrue, Reportable
  <2>4. HandedOutOnly' BY DEF HandedOutOnly
  <2>5. Truthful' /\ CancelHonoured' BY DEF Truthful, CancelHonoured
  <2> QED BY <2>1, <2>2, <2>3, <2>4, <2>5
<1> QED BY <1>1, <1>2, <1>3, <1>4, <1>5 DEF MessageNext

(* The invariant that TLC checks is inductive, for every Message and Handler. *)
THEOREM InductiveInvariant == MessageSpec => []MessageInv
PROOF
<1>1. MessageInit => MessageInv
  <2> SUFFICES ASSUME MessageInit PROVE MessageInv
    OBVIOUS
  <2> USE DEF MessageInit, AllUnsent
  <2>1. MessageTypeOK BY DEF MessageTypeOK, MessageStatus, Report
  <2>2. Bookkeeping /\ ReportsTrue BY DEF Bookkeeping, ReportsTrue
  <2>3. Alone /\ HandedOutOnly BY DEF Alone, HandedOutOnly
  <2>4. Truthful /\ CancelHonoured BY DEF Truthful, CancelHonoured
  <2> QED BY <2>1, <2>2, <2>3, <2>4 DEF MessageInv
<1> QED BY <1>1, StepKeeps, PTL DEF MessageSpec

(* The board never claims more than has happened on the Mac, however many *)
(* requests overlap, are lost or are repeated.                            *)
THEOREM BoardTruthful == MessageSpec => []Truthful
PROOF
<1>1. MessageInv => Truthful BY DEF MessageInv
<1> QED BY <1>1, InductiveInvariant, PTL

(* A message cancelled before requests ever overlapped never gets to the Mac. *)
THEOREM CancelMeansCancel == MessageSpec => []CancelHonoured
PROOF
<1>1. MessageInv => CancelHonoured BY DEF MessageInv
<1> QED BY <1>1, InductiveInvariant, PTL

(* A final status is final until requests overlap: what a handler that works *)
(* alone has read still holds when it writes.                                *)
THEOREM FinalIsFinal == MessageSpec => FinalStays
PROOF
<1> DEFINE Stays == \A m \in Message :
                      ~overlapped /\ status[m] \in {"cancelled", "failed", "read"} =>
                         status'[m] = status[m]
<1>1. ASSUME MessageInv, [MessageNext]_messageVars PROVE Stays
  <2> SUFFICES ASSUME NEW m \in Message, ~overlapped,
                      status[m] \in {"cancelled", "failed", "read"}
               PROVE  status'[m] = status[m]
    OBVIOUS
  <2>1. ASSUME NEW h \in Handler, FinishCancel(h) PROVE status'[m] = status[m]
    BY <1>1, <2>1 DEF FinishCancel, MayCancel, MessageInv, Alone
  <2>2. ASSUME NEW h \in Handler, FinishFetch(h) PROVE status'[m] = status[m]
    BY <1>1, <2>2 DEF FinishFetch, HandedOut, MessageInv, Alone, Bookkeeping
  <2>3. ASSUME NEW h \in Handler, FinishReport(h) PROVE status'[m] = status[m]
    <3>1. CASE m \in about[h]
      BY <1>1, <2>3, <3>1 DEF FinishReport, Moves, MessageInv, Alone
    <3>2. CASE m \notin about[h]
      BY <2>3, <3>2 DEF FinishReport
    <3> QED BY <3>1, <3>2
  <2>4. ASSUME NEW n \in Message, Create(n) \/ Age(n) \/ WriteInbox(n) \/ Take(n)
        PROVE  status'[m] = status[m]
    BY <1>1, <2>4 DEF Create, Age, WriteInbox, Take, MessageInv, MessageTypeOK
  <2>5. ASSUME NEW h \in Handler, StartFetch(h) \/ AbortRequest(h)
        PROVE  status'[m] = status[m]
    BY <2>5 DEF StartFetch, AbortRequest
  <2>6. ASSUME NEW h \in Handler, NEW n \in Message,
               StartCancel(h, n) \/ \E s \in Report : StartReport(h, n, s)
        PROVE  status'[m] = status[m]
    BY <2>6 DEF StartCancel, StartReport
  <2>7. CASE Quieten \/ UNCHANGED messageVars
    BY <2>7 DEF Quieten, messageVars
  <2> QED BY <1>1, <2>1, <2>2, <2>3, <2>4, <2>5, <2>6, <2>7 DEF MessageNext, Handle
<1>2. MessageSpec => [][Stays]_messageVars
  <2>1. MessageInv /\ [MessageNext]_messageVars => [Stays]_messageVars
    BY <1>1
  <2> QED BY <2>1, InductiveInvariant, PTL DEF MessageSpec
<1> QED BY <1>2 DEF FinalStays
================================================================================
