---------------------------- MODULE ForwardCollect ----------------------------
(***************************************************************************)
(* The forward observations of one frozen cohort                            *)
(* (evaluation/research_tracking.py, collect_due_forward).  A pass decides  *)
(* which (entry, horizon) pairs are due, fetches quotes over the network,   *)
(* and commits one row per pair.  Passes of different job groups and the    *)
(* research-forward command hold different leases or none, so they overlap. *)
(* A tick asks for all books at once and is cut off at its deadline; the    *)
(* command asks token by token and takes as long as it takes.               *)
(*                                                                          *)
(* An entry stands for its token.  A quote is known by when it was taken.   *)
(***************************************************************************)
EXTENDS Integers, FiniteSets

CONSTANTS Collector, \* runners of passes, each making one after the other
          Manual,    \* those of them that run research-forward
          Entry,     \* the cohort's entries
          Length,    \* RESEARCH_HORIZONS: horizon |-> its length
          Origin,    \* evaluation_origin_at: when the cohort was frozen
          Close,     \* Close[e]: the expected close of e's market
          Deadline,  \* tick_hard_deadline_seconds: bounds a tick's pass
          LastHour   \* bound on the clock

Label == DOMAIN Length   \* the horizons' names
Key == Entry \X Label

(* now >= target decides that a horizon has elapsed. *)
Target(k) == Origin + Length[k[2]]

ASSUME LengthAssumption ==
    /\ Length \in [Label -> Nat] /\ Origin \in Nat /\ Manual \subseteq Collector
    /\ Close \in [Entry -> Nat] /\ Deadline \in Nat /\ LastHour \in Nat

(* Every pair has an outcome within the clock's bound. *)
ASSUME LastAssumption == \A k \in Key : Target(k) <= LastHour

Pending == [kind |-> "pending", at |-> 0, taken |-> 0]

VARIABLES clock,
          obs,      \* obs[k]: the row of pair k, Pending: no row
          pc,       \* where each collector's pass is
          now,      \* the `now` the pass took when it began
          terminal, \* the pairs it will record as closed
          due,      \* the pairs it fetches a quote for
          asked,    \* the entries whose quote it has asked for, one by one
          quotes,   \* quotes[c][e]: when e's quote was taken, -1: no quote
          calm,     \* from now on no pass is cut short
          byHand    \* history: the pairs whose row the command wrote

passVars == <<pc, now, terminal, due, asked, quotes>>
vars == <<clock, obs, passVars, calm, byHand>>

Row == [kind : {"quote", "unavailable", "closed"}, at : Nat, taken : Nat]

TypeOK ==
    /\ clock \in Nat
    /\ obs \in [Key -> Row \cup {Pending}]
    /\ pc \in [Collector -> {"idle", "count", "decide", "fetch", "persist"}]
    /\ now \in [Collector -> Nat]
    /\ terminal \in [Collector -> SUBSET Key] /\ due \in [Collector -> SUBSET Key]
    /\ asked \in [Collector -> SUBSET Entry]
    /\ quotes \in [Collector -> [Entry -> Nat \cup {-1}]]
    /\ calm \in BOOLEAN /\ byHand \in SUBSET Key

NoQuotes == [e \in Entry |-> -1]

Init ==
    /\ clock = Origin
    /\ obs = [k \in Key |-> Pending]
    /\ pc = [c \in Collector |-> "idle"]
    /\ now = [c \in Collector |-> 0]
    /\ terminal = [c \in Collector |-> {}] /\ due = [c \in Collector |-> {}]
    /\ asked = [c \in Collector |-> {}] /\ quotes = [c \in Collector |-> NoQuotes]
    /\ calm = FALSE /\ byHand = {}

Recorded == {k \in Key : obs[k] # Pending}

EndPass(c) ==
    /\ pc' = [pc EXCEPT ![c] = "idle"]
    /\ now' = [now EXCEPT ![c] = 0]
    /\ terminal' = [terminal EXCEPT ![c] = {}]
    /\ due' = [due EXCEPT ![c] = {}]
    /\ asked' = [asked EXCEPT ![c] = {}]
    /\ quotes' = [quotes EXCEPT ![c] = NoQuotes]

-----------------------------------------------------------------------------
Begin(c) ==
    /\ pc[c] = "idle"
    /\ pc' = [pc EXCEPT ![c] = "count"]
    /\ now' = [now EXCEPT ![c] = clock]
    /\ UNCHANGED <<clock, calm, obs, byHand, terminal, due, asked, quotes>>

(* The egress guard: a cohort with a row for every pair is skipped.  It is *)
(* decided from counts alone.  The mutant expects one row per entry.       *)
CompleteByEntries(n) == n >= Cardinality(Entry)

CompleteByCount(n) == n >= Cardinality(Entry) * Cardinality(Label)

Count(c) ==
    /\ pc[c] = "count"
    /\ \/ CompleteByCount(Cardinality(Recorded)) /\ EndPass(c)
       \/ /\ ~CompleteByCount(Cardinality(Recorded))
          /\ pc' = [pc EXCEPT ![c] = "decide"]
          /\ UNCHANGED <<now, terminal, due, asked, quotes>>
    /\ UNCHANGED <<clock, calm, obs, byHand>>

(* Of the pairs without a row, the ones whose horizon has elapsed; the mutant *)
(* measures from the cadence boundary, a unit before the freeze.              *)
ElapsedFromLabel(at) == {k \in Key \ Recorded : at >= Target(k) - 1}

Elapsed(at) == {k \in Key \ Recorded : at >= Target(k)}

(* Phase 1: a market already closed needs no quote. *)
Decide(c) ==
    /\ pc[c] = "decide"
    /\ pc' = [pc EXCEPT ![c] = "fetch"]
    /\ terminal' = [terminal EXCEPT ![c] =
                      {k \in Elapsed(now[c]) : Close[k[1]] <= now[c]}]
    /\ due' = [due EXCEPT ![c] = {k \in Elapsed(now[c]) : Close[k[1]] > now[c]}]
    /\ UNCHANGED <<clock, calm, obs, byHand, now, asked, quotes>>

(* Phase 2: one quote per token, used for every horizon that is due.  The venue *)
(* may have none.  A tick posts its tokens in batches and stamps the answers    *)
(* together; an error leaves every token without a quote.                       *)
Tokens(c) == {k[1] : k \in due[c]}

Fetch(c) ==
    /\ c \notin Manual /\ pc[c] = "fetch"
    /\ pc' = [pc EXCEPT ![c] = "persist"]
    /\ \E got \in SUBSET Tokens(c) :
         quotes' = [quotes EXCEPT ![c] = [e \in Entry |-> IF e \in got THEN clock ELSE -1]]
    /\ UNCHANGED <<clock, calm, obs, byHand, now, terminal, due, asked>>

(* The command asks for each token by itself and stamps what it is told. *)
Ask(c) ==
    /\ c \in Manual /\ pc[c] = "fetch"
    /\ \E e \in Tokens(c) \ asked[c] :
         /\ asked' = [asked EXCEPT ![c] = @ \cup {e}]
         /\ \E answer \in {clock, -1} : quotes' = [quotes EXCEPT ![c][e] = answer]
    /\ UNCHANGED <<clock, calm, obs, byHand, pc, now, terminal, due>>

(* gather returns when every token has been asked for. *)
Gathered(c) ==
    /\ c \in Manual /\ pc[c] = "fetch" /\ Tokens(c) \subseteq asked[c]
    /\ pc' = [pc EXCEPT ![c] = "persist"]
    /\ UNCHANGED <<clock, calm, obs, byHand, now, terminal, due, asked, quotes>>

(* upsert_forward's row for the pair k. *)
Observation(c, k) ==
    IF k \in terminal[c] THEN [kind |-> "closed", at |-> now[c], taken |-> 0]
    ELSE IF quotes[c][k[1]] = -1
           THEN [kind |-> "unavailable", at |-> now[c], taken |-> 0]
    ELSE [kind |-> "quote", at |-> now[c], taken |-> quotes[c][k[1]]]

Batch(c) == terminal[c] \cup due[c]

(* The unique constraint on (entry, horizon) fails the whole commit. *)
Unique(c) == Batch(c) \cap Recorded = {}

(* Phase 3: every row in one commit, or none. *)
Persist(c) ==
    /\ pc[c] = "persist"
    /\ \/ /\ Unique(c)
          /\ obs' = [k \in Key |-> IF k \in Batch(c) THEN Observation(c, k) ELSE obs[k]]
          /\ byHand' = IF c \in Manual THEN byHand \cup Batch(c) ELSE byHand
       \/ ~Unique(c) /\ UNCHANGED <<obs, byHand>>
    /\ EndPass(c)
    /\ UNCHANGED <<clock, calm>>

(* The tick is cancelled at its deadline, an error ends the job, or the *)
(* process dies: nothing of the pass is kept.                           *)
Abort(c) ==
    /\ ~calm /\ pc[c] # "idle"
    /\ EndPass(c)
    /\ UNCHANGED <<clock, calm, obs, byHand>>

(* A tick does not outlive its deadline; nothing bounds the command. *)
Advance ==
    /\ clock < LastHour
    /\ \A c \in Collector \ Manual : pc[c] # "idle" => clock < now[c] + Deadline
    /\ clock' = clock + 1
    /\ UNCHANGED <<obs, passVars, calm, byHand>>

(* The venue and the runners recover for good. *)
Calm ==
    /\ ~calm /\ calm' = TRUE
    /\ UNCHANGED <<clock, obs, passVars, byHand>>

(* The steps of a pass that has begun. *)
Work(c) ==
    Count(c) \/ Decide(c) \/ Fetch(c) \/ Ask(c) \/ Gathered(c) \/ Persist(c)

Next == Advance \/ Calm \/ \E c \in Collector : Begin(c) \/ Work(c) \/ Abort(c)

Spec == Init /\ [][Next]_vars

-----------------------------------------------------------------------------
(* A row once written never changes, however passes overlap (research_      *)
(* tracking.py: "written once per (entry, horizon) and never overwritten"). *)
WriteOnce == [][\A k \in Key : obs[k] # Pending => obs'[k] = obs[k]]_vars

(* No look-ahead and no late stand-in: the quote filed under a horizon was    *)
(* taken when the horizon had elapsed from the freeze, and the time it states *)
(* is no later and before the market's close.  A tick's quote is within a     *)
(* deadline of the stated time; the command's may be any time after it.       *)
QuoteInWindow ==
    \A k \in Key :
        obs[k].kind = "quote" =>
            /\ Target(k) <= obs[k].at
            /\ obs[k].at <= obs[k].taken
            /\ k \notin byHand => obs[k].taken <= obs[k].at + Deadline
            /\ obs[k].at < Close[k[1]]

(* Passes that go on beginning and are not cut short leave no pair without a   *)
(* row, also when two collectors keep running into each other's rows: the      *)
(* loser's next pass finds what is left (test_research_timing.py: "every due   *)
(* horizon has a terminal state, nothing left silently pending").              *)
PassesComing == []<><<\E c \in Collector : Begin(c)>>_vars
EveryHorizonRecorded == PassesComing => (calm ~> (Recorded = Key))

(* The inductive strengthening: a running pass began in the past, a tick's not *)
(* longer ago than its deadline, and                                           *)
PassTimely ==
    \A c \in Collector :
        pc[c] # "idle" => /\ now[c] <= clock
                          /\ c \notin Manual => clock <= now[c] + Deadline

(* what it plans to write is due at its `now`, on the right side of the close, *)
(* with quotes taken since; it plans nothing before it has decided.            *)
PlansSound ==
    \A c \in Collector :
        /\ pc[c] \in {"idle", "count", "decide"} => due[c] = {} /\ terminal[c] = {}
        /\ \A k \in due[c] : Target(k) <= now[c] /\ now[c] < Close[k[1]]
        /\ \A k \in terminal[c] : Close[k[1]] <= now[c]
        /\ \A e \in Entry : quotes[c][e] # -1 =>
              /\ pc[c] \in {"fetch", "persist"}
              /\ now[c] <= quotes[c][e] /\ quotes[c][e] <= clock

IInv == TypeOK /\ PassTimely /\ PlansSound /\ QuoteInWindow
=============================================================================
