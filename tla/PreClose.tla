------------------------------- MODULE PreClose -------------------------------
(***************************************************************************)
(* The freeze-to-close rows (evaluation/research_preclose.py,              *)
(* collect_preclose).  A pass selects the entries that are not finalised,  *)
(* loads their rows, asks for one quote after another, and commits once.   *)
(* The ORM writes a loaded row by its key, and of it only the columns that *)
(* the pass changed.  Passes of different job groups and of the            *)
(* research-preclose command overlap; the command's last any time, so no   *)
(* pass is taken to end within a tick's deadline.                          *)
(*                                                                         *)
(* A quote is known by its source timestamp, which price_of stamps when it *)
(* has the answer.                                                         *)
(***************************************************************************)
EXTENDS Integers

CONSTANTS Observer,     \* runners of passes, each making one after the other
          Watched,      \* the tracked entries
          ClosesAt,     \* Close[e]: the expected close of e's market
          LastMinute    \* bound on the clock

ASSUME CloseAssumption ==
    /\ ClosesAt \in [Watched -> Nat] /\ LastMinute \in Nat
    /\ \A e \in Watched : ClosesAt[e] <= LastMinute

None == -1    \* SQL NULL

VARIABLES minute,
          rows,       \* rows[e]: the row of entry e, Absent: there is none
          obsPc,      \* where each collector's pass is
          passNow,    \* the `now` the pass took when it began
          todo,       \* the candidates it has not visited
          image,      \* the rows as it loaded them
          change,     \* change[c][e]: what it will write: "none", "closed",
                      \* "unavailable", or "quote"
          stamp,      \* stamp[c][e]: the quote's source timestamp
          undisturbed \* from now on no pass is cut short

obsPassVars == <<obsPc, passNow, todo, image, change, stamp>>
preCloseVars == <<minute, rows, obsPassVars, undisturbed>>

(* first, last: first_observed_at and last_valid_at; source: the timestamp of *)
(* the last valid quote.                                                      *)
FinalRow == [closed : BOOLEAN, first : Nat \cup {None}, last : Nat \cup {None},
        source : Nat \cup {None}]

Absent == [closed |-> FALSE, first |-> None, last |-> None, source |-> -2]
Fresh == [closed |-> FALSE, first |-> None, last |-> None, source |-> None]

PreCloseTypeOK ==
    /\ minute \in Nat
    /\ rows \in [Watched -> FinalRow \cup {Absent}]
    /\ obsPc \in [Observer -> {"idle", "select", "load", "visit"}]
    /\ passNow \in [Observer -> Nat]
    /\ todo \in [Observer -> SUBSET Watched]
    /\ image \in [Observer -> [Watched -> FinalRow \cup {Absent}]]
    /\ change \in [Observer ->
                     [Watched -> {"none", "untouched", "closed", "unavailable", "quote"}]]
    /\ stamp \in [Observer -> [Watched -> Nat]]
    /\ undisturbed \in BOOLEAN

Blank(v) == [e \in Watched |-> v]

PreCloseInit ==
    /\ minute = 0
    /\ rows = Blank(Absent)
    /\ obsPc = [c \in Observer |-> "idle"]
    /\ passNow = [c \in Observer |-> 0]
    /\ todo = [c \in Observer |-> {}]
    /\ image = [c \in Observer |-> Blank(Absent)]
    /\ change = [c \in Observer |-> Blank("none")]
    /\ stamp = [c \in Observer |-> Blank(0)]
    /\ undisturbed = FALSE

FinishPass(c) ==
    /\ obsPc' = [obsPc EXCEPT ![c] = "idle"]
    /\ passNow' = [passNow EXCEPT ![c] = 0]
    /\ todo' = [todo EXCEPT ![c] = {}]
    /\ image' = [image EXCEPT ![c] = Blank(Absent)]
    /\ change' = [change EXCEPT ![c] = Blank("none")]
    /\ stamp' = [stamp EXCEPT ![c] = Blank(0)]

-----------------------------------------------------------------------------
BeginPass(c) ==
    /\ obsPc[c] = "idle"
    /\ obsPc' = [obsPc EXCEPT ![c] = "select"]
    /\ passNow' = [passNow EXCEPT ![c] = minute]
    /\ UNCHANGED <<minute, rows, todo, image, change, stamp, undisturbed>>

(* The query's outer join: no row yet, or one that is not closed.  The mutant *)
(* forgets the second half.                                                   *)
CandidateNew(e) == rows[e] = Absent

Candidate(e) == rows[e] = Absent \/ ~rows[e].closed

Select(c) ==
    /\ obsPc[c] = "select"
    /\ obsPc' = [obsPc EXCEPT ![c] = "load"]
    /\ todo' = [todo EXCEPT ![c] = {e \in Watched : Candidate(e)}]
    /\ UNCHANGED <<minute, rows, passNow, image, change, stamp, undisturbed>>

(* The candidates' rows are loaded by a query of its own; a candidate without *)
(* one gets a new row, to be inserted at the commit.                          *)
Load(c) ==
    /\ obsPc[c] = "load"
    /\ obsPc' = [obsPc EXCEPT ![c] = "visit"]
    /\ image' = [image EXCEPT ![c] =
                   [e \in Watched |-> IF e \in todo[c] THEN rows[e] ELSE Absent]]
    /\ change' = [change EXCEPT ![c] =
                    [e \in Watched |-> IF e \in todo[c] THEN "untouched" ELSE "none"]]
    /\ UNCHANGED <<minute, rows, passNow, todo, stamp, undisturbed>>

(* A quote stamped at or after the close is rejected; the mutant only looks at *)
(* the pass's own `now`.                                                       *)
AcceptableAnyStamp(e, t) == TRUE

Acceptable(e, t) == t < ClosesAt[e]

(* One entry: finalise it when the pass began at or after its close, else ask *)
(* for a quote: none, one that is rejected, or one that is kept.              *)
Visit(c) ==
    /\ obsPc[c] = "visit"
    /\ \E e \in todo[c] :
         /\ todo' = [todo EXCEPT ![c] = @ \ {e}]
         /\ \/ /\ passNow[c] >= ClosesAt[e]
               /\ change' = [change EXCEPT ![c][e] =
                               IF image[c][e].closed THEN "untouched" ELSE "closed"]
               /\ UNCHANGED stamp
            \/ /\ passNow[c] < ClosesAt[e]
               /\ \/ /\ change' = [change EXCEPT ![c][e] = "unavailable"]
                     /\ UNCHANGED stamp
                  \/ /\ ~Acceptable(e, minute)
                     /\ UNCHANGED <<change, stamp>>
                  \/ /\ Acceptable(e, minute)
                     /\ change' = [change EXCEPT ![c][e] = "quote"]
                     /\ stamp' = [stamp EXCEPT ![c][e] = minute]
    /\ UNCHANGED <<minute, rows, obsPc, passNow, image, undisturbed>>

(* What the pass makes of a row it loaded as `seen`: the whole of a new row, *)
(* the changed columns of any other.                                         *)
Changed(c, e, base, seen) ==
    CASE change[c][e] = "closed" -> [base EXCEPT !.closed = TRUE]
      [] change[c][e] = "quote" ->
           [base EXCEPT !.first = IF seen.first = None THEN passNow[c] ELSE @,
                        !.last = passNow[c], !.source = stamp[c][e]]
      [] OTHER -> base

(* The row that is committed; an update writes the changed columns only. *)
Written(c, e) ==
    IF image[c][e] = Absent THEN Changed(c, e, Fresh, Fresh)
    ELSE Changed(c, e, rows[e], image[c][e])

Touched(c) == {e \in Watched : change[c][e] # "none"}

(* The unique constraint on entry_id fails the commit of a row that a rival *)
(* has inserted meanwhile, and the whole pass with it.                      *)
Conflict(c) == \E e \in Touched(c) : image[c][e] = Absent /\ rows[e] # Absent

Commit(c) ==
    /\ obsPc[c] = "visit" /\ todo[c] = {}
    /\ \/ /\ ~Conflict(c)
          /\ rows' = [e \in Watched |-> IF e \in Touched(c) THEN Written(c, e) ELSE rows[e]]
       \/ Conflict(c) /\ UNCHANGED rows
    /\ FinishPass(c)
    /\ UNCHANGED <<minute, undisturbed>>

(* The tick is cancelled, the job fails or the process dies: everything the *)
(* pass had collected is lost.                                              *)
AbortPass(c) ==
    /\ ~undisturbed /\ obsPc[c] # "idle"
    /\ FinishPass(c)
    /\ UNCHANGED <<minute, rows, undisturbed>>

Elapse ==
    /\ minute < LastMinute
    /\ minute' = minute + 1
    /\ UNCHANGED <<rows, obsPassVars, undisturbed>>

(* The venue and the runners recover for good. *)
BecomeCalm ==
    /\ ~undisturbed /\ undisturbed' = TRUE
    /\ UNCHANGED <<minute, rows, obsPassVars>>

(* The steps of a pass that has begun. *)
PassWork(c) == Select(c) \/ Load(c) \/ Visit(c) \/ Commit(c)

PreCloseNext ==
    \/ Elapse \/ BecomeCalm
    \/ \E c \in Observer : BeginPass(c) \/ PassWork(c) \/ AbortPass(c)

PreCloseSpec == PreCloseInit /\ [][PreCloseNext]_preCloseVars

-----------------------------------------------------------------------------
(* The price kept for a market is one from before its close, although a pass *)
(* may straddle the close and commit long after it (research_preclose.py: "a *)
(* quote observed at or after close is rejected and never overwrites it").   *)
FinalIsPreClose ==
    \A e \in Watched :
        rows[e] # Absent /\ rows[e].last # None => rows[e].source < ClosesAt[e]

(* A finalised row is never reopened, not even by a pass that loaded it before *)
(* and commits after (research_preclose.py: "a closed row is terminal").       *)
ClosedStays ==
    [][\A e \in Watched : rows[e].closed => rows'[e].closed]_preCloseVars

(* Passes that go on beginning and are not cut short finalise every tracked    *)
(* market, also when overlapping passes fail on each other's new rows          *)
(* (research_preclose.py: "Once the close time passes, the row is marked       *)
(* closed").                                                                   *)
LooksComing == []<><<\E c \in Observer : BeginPass(c)>>_preCloseVars
EveryMarketFinalised ==
    LooksComing => (undisturbed ~> \A e \in Watched : rows[e].closed)

-----------------------------------------------------------------------------
(* The inductive strengthening: a quote that a pass will write was stamped     *)
(* before the close, and a row it loaded is still there, for rows are never    *)
(* deleted.                                                                    *)
PassSound ==
    \A c \in Observer :
        /\ \A e \in Watched : change[c][e] = "quote" => stamp[c][e] < ClosesAt[e]
        /\ \A e \in Watched : image[c][e] # Absent => rows[e] # Absent

PreCloseInv == PreCloseTypeOK /\ PassSound /\ FinalIsPreClose
=============================================================================
