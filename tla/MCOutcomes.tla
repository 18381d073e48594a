------------------------------ MODULE MCOutcomes -----------------------------
(***************************************************************************)
(* What must be recorded in the end: a collector of forward observations in *)
(* ticks and one by hand, over two entries, of which the first closes       *)
(* between the horizons and the second outlives both; two collectors before *)
(* two closes; the messages of the Lab (messages do not influence each      *)
(* other except through what a fetch hands out at a time).  A behaviour     *)
(* moves one part, the others rest in their first state.                    *)
(***************************************************************************)
EXTENDS ForwardCollect, PreClose, LabMessages, TLC

CONSTANT Parts \* the parts that the run explores

VARIABLE part \* the part that moves in this behaviour

MCEntry == {"early", "late"}
MCLength == ("1h" :> 1) @@ ("6h" :> 3)
MCClose == ("early" :> 2) @@ ("late" :> 6)

MCWatched == {"m1", "m2"}
MCClosesAt == ("m1" :> 1) @@ ("m2" :> 2)

-----------------------------------------------------------------------------
PartsInit ==
    /\ part \in Parts
    /\ Init
    /\ PreCloseInit
    /\ MessageInit

PartsNext ==
    \/ part = "forward" /\ Next /\ UNCHANGED <<part, preCloseVars, messageVars>>
    \/ part = "preclose" /\ PreCloseNext /\ UNCHANGED <<part, vars, messageVars>>
    \/ part = "messages" /\ MessageNext /\ UNCHANGED <<part, vars, preCloseVars>>

allVars == <<part, vars, preCloseVars, messageVars>>

PartsSpec == PartsInit /\ [][PartsNext]_allVars

(* A pass that has begun goes on unless it is cut short; nothing is assumed of  *)
(* when passes begin.  A request ends, and the Mac polls, writes and reports    *)
(* over and over (strong fairness for what needs one of the model's few         *)
(* handlers).                                                                   *)
Fairness ==
    /\ WF_vars(part = "forward" /\ Advance)
    /\ \A c \in Collector : WF_vars(part = "forward" /\ Work(c))
    /\ WF_preCloseVars(part = "preclose" /\ Elapse)
    /\ \A c \in Observer : WF_preCloseVars(part = "preclose" /\ PassWork(c))
    /\ \A h \in Handler : WF_messageVars(part = "messages" /\ Handle(h))
    /\ SF_messageVars(part = "messages" /\ \E h \in Handler : StartFetch(h))
    /\ \A m \in Message :
         /\ WF_messageVars(part = "messages" /\ Age(m))
         /\ WF_messageVars(part = "messages" /\ WriteInbox(m))
         /\ \A s \in Report :
              SF_messageVars(part = "messages" /\ \E h \in Handler : StartReport(h, m, s))

PartsFairSpec == PartsSpec /\ Fairness
=============================================================================
