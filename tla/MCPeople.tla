------------------------------- MODULE MCPeople ------------------------------
(***************************************************************************)
(* What users and owners meet: runs of the digest over a horizon of a few   *)
(* windows, runs of the alerts over users who confirm, change their mind    *)
(* and leave, browsers of the Lab owner with hardware keys, and owners who  *)
(* administer each other.  In MCPeople.cfg a window of the digest is as     *)
(* long as the provider remembers a key (the daily digest, the narrowest    *)
(* case), in DigestWeekly.cfg it is longer.  A behaviour moves one part,    *)
(* the others rest in their first state.                                    *)
(***************************************************************************)
EXTENDS DigestDelivery, Alerts, StepUp, Members, TLC

CONSTANT Parts \* the parts that the run explores

VARIABLE part \* the part that moves in this behaviour

PeopleSymmetry == Permutations(Tick) \cup Permutations(Browser)

-----------------------------------------------------------------------------
PartsInit ==
    /\ part \in Parts
    /\ DigestInit
    /\ AInit
    /\ SInit
    /\ MInit
    /\ part # "stepup" => enforcement = "auto"

PartsNext ==
    \/ part = "digest" /\ DigestNext /\ UNCHANGED <<part, aVars, sVars, mVars>>
    \/ part = "alerts" /\ ANext /\ UNCHANGED <<part, vars, sVars, mVars>>
    \/ part = "stepup" /\ SNext /\ UNCHANGED <<part, vars, aVars, mVars>>
    \/ part = "members" /\ MNext /\ UNCHANGED <<part, vars, aVars, sVars>>

allVars == <<part, vars, aVars, sVars, mVars>>

PartsSpec == PartsInit /\ [][PartsNext]_allVars
=============================================================================
