------------------------------- MODULE MCQueues ------------------------------
(***************************************************************************)
(* Work that is handed out once or done by one of several: invocations of   *)
(* the scheduler over the leases of two job groups, both of which can       *)
(* expire and be retaken within the horizon; the command queue of the Lab;  *)
(* and processes of two releases that migrate an empty database, one of     *)
(* them bringing a table and an index for an older one.  The parts share no *)
(* state, so a behaviour moves one of them, chosen at the start; the others *)
(* rest in their first state.                                               *)
(***************************************************************************)
EXTENDS TickLease, LabCommands, SchemaMigration, TLC

CONSTANT Parts \* the parts that the run explores

VARIABLE part \* the part that moves in this behaviour

MCSourceOf == [t \in Target |-> IF t = "queue" THEN "host" ELSE "mac"]

MCSince == [e \in Element |-> IF e = "signals" THEN 1 ELSE 2]
MCListLength == [r \in 0..Latest |-> IF r < 2 THEN 0 ELSE 2]
MCTableOf == <<"signals", "category">>

TickSymmetry == Permutations(Tick)

-----------------------------------------------------------------------------
PartsInit ==
    /\ part \in Parts
    /\ Init
    /\ LInit
    /\ SchemaInit
    /\ part # "ticks" => group = [t \in Tick |-> "scan"]

PartsNext ==
    \/ part = "ticks" /\ Next /\ UNCHANGED <<part, lVars, migVars>>
    \/ part = "commands" /\ LNext /\ UNCHANGED <<part, leaseVars, migVars>>
    \/ part = "schema" /\ SchemaNext /\ UNCHANGED <<part, leaseVars, lVars>>

allVars == <<part, leaseVars, lVars, migVars>>

PartsSpec == PartsInit /\ [][PartsNext]_allVars
=============================================================================
