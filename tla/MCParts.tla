------------------------------- MODULE MCParts -------------------------------
(***************************************************************************)
(* Three parts for TLC that share no state: the checkpoints and stops of   *)
(* one process, the promotion of a recovery region, and a combat scene.    *)
(* A behaviour is one of one of them; the others keep their initial state. *)
(***************************************************************************)
EXTENDS DurableRecovery, RegionFailover, CombatScene

CONSTANTS east, west, q1, q2, h1, h2, r1

VARIABLE part   \* the part whose behaviour this is

partsVars == <<part, durableVars, regionVars, combatVars>>

PartsTypeOK ==
    /\ part \in {"durable", "region", "combat"}
    /\ DurableTypeOK /\ RegionTypeOK /\ CombatTypeOK

PartsInit ==
    /\ part \in {"durable", "region", "combat"}
    /\ DurableInit /\ RegionInit /\ CombatInit

PartsNext ==
    /\ part' = part
    /\ \/ part = "durable" /\ DurableNext /\ UNCHANGED <<regionVars, combatVars>>
       \/ part = "region" /\ RegionNext /\ UNCHANGED <<durableVars, combatVars>>
       \/ part = "combat" /\ CombatNext /\ UNCHANGED <<durableVars, regionVars>>

\* The writer thread works while there is a job, and the scheduler sweeps.
PartsSpec ==
    /\ PartsInit /\ [][PartsNext]_partsVars
    /\ WF_durableVars(part = "durable" /\ WriterStep)
    /\ WF_combatVars(part = "combat" /\ Sweep)
=============================================================================
