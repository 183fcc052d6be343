------------------------------ MODULE PartsProofs ------------------------------
(***************************************************************************)
(* A behaviour of the three parts side by side is one of each of them, so  *)
(* that what is proved of DurableRecovery, RegionFailover and CombatScene  *)
(* holds of it.                                                            *)
(***************************************************************************)
EXTENDS MCParts, DurableRecoveryProofs, RegionFailoverProofs, CombatSceneProofs

LEMMA PartsStep ==
    ASSUME [PartsNext]_partsVars
    PROVE  /\ [DurableNext]_durableVars /\ [RegionNext]_regionVars /\ [CombatNext]_combatVars
           /\ part' = part
BY DEF PartsNext, partsVars

\* Each part is free of the other two: a process that checkpoints and stops,
\* regions that fail over and a scene that is fought keep no state in common.
THEOREM PartsKeepApart == PartsSpec => DurableSpec /\ RegionSpec /\ CombatSpec
<1>1. PartsInit => DurableInit /\ RegionInit /\ CombatInit
  BY DEF PartsInit
<1>2. [PartsNext]_partsVars =>
          [DurableNext]_durableVars /\ [RegionNext]_regionVars /\ [CombatNext]_combatVars
  BY PartsStep
<1> QED BY <1>1, <1>2, PTL DEF PartsSpec, DurableSpec, RegionSpec, CombatSpec

\* The state of a process that checkpoints, of regions that fail over and of a
\* scene is always of its type, for any number of records, stops, requests,
\* leases, promotions, fighters and mishaps.
THEOREM PartsTypes == PartsSpec => []PartsTypeOK
<1>1. PartsInit => part \in {"durable", "region", "combat"}
  BY DEF PartsInit
<1>2. part \in {"durable", "region", "combat"} /\ [PartsNext]_partsVars
          => (part \in {"durable", "region", "combat"})'
  BY PartsStep
<1>3. PartsSpec => [](part \in {"durable", "region", "combat"})
  BY <1>1, <1>2, PTL DEF PartsSpec
<1>4. DurableTypeOK /\ RegionTypeOK /\ CombatTypeOK /\ part \in {"durable", "region", "combat"}
          => PartsTypeOK
  BY DEF PartsTypeOK
<1> QED BY <1>3, <1>4, PartsKeepApart, DurableTypes, RegionTypes, CombatTypes, PTL
=============================================================================
