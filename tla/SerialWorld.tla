----------------------------- MODULE SerialWorld -----------------------------
(***************************************************************************)
(* What the canonical store promises, with one writer and no processes:    *)
(* one world sequence that only grows, entity versions that grow by one    *)
(* with every change and only together with the sequence, and claims that  *)
(* are minted once.  CanonicalCommit implements it.                        *)
(***************************************************************************)
EXTENDS Naturals

CONSTANTS Entity, Claim, InitialVersion, SeedSeq
VARIABLES worldSeq, version, minted

Init ==
    /\ worldSeq = SeedSeq
    /\ version = InitialVersion
    /\ minted = {}

\* An entity that is new to the world starts at version 2.
Changed(v) == IF v = 0 THEN 2 ELSE v + 1

\* One record takes effect: it changes entities only by numbered events.
Take(entities, claims) ==
    /\ worldSeq' >= worldSeq
    /\ entities # {} => worldSeq' > worldSeq
    /\ version' = [e \in Entity |-> IF e \in entities
                                    THEN Changed(version[e]) ELSE version[e]]
    /\ claims \cap minted = {}
    /\ minted' = minted \cup claims

Next == \E entities \in SUBSET Entity, claims \in SUBSET Claim : Take(entities, claims)

Spec == Init /\ [][Next]_<<worldSeq, version, minted>>
=============================================================================
