------------------------------ MODULE MCActorJobs ------------------------------
(***************************************************************************)
(* Two parts for TLC that share no state: two jobs of one actor, in one    *)
(* room or in two, over two processes; and two processes that forward      *)
(* commands to each other.  A behaviour is one of one of them; the other   *)
(* keeps its initial state.                                                *)
(***************************************************************************)
EXTENDS ActorJobs

CONSTANTS w1, w2, a1, r1, r2
CONSTANTS p1, p2, i1, i2, h1, c1, c2, Nobody, Gone, Free

VARIABLE part   \* the part whose behaviour this is

\* The variables of CommandIntents, whose effects are called applied here.
VARIABLES owner, receipts, recent, cache, lock, pc, origin, at, reply, got,
          sends, crashes, purged, applied

intentVars == <<owner, receipts, recent, cache, lock, pc, origin, at, reply, got,
                sends, crashes, purged, applied>>

\* Two clients in two rooms, which the processes may lease crosswise.
intents == INSTANCE CommandIntents
           WITH Process <- {p1, p2}, Room <- {r1, r2}, Intent <- {i1, i2},
                Hash <- {h1}, Client <- {c1, c2},
                IntentOf <- [c \in {c1, c2} |-> IF c = c1 THEN i1 ELSE i2],
                HashOf <- [c \in {c1, c2} |-> h1],
                RoomOf <- [i \in {i1, i2} |-> IF i = i1 THEN r1 ELSE r2],
                Capacity <- 1, MaxSends <- 1, MaxCrashes <- 1, MaxPurges <- 1,
                effects <- applied

PartsInit ==
    /\ part \in {"jobs", "intents"}
    /\ Init
    /\ intents!Init
    /\ part = "intents" \/ owner = [r \in {r1, r2} |-> Nobody]

PartsNext ==
    /\ part' = part
    /\ \/ part = "jobs" /\ Next /\ UNCHANGED intentVars
       \/ part = "intents" /\ intents!Next /\ UNCHANGED vars

\* The fairness of jobs, and that a request goes on.
PartsSpec ==
    /\ PartsInit /\ [][PartsNext]_<<part, vars, intentVars>>
    /\ Fairness
    /\ \A c \in {c1, c2} : WF_intentVars(part = "intents" /\ intents!GoesOn(c))

\* Every request ends: two processes that forward to each other while each
\* keeps its own lock (main.rs:20734) do not wait for ever.
EveryRequestEnds == intents!EveryRequestEnds
=============================================================================
