--------------------------- MODULE MCCommandIntents ---------------------------
(* Instances of CommandIntents for TLC: two processes that route to each   *)
(* other.                                                                  *)
EXTENDS CommandIntents, TLC

CONSTANTS p1, p2, r1, r2, i1, i2, h1, h2, c1, c2, c3, c4

\* c1 and c2 are one envelope sent twice, c3 the same intent under another
\* one, c4 another intent of the same room, whose receipt displaces the first.
Retried       == [c \in {c1, c2, c3, c4} |-> IF c = c4 THEN i2 ELSE i1]
RetriedHashes == [c \in {c1, c2, c3, c4} |-> IF c = c3 THEN h2 ELSE h1]
OneRoom       == [i \in {i1, i2} |-> r1]

\* Two clients in two rooms, which the processes may lease crosswise.
Crossed       == [c \in {c1, c2} |-> IF c = c1 THEN i1 ELSE i2]
CrossedHashes == [c \in {c1, c2} |-> h1]
TwoRooms      == [i \in {i1, i2} |-> IF i = i1 THEN r1 ELSE r2]

\* A bound of the instance: a crash or a purge of the intent that is retried.
OneInterruption == purged[i2] = 0 /\ crashes + purged[i1] <= 1

Symmetry == Permutations({p1, p2}) \cup Permutations({c1, c2})
=============================================================================
