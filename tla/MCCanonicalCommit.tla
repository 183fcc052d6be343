-------------------------- MODULE MCCanonicalCommit --------------------------
(* Instances of CanonicalCommit for TLC: two processes, one room.          *)
EXTENDS CanonicalCommit, TLC

CONSTANTS p1, p2, r1, world, e1, e2, c1

Shape(rooms, eventRooms, ok, events, entities, claims) ==
    [rooms |-> rooms, eventRooms |-> eventRooms, ok |-> ok, events |-> events,
     entities |-> entities, claims |-> claims]

\* Talk in the room; a scheduled reward that names no room, creates an entity
\* and mints a claim, with events in the room; an accepted record without
\* numbered events (a declined offer); a record the kernel rejects.
Talk   == Shape({r1}, {r1}, TRUE, 1, {e1}, {})
Reward == Shape({}, {r1}, TRUE, 2, {e2}, {c1})
Silent == Shape({r1}, {}, TRUE, 0, {}, {})
Reject == Shape({r1}, {r1}, FALSE, 1, {}, {})

\* One shape that does all of it: it names the room, its events name none.
Quest  == Shape({r1}, {}, TRUE, 2, {e1, e2}, {c1})

OnlyQuest == {Quest}
Eventful == {Talk, Reward}
AllRecords == {Quest, Silent, Reject}
TalkAndSilent == {Talk, Silent}
TalkAndReject == {Talk, Reject}

OneSeededEntity == [e \in {e1, e2} |-> IF e = e1 THEN 1 ELSE 0]
Symmetry == Permutations({p1, p2})
=============================================================================
