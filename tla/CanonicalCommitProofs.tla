------------------------ MODULE CanonicalCommitProofs ------------------------
(***************************************************************************)
(* Proofs about CanonicalCommit, for every set of processes, rooms,        *)
(* entities and claims, every record shape and every bound.                *)
(***************************************************************************)
EXTENDS CanonicalCommit, TLAPS, SequenceTheorems

-----------------------------------------------------------------------------
(* Types of the operators the actions are built from.                      *)

LEMMA RecordType ==
    ASSUME NEW r \in Record
    PROVE  /\ r.rooms \subseteq Room /\ r.eventRooms \subseteq Room
           /\ r.ok \in BOOLEAN /\ r.events \in Nat
           /\ r.entities \subseteq Entity /\ r.claims \subseteq Claim
    BY ConstantsAssumption DEF RecordShape

LEMMA PartitionsType ==
    ASSUME NEW r \in Record
    PROVE  /\ PartitionsOf(r.rooms) \subseteq Partition
           /\ PartitionsOf(r.rooms) # {}
           /\ RequiredPartitions(r) \subseteq Partition
    BY RecordType DEF PartitionsOf, RequiredPartitions, Partition

LEMMA AcquiredType ==
    ASSUME TypeOK, NEW p \in Process, NEW x \in Partition
    PROVE  Acquired(Me(p), x) \in Lease
<1>1. lease[x] \in Lease /\ now \in Nat /\ Me(p) \in Owner
    BY DEF TypeOK, Me, Owner
<1>2. lease[x].fence \in Nat /\ lease[x].fence + 1 \in Nat /\ now + Ttl \in Nat
    BY <1>1, ConstantsAssumption DEF Lease
<1>. QED
    BY <1>1, <1>2 DEF Acquired, Lease

LEMMA SeededType == Seeded \in RuntimeWorld
    BY ConstantsAssumption DEF Seeded, RuntimeWorld

LEMMA RecoveredType ==
    ASSUME TypeOK, NEW p \in Process
    PROVE  Recovered(p) \in RuntimeWorld
<1>1. Checkpoint(p) \in RuntimeWorld
    BY SeededType DEF TypeOK, Checkpoint
<1>2. Len(journal) \in Nat /\ DOMAIN journal \subseteq Nat
    BY DEF TypeOK
<1>3. Checkpoint(p).seen \cup {i \in DOMAIN journal : i > Checkpoint(p).cursor}
          \in SUBSET Nat
    BY <1>1, <1>2 DEF RuntimeWorld
<1>4. ReconciledSeq(Checkpoint(p).nextSeq) \in Nat
    BY <1>1 DEF ReconciledSeq, RuntimeWorld, TypeOK
<1>5. [e \in Entity |-> IF storeVersion[e] > 0
                        THEN storeVersion[e] ELSE Checkpoint(p).version[e]]
          \in [Entity -> Nat]
    BY <1>1 DEF RuntimeWorld, TypeOK
<1>6. Checkpoint(p).claims \cup storeClaims \in SUBSET Claim
    BY <1>1 DEF RuntimeWorld, TypeOK
<1>7. Checkpoint(p).phantom \in BOOLEAN
    BY <1>1 DEF RuntimeWorld
<1>. QED
    BY <1>2, <1>3, <1>4, <1>5, <1>6, <1>7 DEF Recovered, RuntimeWorld

LEMMA AfterApplyType ==
    ASSUME NEW w \in RuntimeWorld, NEW r \in Record
    PROVE  /\ AfterApply(w, r) \in RuntimeWorld
           /\ AfterApply(w, r).seen = w.seen
           /\ AfterApply(w, r).phantom = w.phantom
           /\ AfterApply(w, r).cursor = w.cursor
           /\ AfterApply(w, r).nextSeq = w.nextSeq + r.events
           /\ AfterApply(w, r).claims = w.claims \cup r.claims
           /\ AfterApply(w, r).version = [e \in Entity |->
                  IF e \notin r.entities THEN w.version[e]
                  ELSE IF w.version[e] = 0 THEN 2 ELSE w.version[e] + 1]
<1>1. w.nextSeq + r.events \in Nat
    BY RecordType DEF RuntimeWorld
<1>2. [e \in Entity |->
          IF e \notin r.entities THEN w.version[e]
          ELSE IF w.version[e] = 0 THEN 2 ELSE w.version[e] + 1] \in [Entity -> Nat]
    BY DEF RuntimeWorld
<1>3. w.claims \cup r.claims \in SUBSET Claim
    BY RecordType DEF RuntimeWorld
<1>. QED
    BY <1>1, <1>2, <1>3 DEF AfterApply, RuntimeWorld

LEMMA StoredType ==
    ASSUME TypeOK, NEW w \in RuntimeWorld, NEW r \in Record
    PROVE  /\ StoredVersion(w) \in [Entity -> Nat]
           /\ StoredClaims(w) \in SUBSET Claim
           /\ NewClaims(w, r) \in SUBSET Claim
           /\ LastSeq(w, r) \in Nat
<1>1. StoredVersion(w) \in [Entity -> Nat] /\ StoredClaims(w) \in SUBSET Claim
    BY DEF TypeOK, RuntimeWorld, StoredVersion, StoredClaims
<1>2. NewClaims(w, r) \in SUBSET Claim
    BY RecordType DEF NewClaims
<1>3. LastSeq(w, r) \in Nat
    BY RecordType DEF LastSeq, TypeOK, RuntimeWorld
<1>. QED
    BY <1>1, <1>2, <1>3

LEMMA LeasesAfterType ==
    ASSUME TypeOK, NEW p \in Process, NEW s \in Slot, NEW r \in Record
    PROVE  LeasesAfter(p, s, r) \in [Partition -> Lease]
<1>. SUFFICES ASSUME NEW x \in Partition
              PROVE  (IF x \in Covered(p, s) THEN [lease[x] EXCEPT !.expires = now + Ttl]
                      ELSE IF x \in RequiredPartitions(r) THEN Acquired(Me(p), x)
                      ELSE lease[x]) \in Lease
    BY DEF LeasesAfter
<1>1. lease[x] \in Lease /\ now + Ttl \in Nat
    BY ConstantsAssumption DEF TypeOK
<1>2. [lease[x] EXCEPT !.expires = now + Ttl] \in Lease
    BY <1>1 DEF Lease
<1>. QED
    BY <1>1, <1>2, AcquiredType

LEMMA NewRowType ==
    ASSUME TypeOK, NEW p \in Process, NEW s \in Slot, NEW r \in Record
    PROVE  NewRow(p, s, r) \in Row
<1>. DEFINE w == runtime[p]
<1>1. w \in RuntimeWorld /\ Me(p) \in Owner
    BY DEF TypeOK, Me, Owner
<1>2. [x \in Partition |->
          IF x \in Covered(p, s) THEN held[p][s][x]
          ELSE IF x \in RequiredPartitions(r) THEN Acquired(Me(p), x).fence
          ELSE 0] \in [Partition -> Nat]
    BY AcquiredType DEF TypeOK, Lease
<1>3. (IF r.events = 0 THEN committedSeq ELSE w.nextSeq) \in Nat
    BY <1>1 DEF TypeOK, RuntimeWorld
<1>4. LastSeq(w, r) \in Nat /\ NewClaims(w, r) \in SUBSET Claim
    BY <1>1, StoredType
<1>5. [e \in Entity |-> IF e \in r.entities THEN AfterApply(w, r).version[e] ELSE 0]
          \in [Entity -> Nat]
    <2>1. AfterApply(w, r) \in RuntimeWorld
        BY <1>1, AfterApplyType
    <2>. QED
        BY <2>1 DEF RuntimeWorld
<1>6. w.seen \in SUBSET Nat /\ w.phantom \in BOOLEAN
    BY <1>1 DEF RuntimeWorld
<1>. QED
    BY <1>1, <1>2, <1>3, <1>4, <1>5, <1>6, RecordType DEF NewRow, Row
-----------------------------------------------------------------------------
(* Type correctness.                                                       *)

LEMMA InitType == Init => TypeOK
<1>. SUFFICES ASSUME Init PROVE TypeOK
    OBVIOUS
<1>1. lease \in [Partition -> Lease]
    BY DEF Init, Lease
<1>2. journal \in Seq(Row)
    BY DEF Init
<1>3. held \in [Process -> [Slot -> [Partition -> Nat]]]
    BY DEF Init, NoLease
<1>4. runtime \in [Process -> RuntimeWorld] /\ snapshot \in [Process -> RuntimeWorld]
    BY SeededType DEF Init
<1>. QED
    BY <1>1, <1>2, <1>3, <1>4 DEF Init, TypeOK

LEMMA CommitType ==
    ASSUME TypeOK, NEW p \in Process, NEW s \in Slot, NEW r \in Record,
           Commit(p, s, r)
    PROVE  TypeOK'
<1>. DEFINE w == runtime[p]
            seq == Len(journal) + 1
<1>0. w \in RuntimeWorld /\ seq \in Nat
    BY DEF TypeOK
<1>1. w \in RuntimeWorld /\ seq \in Nat /\ AfterApply(w, r) \in RuntimeWorld
    BY <1>0, AfterApplyType
<1>2. lease' \in [Partition -> Lease]
    BY LeasesAfterType DEF Commit
<1>3. committedSeq' \in Nat
    BY <1>1, StoredType DEF Commit
<1>4. storeVersion' \in [Entity -> Nat]
    <2>1. StoredVersion(w) \in [Entity -> Nat]
        BY <1>1, StoredType
    <2>2. AfterApply(w, r).version \in [Entity -> Nat]
        BY <1>1 DEF RuntimeWorld
    <2>. QED
        BY <2>1, <2>2 DEF Commit
<1>5. storeClaims' \in SUBSET Claim
    BY <1>1, StoredType DEF Commit
<1>6. journal' \in Seq(Row)
    BY NewRowType DEF Commit, TypeOK
<1>7. [AfterApply(w, r) EXCEPT !.seen = @ \cup {seq}, !.cursor = seq] \in RuntimeWorld
    BY <1>1 DEF RuntimeWorld
<1>8. runtime' \in [Process -> RuntimeWorld] /\ applied' \in [Process -> Nat]
    BY <1>1, <1>7 DEF Commit, TypeOK
<1>9. held' \in [Process -> [Slot -> [Partition -> Nat]]]
    BY DEF Commit, TypeOK, NoLease
<1>. QED
    BY <1>2, <1>3, <1>4, <1>5, <1>6, <1>8, <1>9 DEF Commit, TypeOK

LEMMA CommitFailsType ==
    ASSUME TypeOK, NEW p \in Process, NEW s \in Slot, NEW r \in Record,
           CommitFails(p, s, r)
    PROVE  TypeOK'
<1>1. [AfterApply(runtime[p], r) EXCEPT !.phantom = TRUE] \in RuntimeWorld
    <2>1. AfterApply(runtime[p], r) \in RuntimeWorld
        BY AfterApplyType DEF TypeOK
    <2>. QED
        BY <2>1 DEF RuntimeWorld
<1>2. runtime' \in [Process -> RuntimeWorld]
    BY <1>1, RecoveredType DEF CommitFails, TypeOK
<1>3. held' \in [Process -> [Slot -> [Partition -> Nat]]]
    BY DEF CommitFails, TypeOK, NoLease
<1>. QED
    BY <1>2, <1>3 DEF CommitFails, TypeOK, store

LEMMA NextType == TypeOK /\ [Next]_vars => TypeOK'
<1>. SUFFICES ASSUME TypeOK, [Next]_vars PROVE TypeOK'
    OBVIOUS
<1>. USE DEF store, memory
<1>1. CASE Tick
    BY <1>1 DEF Tick, TypeOK
<1>2. ASSUME NEW p \in Process, NEW x \in Partition, BeginCommand(p, x)
      PROVE  TypeOK'
    <2>1. lease' \in [Partition -> Lease]
        BY <1>2, AcquiredType DEF BeginCommand, TypeOK
    <2>2. lease'[x].fence \in Nat /\ "command" \in Slot
        BY <2>1 DEF Lease, Slot
    <2>3. held' \in [Process -> [Slot -> [Partition -> Nat]]]
        BY <1>2, <2>2 DEF BeginCommand, TypeOK
    <2>. QED
        BY <1>2, <2>1, <2>3 DEF BeginCommand, TypeOK
<1>3. ASSUME NEW p \in Process, NEW r \in Record, BeginSystem(p, r)
      PROVE  TypeOK'
    <2>1. lease' \in [Partition -> Lease]
        BY <1>3, AcquiredType DEF BeginSystem, TypeOK
    <2>2. [x \in Partition |->
              IF x \in PartitionsOf(r.rooms) THEN lease'[x].fence ELSE 0]
              \in [Partition -> Nat]
        BY <2>1 DEF Lease
    <2>3. held' \in [Process -> [Slot -> [Partition -> Nat]]]
        BY <1>3, <2>2 DEF BeginSystem, TypeOK
    <2>. QED
        BY <1>3, <2>1, <2>3 DEF BeginSystem, TypeOK
<1>4. ASSUME NEW p \in Process, NEW s \in Slot, NEW r \in Record, Commit(p, s, r)
      PROVE  TypeOK'
    BY <1>4, CommitType
<1>5. ASSUME NEW p \in Process, NEW s \in Slot, NEW r \in Record, CommitFails(p, s, r)
      PROVE  TypeOK'
    BY <1>5, CommitFailsType
<1>6. ASSUME NEW p \in Process, EndCommand(p)
      PROVE  TypeOK'
    BY <1>6 DEF EndCommand, TypeOK, NoLease
<1>7. ASSUME NEW p \in Process, Sync(p)
      PROVE  TypeOK'
    BY <1>7, RecoveredType DEF Sync, TypeOK
<1>8. ASSUME NEW p \in Process, NEW parts \in SUBSET Partition, Handoff(parts, p)
      PROVE  TypeOK'
    <2>1. Me(p) \in Owner
        BY DEF TypeOK, Me, Owner
    <2>2. lease' \in [Partition -> Lease]
        BY <1>8, <2>1, ConstantsAssumption DEF Handoff, TypeOK, Lease
    <2>. QED
        BY <1>8, <2>2 DEF Handoff, TypeOK
<1>9. ASSUME NEW p \in Process, Restart(p)
      PROVE  TypeOK'
    <2>1. boot' \in [Process -> Nat] /\ serving' \in [Process -> BOOLEAN]
          /\ applied' \in [Process -> Nat]
        BY <1>9 DEF Restart, TypeOK
    <2>2. held' \in [Process -> [Slot -> [Partition -> Nat]]]
        BY <1>9 DEF Restart, TypeOK, NoLease
    <2>3. runtime' \in [Process -> RuntimeWorld]
        BY <1>9, RecoveredType DEF Restart, TypeOK
    <2>. QED
        BY <1>9, <2>1, <2>2, <2>3 DEF Restart, TypeOK
<1>10. ASSUME NEW p \in Process, BeginServing(p)
       PROVE  TypeOK'
    BY <1>10 DEF BeginServing, TypeOK
<1>11. ASSUME NEW p \in Process, PersistSnapshot(p)
       PROVE  TypeOK'
    BY <1>11 DEF PersistSnapshot, TypeOK
<1>12. CASE UNCHANGED vars
    BY <1>12 DEF vars, TypeOK
<1>. QED
    BY <1>1, <1>2, <1>3, <1>4, <1>5, <1>6, <1>7, <1>8, <1>9, <1>10, <1>11, <1>12
    DEF Next

\* Every variable of the store and of every process keeps its type.
THEOREM TypeCorrect == Spec => []TypeOK
    BY InitType, NextType, PTL DEF Spec
-----------------------------------------------------------------------------
(* Authority: fences order the commits of a partition, and one fence has   *)
(* one holder.  The two are inductive together with the bound that the     *)
(* lease row puts on every fence in memory and in the journal.             *)

AuthorityInv == LeaseRowBoundsFences /\ FencesOrderCommits /\ OneHolderPerFence

\* How a step may treat a lease row, the copies in memory and the journal.
LeaseMovesForward ==
    \A x \in Partition :
        /\ lease[x].fence <= lease'[x].fence
        /\ lease[x].fence > 0 /\ lease'[x].fence = lease[x].fence =>
               lease'[x].owner = lease[x].owner

HeldFromLease ==
    \A p \in Process, s \in Slot, x \in Partition :
        \/ held'[p][s][x] = 0
        \/ held'[p][s][x] = held[p][s][x] /\ boot'[p] = boot[p]
        \/ held'[p][s][x] = lease'[x].fence /\ lease'[x].owner = Me(p)'

JournalFromLease ==
    \/ journal' = journal
    \/ \E row \in Row :
        /\ journal' = Append(journal, row)
        /\ \A x \in Partition :
            row.fence[x] = 0 \/
                (row.fence[x] = lease'[x].fence /\ lease'[x].owner = row.owner)

LEMMA AppendRow ==
    ASSUME journal \in Seq(Row), NEW row \in Row, journal' = Append(journal, row)
    PROVE  /\ DOMAIN journal' = DOMAIN journal \cup {Len(journal) + 1}
           /\ journal'[Len(journal) + 1] = row
           /\ \A i \in DOMAIN journal :
                  /\ journal'[i] = journal[i]
                  /\ i \in Nat /\ i < Len(journal) + 1
    OBVIOUS

LEMMA AuthorityStep ==
    ASSUME TypeOK, TypeOK', AuthorityInv,
           LeaseMovesForward, HeldFromLease, JournalFromLease
    PROVE  AuthorityInv'
<1>. USE DEF AuthorityInv
<1>1. \A x \in Partition : lease[x].fence \in Nat /\ lease'[x].fence \in Nat
    BY DEF TypeOK, Lease
<1>2. \A p \in Process, s \in Slot, x \in Partition :
          held[p][s][x] \in Nat /\ held'[p][s][x] \in Nat
    BY DEF TypeOK
<1>3. \A p \in Process, s \in Slot, x \in Partition :
          /\ held'[p][s][x] <= lease'[x].fence
          /\ held'[p][s][x] > 0 /\ held'[p][s][x] = lease'[x].fence =>
                 lease'[x].owner = Me(p)'
    <2>. SUFFICES ASSUME NEW p \in Process, NEW s \in Slot, NEW x \in Partition
                  PROVE  /\ held'[p][s][x] <= lease'[x].fence
                         /\ held'[p][s][x] > 0 /\ held'[p][s][x] = lease'[x].fence =>
                                lease'[x].owner = Me(p)'
        OBVIOUS
    <2>1. CASE held'[p][s][x] = 0
        BY <1>1, <2>1
    <2>2. CASE held'[p][s][x] = held[p][s][x] /\ boot'[p] = boot[p]
        <3>1. /\ held[p][s][x] <= lease[x].fence
              /\ held[p][s][x] > 0 /\ held[p][s][x] = lease[x].fence =>
                     lease[x].owner = Me(p)
            BY DEF LeaseRowBoundsFences
        <3>2. Me(p)' = Me(p)
            BY <2>2 DEF Me
        <3>. QED
            BY <1>1, <1>2, <2>2, <3>1, <3>2 DEF LeaseMovesForward
    <2>3. CASE held'[p][s][x] = lease'[x].fence /\ lease'[x].owner = Me(p)'
        BY <1>1, <2>3
    <2>. QED
        BY <2>1, <2>2, <2>3 DEF HeldFromLease
<1>4. ASSUME NEW i \in DOMAIN journal, NEW x \in Partition
      PROVE  /\ journal[i] \in Row
             /\ journal[i].fence[x] \in Nat
             /\ journal[i].fence[x] <= lease'[x].fence
             /\ journal[i].fence[x] > 0 /\ journal[i].fence[x] = lease'[x].fence =>
                    lease'[x].owner = journal[i].owner
    <2>0. journal[i] \in Row
        BY DEF TypeOK
    <2>1. journal[i] \in Row /\ journal[i].fence[x] \in Nat
        BY <2>0 DEF Row
    <2>2. /\ journal[i].fence[x] <= lease[x].fence
          /\ journal[i].fence[x] > 0 /\ journal[i].fence[x] = lease[x].fence =>
                 lease[x].owner = journal[i].owner
        BY DEF LeaseRowBoundsFences
    <2>. QED
        BY <1>1, <2>1, <2>2 DEF LeaseMovesForward
<1>5. OneHolderPerFence'
    <2>. SUFFICES ASSUME NEW p \in Process, NEW q \in Process, NEW s \in Slot,
                         NEW t \in Slot, NEW x \in Partition,
                         held'[p][s][x] > 0, held'[p][s][x] = held'[q][t][x]
                  PROVE  p = q
        BY DEF OneHolderPerFence
    <2>0. held'[q][t][x] > 0
        OBVIOUS
    <2>1. CASE held'[p][s][x] = lease'[x].fence
        <3>1. lease'[x].owner = Me(p)' /\ lease'[x].owner = Me(q)'
            BY <1>3, <2>0, <2>1
        <3>. QED
            BY <3>1 DEF Me
    <2>2. CASE held'[p][s][x] # lease'[x].fence
        <3>1. held'[p][s][x] = held[p][s][x] /\ held'[q][t][x] = held[q][t][x]
            BY <1>2, <2>2 DEF HeldFromLease
        <3>. QED
            BY <3>1 DEF OneHolderPerFence
    <2>. QED
        BY <2>1, <2>2
<1>6. LeaseRowBoundsFences' /\ FencesOrderCommits'
    <2>1. CASE journal' = journal
        <3>1. LeaseRowBoundsFences'
            BY <1>3, <1>4, <2>1 DEF LeaseRowBoundsFences
        <3>2. FencesOrderCommits'
            BY <2>1 DEF FencesOrderCommits, Before, Both
        <3>. QED
            BY <3>1, <3>2
    <2>2. ASSUME NEW row \in Row, journal' = Append(journal, row),
                 \A x \in Partition :
                     row.fence[x] = 0 \/
                         (row.fence[x] = lease'[x].fence /\ lease'[x].owner = row.owner)
          PROVE  LeaseRowBoundsFences' /\ FencesOrderCommits'
        <3>1. /\ DOMAIN journal' = DOMAIN journal \cup {Len(journal) + 1}
              /\ journal'[Len(journal) + 1] = row
              /\ \A i \in DOMAIN journal :
                     /\ journal'[i] = journal[i]
                     /\ i \in Nat /\ i < Len(journal) + 1
              /\ Len(journal) \in Nat
            BY <2>2, AppendRow DEF TypeOK
        <3>2. \A x \in Partition : row.fence[x] \in Nat
            BY DEF Row
        <3>3. LeaseRowBoundsFences'
            <4>1. ASSUME NEW i \in DOMAIN journal', NEW x \in Partition
                  PROVE  /\ journal'[i].fence[x] <= lease'[x].fence
                         /\ journal'[i].fence[x] > 0
                            /\ journal'[i].fence[x] = lease'[x].fence =>
                                lease'[x].owner = journal'[i].owner
                <5>1. CASE i \in DOMAIN journal
                    BY <1>4, <3>1, <5>1
                <5>2. CASE i = Len(journal) + 1
                    BY <1>1, <2>2, <3>1, <3>2, <5>2
                <5>. QED
                    BY <3>1, <5>1, <5>2
            <4>. QED
                BY <1>3, <4>1 DEF LeaseRowBoundsFences
        <3>4. FencesOrderCommits'
            <4>. SUFFICES ASSUME NEW i \in DOMAIN journal', NEW j \in DOMAIN journal',
                                 NEW x \in Partition, i < j,
                                 journal'[i].fence[x] > 0, journal'[j].fence[x] > 0
                          PROVE  /\ journal'[i].fence[x] <= journal'[j].fence[x]
                                 /\ journal'[i].fence[x] = journal'[j].fence[x] =>
                                        journal'[i].owner = journal'[j].owner
                BY DEF FencesOrderCommits, Before, Both
            <4>1. i \in DOMAIN journal
                BY <3>1
            <4>2. CASE j \in DOMAIN journal
                BY <3>1, <4>1, <4>2 DEF FencesOrderCommits, Before, Both
            <4>3. CASE j = Len(journal) + 1
                <5>1. row.fence[x] = lease'[x].fence /\ lease'[x].owner = row.owner
                    BY <2>2, <3>1, <3>2, <4>3
                <5>. QED
                    BY <1>4, <3>1, <4>1, <4>3, <5>1
            <4>. QED
                BY <3>1, <4>2, <4>3
        <3>. QED
            BY <3>3, <3>4
    <2>. QED
        BY <2>1, <2>2 DEF JournalFromLease
<1>. QED
    BY <1>5, <1>6

LEMMA AcquiredMoves ==
    ASSUME TypeOK, NEW p \in Process, NEW x \in Partition, Acquirable(Me(p), x)
    PROVE  /\ Acquired(Me(p), x).owner = Me(p)
           /\ Acquired(Me(p), x).fence > 0
           /\ lease[x].fence <= Acquired(Me(p), x).fence
           /\ Acquired(Me(p), x).fence = lease[x].fence => lease[x].owner = Me(p)
<1>1. lease[x].fence \in Nat
    BY DEF TypeOK, Lease
<1>. QED
    BY <1>1 DEF Acquired, Acquirable, Live

LEMMA StutterFacts ==
    ASSUME TypeOK
    PROVE  /\ UNCHANGED lease => LeaseMovesForward
           /\ UNCHANGED <<held, boot>> => HeldFromLease
           /\ UNCHANGED journal => JournalFromLease
<1>1. \A x \in Partition : lease[x].fence \in Nat
    BY DEF TypeOK, Lease
<1>. QED
    BY <1>1 DEF LeaseMovesForward, HeldFromLease, JournalFromLease

\* Dropping some of the copies in memory disturbs nothing.
LEMMA DropFacts ==
    ASSUME TypeOK, NEW p \in Process, NEW s \in Slot,
           held' = [held EXCEPT ![p][s] = NoLease], UNCHANGED boot
    PROVE  HeldFromLease
<1>. SUFFICES ASSUME NEW q \in Process, NEW t \in Slot, NEW x \in Partition
              PROVE  held'[q][t][x] = 0 \/ held'[q][t][x] = held[q][t][x]
    BY DEF HeldFromLease
<1>1. CASE q = p /\ t = s
    BY <1>1 DEF TypeOK, NoLease
<1>2. CASE ~(q = p /\ t = s)
    BY <1>2 DEF TypeOK
<1>. QED
    BY <1>1, <1>2

LEMMA CommitAuthority ==
    ASSUME TypeOK, NEW p \in Process, NEW s \in Slot, NEW r \in Record,
           Commit(p, s, r)
    PROVE  LeaseMovesForward /\ HeldFromLease /\ JournalFromLease
<1>1. ASSUME NEW x \in Partition
      PROVE  /\ x \in Covered(p, s) =>
                    /\ lease'[x].fence = lease[x].fence
                    /\ lease'[x].owner = lease[x].owner
                    /\ lease[x].owner = Me(p)
                    /\ lease[x].fence = held[p][s][x]
             /\ x \notin Covered(p, s) /\ x \in RequiredPartitions(r) =>
                    /\ lease'[x] = Acquired(Me(p), x)
                    /\ Acquirable(Me(p), x)
             /\ x \notin Covered(p, s) /\ x \notin RequiredPartitions(r) =>
                    lease'[x] = lease[x]
    <2>1. lease'[x] = (IF x \in Covered(p, s) THEN [lease[x] EXCEPT !.expires = now + Ttl]
                       ELSE IF x \in RequiredPartitions(r) THEN Acquired(Me(p), x)
                       ELSE lease[x])
        BY DEF Commit, LeasesAfter
    <2>2. lease[x] \in Lease
        BY DEF TypeOK
    <2>3. [lease[x] EXCEPT !.expires = now + Ttl].fence = lease[x].fence
          /\ [lease[x] EXCEPT !.expires = now + Ttl].owner = lease[x].owner
        BY <2>2 DEF Lease
    <2>4. x \in Covered(p, s) => Valid(Me(p), x, held[p][s][x])
        BY DEF Commit, Authorized
    <2>5. x \notin Covered(p, s) /\ x \in RequiredPartitions(r) => Acquirable(Me(p), x)
        BY DEF Commit, Authorized, ExtraPartitions
    <2>. QED
        BY <2>1, <2>3, <2>4, <2>5 DEF Valid
<1>2. LeaseMovesForward
    <2>. SUFFICES ASSUME NEW x \in Partition
                  PROVE  /\ lease[x].fence <= lease'[x].fence
                         /\ lease[x].fence > 0 /\ lease'[x].fence = lease[x].fence =>
                                lease'[x].owner = lease[x].owner
        BY DEF LeaseMovesForward
    <2>1. lease[x].fence \in Nat
        BY DEF TypeOK, Lease
    <2>2. CASE x \in Covered(p, s)
        BY <1>1, <2>1, <2>2
    <2>3. CASE x \notin Covered(p, s) /\ x \in RequiredPartitions(r)
        <3>1. lease'[x] = Acquired(Me(p), x) /\ Acquirable(Me(p), x)
            BY <1>1, <2>3
        <3>. QED
            BY <3>1, AcquiredMoves
    <2>4. CASE x \notin Covered(p, s) /\ x \notin RequiredPartitions(r)
        BY <1>1, <2>1, <2>4
    <2>. QED
        BY <2>2, <2>3, <2>4
<1>3. HeldFromLease
    BY DropFacts DEF Commit
<1>4. JournalFromLease
    <2>1. journal' = Append(journal, NewRow(p, s, r)) /\ NewRow(p, s, r) \in Row
        BY NewRowType DEF Commit
    <2>2. ASSUME NEW x \in Partition
          PROVE  \/ NewRow(p, s, r).fence[x] = 0
                 \/ /\ NewRow(p, s, r).fence[x] = lease'[x].fence
                    /\ lease'[x].owner = NewRow(p, s, r).owner
        <3>1. /\ NewRow(p, s, r).owner = Me(p)
              /\ NewRow(p, s, r).fence[x] =
                    IF x \in Covered(p, s) THEN held[p][s][x]
                    ELSE IF x \in RequiredPartitions(r) THEN Acquired(Me(p), x).fence
                    ELSE 0
            BY DEF NewRow
        <3>2. CASE x \in Covered(p, s)
            BY <1>1, <3>1, <3>2
        <3>3. CASE x \notin Covered(p, s) /\ x \in RequiredPartitions(r)
            <4>1. lease'[x] = Acquired(Me(p), x) /\ Acquirable(Me(p), x)
                BY <1>1, <3>3
            <4>2. Acquired(Me(p), x).owner = Me(p)
                BY <4>1, AcquiredMoves
            <4>. QED
                BY <3>1, <3>3, <4>1, <4>2
        <3>4. CASE x \notin Covered(p, s) /\ x \notin RequiredPartitions(r)
            BY <3>1, <3>4
        <3>. QED
            BY <3>2, <3>3, <3>4
    <2>. QED
        BY <2>1, <2>2 DEF JournalFromLease
<1>. QED
    BY <1>2, <1>3, <1>4

LEMMA BeginCommandAuthority ==
    ASSUME TypeOK, NEW p \in Process, NEW x \in Partition, BeginCommand(p, x)
    PROVE  LeaseMovesForward /\ HeldFromLease /\ JournalFromLease
<1>1. /\ \A y \in Partition : y # x => lease'[y] = lease[y]
      /\ Live(x) => lease'[x] = lease[x] /\ lease[x].owner = Me(p)
      /\ ~Live(x) => lease'[x] = Acquired(Me(p), x)
    BY DEF BeginCommand, Acquirable, TypeOK
<1>2. lease[x].fence \in Nat /\ Acquirable(Me(p), x)
    BY DEF BeginCommand, TypeOK, Lease
<1>3. LeaseMovesForward
    <2>. SUFFICES ASSUME NEW y \in Partition
                  PROVE  /\ lease[y].fence <= lease'[y].fence
                         /\ lease[y].fence > 0 /\ lease'[y].fence = lease[y].fence =>
                                lease'[y].owner = lease[y].owner
        BY DEF LeaseMovesForward
    <2>1. lease[y].fence \in Nat
        BY DEF TypeOK, Lease
    <2>2. CASE y # x \/ Live(x)
        BY <1>1, <2>1, <2>2
    <2>3. CASE y = x /\ ~Live(x)
        BY <1>1, <1>2, <2>3, AcquiredMoves
    <2>. QED
        BY <2>2, <2>3
<1>4. lease'[x].owner = Me(p)
    BY <1>1, <1>2, AcquiredMoves
<1>5. HeldFromLease
    <2>. SUFFICES ASSUME NEW q \in Process, NEW t \in Slot, NEW y \in Partition
                  PROVE  \/ held'[q][t][y] = held[q][t][y] /\ boot'[q] = boot[q]
                         \/ held'[q][t][y] = lease'[y].fence /\ lease'[y].owner = Me(q)'
        BY DEF HeldFromLease
    <2>1. boot'[q] = boot[q] /\ Me(q)' = Me(q)
        BY DEF BeginCommand, Me
    <2>2. CASE q = p /\ t = "command" /\ y = x
        BY <1>4, <2>1, <2>2 DEF BeginCommand, TypeOK
    <2>3. CASE ~(q = p /\ t = "command" /\ y = x)
        BY <2>1, <2>3 DEF BeginCommand, TypeOK
    <2>. QED
        BY <2>2, <2>3
<1>6. JournalFromLease
    BY DEF BeginCommand, JournalFromLease
<1>. QED
    BY <1>3, <1>5, <1>6

LEMMA BeginSystemAuthority ==
    ASSUME TypeOK, NEW p \in Process, NEW r \in Record, BeginSystem(p, r)
    PROVE  LeaseMovesForward /\ HeldFromLease /\ JournalFromLease
<1>. DEFINE parts == PartitionsOf(r.rooms)
<1>1. \A x \in Partition :
          /\ x \in parts => lease'[x] = Acquired(Me(p), x) /\ Acquirable(Me(p), x)
          /\ x \notin parts => lease'[x] = lease[x]
    BY DEF BeginSystem
<1>2. LeaseMovesForward
    <2>. SUFFICES ASSUME NEW x \in Partition
                  PROVE  /\ lease[x].fence <= lease'[x].fence
                         /\ lease[x].fence > 0 /\ lease'[x].fence = lease[x].fence =>
                                lease'[x].owner = lease[x].owner
        BY DEF LeaseMovesForward
    <2>1. lease[x].fence \in Nat
        BY DEF TypeOK, Lease
    <2>2. CASE x \in parts
        <3>1. lease'[x] = Acquired(Me(p), x) /\ Acquirable(Me(p), x)
            BY <1>1, <2>2
        <3>. QED
            BY <3>1, AcquiredMoves
    <2>3. CASE x \notin parts
        BY <1>1, <2>1, <2>3
    <2>. QED
        BY <2>2, <2>3
<1>3. HeldFromLease
    <2>. SUFFICES ASSUME NEW q \in Process, NEW t \in Slot, NEW x \in Partition
                  PROVE  \/ held'[q][t][x] = 0
                         \/ held'[q][t][x] = held[q][t][x] /\ boot'[q] = boot[q]
                         \/ held'[q][t][x] = lease'[x].fence /\ lease'[x].owner = Me(q)'
        BY DEF HeldFromLease
    <2>1. boot'[q] = boot[q] /\ Me(q)' = Me(q)
        BY DEF BeginSystem, Me
    <2>2. CASE q = p /\ t = "system"
        <3>1. held'[q][t][x] = IF x \in parts THEN lease'[x].fence ELSE 0
            BY <2>2 DEF BeginSystem, TypeOK
        <3>2. CASE x \in parts
            <4>1. lease'[x] = Acquired(Me(p), x) /\ Acquirable(Me(p), x)
                BY <1>1, <3>2
            <4>2. lease'[x].owner = Me(p)
                BY <4>1, AcquiredMoves
            <4>. QED
                BY <2>1, <2>2, <3>1, <3>2, <4>2
        <3>3. CASE x \notin parts
            BY <3>1, <3>3
        <3>. QED
            BY <3>2, <3>3
    <2>3. CASE ~(q = p /\ t = "system")
        BY <2>1, <2>3 DEF BeginSystem, TypeOK
    <2>. QED
        BY <2>2, <2>3
<1>4. JournalFromLease
    BY DEF BeginSystem, JournalFromLease
<1>. QED
    BY <1>2, <1>3, <1>4

LEMMA InitAuthority == Init => AuthorityInv
<1>. SUFFICES ASSUME Init PROVE AuthorityInv
    OBVIOUS
<1>1. DOMAIN journal = {}
    BY DEF Init
<1>2. \A p \in Process, s \in Slot, x \in Partition : held[p][s][x] = 0
    BY DEF Init, NoLease
<1>3. \A x \in Partition : lease[x].fence = 0
    BY DEF Init
<1>. QED
    BY <1>1, <1>2, <1>3 DEF AuthorityInv, LeaseRowBoundsFences, FencesOrderCommits,
                            OneHolderPerFence

LEMMA NextAuthority == TypeOK /\ TypeOK' /\ AuthorityInv /\ [Next]_vars => AuthorityInv'
<1>. SUFFICES ASSUME TypeOK, TypeOK', AuthorityInv, [Next]_vars PROVE AuthorityInv'
    OBVIOUS
<1>. USE DEF store, memory
<1>1. CASE Tick
    BY <1>1, StutterFacts, AuthorityStep DEF Tick
<1>2. ASSUME NEW p \in Process, NEW x \in Partition, BeginCommand(p, x)
      PROVE  AuthorityInv'
    BY <1>2, BeginCommandAuthority, AuthorityStep
<1>3. ASSUME NEW p \in Process, NEW r \in Record, BeginSystem(p, r)
      PROVE  AuthorityInv'
    BY <1>3, BeginSystemAuthority, AuthorityStep
<1>4. ASSUME NEW p \in Process, NEW s \in Slot, NEW r \in Record, Commit(p, s, r)
      PROVE  AuthorityInv'
    BY <1>4, CommitAuthority, AuthorityStep
<1>5. ASSUME NEW p \in Process, NEW s \in Slot, NEW r \in Record, CommitFails(p, s, r)
      PROVE  AuthorityInv'
    <2>1. UNCHANGED <<lease, journal, boot>>
        BY <1>5 DEF CommitFails
    <2>2. HeldFromLease
        BY <1>5, <2>1, DropFacts, StutterFacts DEF CommitFails
    <2>. QED
        BY <2>1, <2>2, StutterFacts, AuthorityStep
<1>6. ASSUME NEW p \in Process, EndCommand(p)
      PROVE  AuthorityInv'
    <2>1. UNCHANGED <<lease, journal, boot>>
        BY <1>6 DEF EndCommand
    <2>2. HeldFromLease
        BY <1>6, <2>1, DropFacts DEF EndCommand, Slot
    <2>. QED
        BY <2>1, <2>2, StutterFacts, AuthorityStep
<1>7. ASSUME NEW p \in Process, Sync(p)
      PROVE  AuthorityInv'
    BY <1>7, StutterFacts, AuthorityStep DEF Sync
<1>8. ASSUME NEW p \in Process, NEW parts \in SUBSET Partition, Handoff(parts, p)
      PROVE  AuthorityInv'
    <2>1. LeaseMovesForward
        <3>. SUFFICES ASSUME NEW x \in Partition
                      PROVE  /\ lease[x].fence <= lease'[x].fence
                             /\ lease[x].fence > 0 /\ lease'[x].fence = lease[x].fence =>
                                    lease'[x].owner = lease[x].owner
            BY DEF LeaseMovesForward
        <3>1. lease[x].fence \in Nat
            BY DEF TypeOK, Lease
        <3>. QED
            BY <1>8, <3>1 DEF Handoff
    <2>. QED
        BY <1>8, <2>1, StutterFacts, AuthorityStep DEF Handoff
<1>9. ASSUME NEW p \in Process, Restart(p)
      PROVE  AuthorityInv'
    <2>1. UNCHANGED <<lease, journal>>
        BY <1>9 DEF Restart
    <2>2. HeldFromLease
        <3>. SUFFICES ASSUME NEW q \in Process, NEW t \in Slot, NEW x \in Partition
                      PROVE  \/ held'[q][t][x] = 0
                             \/ held'[q][t][x] = held[q][t][x] /\ boot'[q] = boot[q]
            BY DEF HeldFromLease
        <3>1. CASE q = p
            BY <1>9, <3>1 DEF Restart, TypeOK, NoLease
        <3>2. CASE q # p
            BY <1>9, <3>2 DEF Restart, TypeOK
        <3>. QED
            BY <3>1, <3>2
    <2>. QED
        BY <2>1, <2>2, StutterFacts, AuthorityStep
<1>10. ASSUME NEW p \in Process, BeginServing(p)
       PROVE  AuthorityInv'
    BY <1>10, StutterFacts, AuthorityStep DEF BeginServing
<1>11. ASSUME NEW p \in Process, PersistSnapshot(p)
       PROVE  AuthorityInv'
    BY <1>11, StutterFacts, AuthorityStep DEF PersistSnapshot
<1>12. CASE UNCHANGED vars
    BY <1>12, StutterFacts, AuthorityStep DEF vars
<1>. QED
    BY <1>1, <1>2, <1>3, <1>4, <1>5, <1>6, <1>7, <1>8, <1>9, <1>10, <1>11, <1>12
    DEF Next

LEMMA AuthorityInvariant == Spec => []AuthorityInv
<1>1. TypeOK /\ AuthorityInv /\ [Next]_vars => (TypeOK /\ AuthorityInv)'
    BY NextType, NextAuthority
<1>. QED
    BY <1>1, InitType, InitAuthority, PTL DEF Spec

\* A process whose lease lapsed, was taken over or was handed off never
\* commits behind its successor.
THEOREM FencedCommits == Spec => []FencesOrderCommits
<1>1. AuthorityInv => FencesOrderCommits
    BY DEF AuthorityInv
<1>. QED
    BY <1>1, AuthorityInvariant, PTL

\* No two processes hold the same fence of a partition.
THEOREM UniqueHolders == Spec => []OneHolderPerFence
<1>1. AuthorityInv => OneHolderPerFence
    BY DEF AuthorityInv
<1>. QED
    BY <1>1, AuthorityInvariant, PTL

\* The lease row bounds every fence in memory and in the journal.
THEOREM BoundedFences == Spec => []LeaseRowBoundsFences
<1>1. AuthorityInv => LeaseRowBoundsFences
    BY DEF AuthorityInv
<1>. QED
    BY <1>1, AuthorityInvariant, PTL
=============================================================================
