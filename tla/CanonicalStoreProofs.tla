------------------------- MODULE CanonicalStoreProofs -------------------------
(***************************************************************************)
(* Proofs about what the canonical store holds: claims, entity versions,   *)
(* the world sequence, and that all of it is the work of one serial world. *)
(* Then about the in-memory worlds: while every record is accepted and     *)
(* numbers an event, each world and each checkpoint is the world of a      *)
(* prefix of the journal, and only the whole journal's world commits.      *)
(* With records that number none, rows with events are still seen by their *)
(* successors as long as nobody writes checkpoints.                        *)
(***************************************************************************)
EXTENDS CanonicalCommitProofs

-----------------------------------------------------------------------------
(* Only a commit moves the store's history.                                *)

History == <<committedSeq, storeVersion, storeClaims, journal>>

LEMMA OnlyCommitMovesHistory ==
    ASSUME [Next]_vars, ~UNCHANGED History
    PROVE  \E p \in Process, s \in Slot, r \in Record : Commit(p, s, r)
BY DEF Next, vars, store, History, Tick, BeginCommand, BeginSystem, CommitFails,
       EndCommand, Sync, Handoff, Restart, BeginServing, PersistSnapshot

LEMMA CommitAppends ==
    ASSUME TypeOK, NEW p \in Process, NEW s \in Slot, NEW r \in Record,
           Commit(p, s, r)
    PROVE  /\ DOMAIN journal' = DOMAIN journal \cup {Len(journal) + 1}
           /\ journal'[Len(journal) + 1] = NewRow(p, s, r)
           /\ NewRow(p, s, r) \in Row
           /\ Len(journal) \in Nat
           /\ \A i \in DOMAIN journal :
                  journal'[i] = journal[i] /\ i \in Nat /\ i < Len(journal) + 1
<1>1. NewRow(p, s, r) \in Row
    BY NewRowType
<1>2. journal \in Seq(Row) /\ journal' = Append(journal, NewRow(p, s, r))
    BY DEF Commit, TypeOK
<1>. QED
    BY <1>1, <1>2, AppendRow

-----------------------------------------------------------------------------
(* Claims.                                                                 *)

LEMMA CommitClaims ==
    ASSUME TypeOK, ClaimsMintedOnce,
           NEW p \in Process, NEW s \in Slot, NEW r \in Record, Commit(p, s, r)
    PROVE  ClaimsMintedOnce'
<1>. DEFINE new == NewClaims(runtime[p], r)
            old == StoredClaims(runtime[p])
<1>1. new \cap old = {} /\ storeClaims' = old \cup new
    BY DEF Commit, ClaimsValid
<1>2. storeClaims \subseteq old
    BY DEF StoredClaims
<1>3. NewRow(p, s, r).claims = new
    BY DEF NewRow
<1>4. \A i \in DOMAIN journal : journal[i].claims \subseteq storeClaims
    BY DEF ClaimsMintedOnce
<1>5. ASSUME NEW i \in DOMAIN journal'
      PROVE  journal'[i].claims \subseteq storeClaims'
    BY <1>1, <1>2, <1>3, <1>4, CommitAppends
<1>6. ASSUME NEW i \in DOMAIN journal', NEW j \in DOMAIN journal', i # j
      PROVE  journal'[i].claims \cap journal'[j].claims = {}
    <2>1. CASE i \in DOMAIN journal /\ j \in DOMAIN journal
        BY <1>6, <2>1, CommitAppends DEF ClaimsMintedOnce
    <2>2. CASE i = Len(journal) + 1 \/ j = Len(journal) + 1
        BY <1>1, <1>2, <1>3, <1>4, <1>6, <2>2, CommitAppends
    <2>. QED
        BY <2>1, <2>2, CommitAppends
<1>. QED
    BY <1>5, <1>6 DEF ClaimsMintedOnce

\* A claim is minted by at most one row of the journal and is never forgotten.
THEOREM ClaimsOnce == Spec => []ClaimsMintedOnce
<1>1. Init => ClaimsMintedOnce
    BY DEF Init, ClaimsMintedOnce
<1>2. TypeOK /\ ClaimsMintedOnce /\ [Next]_vars => ClaimsMintedOnce'
    <2>. SUFFICES ASSUME TypeOK, ClaimsMintedOnce, [Next]_vars
                  PROVE  ClaimsMintedOnce'
        OBVIOUS
    <2>1. CASE UNCHANGED History
        BY <2>1 DEF History, ClaimsMintedOnce
    <2>2. CASE ~UNCHANGED History
        BY <2>2, OnlyCommitMovesHistory, CommitClaims
    <2>. QED
        BY <2>1, <2>2
<1>. QED
    BY <1>1, <1>2, TypeCorrect, PTL DEF Spec

-----------------------------------------------------------------------------
(* Entity versions.                                                        *)

LEMMA CommitRaisesVersions ==
    ASSUME TypeOK, NEW p \in Process, NEW s \in Slot, NEW r \in Record,
           Commit(p, s, r), NEW e \in Entity
    PROVE  /\ storeVersion[e] \in Nat /\ storeVersion'[e] \in Nat
           /\ storeVersion[e] <= storeVersion'[e]
           /\ NewRow(p, s, r).version[e] \in Nat
           /\ NewRow(p, s, r).version[e] > 0 =>
                  /\ NewRow(p, s, r).version[e] = storeVersion'[e]
                  /\ storeVersion[e] < storeVersion'[e]
<1>. DEFINE w == runtime[p]
<1>1. w \in RuntimeWorld
    BY DEF TypeOK
<1>2. /\ StoredVersion(w)[e] \in Nat /\ w.version[e] \in Nat
      /\ storeVersion[e] \in Nat
      /\ storeVersion[e] <= StoredVersion(w)[e]
    <2>1. w.version \in [Entity -> Nat] /\ storeVersion \in [Entity -> Nat]
        BY <1>1 DEF TypeOK, RuntimeWorld
    <2>2. w.version[e] \in Nat /\ storeVersion[e] \in Nat
        BY <2>1
    <2>3. CASE \A f \in Entity : storeVersion[f] = 0
        <3>1. StoredVersion(w) = w.version /\ storeVersion[e] = 0
            BY <2>3 DEF StoredVersion
        <3>. QED
            BY <2>2, <3>1
    <2>4. CASE ~(\A f \in Entity : storeVersion[f] = 0)
        <3>1. StoredVersion(w) = storeVersion
            BY <2>4 DEF StoredVersion
        <3>. QED
            BY <2>2, <3>1
    <2>. QED
        BY <2>3, <2>4
<1>3. /\ AfterApply(w, r).version[e] =
            IF e \notin r.entities THEN w.version[e]
            ELSE IF w.version[e] = 0 THEN 2 ELSE w.version[e] + 1
    <2>1. AfterApply(w, r).version = [f \in Entity |->
              IF f \notin r.entities THEN w.version[f]
              ELSE IF w.version[f] = 0 THEN 2 ELSE w.version[f] + 1]
        BY <1>1, AfterApplyType
    <2>. QED
        BY <2>1
<1>4. storeVersion'[e] = IF e \in r.entities THEN AfterApply(w, r).version[e]
                         ELSE StoredVersion(w)[e]
    BY DEF Commit
<1>5. NewRow(p, s, r).version[e] =
          IF e \in r.entities THEN AfterApply(w, r).version[e] ELSE 0
    BY DEF NewRow
<1>6. e \in r.entities =>
          StoredVersion(w)[e] \in (IF w.version[e] = 0 THEN {0} ELSE {0, w.version[e]})
    BY DEF Commit, VersionsValid
<1>. QED
    BY <1>2, <1>3, <1>4, <1>5, <1>6

LEMMA CommitVersions ==
    ASSUME TypeOK, VersionsOrderCommits,
           NEW p \in Process, NEW s \in Slot, NEW r \in Record, Commit(p, s, r)
    PROVE  VersionsOrderCommits'
<1>. SUFFICES ASSUME NEW e \in Entity, NEW i \in DOMAIN journal',
                     journal'[i].version[e] > 0
              PROVE  /\ journal'[i].version[e] <= storeVersion'[e]
                     /\ \A j \in DOMAIN journal' :
                            i < j /\ journal'[j].version[e] > 0 =>
                                journal'[i].version[e] < journal'[j].version[e]
    BY DEF VersionsOrderCommits, Before
<1>. DEFINE new == NewRow(p, s, r)
<1>1. /\ storeVersion[e] \in Nat /\ storeVersion'[e] \in Nat
      /\ storeVersion[e] <= storeVersion'[e]
      /\ new.version[e] \in Nat
      /\ new.version[e] > 0 =>
             new.version[e] = storeVersion'[e] /\ storeVersion[e] < storeVersion'[e]
    BY CommitRaisesVersions
<1>2. \A k \in DOMAIN journal : journal[k] \in Row
    BY DEF TypeOK
<1>3. \A k \in DOMAIN journal : journal[k].version[e] \in Nat
    BY <1>2 DEF Row
<1>4. \A k \in DOMAIN journal :
          journal[k].version[e] > 0 => journal[k].version[e] <= storeVersion[e]
    BY DEF VersionsOrderCommits
<1>5. CASE i \in DOMAIN journal
    <2>1. journal'[i] = journal[i]
        BY <1>5, CommitAppends
    <2>2. ASSUME NEW j \in DOMAIN journal', i < j, journal'[j].version[e] > 0
          PROVE  journal'[i].version[e] < journal'[j].version[e]
        <3>1. CASE j \in DOMAIN journal
            BY <1>5, <2>1, <2>2, <3>1, CommitAppends DEF VersionsOrderCommits, Before
        <3>2. CASE j = Len(journal) + 1
            BY <1>1, <1>3, <1>4, <1>5, <2>1, <2>2, <3>2, CommitAppends
        <3>. QED
            BY <3>1, <3>2, CommitAppends
    <2>. QED
        BY <1>1, <1>3, <1>4, <1>5, <2>1, <2>2
<1>6. CASE i = Len(journal) + 1
    <2>1. journal'[i] = new
        BY <1>6, CommitAppends
    <2>2. \A j \in DOMAIN journal' : ~(i < j)
        BY <1>6, CommitAppends
    <2>. QED
        BY <1>1, <2>1, <2>2
<1>. QED
    BY <1>5, <1>6, CommitAppends

\* Along the journal the versions of an entity only grow, up to the store's.
THEOREM VersionsGrow == Spec => []VersionsOrderCommits
<1>1. Init => VersionsOrderCommits
    BY DEF Init, VersionsOrderCommits
<1>2. TypeOK /\ VersionsOrderCommits /\ [Next]_vars => VersionsOrderCommits'
    <2>. SUFFICES ASSUME TypeOK, VersionsOrderCommits, [Next]_vars
                  PROVE  VersionsOrderCommits'
        OBVIOUS
    <2>1. CASE UNCHANGED History
        BY <2>1 DEF History, VersionsOrderCommits, Before
    <2>2. CASE ~UNCHANGED History
        BY <2>2, OnlyCommitMovesHistory, CommitVersions
    <2>. QED
        BY <2>1, <2>2
<1>. QED
    BY <1>1, <1>2, TypeCorrect, PTL DEF Spec
-----------------------------------------------------------------------------
(* The world sequence.  GapFreeSequence alone is not inductive: the first  *)
(* commit adopts the numbering of the world it comes from, so every world  *)
(* must be known to number its events past the seed's, and to be the       *)
(* seeded one as long as nothing was committed.                            *)

IsFresh(w) == w.nextSeq = SeedSeq + 1 /\ w.version = InitialVersion

NumberedInv ==
    /\ committedSeq > 0 => committedSeq > SeedSeq
    /\ \A p \in Process : runtime[p].nextSeq > SeedSeq /\ snapshot[p].nextSeq > SeedSeq

FreshInv ==
    /\ journal = <<>> =>
           /\ committedSeq = 0
           /\ \A e \in Entity : storeVersion[e] = 0
           /\ \A p \in Process : IsFresh(runtime[p]) /\ IsFresh(snapshot[p])
    /\ journal # <<>> => \E e \in Entity : storeVersion[e] > 0

LEMMA CheckpointNumbered ==
    ASSUME TypeOK, NumberedInv, FreshInv, NEW p \in Process
    PROVE  /\ Checkpoint(p) \in RuntimeWorld
           /\ Checkpoint(p).nextSeq > SeedSeq
           /\ journal = <<>> => IsFresh(Checkpoint(p))
<1>1. Seeded.nextSeq = SeedSeq + 1 /\ Seeded.version = InitialVersion
    BY DEF Seeded
<1>2. CASE snapshot[p].cursor > 0
    <2>1. Checkpoint(p) = snapshot[p] /\ snapshot[p] \in RuntimeWorld
        BY <1>2 DEF Checkpoint, TypeOK
    <2>. QED
        BY <2>1 DEF NumberedInv, FreshInv
<1>3. CASE ~(snapshot[p].cursor > 0)
    <2>1. Checkpoint(p) = Seeded
        BY <1>3 DEF Checkpoint
    <2>. QED
        BY <1>1, <2>1, SeededType, ConstantsAssumption DEF IsFresh
<1>. QED
    BY <1>2, <1>3

LEMMA RecoveredNumbered ==
    ASSUME TypeOK, NumberedInv, FreshInv, NEW p \in Process
    PROVE  /\ Recovered(p).nextSeq > SeedSeq
           /\ journal = <<>> => IsFresh(Recovered(p))
<1>. DEFINE base == Checkpoint(p)
<1>1. /\ Recovered(p).nextSeq = IF committedSeq > 0 THEN committedSeq + 1 ELSE base.nextSeq
      /\ Recovered(p).version = [e \in Entity |-> IF storeVersion[e] > 0
                                     THEN storeVersion[e] ELSE base.version[e]]
    BY DEF Recovered, ReconciledSeq
<1>2. /\ base \in RuntimeWorld /\ base.nextSeq > SeedSeq
      /\ journal = <<>> => base.nextSeq = SeedSeq + 1 /\ base.version = InitialVersion
    BY CheckpointNumbered DEF IsFresh
<1>3. committedSeq \in Nat /\ SeedSeq \in Nat
    BY ConstantsAssumption DEF TypeOK
<1>4. Recovered(p).nextSeq > SeedSeq
    BY <1>1, <1>2, <1>3 DEF NumberedInv
<1>5. ASSUME journal = <<>> PROVE IsFresh(Recovered(p))
    <2>1. committedSeq = 0 /\ \A e \in Entity : storeVersion[e] = 0
        BY <1>5 DEF FreshInv
    <2>2. Recovered(p).nextSeq = SeedSeq + 1
        BY <1>1, <1>2, <1>5, <2>1
    <2>3. Recovered(p).version = [e \in Entity |-> InitialVersion[e]]
        BY <1>1, <1>2, <1>5, <2>1
    <2>. QED
        BY <2>2, <2>3, ConstantsAssumption DEF IsFresh
<1>. QED
    BY <1>4, <1>5

LEMMA CommitNumbers ==
    ASSUME TypeOK, NumberedInv, FreshInv, 
           NEW p \in Process, NEW s \in Slot, NEW r \in Record, Commit(p, s, r)
    PROVE  /\ runtime[p].nextSeq \in Nat /\ committedSeq \in Nat /\ r.events \in Nat
           /\ runtime[p].nextSeq > SeedSeq
           /\ r.events = 0 => committedSeq' = committedSeq
           /\ r.events > 0 =>
                  /\ committedSeq' = runtime[p].nextSeq + r.events - 1
                  /\ \/ journal = <<>> /\ runtime[p].nextSeq = SeedSeq + 1
                     \/ runtime[p].nextSeq = committedSeq + 1
           /\ committedSeq <= committedSeq'
<1>. DEFINE w == runtime[p]
<1>1. w.nextSeq \in Nat /\ committedSeq \in Nat /\ r.events \in Nat /\ SeedSeq \in Nat
    BY RecordType, ConstantsAssumption DEF TypeOK, RuntimeWorld
<1>2. w.nextSeq > SeedSeq
    BY DEF NumberedInv
<1>3. committedSeq' = IF r.events = 0 THEN committedSeq ELSE w.nextSeq + r.events - 1
    BY DEF Commit, LastSeq
<1>4. ASSUME r.events > 0
      PROVE  \/ journal = <<>> /\ w.nextSeq = SeedSeq + 1 /\ committedSeq = 0
             \/ w.nextSeq = committedSeq + 1
    <2>1. w.nextSeq = PreviousSeq(w, r) + 1
        BY <1>4 DEF Commit, SequenceValid
    <2>2. CASE Bootstraps(w, r)
        BY <2>2 DEF Bootstraps, FreshInv, IsFresh
    <2>3. CASE ~Bootstraps(w, r)
        BY <2>1, <2>3 DEF PreviousSeq
    <2>. QED
        BY <2>2, <2>3
<1>. QED
    BY <1>1, <1>2, <1>3, <1>4

LEMMA CommitFresh ==
    ASSUME TypeOK, NumberedInv, FreshInv,
           NEW p \in Process, NEW s \in Slot, NEW r \in Record, Commit(p, s, r)
    PROVE  NumberedInv' /\ FreshInv'
<1>. DEFINE w == runtime[p]
<1>1. w \in RuntimeWorld /\ SeedSeq \in Nat /\ r.events \in Nat
    BY ConstantsAssumption, RecordType DEF TypeOK
<1>2. NumberedInv'
    <2>1. committedSeq' > 0 => committedSeq' > SeedSeq
        BY <1>1, CommitNumbers DEF NumberedInv
    <2>2. \A q \in Process : snapshot'[q].nextSeq > SeedSeq
        BY DEF Commit, NumberedInv
    <2>3. \A q \in Process : runtime'[q].nextSeq > SeedSeq
        <3>. SUFFICES ASSUME NEW q \in Process PROVE runtime'[q].nextSeq > SeedSeq
            OBVIOUS
        <3>1. AfterApply(w, r) \in RuntimeWorld /\ AfterApply(w, r).nextSeq = w.nextSeq + r.events
            BY <1>1, AfterApplyType
        <3>2. CASE q = p
            <4>1. runtime'[p] = [AfterApply(w, r) EXCEPT !.seen = @ \cup {Len(journal) + 1},
                                                         !.cursor = Len(journal) + 1]
                BY DEF Commit, TypeOK
            <4>2. runtime'[p].nextSeq = w.nextSeq + r.events
                BY <3>1, <4>1 DEF RuntimeWorld
            <4>. QED
                BY <1>1, <3>2, <4>2, CommitNumbers
        <3>3. CASE q # p
            BY <3>3 DEF Commit, TypeOK, NumberedInv
        <3>. QED
            BY <3>2, <3>3
    <2>. QED
        BY <2>1, <2>2, <2>3 DEF NumberedInv
<1>3. journal' # <<>>
    BY DEF Commit, TypeOK
<1>4. \E e \in Entity : storeVersion'[e] > 0
    <2>1. PICK e \in Entity : StoredVersion(w)[e] > 0
        <3>1. CASE \A f \in Entity : storeVersion[f] = 0
            <4>1. StoredVersion(w) = w.version /\ w.version = InitialVersion
                BY <3>1 DEF StoredVersion, FreshInv, IsFresh
            <4>. QED
                BY <4>1, ConstantsAssumption
        <3>2. CASE ~(\A f \in Entity : storeVersion[f] = 0)
            <4>1. StoredVersion(w) = storeVersion
                BY <3>2 DEF StoredVersion
            <4>. QED
                BY <3>2, <4>1 DEF TypeOK
        <3>. QED
            BY <3>1, <3>2
    <2>2. CASE e \in r.entities
        <3>1. storeVersion'[e] = AfterApply(w, r).version[e]
            BY <2>2 DEF Commit
        <3>2. AfterApply(w, r).version = [f \in Entity |->
                  IF f \notin r.entities THEN w.version[f]
                  ELSE IF w.version[f] = 0 THEN 2 ELSE w.version[f] + 1]
            BY <1>1, AfterApplyType
        <3>3. w.version[e] \in Nat
            BY <1>1 DEF RuntimeWorld
        <3>. QED
            BY <2>2, <3>1, <3>2, <3>3
    <2>3. CASE e \notin r.entities
        BY <2>1, <2>3 DEF Commit
    <2>. QED
        BY <2>2, <2>3
<1>. QED
    BY <1>2, <1>3, <1>4 DEF FreshInv
\* Every other step leaves a world alone, rebuilds it, or leaves the effects
\* of a refused record in it, and the last only with a journal that does not
\* replay.
LEMMA WorldMoves ==
    ASSUME TypeOK, [Next]_vars, UNCHANGED History, NEW q \in Process
    PROVE  /\ \/ runtime'[q] = runtime[q]
              \/ runtime'[q] = Recovered(q)
              \/ /\ ~Replayable(q)
                 /\ \E r \in Record :
                        runtime'[q] = [AfterApply(runtime[q], r) EXCEPT !.phantom = TRUE]
           /\ snapshot'[q] \in {snapshot[q], runtime[q]}
<1>1. ASSUME NEW p \in Process, NEW s \in Slot, NEW r \in Record, Commit(p, s, r)
      PROVE  FALSE
    <2>1. journal' = Append(journal, NewRow(p, s, r)) /\ journal' = journal
        BY <1>1 DEF Commit, History
    <2>2. /\ Len(journal) \in Nat /\ Len(journal) + 1 \in DOMAIN journal'
          /\ \A i \in DOMAIN journal : i < Len(journal) + 1
        BY <1>1, CommitAppends
    <2>3. DOMAIN journal' = DOMAIN journal
        BY <2>1
    <2>. QED
        BY <2>2, <2>3
<1>2. CASE UNCHANGED <<runtime, snapshot>>
    BY <1>2
<1>3. ASSUME NEW p \in Process, NEW s \in Slot, NEW r \in Record, CommitFails(p, s, r)
      PROVE  /\ \/ runtime'[q] = runtime[q]
                \/ runtime'[q] = Recovered(q)
                \/ /\ ~Replayable(q)
                   /\ runtime'[q] = [AfterApply(runtime[q], r) EXCEPT !.phantom = TRUE]
             /\ snapshot' = snapshot
    <2>1. snapshot' = snapshot
        BY <1>3 DEF CommitFails
    <2>2. CASE q # p
        BY <1>3, <2>1, <2>2 DEF CommitFails, TypeOK
    <2>3. CASE q = p /\ Replayable(p)
        BY <1>3, <2>1, <2>3 DEF CommitFails, TypeOK
    <2>4. CASE q = p /\ ~Replayable(p)
        BY <1>3, <2>1, <2>4 DEF CommitFails, TypeOK
    <2>. QED
        BY <2>2, <2>3, <2>4
<1>4. ASSUME NEW p \in Process, Sync(p) \/ Restart(p)
      PROVE  runtime'[q] \in {runtime[q], Recovered(q)} /\ snapshot' = snapshot
    BY <1>4 DEF Sync, Restart, TypeOK
<1>5. ASSUME NEW p \in Process, PersistSnapshot(p)
      PROVE  runtime' = runtime /\ snapshot'[q] \in {snapshot[q], runtime[q]}
    BY <1>5 DEF PersistSnapshot, memory, TypeOK
<1>6. \/ UNCHANGED <<runtime, snapshot>>
      \/ \E p \in Process :
            \/ \E s \in Slot, r \in Record : Commit(p, s, r) \/ CommitFails(p, s, r)
            \/ Sync(p) \/ Restart(p) \/ PersistSnapshot(p)
    BY DEF Next, vars, memory, Tick, BeginCommand, BeginSystem, EndCommand, Handoff,
           BeginServing
<1>. QED
    BY <1>1, <1>2, <1>3, <1>4, <1>5, <1>6

LEMMA StepNumbers ==
    ASSUME TypeOK, NumberedInv, FreshInv, [Next]_vars
    PROVE  NumberedInv' /\ FreshInv'
<1>1. CASE ~UNCHANGED History
    BY <1>1, OnlyCommitMovesHistory, CommitFresh
<1>2. CASE UNCHANGED History
    <2>1. /\ committedSeq' = committedSeq /\ storeVersion' = storeVersion
          /\ journal' = journal
        BY <1>2 DEF History
    <2>2. ASSUME NEW q \in Process
          PROVE  /\ runtime'[q].nextSeq > SeedSeq /\ snapshot'[q].nextSeq > SeedSeq
                 /\ journal = <<>> => IsFresh(runtime'[q]) /\ IsFresh(snapshot'[q])
        <3>1. /\ runtime[q].nextSeq > SeedSeq /\ snapshot[q].nextSeq > SeedSeq
              /\ Recovered(q).nextSeq > SeedSeq
              /\ journal = <<>> =>
                     IsFresh(runtime[q]) /\ IsFresh(snapshot[q]) /\ IsFresh(Recovered(q))
            BY RecoveredNumbered DEF NumberedInv, FreshInv
        <3>2. ASSUME NEW r \in Record,
                     runtime'[q] = [AfterApply(runtime[q], r) EXCEPT !.phantom = TRUE]
              PROVE  runtime'[q].nextSeq > SeedSeq
            <4>1. runtime[q] \in RuntimeWorld
                BY DEF TypeOK
            <4>2. /\ AfterApply(runtime[q], r) \in RuntimeWorld
                  /\ AfterApply(runtime[q], r).nextSeq = runtime[q].nextSeq + r.events
                BY <4>1, AfterApplyType
            <4>3. runtime'[q].nextSeq = runtime[q].nextSeq + r.events
                BY <3>2, <4>2 DEF RuntimeWorld
            <4>4. runtime[q].nextSeq \in Nat
                BY <4>1 DEF RuntimeWorld
            <4>. QED
                BY <3>1, <4>3, <4>4, RecordType, ConstantsAssumption
        <3>3. runtime'[q].nextSeq > SeedSeq /\ (journal = <<>> => IsFresh(runtime'[q]))
            <4>1. journal = <<>> => Replayable(q)
                BY DEF Replayable
            <4>. QED
                BY <1>2, <3>1, <3>2, <4>1, WorldMoves
        <3>4. snapshot'[q].nextSeq > SeedSeq /\ (journal = <<>> => IsFresh(snapshot'[q]))
            BY <1>2, <3>1, WorldMoves
        <3>. QED
            BY <3>3, <3>4
    <2>3. NumberedInv'
        BY <2>1, <2>2 DEF NumberedInv
    <2>4. FreshInv'
        BY <2>1, <2>2 DEF FreshInv, IsFresh
    <2>. QED
        BY <2>3, <2>4
<1>. QED
    BY <1>1, <1>2
LEMMA CommitGapFree ==
    ASSUME TypeOK, NumberedInv, FreshInv, GapFreeSequence,
           NEW p \in Process, NEW s \in Slot, NEW r \in Record, Commit(p, s, r)
    PROVE  GapFreeSequence'
<1>. DEFINE new == NewRow(p, s, r)
            k   == Len(journal) + 1
            seq == runtime[p].nextSeq
<1>1. /\ seq \in Nat /\ committedSeq \in Nat /\ r.events \in Nat /\ SeedSeq \in Nat
      /\ r.events = 0 => committedSeq' = committedSeq
      /\ r.events > 0 => /\ committedSeq' = seq + r.events - 1
                         /\ \/ journal = <<>> /\ seq = SeedSeq + 1
                            \/ seq = committedSeq + 1
      /\ committedSeq <= committedSeq'
    BY CommitNumbers, ConstantsAssumption
<1>2. /\ new.events = r.events /\ new.last = committedSeq'
      /\ new.first = IF r.events = 0 THEN committedSeq ELSE seq
    BY DEF NewRow, Commit
<1>3. /\ DOMAIN journal' = DOMAIN journal \cup {k} /\ journal'[k] = new /\ k \in Nat
      /\ \A i \in DOMAIN journal : journal'[i] = journal[i] /\ i \in Nat /\ i < k
      /\ journal = <<>> => DOMAIN journal = {}
    <2>1. Len(journal) \in Nat /\ Len(journal) + 1 \in Nat
        BY CommitAppends
    <2>2. journal = <<>> => DOMAIN journal = {}
        OBVIOUS
    <2>. QED
        BY <2>1, <2>2, CommitAppends
<1>4. \A i \in DOMAIN journal : journal[i] \in Row
    BY DEF TypeOK
<1>5. \A i \in DOMAIN journal : journal[i].last \in Nat /\ journal[i].first \in Nat
    BY <1>4 DEF Row
<1>6. /\ \A i, j \in DOMAIN journal :
             i < j /\ journal[j].events > 0 => journal[i].last < journal[j].first
      /\ \A i \in DOMAIN journal : journal[i].last <= committedSeq
      /\ \A n \in (SeedSeq + 1) .. committedSeq : \E i \in DOMAIN journal :
             journal[i].events > 0 /\ n \in journal[i].first .. journal[i].last
    BY DEF GapFreeSequence, Before
<1>7. ASSUME NEW i \in DOMAIN journal', NEW j \in DOMAIN journal', i < j,
             journal'[j].events > 0
      PROVE  journal'[i].last < journal'[j].first
    <2>1. i \in DOMAIN journal
        BY <1>3, <1>7
    <2>2. CASE j \in DOMAIN journal
        BY <1>3, <1>6, <1>7, <2>1, <2>2
    <2>3. CASE j = k
        <3>1. r.events > 0 /\ journal # <<>>
            BY <1>2, <1>3, <1>7, <2>1, <2>3
        <3>2. journal'[j].first = committedSeq + 1 /\ journal'[i].last <= committedSeq
            BY <1>1, <1>2, <1>3, <1>6, <2>1, <2>3, <3>1
        <3>. QED
            BY <1>1, <1>3, <1>5, <2>1, <3>2
    <2>. QED
        BY <1>3, <2>2, <2>3
<1>8. ASSUME NEW i \in DOMAIN journal' PROVE journal'[i].last <= committedSeq'
    <2>1. CASE i \in DOMAIN journal
        <3>1. journal'[i].last = journal[i].last /\ journal[i].last <= committedSeq
            BY <1>3, <1>6, <2>1
        <3>. QED
            BY <1>1, <1>5, <2>1, <3>1
    <2>2. CASE i = k
        BY <1>1, <1>2, <1>3, <2>2
    <2>. QED
        BY <1>3, <2>1, <2>2
<1>9. ASSUME NEW n \in (SeedSeq + 1) .. committedSeq'
      PROVE  \E i \in DOMAIN journal' :
                 journal'[i].events > 0 /\ n \in journal'[i].first .. journal'[i].last
    <2>1. CASE n <= committedSeq
        <3>1. n \in (SeedSeq + 1) .. committedSeq
            BY <1>1, <2>1
        <3>2. PICK i \in DOMAIN journal :
                  journal[i].events > 0 /\ n \in journal[i].first .. journal[i].last
            BY <1>6, <3>1
        <3>. QED
            BY <1>3, <3>2
    <2>2. CASE n > committedSeq
        <3>1. r.events > 0 /\ n >= seq /\ n <= committedSeq'
            BY <1>1, <2>2
        <3>2. journal'[k].events > 0 /\ journal'[k].first = seq
              /\ journal'[k].last = committedSeq'
            BY <1>1, <1>2, <1>3, <3>1
        <3>3. n \in journal'[k].first .. journal'[k].last
            BY <1>1, <3>1, <3>2
        <3>. QED
            BY <1>3, <3>2, <3>3
    <2>. QED
        BY <1>1, <2>1, <2>2
<1>. QED
    BY <1>7, <1>8, <1>9 DEF GapFreeSequence, Before

LEMMA NumberedInvariant == Spec => [](NumberedInv /\ FreshInv)
<1>1. Init => NumberedInv /\ FreshInv
    BY ConstantsAssumption DEF Init, NumberedInv, FreshInv, IsFresh, Seeded
<1>2. TypeOK /\ (NumberedInv /\ FreshInv) /\ [Next]_vars => (NumberedInv /\ FreshInv)'
    BY StepNumbers
<1>. QED
    BY <1>1, <1>2, TypeCorrect, PTL DEF Spec

\* The numbered events of the journal have no gap, no overlap and no
\* disorder, and end at the committed cursor.
THEOREM GapFree == Spec => []GapFreeSequence
<1>1. Init => GapFreeSequence
    BY ConstantsAssumption DEF Init, GapFreeSequence
<1>2. TypeOK /\ NumberedInv /\ FreshInv /\ GapFreeSequence /\ [Next]_vars => GapFreeSequence'
    <2>. SUFFICES ASSUME TypeOK, NumberedInv, FreshInv, GapFreeSequence, [Next]_vars
                  PROVE  GapFreeSequence'
        OBVIOUS
    <2>1. CASE UNCHANGED History
        BY <2>1 DEF History, GapFreeSequence, Before
    <2>2. CASE ~UNCHANGED History
        BY <2>2, OnlyCommitMovesHistory, CommitGapFree
    <2>. QED
        BY <2>1, <2>2
<1>. QED
    BY <1>1, <1>2, TypeCorrect, NumberedInvariant, PTL DEF Spec

-----------------------------------------------------------------------------
(* Leases change hands by handoff only.                                    *)

\* No step takes a live lease from its owner, except the operator's handoff,
\* which commits nothing and takes up no work.
THEOREM NoStolenLease == Spec => LiveLeaseIsNotStolen
<1>1. TypeOK /\ [Next]_vars =>
          [\A x \in Partition :
               Live(x) /\ lease'[x].owner # lease[x].owner =>
                   UNCHANGED <<journal, held, boot>>]_vars
    <2>. SUFFICES ASSUME TypeOK, [Next]_vars, NEW x \in Partition, Live(x),
                         lease'[x].owner # lease[x].owner
                  PROVE  UNCHANGED <<journal, held, boot>>
        BY DEF vars
    <2>1. ASSUME NEW o, Acquirable(o, x)
          PROVE  Acquired(o, x).owner = lease[x].owner
        BY <2>1 DEF Acquirable, Acquired
    <2>2. ASSUME NEW p \in Process, NEW y \in Partition, BeginCommand(p, y)
          PROVE  lease'[x].owner = lease[x].owner
        BY <2>1, <2>2 DEF BeginCommand, TypeOK
    <2>3. ASSUME NEW p \in Process, NEW r \in Record, BeginSystem(p, r)
          PROVE  lease'[x].owner = lease[x].owner
        BY <2>1, <2>3 DEF BeginSystem, TypeOK
    <2>4. ASSUME NEW p \in Process, NEW s \in Slot, NEW r \in Record, Commit(p, s, r)
          PROVE  lease'[x].owner = lease[x].owner
        <3>1. lease'[x] = IF x \in Covered(p, s) THEN [lease[x] EXCEPT !.expires = now + Ttl]
                          ELSE IF x \in RequiredPartitions(r) THEN Acquired(Me(p), x)
                          ELSE lease[x]
            BY <2>4 DEF Commit, LeasesAfter
        <3>2. CASE x \in Covered(p, s)
            <4>1. lease[x] \in Lease /\ lease'[x] = [lease[x] EXCEPT !.expires = now + Ttl]
                BY <3>1, <3>2 DEF TypeOK
            <4>. QED
                BY <4>1 DEF Lease
        <3>3. CASE x \notin Covered(p, s) /\ x \in RequiredPartitions(r)
            <4>1. Acquirable(Me(p), x)
                BY <2>4, <3>3 DEF Commit, Authorized, ExtraPartitions
            <4>. QED
                BY <2>1, <3>1, <3>3, <4>1
        <3>. QED
            BY <3>1, <3>2, <3>3
    <2>5. \/ lease' = lease
          \/ \E p \in Process :
                \/ \E y \in Partition : BeginCommand(p, y)
                \/ \E r \in Record : BeginSystem(p, r)
                \/ \E s \in Slot, r \in Record : Commit(p, s, r)
                \/ \E parts \in SUBSET Partition : Handoff(parts, p)
        BY DEF Next, vars, store, Tick, CommitFails, EndCommand, Sync, Restart,
               BeginServing, PersistSnapshot
    <2>6. ASSUME NEW p \in Process, NEW parts \in SUBSET Partition, Handoff(parts, p)
          PROVE  UNCHANGED <<journal, held, boot>>
        BY <2>6 DEF Handoff, memory
    <2>. QED
        BY <2>2, <2>3, <2>4, <2>5, <2>6
<1>. QED
    BY <1>1, TypeCorrect, PTL DEF Spec, LiveLeaseIsNotStolen

-----------------------------------------------------------------------------
(* The in-memory worlds, while every record numbers an event.              *)

EachRecordNumbers == \A r \in Record : r.ok /\ r.events > 0

-----------------------------------------------------------------------------
(* The inductive invariant.  NoLostUpdate looks at the worlds only through *)
(* the rows they have written; that the sequence check tells the prefixes  *)
(* apart needs the last number of every row.                               *)

RowsInv ==
    /\ \A j \in DOMAIN journal :
           /\ journal[j].ok
           /\ journal[j].last > SeedSeq
           /\ journal[j].base = {i \in DOMAIN journal : i < j}
           /\ ~journal[j].phantom
    /\ \A i, j \in DOMAIN journal : i < j => journal[i].last < journal[j].last
    /\ committedSeq = IF journal = <<>> THEN 0 ELSE journal[Len(journal)].last

\* The world of the first c rows.
PrefixWorld(w) ==
    /\ ~w.phantom
    /\ w.cursor \in 0 .. Len(journal)
    /\ w.seen = 1 .. w.cursor
    /\ w.nextSeq = IF w.cursor = 0 THEN SeedSeq + 1 ELSE journal[w.cursor].last + 1

WorldInv ==
    /\ RowsInv
    /\ \A p \in Process : PrefixWorld(runtime[p]) /\ PrefixWorld(snapshot[p])

LEMMA JournalFacts ==
    ASSUME TypeOK
    PROVE  /\ Len(journal) \in Nat /\ DOMAIN journal = 1 .. Len(journal)
           /\ journal = <<>> <=> Len(journal) = 0
           /\ \A i \in DOMAIN journal : journal[i].last \in Nat
           /\ committedSeq \in Nat /\ SeedSeq \in Nat
<1>1. journal \in Seq(Row)
    BY DEF TypeOK
<1>2. \A i \in DOMAIN journal : journal[i] \in Row
    BY <1>1
<1>3. \A i \in DOMAIN journal : journal[i].last \in Nat
    BY <1>2 DEF Row
<1>4. /\ Len(journal) \in Nat /\ DOMAIN journal = 1 .. Len(journal)
      /\ journal = <<>> <=> Len(journal) = 0
    BY <1>1
<1>. QED
    BY <1>3, <1>4, ConstantsAssumption DEF TypeOK

\* What a rebuild gives is the world of the whole journal.
LEMMA RecoveredIsWhole ==
    ASSUME TypeOK, WorldInv, NEW p \in Process
    PROVE  /\ PrefixWorld(Recovered(p)) /\ Recovered(p).seen = DOMAIN journal
           /\ PrefixWorld(Checkpoint(p))
           /\ Replayable(p)
<1>. DEFINE base == Checkpoint(p)
            n    == Len(journal)
<1>1. /\ n \in Nat /\ DOMAIN journal = 1 .. n /\ (journal = <<>> <=> n = 0)
      /\ \A i \in DOMAIN journal : journal[i].last \in Nat
      /\ SeedSeq \in Nat
    BY JournalFacts
<1>2. PrefixWorld(base)
    <2>1. /\ ~Seeded.phantom /\ Seeded.cursor = 0 /\ Seeded.seen = {}
          /\ Seeded.nextSeq = SeedSeq + 1
        BY DEF Seeded
    <2>2. {} = 1 .. 0
        OBVIOUS
    <2>3. PrefixWorld(Seeded)
        BY <1>1, <2>1, <2>2 DEF PrefixWorld
    <2>. QED
        BY <2>3 DEF Checkpoint, WorldInv
<1>3. /\ Recovered(p).seen = base.seen \cup {i \in DOMAIN journal : i > base.cursor}
      /\ Recovered(p).phantom = base.phantom
      /\ Recovered(p).cursor = n
      /\ Recovered(p).nextSeq = ReconciledSeq(base.nextSeq)
    BY DEF Recovered
<1>4. Recovered(p).seen = 1 .. n
    BY <1>1, <1>2, <1>3 DEF PrefixWorld
<1>5. Recovered(p).nextSeq = IF n = 0 THEN SeedSeq + 1 ELSE journal[n].last + 1
    <2>1. CASE n = 0
        <3>1. committedSeq = 0 /\ base.cursor = 0
            BY <1>1, <1>2, <2>1 DEF WorldInv, RowsInv, PrefixWorld
        <3>. QED
            BY <1>2, <1>3, <2>1, <3>1 DEF ReconciledSeq, PrefixWorld
    <2>2. CASE n # 0
        <3>1. n \in DOMAIN journal /\ committedSeq = journal[n].last /\ journal[n].last > SeedSeq
            BY <1>1, <2>2 DEF WorldInv, RowsInv
        <3>2. committedSeq > 0
            BY <1>1, <3>1
        <3>. QED
            BY <1>3, <2>2, <3>1, <3>2 DEF ReconciledSeq
    <2>. QED
        BY <2>1, <2>2
<1>6. Replayable(p)
    BY DEF Replayable, WorldInv, RowsInv
<1>. QED
    BY <1>1, <1>2, <1>3, <1>4, <1>5, <1>6 DEF PrefixWorld

\* The sequence check tells the prefixes apart: the world that continues the
\* committed cursor is that of the last row.
LEMMA CurrentIsWhole ==
    ASSUME TypeOK, WorldInv, NEW w, PrefixWorld(w),
           journal = <<>> \/ w.nextSeq = committedSeq + 1
    PROVE  w.cursor = Len(journal) /\ w.seen = DOMAIN journal
<1>. DEFINE n == Len(journal)
<1>1. /\ n \in Nat /\ DOMAIN journal = 1 .. n /\ (journal = <<>> <=> n = 0)
      /\ \A i \in DOMAIN journal : journal[i].last \in Nat
      /\ SeedSeq \in Nat
    BY JournalFacts
<1>2. w.cursor \in 0 .. n /\ w.seen = 1 .. w.cursor
    BY DEF PrefixWorld
<1>3. ASSUME w.cursor # n PROVE FALSE
    <2>1. n > 0 /\ n \in DOMAIN journal /\ w.cursor < n
        BY <1>1, <1>2, <1>3
    <2>2. committedSeq = journal[n].last /\ w.nextSeq = journal[n].last + 1
        BY <1>1, <2>1 DEF WorldInv, RowsInv
    <2>3. CASE w.cursor = 0
        BY <1>1, <2>1, <2>2, <2>3 DEF WorldInv, RowsInv, PrefixWorld
    <2>4. CASE w.cursor # 0
        <3>1. w.cursor \in DOMAIN journal /\ journal[w.cursor].last < journal[n].last
            BY <1>1, <1>2, <2>1, <2>4 DEF WorldInv, RowsInv
        <3>2. w.nextSeq = journal[w.cursor].last + 1
            BY <2>4 DEF PrefixWorld
        <3>. QED
            BY <1>1, <2>1, <2>2, <3>1, <3>2
    <2>. QED
        BY <2>3, <2>4
<1>. QED
    BY <1>1, <1>2, <1>3

-----------------------------------------------------------------------------
(* A commit.                                                               *)

LEMMA CommitKeepsWorlds ==
    ASSUME EachRecordNumbers, TypeOK, NumberedInv, FreshInv, WorldInv,
           NEW p \in Process, NEW s \in Slot, NEW r \in Record, Commit(p, s, r)
    PROVE  WorldInv'
<1>. DEFINE w == runtime[p]
            n == Len(journal)
            k == n + 1
            new == NewRow(p, s, r)
<1>1. /\ n \in Nat /\ DOMAIN journal = 1 .. n /\ (journal = <<>> <=> n = 0)
      /\ \A i \in DOMAIN journal : journal[i].last \in Nat
      /\ SeedSeq \in Nat /\ committedSeq \in Nat
    BY JournalFacts
<1>2. r.ok /\ r.events > 0 /\ r.events \in Nat
    BY RecordType DEF EachRecordNumbers
<1>3. /\ w.nextSeq \in Nat /\ w.nextSeq > SeedSeq
      /\ committedSeq' = w.nextSeq + r.events - 1
      /\ journal = <<>> \/ w.nextSeq = committedSeq + 1
    BY <1>2, CommitNumbers
<1>4. w.cursor = n /\ w.seen = DOMAIN journal /\ ~w.phantom
    BY <1>3, CurrentIsWhole DEF WorldInv, PrefixWorld
<1>5. /\ DOMAIN journal' = DOMAIN journal \cup {k} /\ journal'[k] = new
      /\ \A i \in DOMAIN journal : journal'[i] = journal[i] /\ i < k
    BY CommitAppends
<1>6. /\ new.ok /\ new.last = committedSeq' /\ new.base = w.seen /\ ~new.phantom
    BY <1>2, <1>4 DEF NewRow, Commit
<1>7. Len(journal') = k /\ journal' # <<>>
    BY DEF Commit, TypeOK
<1>8. /\ committedSeq' > SeedSeq
      /\ \A i \in DOMAIN journal : journal[i].last < committedSeq'
    <2>1. committedSeq' > SeedSeq /\ committedSeq' \in Nat
        BY <1>1, <1>2, <1>3
    <2>2. ASSUME NEW i \in DOMAIN journal PROVE journal[i].last < committedSeq'
        <3>1. n \in DOMAIN journal /\ committedSeq = journal[n].last
            BY <1>1 DEF WorldInv, RowsInv
        <3>2. journal[i].last <= journal[n].last
            BY <1>1, <3>1 DEF WorldInv, RowsInv
        <3>3. committedSeq' > committedSeq
            BY <1>1, <1>2, <1>3
        <3>. QED
            BY <1>1, <2>1, <3>1, <3>2, <3>3
    <2>. QED
        BY <2>1, <2>2
<1>9. RowsInv'
    <2>1. ASSUME NEW j \in DOMAIN journal'
          PROVE  /\ journal'[j].ok
                 /\ journal'[j].last > SeedSeq
                 /\ journal'[j].base = {i \in DOMAIN journal' : i < j}
                 /\ ~journal'[j].phantom
        <3>1. CASE j \in DOMAIN journal
            <4>1. {i \in DOMAIN journal' : i < j} = {i \in DOMAIN journal : i < j}
                BY <1>1, <1>5, <3>1
            <4>. QED
                BY <1>5, <3>1, <4>1 DEF WorldInv, RowsInv
        <3>2. CASE j = k
            <4>1. {i \in DOMAIN journal' : i < j} = DOMAIN journal
                BY <1>1, <1>5, <3>2
            <4>. QED
                BY <1>4, <1>5, <1>6, <1>8, <3>2, <4>1
        <3>. QED
            BY <1>5, <3>1, <3>2
    <2>2. ASSUME NEW i \in DOMAIN journal', NEW j \in DOMAIN journal', i < j
          PROVE  journal'[i].last < journal'[j].last
        <3>1. i \in DOMAIN journal
            BY <1>1, <1>5, <2>2
        <3>2. CASE j \in DOMAIN journal
            BY <1>5, <2>2, <3>1, <3>2 DEF WorldInv, RowsInv
        <3>3. CASE j = k
            BY <1>5, <1>6, <1>8, <3>1, <3>3
        <3>. QED
            BY <1>5, <3>2, <3>3
    <2>3. committedSeq' = IF journal' = <<>> THEN 0 ELSE journal'[Len(journal')].last
        BY <1>5, <1>6, <1>7
    <2>. QED
        BY <2>1, <2>2, <2>3 DEF RowsInv
<1>10. ASSUME NEW v, PrefixWorld(v)
       PROVE  /\ ~v.phantom
              /\ v.cursor \in 0 .. Len(journal')
              /\ v.seen = 1 .. v.cursor
              /\ v.nextSeq = IF v.cursor = 0 THEN SeedSeq + 1 ELSE journal'[v.cursor].last + 1
    <2>1. v.cursor \in 0 .. n /\ (v.cursor # 0 => v.cursor \in DOMAIN journal)
        BY <1>1, <1>10 DEF PrefixWorld
    <2>. QED
        BY <1>1, <1>5, <1>7, <1>10, <2>1 DEF PrefixWorld
<1>11. /\ ~runtime'[p].phantom
       /\ runtime'[p].cursor = k
       /\ runtime'[p].seen = DOMAIN journal \cup {k}
       /\ runtime'[p].nextSeq = w.nextSeq + r.events
    <2>1. w \in RuntimeWorld
        BY DEF TypeOK
    <2>2. /\ AfterApply(w, r).nextSeq = w.nextSeq + r.events
          /\ AfterApply(w, r) \in RuntimeWorld
        BY <2>1, AfterApplyType
    <2>3. AfterApply(w, r).seen = w.seen /\ AfterApply(w, r).phantom = w.phantom
        BY <2>1 DEF AfterApply, RuntimeWorld
    <2>4. runtime'[p] = [AfterApply(w, r) EXCEPT !.seen = @ \cup {k}, !.cursor = k]
        BY DEF Commit, TypeOK
    <2>. QED
        BY <1>4, <2>2, <2>3, <2>4 DEF RuntimeWorld
<1>12. PrefixWorld(runtime[p])'
    <2>1. runtime'[p].seen = 1 .. k /\ k # 0 /\ k \in 0 .. Len(journal')
        BY <1>1, <1>7, <1>11
    <2>2. runtime'[p].nextSeq = journal'[k].last + 1
        BY <1>1, <1>2, <1>3, <1>5, <1>6, <1>11
    <2>. QED
        BY <1>11, <2>1, <2>2 DEF PrefixWorld
<1>13. ASSUME NEW q \in Process PROVE PrefixWorld(runtime[q])' /\ PrefixWorld(snapshot[q])'
    <2>1. snapshot'[q] = snapshot[q] /\ (q # p => runtime'[q] = runtime[q])
        BY DEF Commit, TypeOK
    <2>2. PrefixWorld(snapshot[q])'
        BY <1>10, <2>1 DEF WorldInv, PrefixWorld
    <2>3. CASE q # p
        BY <1>10, <2>1, <2>2, <2>3 DEF WorldInv, PrefixWorld
    <2>. QED
        BY <1>12, <2>2, <2>3
<1>. QED
    BY <1>9, <1>13 DEF WorldInv

LEMMA StepKeepsWorlds ==
    ASSUME EachRecordNumbers, TypeOK, NumberedInv, FreshInv, WorldInv, [Next]_vars
    PROVE  WorldInv'
<1>1. CASE ~UNCHANGED History
    BY <1>1, OnlyCommitMovesHistory, CommitKeepsWorlds
<1>2. CASE UNCHANGED History
    <2>1. journal' = journal /\ committedSeq' = committedSeq
        BY <1>2 DEF History
    <2>2. RowsInv'
        BY <2>1 DEF WorldInv, RowsInv
    <2>3. ASSUME NEW q \in Process
          PROVE  PrefixWorld(runtime'[q]) /\ PrefixWorld(snapshot'[q])
        BY <1>2, WorldMoves, RecoveredIsWhole DEF WorldInv
    <2>4. ASSUME NEW q \in Process
          PROVE  PrefixWorld(runtime[q])' /\ PrefixWorld(snapshot[q])'
        BY <2>1, <2>3 DEF PrefixWorld
    <2>. QED
        BY <2>2, <2>4 DEF WorldInv
<1>. QED
    BY <1>1, <1>2

LEMMA WorldInvariant ==
    ASSUME EachRecordNumbers
    PROVE  Spec => []WorldInv
<1>1. Init => WorldInv
    <2>. SUFFICES ASSUME Init PROVE WorldInv
        OBVIOUS
    <2>1. RowsInv
        BY DEF Init, RowsInv
    <2>2. /\ ~Seeded.phantom /\ Seeded.cursor = 0 /\ Seeded.seen = {}
          /\ Seeded.nextSeq = SeedSeq + 1
        BY DEF Seeded
    <2>3. {} = 1 .. 0 /\ Len(journal) = 0
        BY DEF Init
    <2>4. PrefixWorld(Seeded)
        BY <2>2, <2>3 DEF PrefixWorld
    <2>. QED
        BY <2>1, <2>4 DEF Init, WorldInv
<1>2. TypeOK /\ (NumberedInv /\ FreshInv) /\ WorldInv /\ [Next]_vars => WorldInv'
    BY StepKeepsWorlds
<1>. QED
    BY <1>1, <1>2, TypeCorrect, NumberedInvariant, PTL DEF Spec

-----------------------------------------------------------------------------
(* The theorems.                                                           *)

\* Every row of the journal was decided in a world that held the effects of
\* all earlier rows and of nothing else.
THEOREM NoUpdateLost ==
    ASSUME EachRecordNumbers
    PROVE  Spec => []NoLostUpdate
<1>1. WorldInv => NoLostUpdate
    BY DEF WorldInv, RowsInv, NoLostUpdate
<1>. QED
    BY <1>1, WorldInvariant, PTL

\* A world whose next number continues the committed cursor holds every row.
THEOREM CurrentWorldsCommit ==
    ASSUME EachRecordNumbers
    PROVE  Spec => []OnlyCurrentWorldsCommit
<1>1. TypeOK /\ WorldInv => OnlyCurrentWorldsCommit
    BY CurrentIsWhole DEF WorldInv, OnlyCurrentWorldsCommit
<1>. QED
    BY <1>1, TypeCorrect, WorldInvariant, PTL

\* A checkpoint holds the rows up to its cursor, and a rebuild from it holds
\* the whole journal.
THEOREM CheckpointsArePrefixes ==
    ASSUME EachRecordNumbers
    PROVE  Spec => []CheckpointIsPrefix
<1>1. TypeOK /\ WorldInv => CheckpointIsPrefix
    BY RecoveredIsWhole DEF PrefixWorld, CheckpointIsPrefix
<1>. QED
    BY <1>1, TypeCorrect, WorldInvariant, PTL

-----------------------------------------------------------------------------
(* Records without events.  Without checkpoints a rebuild always starts    *)
(* from the seed and replays every row; a world that has not been rebuilt  *)
(* since a foreign row with events proposes a number that is taken.        *)

EachRecordIsAccepted == \A r \in Record : r.ok
Numbered == {i \in DOMAIN journal : journal[i].events > 0}

\* The cursor the next row with events continues.
Continued == IF committedSeq = 0 THEN SeedSeq ELSE committedSeq

KnowsItsPast(w) ==
    /\ w.nextSeq <= Continued + 1
    /\ w.nextSeq = Continued + 1 => Numbered \subseteq w.seen

SeenInv ==
    /\ NumberedRowsAreSeen
    /\ \A i \in DOMAIN journal : journal[i].ok
    /\ committedSeq = 0 => Numbered = {}
    /\ \A p \in Process : snapshot[p] = Seeded /\ KnowsItsPast(runtime[p])

LEMMA RecoveredKnows ==
    ASSUME TypeOK, NumberedInv, SeenInv, NEW p \in Process
    PROVE  KnowsItsPast(Recovered(p)) /\ Replayable(p)
<1>1. Checkpoint(p) = Seeded /\ Seeded.seen = {} /\ Seeded.cursor = 0
      /\ Seeded.nextSeq = SeedSeq + 1
    BY DEF SeenInv, Checkpoint, Seeded
<1>2. DOMAIN journal \subseteq {i \in Nat : i > 0} /\ committedSeq \in Nat /\ SeedSeq \in Nat
    BY JournalFacts
<1>3. Recovered(p).seen = {} \cup {i \in DOMAIN journal : i > 0}
    BY <1>1 DEF Recovered
<1>4. Recovered(p).nextSeq = Continued + 1
    BY <1>1, <1>2 DEF Recovered, ReconciledSeq, Continued
<1>5. Numbered \subseteq Recovered(p).seen
    BY <1>2, <1>3 DEF Numbered
<1>6. Replayable(p)
    BY DEF SeenInv, Replayable
<1>. QED
    BY <1>2, <1>4, <1>5, <1>6 DEF KnowsItsPast, Continued

LEMMA CommitKeepsSeen ==
    ASSUME EachRecordIsAccepted, TypeOK, NumberedInv, FreshInv, SeenInv,
           NEW p \in Process, NEW s \in Slot, NEW r \in Record, Commit(p, s, r)
    PROVE  SeenInv'
<1>. DEFINE w == runtime[p]
            k == Len(journal) + 1
            new == NewRow(p, s, r)
<1>1. /\ k \in Nat /\ committedSeq \in Nat /\ SeedSeq \in Nat /\ r.events \in Nat
      /\ committedSeq > 0 => committedSeq > SeedSeq
      /\ w.nextSeq \in Nat /\ w.nextSeq > SeedSeq
      /\ \A q \in Process : runtime[q].nextSeq \in Nat
      /\ DOMAIN journal \subseteq Nat
    <2>1. \A q \in Process : runtime[q].nextSeq \in Nat
        BY DEF TypeOK, RuntimeWorld
    <2>2. r.events \in Nat /\ w.nextSeq > SeedSeq
        BY CommitNumbers
    <2>. QED
        BY <2>1, <2>2, JournalFacts DEF NumberedInv
<1>2. /\ DOMAIN journal' = DOMAIN journal \cup {k} /\ journal'[k] = new
      /\ \A i \in DOMAIN journal : journal'[i] = journal[i] /\ i < k
    BY CommitAppends
<1>3. new.ok /\ new.events = r.events /\ new.base = w.seen
    BY DEF NewRow, EachRecordIsAccepted
<1>4. /\ r.events = 0 => committedSeq' = committedSeq
      /\ r.events > 0 => /\ committedSeq' = w.nextSeq + r.events - 1
                         /\ w.nextSeq = Continued + 1
    <2>1. journal = <<>> => committedSeq = 0
        BY DEF FreshInv
    <2>2. w.nextSeq = committedSeq + 1 => w.nextSeq = Continued + 1
        BY <1>1 DEF Continued
    <2>. QED
        BY <2>1, <2>2, CommitNumbers DEF Continued
<1>5. r.events > 0 => Numbered \subseteq w.seen
    BY <1>4 DEF SeenInv, KnowsItsPast
<1>6. Numbered' = IF r.events > 0 THEN Numbered \cup {k} ELSE Numbered
    <2>1. \A i \in DOMAIN journal : i \in Numbered' <=> i \in Numbered
        BY <1>2 DEF Numbered
    <2>2. k \in Numbered' <=> r.events > 0
        BY <1>2, <1>3 DEF Numbered
    <2>3. k \notin DOMAIN journal
        BY <1>1, <1>2
    <2>. QED
        BY <1>2, <2>1, <2>2, <2>3 DEF Numbered
<1>7. /\ committedSeq' \in Nat /\ (committedSeq' = 0 => Numbered' = {})
      /\ r.events = 0 => Continued' = Continued
      /\ r.events > 0 => Continued' = w.nextSeq + r.events - 1 /\ Continued' > Continued
    <2>1. committedSeq = 0 => Numbered = {}
        BY DEF SeenInv
    <2>2. CASE r.events = 0
        <3>1. committedSeq' = committedSeq /\ ~(r.events > 0)
            BY <1>4, <2>2
        <3>2. Numbered' = Numbered
            BY <1>6, <3>1, Zenon
        <3>3. Continued' = Continued
            BY <3>1 DEF Continued
        <3>. QED
            BY <1>1, <2>1, <3>1, <3>2, <3>3
    <2>3. CASE r.events > 0
        <3>1. /\ committedSeq' \in Nat /\ committedSeq' > 0
              /\ committedSeq' = w.nextSeq + r.events - 1
            BY <1>1, <1>4, <2>3
        <3>2. Continued' = committedSeq'
            BY <3>1 DEF Continued
        <3>3. w.nextSeq = Continued + 1 /\ Continued \in Nat
            BY <1>1, <1>4, <2>3 DEF Continued
        <3>4. committedSeq' > Continued
            BY <1>1, <2>3, <3>1, <3>3
        <3>. QED
            BY <2>3, <3>1, <3>2, <3>4
    <2>. QED
        BY <1>1, <2>2, <2>3
<1>8. NumberedRowsAreSeen'
    <2>1. ASSUME NEW i \in DOMAIN journal', NEW j \in DOMAIN journal', i < j,
                 journal'[i].events > 0, journal'[j].events > 0
          PROVE  i \in journal'[j].base
        <3>1. i \in DOMAIN journal
            BY <1>1, <1>2, <2>1
        <3>2. CASE j = k
            BY <1>2, <1>3, <1>5, <2>1, <3>1, <3>2 DEF Numbered
        <3>3. CASE j # k
            BY <1>2, <2>1, <3>1, <3>3 DEF SeenInv, NumberedRowsAreSeen, Before
        <3>. QED
            BY <3>2, <3>3
    <2>. QED
        BY <2>1 DEF NumberedRowsAreSeen, Before
<1>9. /\ runtime'[p].seen = w.seen \cup {k}
      /\ runtime'[p].nextSeq = w.nextSeq + r.events
    <2>1. w \in RuntimeWorld
        BY DEF TypeOK
    <2>2. /\ AfterApply(w, r).nextSeq = w.nextSeq + r.events
          /\ AfterApply(w, r) \in RuntimeWorld
        BY <2>1, AfterApplyType
    <2>3. AfterApply(w, r).seen = w.seen
        BY <2>1 DEF AfterApply, RuntimeWorld
    <2>4. runtime'[p] = [AfterApply(w, r) EXCEPT !.seen = @ \cup {k}, !.cursor = k]
        BY DEF Commit, TypeOK
    <2>. QED
        BY <2>2, <2>3, <2>4 DEF RuntimeWorld
<1>10. ASSUME NEW q \in Process
       PROVE  snapshot'[q] = Seeded /\ KnowsItsPast(runtime[q])'
    <2>1. snapshot'[q] = Seeded
        BY DEF Commit, SeenInv
    <2>2. /\ runtime[q].nextSeq <= Continued + 1 /\ Continued \in Nat
          /\ runtime[q].nextSeq = Continued + 1 => Numbered \subseteq runtime[q].seen
        BY <1>1 DEF SeenInv, KnowsItsPast, Continued
    <2>. DEFINE v == runtime'[q]
                c == Continued'
    <2>3. v.nextSeq <= c + 1 /\ (v.nextSeq = c + 1 => Numbered' \subseteq v.seen)
        <3>1. CASE q = p /\ r.events > 0
            BY <1>1, <1>5, <1>6, <1>7, <1>9, <3>1
        <3>2. CASE q = p /\ r.events = 0
            BY <1>1, <1>6, <1>7, <1>9, <2>2, <3>2
        <3>3. CASE q # p
            <4>1. v = runtime[q]
                BY <3>3 DEF Commit, TypeOK
            <4>. HIDE DEF v, c
            <4>2. CASE r.events = 0
                BY <1>6, <1>7, <2>2, <4>1, <4>2 DEF c
            <4>3. CASE r.events > 0
                <5>1. c \in Nat /\ c > Continued
                    BY <1>1, <1>7, <4>3 DEF c
                <5>2. v.nextSeq \in Nat /\ v.nextSeq <= Continued + 1
                    BY <1>1, <2>2, <4>1
                <5>. QED
                    BY <2>2, <5>1, <5>2
            <4>. QED
                BY <1>1, <4>2, <4>3
        <3>. QED
            BY <1>1, <3>1, <3>2, <3>3
    <2>. QED
        BY <2>1, <2>3 DEF KnowsItsPast
<1>11. \A i \in DOMAIN journal' : journal'[i].ok
    BY <1>2, <1>3 DEF SeenInv
<1>. QED
    BY <1>7, <1>8, <1>10, <1>11 DEF SeenInv

LEMMA StepKeepsSeen ==
    ASSUME EachRecordIsAccepted, Checkpointer = {}, TypeOK, NumberedInv, FreshInv, SeenInv,
           [Next]_vars
    PROVE  SeenInv'
<1>1. CASE ~UNCHANGED History
    BY <1>1, OnlyCommitMovesHistory, CommitKeepsSeen
<1>2. CASE UNCHANGED History
    <2>1. journal' = journal /\ committedSeq' = committedSeq
        BY <1>2 DEF History
    <2>2. snapshot' = snapshot
        <3>1. ASSUME NEW p \in Process, PersistSnapshot(p) PROVE FALSE
            BY <3>1 DEF PersistSnapshot
        <3>2. ASSUME NEW p \in Process, NEW s \in Slot, NEW r \in Record,
                     Commit(p, s, r) \/ CommitFails(p, s, r)
              PROVE  snapshot' = snapshot
            BY <3>2 DEF Commit, CommitFails
        <3>. QED
            BY <3>1, <3>2 DEF Next, vars, Tick, BeginCommand, BeginSystem, EndCommand,
               Sync, Handoff, Restart, BeginServing
    <2>3. ASSUME NEW q \in Process PROVE KnowsItsPast(runtime'[q])
        BY <1>2, WorldMoves, RecoveredKnows DEF SeenInv
    <2>4. \A q \in Process : KnowsItsPast(runtime[q])'
        BY <2>1, <2>3 DEF KnowsItsPast, Numbered, Continued
    <2>5. NumberedRowsAreSeen'
        BY <2>1 DEF SeenInv, NumberedRowsAreSeen, Before
    <2>. QED
        BY <2>1, <2>2, <2>4, <2>5 DEF SeenInv, Numbered
<1>. QED
    BY <1>1, <1>2

\* Records without events, which skip the sequence check, hide no row with
\* events from a row with events as long as no process keeps a checkpoint.
THEOREM NumberedSeen ==
    ASSUME EachRecordIsAccepted, Checkpointer = {}
    PROVE  Spec => []NumberedRowsAreSeen
<1>1. Init => SeenInv
    <2>. SUFFICES ASSUME Init PROVE SeenInv
        OBVIOUS
    <2>1. DOMAIN journal = {} /\ committedSeq = 0
        BY DEF Init
    <2>2. Numbered = {}
        BY <2>1 DEF Numbered
    <2>3. NumberedRowsAreSeen
        BY <2>1 DEF NumberedRowsAreSeen
    <2>4. Seeded.nextSeq = SeedSeq + 1 /\ SeedSeq \in Nat
        BY ConstantsAssumption DEF Seeded
    <2>5. KnowsItsPast(Seeded)
        BY <2>1, <2>2, <2>4 DEF KnowsItsPast, Continued
    <2>. QED
        BY <2>1, <2>2, <2>3, <2>5 DEF Init, SeenInv
<1>2. TypeOK /\ (NumberedInv /\ FreshInv) /\ SeenInv /\ [Next]_vars => SeenInv'
    BY StepKeepsSeen
<1>3. SeenInv => NumberedRowsAreSeen
    BY DEF SeenInv
<1>. QED
    BY <1>1, <1>2, <1>3, TypeCorrect, NumberedInvariant, PTL DEF Spec

-----------------------------------------------------------------------------
(* The serial world.  The step that needs an argument is the version of an *)
(* entity the store does not list: the in-memory copies must still agree   *)
(* that it is the seed's, or the first row would adopt one process's       *)
(* opinion.                                                                *)

AllAccepted == \A r \in Record : r.ok

\* Inductive together with TypeOK, NumberedInv and FreshInv.
UnlistedInv ==
    /\ \A i \in DOMAIN journal : journal[i].ok
    /\ journal # <<>> =>
           \A e \in Entity : storeVersion[e] = 0 => InitialVersion[e] = 0
    /\ \A e \in Entity : storeVersion[e] = 0 =>
           \A p \in Process : /\ runtime[p].version[e] = InitialVersion[e]
                              /\ snapshot[p].version[e] = InitialVersion[e]

\* A commit lists the entities it changes and copies the rest unchanged.
LEMMA CommitLists ==
    ASSUME TypeOK, FreshInv, UnlistedInv, NEW e \in Entity,
           NEW p \in Process, NEW s \in Slot, NEW r \in Record, Commit(p, s, r)
    PROVE  LET v == runtime[p].version[e] IN
           /\ v \in Nat /\ storeVersion[e] \in Nat /\ InitialVersion[e] \in Nat
           /\ e \in r.entities =>
                  /\ storeVersion'[e] = IF v = 0 THEN 2 ELSE v + 1
                  /\ v = IF storeVersion[e] = 0 THEN InitialVersion[e] ELSE storeVersion[e]
           /\ e \notin r.entities =>
                  \/ storeVersion'[e] = storeVersion[e] /\ journal # <<>>
                  \/ storeVersion[e] = 0 /\ storeVersion'[e] = InitialVersion[e]
<1>. DEFINE w == runtime[p]
<1>1. w \in RuntimeWorld
    BY DEF TypeOK
<1>2. w.version[e] \in Nat
    BY <1>1 DEF RuntimeWorld
<1>3. storeVersion[e] \in Nat /\ InitialVersion[e] \in Nat
    BY ConstantsAssumption DEF TypeOK
<1>4. storeVersion[e] = 0 => w.version[e] = InitialVersion[e]
    BY DEF UnlistedInv
<1>5. \/ StoredVersion(w)[e] = w.version[e] /\ storeVersion[e] = 0
      \/ StoredVersion(w)[e] = storeVersion[e] /\ journal # <<>>
    <2>1. CASE \A f \in Entity : storeVersion[f] = 0
        BY <2>1 DEF StoredVersion
    <2>2. CASE ~(\A f \in Entity : storeVersion[f] = 0)
        BY <2>2 DEF StoredVersion, FreshInv
    <2>. QED
        BY <2>1, <2>2
<1>6. CASE e \in r.entities
    <2>1. storeVersion'[e] = AfterApply(w, r).version[e]
        BY <1>6 DEF Commit
    <2>2. AfterApply(w, r).version = [f \in Entity |->
              IF f \notin r.entities THEN w.version[f]
              ELSE IF w.version[f] = 0 THEN 2 ELSE w.version[f] + 1]
        BY <1>1, AfterApplyType
    <2>3. storeVersion'[e] = IF w.version[e] = 0 THEN 2 ELSE w.version[e] + 1
        BY <1>6, <2>1, <2>2
    <2>4. StoredVersion(w)[e] \in (IF w.version[e] = 0 THEN {0} ELSE {0, w.version[e]})
        BY <1>6 DEF Commit, VersionsValid
    <2>5. storeVersion[e] # 0 => w.version[e] = storeVersion[e]
        BY <1>2, <1>3, <1>5, <2>4
    <2>. QED
        BY <1>2, <1>3, <1>4, <1>6, <2>3, <2>5
<1>7. CASE e \notin r.entities
    <2>1. storeVersion'[e] = StoredVersion(w)[e]
        BY <1>7 DEF Commit
    <2>. QED
        BY <1>2, <1>3, <1>4, <1>5, <1>7, <2>1
<1>. QED
    BY <1>6, <1>7

LEMMA CommitUnlisted ==
    ASSUME AllAccepted, TypeOK, FreshInv, UnlistedInv,
           NEW p \in Process, NEW s \in Slot, NEW r \in Record, Commit(p, s, r)
    PROVE  UnlistedInv'
<1>1. \A i \in DOMAIN journal' : journal'[i].ok
    <2>1. NewRow(p, s, r).ok
        BY DEF NewRow, AllAccepted
    <2>. QED
        BY <2>1, CommitAppends DEF UnlistedInv
<1>2. ASSUME NEW e \in Entity, storeVersion'[e] = 0
      PROVE  /\ e \notin r.entities /\ storeVersion[e] = 0 /\ InitialVersion[e] = 0
    <2>1. e \notin r.entities
        BY <1>2, CommitLists
    <2>. QED
        BY <1>2, <2>1, CommitLists DEF UnlistedInv
<1>3. ASSUME NEW e \in Entity, storeVersion'[e] = 0, NEW q \in Process
      PROVE  /\ runtime'[q].version[e] = InitialVersion[e]
             /\ snapshot'[q].version[e] = InitialVersion[e]
    <2>1. /\ runtime[q].version[e] = InitialVersion[e]
          /\ snapshot[q].version[e] = InitialVersion[e]
        BY <1>2, <1>3 DEF UnlistedInv
    <2>2. snapshot' = snapshot
        BY DEF Commit
    <2>3. CASE q # p
        <3>1. runtime'[q] = runtime[q]
            BY <2>3 DEF Commit, TypeOK
        <3>. QED
            BY <2>1, <2>2, <3>1
    <2>4. CASE q = p
        <3>1. runtime[p] \in RuntimeWorld
            BY DEF TypeOK
        <3>2. /\ AfterApply(runtime[p], r) \in RuntimeWorld
              /\ AfterApply(runtime[p], r).version = [f \in Entity |->
                     IF f \notin r.entities THEN runtime[p].version[f]
                     ELSE IF runtime[p].version[f] = 0 THEN 2 ELSE runtime[p].version[f] + 1]
            BY <3>1, AfterApplyType
        <3>3. runtime'[p] = [AfterApply(runtime[p], r) EXCEPT
                                !.seen = @ \cup {Len(journal) + 1}, !.cursor = Len(journal) + 1]
            BY DEF Commit, TypeOK
        <3>4. runtime'[p].version = AfterApply(runtime[p], r).version
            BY <3>2, <3>3 DEF RuntimeWorld
        <3>5. runtime'[p].version[e] = runtime[p].version[e]
            BY <1>2, <1>3, <3>2, <3>4
        <3>. QED
            BY <2>1, <2>2, <2>4, <3>5
    <2>. QED
        BY <2>3, <2>4
<1>. QED
    BY <1>1, <1>2, <1>3 DEF UnlistedInv

LEMMA StepUnlisted ==
    ASSUME AllAccepted, TypeOK, FreshInv, UnlistedInv, [Next]_vars
    PROVE  UnlistedInv'
<1>1. CASE ~UNCHANGED History
    BY <1>1, OnlyCommitMovesHistory, CommitUnlisted
<1>2. CASE UNCHANGED History
    <2>1. journal' = journal /\ storeVersion' = storeVersion
        BY <1>2 DEF History
    <2>2. ASSUME NEW e \in Entity, storeVersion[e] = 0, NEW q \in Process
          PROVE  /\ runtime'[q].version[e] = InitialVersion[e]
                 /\ snapshot'[q].version[e] = InitialVersion[e]
        <3>1. /\ runtime[q].version[e] = InitialVersion[e]
              /\ snapshot[q].version[e] = InitialVersion[e]
            BY <2>2 DEF UnlistedInv
        <3>2. Replayable(q)
            BY DEF Replayable, UnlistedInv
        <3>3. Checkpoint(q).version[e] = InitialVersion[e]
            BY <3>1 DEF Checkpoint, Seeded
        <3>4. Recovered(q).version[e] = InitialVersion[e]
            <4>1. Recovered(q).version = [f \in Entity |->
                      IF storeVersion[f] > 0 THEN storeVersion[f]
                      ELSE Checkpoint(q).version[f]]
                BY DEF Recovered
            <4>. QED
                BY <2>2, <3>3, <4>1
        <3>. QED
            BY <1>2, <3>1, <3>2, <3>4, WorldMoves
    <2>. QED
        BY <2>1, <2>2 DEF UnlistedInv
<1>. QED
    BY <1>1, <1>2

-----------------------------------------------------------------------------
(* Every commit is one step of the serial world.                           *)

LEMMA CommitIsSerial ==
    ASSUME TypeOK, TypeOK', NumberedInv, NumberedInv', FreshInv, UnlistedInv,
           NEW p \in Process, NEW s \in Slot, NEW r \in Record, Commit(p, s, r)
    PROVE  serial!Next
<1>. DEFINE new == storeClaims' \ storeClaims
            seq == IF committedSeq = 0 THEN SeedSeq ELSE committedSeq
            ver == [e \in Entity |-> IF storeVersion[e] = 0
                                     THEN InitialVersion[e] ELSE storeVersion[e]]
<1>1. /\ runtime[p].nextSeq \in Nat /\ committedSeq \in Nat /\ committedSeq' \in Nat
      /\ r.events \in Nat /\ SeedSeq \in Nat /\ runtime[p].nextSeq > SeedSeq
      /\ r.events = 0 => committedSeq' = committedSeq
      /\ r.events > 0 =>
             /\ committedSeq' = runtime[p].nextSeq + r.events - 1
             /\ \/ journal = <<>> /\ runtime[p].nextSeq = SeedSeq + 1
                \/ runtime[p].nextSeq = committedSeq + 1
      /\ journal = <<>> => committedSeq = 0
      /\ committedSeq > 0 => committedSeq > SeedSeq
    BY CommitNumbers, ConstantsAssumption DEF TypeOK, FreshInv, NumberedInv
<1>2. seq' >= seq /\ (r.events > 0 => seq' > seq)
    <2>1. CASE r.events = 0
        BY <1>1, <2>1
    <2>2. CASE r.events > 0
        <3>1. committedSeq' >= runtime[p].nextSeq /\ committedSeq' > SeedSeq
            BY <1>1, <2>2
        <3>2. seq' = committedSeq'
            BY <1>1, <3>1
        <3>3. committedSeq' > seq
            BY <1>1, <2>2, <3>1
        <3>. QED
            BY <1>1, <3>2, <3>3
    <2>. QED
        BY <1>1, <2>1, <2>2
<1>3. r.entities # {} => r.events > 0
    BY RecordAssumption
<1>4. ver' = [e \in Entity |-> IF e \in r.entities THEN serial!Changed(ver[e]) ELSE ver[e]]
    <2>. SUFFICES ASSUME NEW e \in Entity
                  PROVE  (IF storeVersion'[e] = 0 THEN InitialVersion[e] ELSE storeVersion'[e])
                         = IF e \in r.entities THEN serial!Changed(ver[e]) ELSE ver[e]
        OBVIOUS
    <2>. DEFINE v == runtime[p].version[e]
    <2>1. ver[e] = IF storeVersion[e] = 0 THEN InitialVersion[e] ELSE storeVersion[e]
        OBVIOUS
    <2>2. /\ v \in Nat /\ storeVersion[e] \in Nat /\ InitialVersion[e] \in Nat
          /\ e \in r.entities =>
                 storeVersion'[e] = (IF v = 0 THEN 2 ELSE v + 1) /\ v = ver[e]
          /\ e \notin r.entities =>
                 \/ storeVersion'[e] = storeVersion[e]
                 \/ storeVersion[e] = 0 /\ storeVersion'[e] = InitialVersion[e]
        BY <2>1, CommitLists
    <2>3. serial!Changed(ver[e]) = IF ver[e] = 0 THEN 2 ELSE ver[e] + 1
        BY DEF serial!Changed
    <2>. HIDE DEF v, ver
    <2>. QED
        BY <2>1, <2>2, <2>3
<1>5. storeClaims \subseteq storeClaims'
    BY DEF Commit, StoredClaims
<1>6. new \cap storeClaims = {} /\ storeClaims' = storeClaims \cup new
    BY <1>5
<1>7. r.entities \in SUBSET Entity /\ new \in SUBSET Claim
    BY RecordType DEF TypeOK
<1>8. PICK claims \in SUBSET Claim : claims = new
    BY <1>7
<1>9. serial!Take(r.entities, claims)
    BY <1>2, <1>3, <1>4, <1>6, <1>8 DEF serial!Take
<1>. QED
    BY <1>7, <1>9 DEF serial!Next

\* While every record is accepted, the store of all the processes together
\* is one serial world: each commit is one of its steps, whatever processes
\* lag, restart, lose their leases or retry in between.
THEOREM ImplementsSerialWorld ==
    ASSUME AllAccepted PROVE Spec => SerialSpec
<1>. DEFINE IInv == TypeOK /\ NumberedInv /\ FreshInv /\ UnlistedInv
<1>1. Init => UnlistedInv
    BY DEF Init, UnlistedInv, Seeded
<1>2. TypeOK /\ (NumberedInv /\ FreshInv) /\ UnlistedInv /\ [Next]_vars => UnlistedInv'
    BY StepUnlisted
<1>3. Spec => []UnlistedInv
    BY <1>1, <1>2, TypeCorrect, NumberedInvariant, PTL DEF Spec
<1>4. Init => serial!Init
    <2>. SUFFICES ASSUME Init PROVE serial!Init
        OBVIOUS
    <2>1. committedSeq = 0 /\ storeVersion = [e \in Entity |-> 0] /\ storeClaims = {}
        BY DEF Init
    <2>2. [e \in Entity |-> IF storeVersion[e] = 0
                            THEN InitialVersion[e] ELSE storeVersion[e]] = InitialVersion
        BY <2>1, ConstantsAssumption
    <2>. QED
        BY <2>1, <2>2 DEF serial!Init
<1>5. IInv /\ IInv' /\ [Next]_vars =>
          [serial!Next]_<<IF committedSeq = 0 THEN SeedSeq ELSE committedSeq,
                          [e \in Entity |-> IF storeVersion[e] = 0
                                            THEN InitialVersion[e] ELSE storeVersion[e]],
                          storeClaims>>
    <2>. SUFFICES ASSUME IInv, IInv', [Next]_vars
                  PROVE  serial!Next \/ UNCHANGED History
        BY DEF History
    <2>. QED
        BY OnlyCommitMovesHistory, CommitIsSerial
<1>. QED
    BY <1>3, <1>4, <1>5, TypeCorrect, NumberedInvariant, PTL DEF Spec, SerialSpec, serial!Spec
=============================================================================
