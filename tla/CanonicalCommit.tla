--------------------------- MODULE CanonicalCommit ---------------------------
(***************************************************************************)
(* The canonical commit protocol of the orchestrator                       *)
(* (src/v2/orchestrator-rust/src/main.rs, canonical_journal.rs): several   *)
(* processes, each with its own in-memory copy of one world, commit        *)
(* journal records to one shared SQLite store.  A commit is one immediate  *)
(* transaction that checks the region lease of every room it touches,      *)
(* appends the record, and moves the world sequence, the entity versions   *)
(* and the minted claims by compare-and-set.  A process learns of foreign  *)
(* commits by replaying the journal (Sync), and rebuilds its copy the same *)
(* way after a refused commit or a boot.                                   *)
(*                                                                         *)
(* A journal record is abstracted to what the protocol reads of it: the    *)
(* rooms it names, the rooms its events name, whether the kernel accepted  *)
(* it, how many events it numbered, the entities and claims it changed.    *)
(***************************************************************************)
EXTENDS Naturals, Sequences, FiniteSets

CONSTANTS
    Process,         \* orchestrator processes that share the event store
    Room,            \* room partitions
    World,           \* the partition of records and events that name no room
    Entity,          \* canonical entity references
    Claim,           \* idempotency keys of one-shot effects
    NoOwner,         \* the owner of a lease row that does not exist yet
    Record,          \* the shapes of journal records that are committed
    InitialVersion,  \* entity versions of the seeded world, 0 where absent
    SeedSeq,         \* events the seeded world numbers before any commit
    Checkpointer,    \* processes configured with a snapshot path
    Ttl,             \* canonical_lease_ttl in clock ticks
    MaxClock, MaxFence, MaxJournal, MaxBoot   \* bounds of the model

Partition == Room \cup {World}

RecordShape ==
    [rooms : SUBSET Room, eventRooms : SUBSET Room, ok : BOOLEAN,
     events : Nat, entities : SUBSET Entity, claims : SUBSET Claim]

ASSUME ConstantsAssumption ==
    /\ Record \subseteq RecordShape
    /\ InitialVersion \in [Entity -> Nat]
    /\ \E e \in Entity : InitialVersion[e] > 0
    /\ SeedSeq \in Nat
    /\ Checkpointer \subseteq Process
    /\ Ttl \in Nat \ {0}
    /\ World \notin Room
    /\ NoOwner \notin Process \X Nat
    /\ {MaxClock, MaxFence, MaxJournal, MaxBoot} \subseteq Nat

\* Only a successful event bumps a version; a refused record claims nothing.
ASSUME RecordAssumption ==
    \A r \in Record :
        /\ r.entities # {} => r.ok /\ r.events > 0
        /\ r.claims # {} => r.ok

VARIABLES
    now,           \* wall clock, now_millis
    lease,         \* canonical_partition_leases; fence 0 where there is no row
    committedSeq,  \* canonical_world_state.committed_seq
    storeVersion,  \* canonical_entity_versions, 0 where there is no row
    storeClaims,   \* canonical_claims
    journal,       \* action_journal joined with canonical_commits, by journal_seq
    boot,          \* boots of each process: its owner id is fresh at every boot
    serving,       \* the process has read the journal head and takes work
    runtime,       \* the in-memory world of each process
    applied,       \* canonical_applied_journal_seq of each process
    held,          \* leases copied into a running command or system record
    snapshot       \* the checkpoint file of each process

store   == <<lease, committedSeq, storeVersion, storeClaims, journal>>
memory  == <<boot, serving, runtime, applied, held>>
vars    == <<now, store, memory, snapshot>>
-----------------------------------------------------------------------------
(* Types.  "seen" is a history variable: the journal rows whose effects    *)
(* the in-memory world contains.  "phantom" says that it also contains the *)
(* effects of a record that was rolled back.                               *)

Slot == {"command", "system"}
Owner == Process \X Nat
Lease == [owner : Owner \cup {NoOwner}, fence : Nat, expires : Nat]
RuntimeWorld ==
    [seen : SUBSET Nat, phantom : BOOLEAN, cursor : Nat, nextSeq : Nat,
     version : [Entity -> Nat], claims : SUBSET Claim]
Row ==
    [owner : Owner, fence : [Partition -> Nat], ok : BOOLEAN, events : Nat,
     first : Nat, last : Nat, version : [Entity -> Nat],
     claims : SUBSET Claim, base : SUBSET Nat, phantom : BOOLEAN]

NoLease == [x \in Partition |-> 0]

\* Type invariant: in particular no lease row and no journal row ever names an
\* owner that is not one boot of one process.
TypeOK ==
    /\ now \in Nat
    /\ lease \in [Partition -> Lease]
    /\ committedSeq \in Nat
    /\ storeVersion \in [Entity -> Nat]
    /\ storeClaims \in SUBSET Claim
    /\ journal \in Seq(Row)
    /\ boot \in [Process -> Nat]
    /\ serving \in [Process -> BOOLEAN]
    /\ runtime \in [Process -> RuntimeWorld]
    /\ applied \in [Process -> Nat]
    /\ held \in [Process -> [Slot -> [Partition -> Nat]]]
    /\ snapshot \in [Process -> RuntimeWorld]
-----------------------------------------------------------------------------
(* Leases.                                                                 *)

\* Mutant: an owner id that survives a restart.
MeOfProcess(p) == p

Me(p) == <<p, boot[p]>>

\* canonical_partitions_for_location_ids: no room means the world partition.
PartitionsOf(rooms) == IF rooms = {} THEN {World} ELSE rooms

RequiredPartitions(r) == PartitionsOf(r.rooms) \cup PartitionsOf(r.eventRooms)

Live(x) == lease[x].fence > 0 /\ lease[x].expires > now

\* Mutant: the lease is taken over whether it has expired or not.
AcquirableAlways(o, x) == TRUE

\* A live lease of another owner refuses the acquisition.
Acquirable(o, x) == Live(x) => lease[x].owner = o

\* Mutant: an expired lease changes its owner and keeps its fence.
AcquiredSameFence(o, x) ==
    [owner |-> o,
     fence |-> IF lease[x].fence = 0 THEN 1 ELSE lease[x].fence,
     expires |-> now + Ttl]

\* A live own lease keeps its fence; an absent or expired one, even one's
\* own, is taken over under the next fence.
Acquired(o, x) ==
    [owner |-> o,
     fence |-> IF Live(x) THEN lease[x].fence ELSE lease[x].fence + 1,
     expires |-> now + Ttl]

\* Mutant: any live lease will do.
ValidWhenLive(o, x, fence) == lease[x].expires > now

\* The compare-and-set of validate_and_renew_partition_lease.
Valid(o, x, fence) ==
    /\ lease[x].owner = o
    /\ lease[x].fence = fence
    /\ lease[x].expires > now

Idle(p, s) == held[p][s] = NoLease
Covered(p, s) == {x \in Partition : held[p][s][x] > 0}
-----------------------------------------------------------------------------
(* Recovery: the checkpoint, or the seed when it holds no journal cursor,  *)
(* then the journal suffix, then the cursors, versions and claims of the   *)
(* store.                                                                  *)

Seeded ==
    [seen |-> {}, phantom |-> FALSE, cursor |-> 0, nextSeq |-> SeedSeq + 1,
     version |-> InitialVersion, claims |-> {}]

Checkpoint(p) == IF snapshot[p].cursor > 0 THEN snapshot[p] ELSE Seeded

\* Replay fails on a row that the kernel does not accept.
Replayable(p) ==
    \A i \in DOMAIN journal : i > Checkpoint(p).cursor => journal[i].ok

\* advance_runtime_next_event_seq_from_store: nothing durable to reconcile
\* with leaves the restored cursor alone.
ReconciledSeq(restored) ==
    IF committedSeq > 0 THEN committedSeq + 1 ELSE restored

\* Mutant: everything the store lists is reconciled, and the journal suffix
\* is not replayed.
RecoveredUnreplayed(p) ==
    LET base == Checkpoint(p) IN
    [base EXCEPT !.cursor = Len(journal), !.nextSeq = ReconciledSeq(@),
                 !.version = [e \in Entity |-> IF storeVersion[e] > 0
                                               THEN storeVersion[e] ELSE @[e]],
                 !.claims = @ \cup storeClaims]

Recovered(p) ==
    LET base == Checkpoint(p) IN
    [seen |-> base.seen \cup {i \in DOMAIN journal : i > base.cursor},
     phantom |-> base.phantom,
     cursor |-> Len(journal),
     nextSeq |-> ReconciledSeq(base.nextSeq),
     version |-> [e \in Entity |-> IF storeVersion[e] > 0
                                   THEN storeVersion[e] ELSE base.version[e]],
     claims |-> base.claims \cup storeClaims]
-----------------------------------------------------------------------------
(* One commit transaction.                                                 *)

\* Mutant: a new entity is inserted and not bumped.
AfterApplyNoBump(w, r) ==
    [w EXCEPT !.nextSeq = @ + r.events,
              !.version = [e \in Entity |->
                  IF e \in r.entities THEN w.version[e] + 1 ELSE w.version[e]],
              !.claims = @ \cup r.claims]

\* apply_journal_record on the in-memory world.  or_insert(1) and then the
\* bump leave a new entity at version 2.
AfterApply(w, r) ==
    [w EXCEPT !.nextSeq = @ + r.events,
              !.version = [e \in Entity |->
                  IF e \notin r.entities THEN w.version[e]
                  ELSE IF w.version[e] = 0 THEN 2 ELSE w.version[e] + 1],
              !.claims = @ \cup r.claims]

\* A store that never numbered an event and holds no commit adopts the
\* numbering of a world that was seeded or saved before it.
Bootstraps(w, r) ==
    committedSeq = 0 /\ r.events > 0 /\ w.nextSeq > 1 /\ journal = <<>>

PreviousSeq(w, r) == IF Bootstraps(w, r) THEN w.nextSeq - 1 ELSE committedSeq

\* Mutant: the sequence is not compared.
SequenceUnchecked(w, r) == TRUE

\* validate_next_world_sequence: an event-free record is not checked.
SequenceValid(w, r) == r.events > 0 => w.nextSeq = PreviousSeq(w, r) + 1

\* The events were numbered by the in-memory world.
LastSeq(w, r) == IF r.events = 0 THEN committedSeq ELSE w.nextSeq + r.events - 1

\* Mutants: every commit copies what the committer has in memory.
StoredVersionFromMemory(w) == w.version
StoredClaimsFromMemory(w) == w.claims

\* The first commit copies the committer's versions and claims to the store.
StoredVersion(w) ==
    IF \A e \in Entity : storeVersion[e] = 0 THEN w.version ELSE storeVersion
StoredClaims(w) == IF storeClaims = {} THEN w.claims ELSE storeClaims

NewClaims(w, r) == r.claims \ w.claims

\* An entity the store does not list yet is first listed as the committer
\* saw it; one the committer did not know must be new to the store as well.
VersionsValid(w, r) ==
    \A e \in r.entities :
        StoredVersion(w)[e] \in (IF w.version[e] = 0 THEN {0} ELSE {0, w.version[e]})

ClaimsValid(w, r) == NewClaims(w, r) \cap StoredClaims(w) = {}

ExtraPartitions(p, s, r) == RequiredPartitions(r) \ Covered(p, s)

\* The runtime lock is held from the acquisition of a system record's leases
\* to the end of its commit.
RuntimeLockFree(p, s) == s = "command" => Idle(p, "system")

Attempts(p, s, r) ==
    /\ serving[p]
    /\ ~Idle(p, s)
    /\ RuntimeLockFree(p, s)
    /\ s = "system" => Covered(p, s) = PartitionsOf(r.rooms)

\* Every lease of the attempt is checked and renewed, then every other
\* partition of the record and its events is acquired.
Authorized(p, s, r) ==
    /\ \A x \in Covered(p, s) : Valid(Me(p), x, held[p][s][x])
    /\ \A x \in ExtraPartitions(p, s, r) : Acquirable(Me(p), x)

\* Mutant: the leases of the extra partitions are not written.
LeasesRenewedOnly(p, s, r) ==
    [x \in Partition |->
        IF x \in Covered(p, s) THEN [lease[x] EXCEPT !.expires = now + Ttl]
        ELSE lease[x]]

LeasesAfter(p, s, r) ==
    [x \in Partition |->
        IF x \in Covered(p, s) THEN [lease[x] EXCEPT !.expires = now + Ttl]
        ELSE IF x \in RequiredPartitions(r) THEN Acquired(Me(p), x)
        ELSE lease[x]]

NewRow(p, s, r) ==
    LET w == runtime[p] IN
    [owner |-> Me(p),
     fence |-> [x \in Partition |->
                    IF x \in Covered(p, s) THEN held[p][s][x]
                    ELSE IF x \in RequiredPartitions(r) THEN Acquired(Me(p), x).fence
                    ELSE 0],
     ok |-> r.ok,
     events |-> r.events,
     first |-> IF r.events = 0 THEN committedSeq ELSE w.nextSeq,
     last |-> LastSeq(w, r),
     version |-> [e \in Entity |->
                      IF e \in r.entities THEN AfterApply(w, r).version[e] ELSE 0],
     claims |-> NewClaims(w, r),
     base |-> w.seen,
     phantom |-> w.phantom]
-----------------------------------------------------------------------------
Init ==
    /\ now = 0
    /\ lease = [x \in Partition |-> [owner |-> NoOwner, fence |-> 0, expires |-> 0]]
    /\ committedSeq = 0
    /\ storeVersion = [e \in Entity |-> 0]
    /\ storeClaims = {}
    /\ journal = <<>>
    /\ boot = [p \in Process |-> 0]
    /\ serving = [p \in Process |-> TRUE]
    /\ runtime = [p \in Process |-> Seeded]
    /\ applied = [p \in Process |-> 0]
    /\ held = [p \in Process |-> [s \in Slot |-> NoLease]]
    /\ snapshot = [p \in Process |-> Seeded]

Tick ==
    /\ now < MaxClock
    /\ now' = now + 1
    /\ UNCHANGED <<store, memory, snapshot>>

\* A command takes the lease of its actor's room, or of the world.  A live
\* own lease is reused as it stands, with no write.  The catch-up the handler
\* runs first is Sync: a foreign commit may land between the two.
BeginCommand(p, x) ==
    /\ serving[p] /\ Idle(p, "command")
    /\ Acquirable(Me(p), x)
    /\ Acquired(Me(p), x).fence <= MaxFence
    /\ lease' = IF Live(x) THEN lease ELSE [lease EXCEPT ![x] = Acquired(Me(p), x)]
    /\ held' = [held EXCEPT ![p]["command"][x] = lease'[x].fence]
    /\ UNCHANGED <<now, committedSeq, storeVersion, storeClaims, journal,
                   boot, serving, runtime, applied, snapshot>>

\* A record committed outside a command acquires its partitions, all or
\* none, in a transaction of its own before the commit.
BeginSystem(p, r) ==
    /\ serving[p] /\ Idle(p, "system")
    /\ \A x \in PartitionsOf(r.rooms) :
           Acquirable(Me(p), x) /\ Acquired(Me(p), x).fence <= MaxFence
    /\ lease' = [x \in Partition |->
                    IF x \in PartitionsOf(r.rooms) THEN Acquired(Me(p), x) ELSE lease[x]]
    /\ held' = [held EXCEPT ![p]["system"] =
                   [x \in Partition |->
                       IF x \in PartitionsOf(r.rooms) THEN lease'[x].fence ELSE 0]]
    /\ UNCHANGED <<now, committedSeq, storeVersion, storeClaims, journal,
                   boot, serving, runtime, applied, snapshot>>

\* The transaction commits.  The status of the record is not asked.
Commit(p, s, r) ==
    LET w   == runtime[p]
        seq == Len(journal) + 1 IN
    /\ Attempts(p, s, r)
    /\ seq <= MaxJournal
    /\ Authorized(p, s, r)
    /\ \A x \in ExtraPartitions(p, s, r) : Acquired(Me(p), x).fence <= MaxFence
    /\ SequenceValid(w, r)
    /\ VersionsValid(w, r)
    /\ ClaimsValid(w, r)
    /\ lease' = LeasesAfter(p, s, r)
    /\ committedSeq' = LastSeq(w, r)
    /\ storeVersion' = [e \in Entity |->
                           IF e \in r.entities THEN AfterApply(w, r).version[e]
                           ELSE StoredVersion(w)[e]]
    /\ storeClaims' = StoredClaims(w) \cup NewClaims(w, r)
    /\ journal' = Append(journal, NewRow(p, s, r))
    /\ runtime' = [runtime EXCEPT ![p] =
                      [AfterApply(w, r) EXCEPT !.seen = @ \cup {seq}, !.cursor = seq]]
    /\ applied' = [applied EXCEPT ![p] = seq]
    /\ held' = [held EXCEPT ![p][s] = NoLease]
    /\ UNCHANGED <<now, boot, serving, snapshot>>

\* The transaction is refused by a check, or fails in the store, and is
\* rolled back; the in-memory world is rebuilt.  When the rebuild fails as
\* well, which is modelled for a journal that does not replay, the process
\* keeps what it has in memory: the world as it was if the leases were
\* refused, the record's effects if it had been applied.  A command may try
\* again with the same leases, a system record may not.
CommitFails(p, s, r) ==
    /\ Attempts(p, s, r)
    /\ IF Replayable(p)
       THEN runtime' = [runtime EXCEPT ![p] = Recovered(p)]
       ELSE \/ /\ ~Authorized(p, s, r)
               /\ UNCHANGED runtime
            \/ /\ Authorized(p, s, r)
               /\ runtime[p].nextSeq <= SeedSeq + MaxJournal
               /\ runtime' = [runtime EXCEPT ![p] =
                                 [AfterApply(runtime[p], r) EXCEPT !.phantom = TRUE]]
    /\ held' = IF s = "system" THEN [held EXCEPT ![p][s] = NoLease] ELSE held
    /\ UNCHANGED <<now, store, boot, serving, applied, snapshot>>

EndCommand(p) ==
    /\ ~Idle(p, "command")
    /\ held' = [held EXCEPT ![p]["command"] = NoLease]
    /\ UNCHANGED <<now, store, boot, serving, runtime, applied, snapshot>>

\* Mutants: the world adopts the cursor of the store without the journal; the
\* next row is taken for the last one applied.
SyncCursorOnly(p) ==
    /\ serving[p] /\ Idle(p, "system")
    /\ \E latest \in DOMAIN journal :
           /\ latest > applied[p]
           /\ applied' = [applied EXCEPT ![p] = latest]
    /\ runtime' = [runtime EXCEPT ![p].nextSeq = ReconciledSeq(@)]
    /\ UNCHANGED <<now, store, boot, serving, held, snapshot>>

SyncOffByOne(p) ==
    /\ serving[p] /\ Idle(p, "system")
    /\ Replayable(p)
    /\ \E latest \in DOMAIN journal :
           /\ latest > applied[p] + 1
           /\ applied' = [applied EXCEPT ![p] = latest]
    /\ runtime' = [runtime EXCEPT ![p] = Recovered(p)]
    /\ UNCHANGED <<now, store, boot, serving, held, snapshot>>

\* Foreign commits are taken in by rebuilding the world.  The head was read
\* before the runtime lock was taken, so it may be an earlier one.
Sync(p) ==
    /\ serving[p] /\ Idle(p, "system")
    /\ Replayable(p)
    /\ \E latest \in DOMAIN journal :
           /\ latest > applied[p]
           /\ applied' = [applied EXCEPT ![p] = latest]
    /\ runtime' = [runtime EXCEPT ![p] = Recovered(p)]
    /\ UNCHANGED <<now, store, boot, serving, held, snapshot>>

\* An operator moves a set of live leases to the current boot of a process.
Handoff(parts, target) ==
    /\ parts # {} /\ serving[target]
    /\ \A x \in parts : Live(x) /\ lease[x].fence < MaxFence
    /\ lease' = [x \in Partition |->
                    IF x \in parts
                    THEN [owner |-> Me(target), fence |-> lease[x].fence + 1,
                          expires |-> now + Ttl]
                    ELSE lease[x]]
    /\ UNCHANGED <<now, committedSeq, storeVersion, storeClaims, journal,
                   memory, snapshot>>

\* The process stops at any point and boots: it restores the world first and
\* reads the journal head it will poll from later.
Restart(p) ==
    /\ boot[p] < MaxBoot
    /\ Replayable(p)
    /\ boot' = [boot EXCEPT ![p] = @ + 1]
    /\ serving' = [serving EXCEPT ![p] = FALSE]
    /\ runtime' = [runtime EXCEPT ![p] = Recovered(p)]
    /\ applied' = [applied EXCEPT ![p] = 0]
    /\ held' = [held EXCEPT ![p] = [s \in Slot |-> NoLease]]
    /\ UNCHANGED <<now, store, snapshot>>

BeginServing(p) ==
    /\ ~serving[p]
    /\ serving' = [serving EXCEPT ![p] = TRUE]
    /\ applied' = [applied EXCEPT ![p] = Len(journal)]
    /\ UNCHANGED <<now, store, boot, runtime, held, snapshot>>

\* The coalesced checkpoint.  It is written only when neither of its cursors
\* leads the store.
CursorDurable(w) ==
    /\ committedSeq > 0 => w.nextSeq <= committedSeq + 1
    /\ w.cursor <= Len(journal)

\* Mutant: the file is stamped with the head of the journal.
PersistSnapshotAtHead(p) ==
    /\ p \in Checkpointer /\ serving[p] /\ Idle(p, "system")
    /\ CursorDurable(runtime[p])
    /\ snapshot' = [snapshot EXCEPT ![p] = [runtime[p] EXCEPT !.cursor = Len(journal)]]
    /\ UNCHANGED <<now, store, memory>>

PersistSnapshot(p) ==
    /\ p \in Checkpointer /\ serving[p] /\ Idle(p, "system")
    /\ CursorDurable(runtime[p])
    /\ snapshot' = [snapshot EXCEPT ![p] = runtime[p]]
    /\ UNCHANGED <<now, store, memory>>

Next ==
    \/ Tick
    \/ \E p \in Process :
        \/ \E x \in Partition : BeginCommand(p, x)
        \/ \E r \in Record : BeginSystem(p, r)
        \/ \E s \in Slot, r \in Record : Commit(p, s, r)
        \/ \E s \in Slot, r \in Record : CommitFails(p, s, r)
        \/ EndCommand(p)
        \/ Sync(p)
        \/ \E parts \in SUBSET Partition : Handoff(parts, p)
        \/ Restart(p)
        \/ BeginServing(p)
        \/ PersistSnapshot(p)

Spec == Init /\ [][Next]_vars
-----------------------------------------------------------------------------
(* What holds whatever the records are.                                    *)

Before(i, j) == i \in DOMAIN journal /\ j \in DOMAIN journal /\ i < j
Both(i, j, x) == journal[i].fence[x] > 0 /\ journal[j].fence[x] > 0

\* The commits of one partition carry fences in the order in which they were
\* committed, and one fence belongs to one owner: a process whose lease
\* lapsed, was taken over or was handed off never commits behind its
\* successor, whatever it still holds in memory.
FencesOrderCommits ==
    \A i, j \in DOMAIN journal : \A x \in Partition :
        Before(i, j) /\ Both(i, j, x) =>
            /\ journal[i].fence[x] <= journal[j].fence[x]
            /\ journal[i].fence[x] = journal[j].fence[x] =>
                   journal[i].owner = journal[j].owner

\* Two processes never hold the same fence of the same partition, however
\* stale their copies are: the equality a commit checks identifies one of them.
OneHolderPerFence ==
    \A p, q \in Process : \A s, t \in Slot : \A x \in Partition :
        held[p][s][x] > 0 /\ held[p][s][x] = held[q][t][x] => p = q

\* What makes the two above inductive: the lease row bounds every fence that
\* is held in memory or was ever committed, and where it is equal to one, it
\* names the same owner.
LeaseRowBoundsFences ==
    \A x \in Partition :
        /\ \A p \in Process, s \in Slot :
               /\ held[p][s][x] <= lease[x].fence
               /\ held[p][s][x] > 0 /\ held[p][s][x] = lease[x].fence =>
                      lease[x].owner = Me(p)
        /\ \A i \in DOMAIN journal :
               /\ journal[i].fence[x] <= lease[x].fence
               /\ journal[i].fence[x] > 0 /\ journal[i].fence[x] = lease[x].fence =>
                      lease[x].owner = journal[i].owner

\* The numbered events of the journal are SeedSeq + 1 up to the committed
\* cursor, each given out once and in journal order.
GapFreeSequence ==
    /\ \A i, j \in DOMAIN journal :
           Before(i, j) /\ journal[j].events > 0 => journal[i].last < journal[j].first
    /\ \A i \in DOMAIN journal : journal[i].last <= committedSeq
    /\ \A n \in (SeedSeq + 1) .. committedSeq : \E i \in DOMAIN journal :
           journal[i].events > 0 /\ n \in journal[i].first .. journal[i].last

\* Successive commits of an entity carry growing versions, and the store
\* holds the last of them.
VersionsOrderCommits ==
    \A e \in Entity : \A i \in DOMAIN journal :
        journal[i].version[e] > 0 =>
            /\ journal[i].version[e] <= storeVersion[e]
            /\ \A j \in DOMAIN journal : Before(i, j) /\ journal[j].version[e] > 0 =>
                   journal[i].version[e] < journal[j].version[e]

\* A one-shot effect is minted by at most one commit of one process, and its
\* claim outlives every restart and rollback.
ClaimsMintedOnce ==
    \A i, j \in DOMAIN journal :
        /\ journal[i].claims \subseteq storeClaims
        /\ i # j => journal[i].claims \cap journal[j].claims = {}

\* A live lease changes hands by an operator's handoff only: a step that
\* commits or takes up work never takes a partition from its live owner.
LiveLeaseIsNotStolen ==
    [][\A x \in Partition :
          Live(x) /\ lease'[x].owner # lease[x].owner =>
              UNCHANGED <<journal, held, boot>>]_vars

-----------------------------------------------------------------------------
(* What holds while every record is accepted and numbers an event.         *)

\* No lost update: the process that committed a row with events had the
\* effects of every earlier row in memory, and of nothing else, when it
\* decided the row.
NoLostUpdate ==
    \A j \in DOMAIN journal : journal[j].events > 0 =>
        /\ journal[j].base = {i \in DOMAIN journal : i < j}
        /\ ~journal[j].phantom

\* The same of the rows with events alone, which is what the comparison of the
\* world sequence is for.  Records without events break even this, by way of a
\* checkpoint that is stamped with a row its process never replayed.
NumberedRowsAreSeen ==
    \A i, j \in DOMAIN journal :
        Before(i, j) /\ journal[i].events > 0 /\ journal[j].events > 0 =>
            i \in journal[j].base

\* A world whose proposal would pass the sequence check is the world of the
\* whole journal; any older one is refused and rebuilt before it commits.
OnlyCurrentWorldsCommit ==
    \A p \in Process :
        committedSeq > 0 /\ runtime[p].nextSeq = committedSeq + 1 =>
            runtime[p].seen = DOMAIN journal

\* The checkpoint holds the rows up to its cursor and no other, so that it
\* and the suffix are the whole journal.
CheckpointIsPrefix ==
    \A p \in Process :
        /\ Checkpoint(p).seen = 1 .. Checkpoint(p).cursor
        /\ ~Checkpoint(p).phantom
        /\ Recovered(p).seen = DOMAIN journal

\* The store behaves as one serial world would: every commit of every process
\* is one step of that world, and nothing else moves it.  (Records without
\* events keep this; a rejected one does not, because no world that fails to
\* commit can be rebuilt behind it.)
serial == INSTANCE SerialWorld WITH
    worldSeq <- IF committedSeq = 0 THEN SeedSeq ELSE committedSeq,
    version  <- [e \in Entity |-> IF storeVersion[e] = 0
                                  THEN InitialVersion[e] ELSE storeVersion[e]],
    minted   <- storeClaims
SerialSpec == serial!Spec

\* A process that keeps polling ends with every commit of the others in
\* memory, without committing anything itself.  (A process that rebooted may
\* miss the rows that land between its replay and its first head read.)
FinishSystem(p) ==
    \E r \in Record : Commit(p, "system", r) \/ CommitFails(p, "system", r)
FairSpec ==
    /\ Spec
    /\ \A p \in Process :
        WF_vars(Sync(p)) /\ WF_vars(BeginServing(p)) /\ WF_vars(FinishSystem(p))
Converges ==
    \A p \in Process : <>[](boot[p] = 0 => runtime[p].seen = DOMAIN journal)

-----------------------------------------------------------------------------
(* What the documentation says and the code does not keep.                 *)

\* "accepted actions ... Startup replays it through the kernel": the journal
\* can be replayed by every process at any time.
JournalReplays == \A p \in Process : Replayable(p)

\* "Reconcile the restored event cursor with the durable commit point": the
\* next event of a rebuilt world is one the commit path accepts.
RestoredCursorCommits ==
    \A p \in Process : \A r \in Record : SequenceValid(Recovered(p), r)

\* "Durable projections poll the shared action journal": the poll brings every
\* process up to the head of the journal, one that has just booted as well.
PollingCatchesUp == \A p \in Process : <>[](runtime[p].seen = DOMAIN journal)
=============================================================================
