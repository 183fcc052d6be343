---------------------------- MODULE DurableRecovery ----------------------------
(***************************************************************************)
(* One process that checkpoints and compacts its store                     *)
(* (src/v2/orchestrator-rust/src/snapshot_persistence.rs,                  *)
(* journal_checkpoint.rs, the boot in main.rs).  Commits go to SQLite in   *)
(* WAL mode with synchronous = NORMAL, so a hard stop may take back the    *)
(* latest ones.  A writer thread turns captures of the world into a        *)
(* checkpoint file, by a rename without a file sync, and then deletes the  *)
(* journal rows the checkpoint stands for.  A boot reads the checkpoint    *)
(* and replays the rows after it.                                          *)
(*                                                                         *)
(* Each row numbers one event, so that journal_seq and committed_seq are   *)
(* one number; the events of the seed are left out.  The resident          *)
(* continuity file, which follows every job, has no cursor and is left out.*)
(***************************************************************************)
EXTENDS Integers, Sequences

CONSTANTS
    Ordered,          \* whether syncing the store makes earlier renames durable
    RebuildsSucceed,  \* whether a rebuild after a rollback always succeeds
    Readable,         \* whether the guard can always read the commit point
    MaxRecords, MaxStops   \* bounds of the model

ASSUME DurableAssumption ==
    /\ Ordered \in BOOLEAN /\ RebuildsSucceed \in BOOLEAN
    /\ Readable \in BOOLEAN
    /\ MaxRecords \in Nat /\ MaxStops \in Nat

VARIABLES
    store,    \* action_journal and its compaction floor, as SQLite reports them
    disk,     \* the same as at the last sync: what a hard stop leaves
    file,     \* the checkpoint file as the operating system reports it
    fileDisk, \* the checkpoint file a hard stop leaves
    world,    \* RuntimeWorld: its effects in order, and its two cursors
    writer,   \* SnapshotWriter: the claim, the channel and the job at work
    power,    \* how far the process is: down, serving, draining or unbootable
    minted,   \* number of records decided so far, which names the next one
    truth,    \* history: the rows committed, as far as no hard stop lost them
    stops     \* history and bound: kills and hard stops

durableVars == <<store, disk, file, fileDisk, world, writer, power, minted, truth, stops>>

Seed == [effects |-> <<>>, cursor |-> 0, next |-> 1]
NoJob == [snap |-> Seed, flush |-> FALSE, head |-> 0, stage |-> "none"]
QuietWriter == [claimed |-> FALSE, channel |-> <<>>, job |-> NoJob]

World == [effects : Seq(1..MaxRecords), cursor : 0..MaxRecords, next : 1..MaxRecords + 1]
SnapshotJob == [snap : World, flush : BOOLEAN, head : 0..MaxRecords,
         stage : {"none", "queued", "sync", "rename", "compact"}]
IsStore(s) == /\ DOMAIN s.rows \subseteq 1..MaxRecords
              /\ \A i \in DOMAIN s.rows : s.rows[i] \in 1..MaxRecords
              /\ s.floor \in 0..MaxRecords

\* The channel holds one message (sync_channel(1)).
DurableTypeOK ==
    /\ IsStore(store) /\ IsStore(disk)
    /\ file \in World /\ fileDisk \in World /\ world \in World
    /\ writer.claimed \in BOOLEAN /\ writer.job \in SnapshotJob
    /\ Len(writer.channel) <= 1
    /\ \A i \in DOMAIN writer.channel : writer.channel[i] \in SnapshotJob
    /\ power \in {"down", "serving", "draining", "unbootable"}
    /\ minted \in 0..MaxRecords /\ truth \in Seq(1..MaxRecords)
    /\ stops \in 0..MaxStops
-----------------------------------------------------------------------------
(* The store and what is restored from it.                                 *)

LatestSeq(s) == IF s.rows = <<>> THEN 0
                ELSE CHOOSE i \in DOMAIN s.rows : \A k \in DOMAIN s.rows : k <= i

RowsAfter(s, seq) == [i \in 1..LatestSeq(s) - seq |-> s.rows[seq + i]]

\* A checkpoint that may be read with this store: it has a cursor, is not
\* behind the compacted floor and not ahead of the journal.
Usable(f, s) == f.cursor > 0 /\ s.floor <= f.cursor /\ f.cursor <= LatestSeq(s)

\* A store whose rows were compacted needs a matching checkpoint.
Restorable(s, f) == Usable(f, s) \/ s.floor = 0

Replay(w, s) == [effects |-> w.effects \o RowsAfter(s, w.cursor),
                 cursor |-> LatestSeq(s),
                 next |-> w.next + LatestSeq(s) - w.cursor]

\* advance_runtime_next_event_seq_from_store: the commit point wins.
ReconciledWith(w, s) == IF LatestSeq(s) = 0 THEN w ELSE [w EXCEPT !.next = LatestSeq(s) + 1]

Restored(s, f) ==
    ReconciledWith(CASE s.rows = <<>>  -> f
                     [] Usable(f, s)   -> Replay(f, s)
                     [] OTHER          -> Replay(Seed, s), s)
-----------------------------------------------------------------------------
(* Captures.                                                               *)

Captured(flush) == [NoJob EXCEPT !.snap = world', !.flush = flush, !.stage = "queued"]

\* The channel takes one message; a sender waits for room.
Scheduled(wr, flush) == [wr EXCEPT !.channel = Append(@, Captured(flush))]

\* Mutant: the claim and the room in the channel are not looked at.
PersistAnyTime ==
    \/ writer' = writer
    \/ writer' = Scheduled([writer EXCEPT !.claimed = TRUE], FALSE)

\* persist_runtime: nothing within the minimum interval or while a regular
\* write is outstanding; else claim, capture and send.  Its callers hold the
\* runtime lock, so no commit comes between the capture and the send.
PersistRuntime ==
    \/ writer' = writer
    \/ /\ ~writer.claimed
       /\ writer.channel = <<>>
       /\ writer' = Scheduled([writer EXCEPT !.claimed = TRUE], FALSE)

DurableInit ==
    /\ store = [rows |-> <<>>, floor |-> 0] /\ disk = store
    /\ file = Seed /\ fileDisk = Seed /\ world = Seed
    /\ writer = QuietWriter
    /\ power = "serving"
    /\ minted = 0 /\ truth = <<>> /\ stops = 0

Decide == power = "serving" /\ minted < MaxRecords /\ minted' = minted + 1

\* validate_next_world_sequence: the next event follows the commit point.
SequenceHolds == world.next = LatestSeq(store) + 1

CommitRecord ==
    /\ Decide
    /\ SequenceHolds
    /\ LET seq == LatestSeq(store) + 1
           rows == [i \in DOMAIN store.rows \cup {seq} |->
                       IF i = seq THEN minted' ELSE store.rows[i]]
       IN /\ store' = [store EXCEPT !.rows = rows]
          /\ world' = [effects |-> Append(world.effects, minted'),
                       cursor |-> seq, next |-> world.next + 1]
    /\ truth' = Append(truth, minted')
    /\ PersistRuntime
    /\ UNCHANGED <<disk, file, fileDisk, power, stops>>

\* The record was applied in memory and its transaction rolled back.  The
\* world is rebuilt; if that fails the effect stays in memory.
CommitRollsBack ==
    /\ Decide
    /\ \/ /\ Restorable(store, file)
          /\ world' = Restored(store, file)
       \/ /\ ~(RebuildsSucceed /\ Restorable(store, file))
          /\ world' = [world EXCEPT !.effects = Append(@, minted'), !.next = @ + 1]
    /\ PersistRuntime
    /\ UNCHANGED <<store, disk, file, fileDisk, power, truth, stops>>

\* The answer of a command is remembered and the world persisted with it.
Remembered ==
    /\ power = "serving"
    /\ UNCHANGED world
    /\ PersistRuntime
    /\ writer' # writer
    /\ UNCHANGED <<store, disk, file, fileDisk, power, minted, truth, stops>>

\* Mutant: the last capture is written at once, past the writer thread.
FinalSnapshotDirect ==
    /\ power = "serving"
    /\ file' = world
    /\ power' = "draining"
    /\ UNCHANGED <<store, disk, fileDisk, world, writer, minted, truth, stops>>

\* persist_final_snapshot: a last job, which the server waits for with the
\* runtime lock held and then ends.
FinalSnapshot ==
    /\ power = "serving"
    /\ writer.channel = <<>>
    /\ UNCHANGED world
    /\ writer' = Scheduled(writer, TRUE)
    /\ power' = "draining"
    /\ UNCHANGED <<store, disk, file, fileDisk, minted, truth, stops>>
-----------------------------------------------------------------------------
(* The writer thread.                                                      *)

Stage(to) == writer' = [writer EXCEPT !.job.stage = to]

\* Mutant: the end of a regular job keeps its claim.
JobEndsClaimed ==
    IF writer.job.flush
    THEN power' = "down" /\ writer' = QuietWriter /\ world' = Seed
    ELSE writer' = [writer EXCEPT !.job = NoJob] /\ UNCHANGED <<power, world>>

\* The end of a job releases the claim of a regular write, whether the job
\* succeeded or not; the last job's end ends the process.
JobEnds ==
    IF writer.job.flush
    THEN /\ power' = "down" /\ writer' = QuietWriter /\ world' = Seed
    ELSE /\ writer' = [writer EXCEPT !.claimed = FALSE, !.job = NoJob]
         /\ UNCHANGED <<power, world>>

JobGoesOn(to) == Stage(to) /\ UNCHANGED <<power, world>>

\* The commit point and the journal head, which is read before the sync.
ReadHead ==
    /\ writer.job = NoJob
    /\ writer.channel # <<>>
    /\ LET job == writer.channel[1]
           taken == [job EXCEPT !.head = LatestSeq(store), !.stage = "sync"]
       IN writer' = [writer EXCEPT !.channel = <<>>, !.job = taken]
    /\ UNCHANGED <<store, disk, file, fileDisk, world, power, minted, truth, stops>>

LeadsCommitPoint(job) == job.head # 0 /\ job.snap.next > job.head + 1

\* Mutant: the head is read without a checkpoint of the WAL.
SyncNothing == UNCHANGED <<disk, fileDisk>>

\* durable_action_journal_head: a full WAL checkpoint; busy proves nothing.
SyncStore ==
    /\ disk' = store
    /\ fileDisk' = IF Ordered THEN file ELSE fileDisk

HeadIsDurable(job) == job.snap.cursor <= job.head

\* A checkpoint passes if it leads neither the commit point nor a head that
\* was proven durable; it is refused if it leads one of them, or if the proof
\* fails.  When the commit point cannot be read it passes as it is, with
\* nothing compared and nothing synced.
GuardCheckpoint ==
    /\ writer.job.stage = "sync"
    /\ \/ /\ ~LeadsCommitPoint(writer.job)
          /\ SyncStore
          /\ IF HeadIsDurable(writer.job) THEN JobGoesOn("rename") ELSE JobEnds
       \/ JobEnds /\ UNCHANGED <<disk, fileDisk>>
       \/ ~Readable /\ JobGoesOn("rename") /\ UNCHANGED <<disk, fileDisk>>
    /\ UNCHANGED <<store, file, minted, truth, stops>>

\* Mutant: a failed rename is only logged, and compaction goes on.
RenameOrNot ==
    /\ writer.job.stage = "rename"
    /\ \/ file' = writer.job.snap
       \/ UNCHANGED file
    /\ JobGoesOn("compact")
    /\ UNCHANGED <<store, disk, fileDisk, minted, truth, stops>>

\* write_json_atomically: the temporary file has no reader, the rename is
\* seen at once and is on disk some time later.
RenameCheckpoint ==
    /\ writer.job.stage = "rename"
    /\ \/ file' = writer.job.snap /\ JobGoesOn("compact")
       \/ JobEnds /\ UNCHANGED file
    /\ UNCHANGED <<store, disk, fileDisk, minted, truth, stops>>

\* Mutant: the checkpoint's own row goes too.
KeptAfter(s, snap) == {i \in DOMAIN s.rows : i > snap.cursor}

\* The rows the checkpoint stands for, its own excepted.
Kept(s, snap) == {i \in DOMAIN s.rows : i >= snap.cursor}

\* Only a checkpoint at the head of the journal is a frontier.
AtFrontier(s, snap) == snap.cursor > 0 /\ snap.cursor = LatestSeq(s)

Compacted(s, snap) ==
    LET kept == Kept(s, snap)
    IN IF kept = DOMAIN s.rows THEN s
       ELSE [rows |-> [i \in kept |-> s.rows[i]], floor |-> snap.cursor]

\* Compaction is due after 512 rows or five minutes, so it may come with any
\* checkpoint or not; an error is only logged.
CompactStore ==
    /\ writer.job.stage = "compact"
    /\ \/ /\ AtFrontier(store, writer.job.snap)
          /\ store' = Compacted(store, writer.job.snap)
       \/ UNCHANGED store
    /\ JobEnds
    /\ UNCHANGED <<disk, file, fileDisk, minted, truth, stops>>
-----------------------------------------------------------------------------
(* The operating system, stops and boots.                                  *)

WriteBackStore ==
    /\ disk # store
    /\ SyncStore
    /\ UNCHANGED <<store, file, world, writer, power, minted, truth, stops>>

WriteBackFile ==
    /\ fileDisk # file
    /\ fileDisk' = file
    /\ UNCHANGED <<store, disk, file, world, writer, power, minted, truth, stops>>

Stop ==
    /\ power # "down"
    /\ stops < MaxStops /\ stops' = stops + 1
    /\ power' = "down" /\ world' = Seed /\ writer' = QuietWriter
    /\ UNCHANGED <<disk, fileDisk, minted>>

\* The process stops: the operating system keeps what it was told.
KillProcess == Stop /\ UNCHANGED <<store, file, truth>>

\* The machine stops: what was not synced is lost.
HardStop ==
    /\ Stop
    /\ store' = disk /\ file' = fileDisk
    /\ truth' = SubSeq(truth, 1, LatestSeq(disk))

\* A production boot fails closed when it cannot replay.
BootProcess ==
    /\ power = "down"
    /\ IF Restorable(store, file)
       THEN power' = "serving" /\ world' = Restored(store, file)
       ELSE power' = "unbootable" /\ UNCHANGED world
    /\ UNCHANGED <<store, disk, file, fileDisk, writer, minted, truth, stops>>

WriterStep == ReadHead \/ GuardCheckpoint \/ RenameCheckpoint \/ CompactStore

DurableNext ==
    \/ CommitRecord \/ CommitRollsBack \/ Remembered \/ FinalSnapshot
    \/ ReadHead \/ GuardCheckpoint \/ RenameCheckpoint \/ CompactStore
    \/ WriteBackStore \/ WriteBackFile
    \/ KillProcess \/ HardStop \/ BootProcess

DurableSpec == DurableInit /\ [][DurableNext]_durableVars
-----------------------------------------------------------------------------
(* Properties.  Ordered, RebuildsSucceed and Readable are assumptions of   *)
(* all but the last; the README says what happens without them.            *)

\* Whatever was compacted, the checkpoint and the rows that are left restore
\* every committed record, and nothing else, after the process was killed.
KillLosesNothing ==
    /\ Restorable(store, file)
    /\ Restored(store, file).effects = truth

\* A hard stop at any moment leaves a store and a checkpoint that a boot can
\* read, and loses no record but the latest: the outages the guard of
\* checkpoint_cursor_is_durable was written for.
HardStopLosesASuffix ==
    /\ Restorable(disk, fileDisk)
    /\ Restored(disk, fileDisk).effects = SubSeq(truth, 1, LatestSeq(disk))

\* Both: of the committed records only the latest can be lost, and only by a
\* hard stop.
StopsKeepRecords == KillLosesNothing /\ HardStopLosesASuffix

\* "A checkpoint whose [...] action_journal_seq leads the durable
\* action-journal head is not a valid checkpoint"
\* (snapshot_persistence.rs:123): none is ever in place.
CheckpointIsDurable == file.cursor <= LatestSeq(disk) /\ fileDisk.cursor <= file.cursor

\* A checkpoint is only replaced by a later one, unless the machine stops: a
\* capture that waited in the channel never overwrites a newer file.
CheckpointNeverRegresses ==
    [][stops' = stops => file'.cursor >= file.cursor]_durableVars

\* A store and a checkpoint stand for the records a boot makes of them.  What
\* kills leave is a log, what hard stops leave is its safe part, and no commit,
\* checkpoint or compaction does anything else to the two.
Stand(s, f) == IF Restorable(s, f) THEN Restored(s, f).effects ELSE <<>>

records == INSTANCE DurableLog WITH log <- Stand(store, file), safe <- Stand(disk, fileDisk)

RecoverableSpec == records!Spec

\* A claimed regular write ends in its release, also when the guard refuses
\* it or the disk does: a claim that stayed would end all checkpoints.
WriteClaimIsReleased == writer.claimed ~> ~writer.claimed
=============================================================================
