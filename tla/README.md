# CosyWorld: a verification project for the orchestrator

CosyWorld is a persistent multiplayer world.  A deterministic kernel in C holds
the rules; a Rust orchestrator (`src/v2/orchestrator-rust`) feeds it actions,
journals them in SQLite, answers HTTP commands and streams events.  Several
orchestrator processes may serve one world: they share one event store, each
keeps its own copy of the world in memory, and leases on room partitions decide
who may commit where.  That commit protocol, and the life of the command that
leads to it, are what this project models first: whatever else the system does
ends in a record that goes through them.  The outbox that makes residents answer
to a player's card, over the same store and the same processes, follows.  Three
further parts surround them: what a checkpoint, a compaction and a stop leave of
the store, how the world moves to a recovery region, and the ordered combat
scene, in which requests, automated beats and a recovery sweep share turns.

Paths below are relative to `src/v2/orchestrator-rust/src/` unless they start
with `v2/` (then relative to `src/`).


## 1. The system

### 1.1 Parts and status

| Part | State it keeps | Operations | Status |
|---|---|---|---|
| Canonical commit (`main.rs` `commit_journal_record*`, `canonical_journal.rs`, `canonical_world.rs`) | journal, commits, world sequence, entity versions, claims in the store; one `RuntimeWorld` per process | check and renew leases, append, apply in memory, acquire extra leases, compare-and-set sequence/versions/claims, commit or roll back and rebuild | `CanonicalCommit` |
| Partition leases (`canonical_journal.rs`) | `canonical_partition_leases`: owner, fence, expiry | acquire, reuse, renew, take over when expired, operator handoff | `CanonicalCommit` |
| Foreign commits, boot, recovery (`main.rs`, `journal_checkpoint.rs`) | `canonical_applied_journal_seq`, the world in memory | poll and rebuild, restore at boot, rebuild after a rollback | `CanonicalCommit`, in part |
| Snapshot checkpoint (`snapshot_persistence.rs`, `canonical_journal.rs`) | one file per process; a writer thread with a one-message channel and a claim | capture under the runtime lock, guard against the durable head, rename, last write at shutdown | `DurableRecovery`; beside other processes in `CanonicalCommit` |
| Command intents and forwarding (`main.rs` `command_with_forwarding`, receipts) | receipts, a receipt cache and a command lock per process | look up, forward, execute, commit with a provisional receipt, finalize, prune, purge | `CommandIntents` |
| Region replication and promotion (`canonical_journal.rs`, internal routes of `main.rs`) | per store: identity, active region and epoch, fences, recorded checkpoints | copy, hash, record twice, promote, refuse the other region; the operator cuts off and lets back | `RegionFailover` |
| Actor jobs (`actor_jobs.rs`, the worker and `complete_player_tick_*` of `main.rs`, `card_policy_objective.rs`) | job rows with lease, attempts, backoff | enqueue with a commit, claim, observe, act, reply, complete, fail or retry, dead-letter | `ActorJobs`, in part |
| Compaction, startup, shutdown (`canonical_journal.rs`, `journal_checkpoint.rs`, `startup.rs`, `shutdown.rs`) | journal rows behind a checkpoint, the compaction floor | compact, restore or fail closed, drain | `DurableRecovery`, in part |
| Ordered scenes (`combat.rs`, `turns.rs`) | the kernel's encounter, what the event log says of the turn, session ages, a recovery tracker | declare, join, act, need time, nudge, beat, sweep, abandon | `CombatScene`, in part: combat only |
| World kernel (`v2/core-c`) | a world struct | apply, pure and deterministic | its encounter in `CombatScene`; elsewhere its accept/reject and its number of events are inputs |
| Projection cache and SSE (`projection_cache.rs`, `event_replay_store.rs`) | cached reads, per-stream cursors | read, invalidate, resume | not modelled |
| Spine prototype (`v2/spine-rust`) | kernel world, journal, projections, turns | commit, snapshot, restore, replay | not modelled: nothing in the live system uses it |
| Game rules, transfers, autonomy, AI gateway, accounts, content packs, clients, infrastructure | see `PROJECT.json` | | not modelled: they propose records or refuse requests |

### 1.2 How the parts interact

1. A client posts a command to some process.  The handler first takes in
   foreign commits (`sync_canonical_capacity_once`), then takes the process's
   *command lock*, looks the intent up in the receipt cache and in the store,
   and acquires the lease of the actor's room.  If another process holds that
   lease the envelope is forwarded there, once, with a ten-second limit.
2. The executing process runs the domain handler, which commits one or more
   journal records under the *runtime lock*.  A system record (autonomy, jobs,
   timers) acquires its leases itself and commits under the same lock.
3. A commit is one immediate SQLite transaction.  The record is applied to the
   world in memory *inside* it; if a later check refuses, the transaction is
   rolled back and the world is rebuilt from checkpoint and journal.
4. Every other process learns of the commit by polling the head of the journal
   and rebuilding its world.
5. The effect and a *provisional* receipt commit together.  Once the complete
   answer is known the receipt is finalized and can be returned to a retry.
6. A process with a snapshot path captures its world under the runtime lock and
   hands it to a *writer thread*, which syncs the store, replaces the checkpoint
   file and may then delete the journal rows the checkpoint stands for; boot and
   rebuild start from checkpoint and rows.
7. A card's commit also arms its room's *heartbeat*, a row of `actor_jobs`, in
   the same transaction.  The worker of some process claims the row under a
   lease of 120 s and lets the residents react; the spoken reply waits for a
   model in a task of its own while the worker goes on.
8. An internal route copies the store to the recovery region's and records a
   *checkpoint*, the proof of the copied prefix, in both; another promotes the
   recovery store if it still is the prefix an operator approved.
9. A combat request drives, under one runtime lock, an automated *beat*, the
   player's own turn and another beat, each a commit of its own.  A scheduler
   task sweeps all scenes every second, passes for players who are away, and
   closes a scene that keeps refusing.

### 1.3 What is hard here

* Two copies of one world that both believe they are current; a lease that
  lapses between the decision and the commit; a handoff in the middle of it.
* An in-memory effect whose transaction is rolled back.
* A restart under the same process name: the owner id must be a new one.
* Bootstrapping: a store at sequence 0 meets a world that numbered its own seed.
* A caller that goes away at an await: a Rust future is simply dropped.
* Two processes that forward to each other, each with its command lock taken.
* The journal head read before, and used after, the lock that protects it.
* A job selected by one statement and claimed by another; an attempt that is
  still at work when its lease has run out; a retry of what was committed.
* A capture that waits in a channel while the store moves on, a rename that is
  visible before it is durable, and rows deleted on the strength of it.
* Two stores in two regions, neither of which can fence the other.
* A turn order that joins, escapes, knockouts from outside the scene and passes
  from three sources edit at once, with a recovery budget that must close the
  stuck scenes and no other.

`PROJECT.json` lists the hazards one by one, each at its line, with the
properties that catch it; those without a property say why.

### 1.4 What makes each part correct

* *Commit*: one order of fences per partition, gap-free event numbers, versions
  that grow, claims minted once, no commit from a world that misses a row.
* *Leases*: a fence names one owner; a live lease changes hands by handoff only.
* *Recovery*: checkpoint plus suffix is the whole journal; a process that polls
  ends up with every commit.
* *Intents*: one effect per kept receipt; an answer is for one envelope; a
  finalized answer stands; every request ends.
* *Jobs*: one attempt works on a job, a card is answered once, a settled job
  rests, a lost worker's job is taken over and ends.
* *Durability*: what compaction deleted is in a checkpoint that survives; a kill
  loses nothing, a hard stop the latest records only.
* *Failover*: at most one region commits, on the rows of the world; authority
  only passes on; a recorded checkpoint never gets older.
* *Scenes*: the announced turn is the held one, a turn begins with an able
  holder and two able sides, nobody able is passed over, a turn that is overdue
  ends, and only a scene that cannot go on is closed without a winner.


## 2. The modules

| Module | What it is |
|---|---|
| `SerialWorld` | The abstract store: one writer, one growing sequence, versions, claims. |
| `CanonicalCommit` | The commit protocol of any number of processes over one store. |
| `MCCanonicalCommit` | Record shapes and instances for TLC. |
| `CanonicalCommitProofs` | Types, the lease invariant, fencing. |
| `CanonicalStoreProofs` | Claims, versions, sequence, the lease action property; the in-memory worlds and checkpoints: no lost update, only current worlds commit, checkpoints are prefixes; rows with events beside silent records; `CanonicalCommit` implements `SerialWorld`. |
| `IntentLedger` | The abstract ledger of intents: open, applied or answered, with truthful answers. |
| `CommandIntents` | The life of a command envelope over several processes. |
| `MCCommandIntents` | Its instances for TLC. |
| `CommandIntentsProofs` | Types, effects once, refusals exclude effects, an "ok" means an effect, final answers stand; `CommandIntents` implements `IntentLedger`, and what that promises; command locks are held by one request each and never left behind. |
| `ActorJobs` | The outbox of resident heartbeats and its workers. |
| `MCActorJobs` | Its instance for TLC, beside one of `CommandIntents`: a behaviour is one of one of them. |
| `ActorJobsProofs` | Types, exclusive claims, one heartbeat per room, one answer per card, settled jobs rest, numbers tell attempts apart. |
| `DurableLog` | The abstract store that can be lost: a log and a safe part of it, to which alone it falls back. |
| `DurableRecovery` | Checkpoints, compaction, stops and boots of one process. |
| `DurableRecoveryProofs` | What a kill and a hard stop leave; checkpoints are durable and advance; `DurableRecovery` implements `DurableLog`; types, and claims that have jobs, whatever the environment does. |
| `RegionFailover` | Recovery replicas and their promotion. |
| `RegionFailoverProofs` | Types, the order of epochs, one writing region, checkpoints that grow; `RegionFailover` implements `DurableLog`. |
| `CombatScene` | One ordered combat scene and its recovery. |
| `CombatSceneProofs` | Types, turns begin able, the announced turn is held, nobody is passed over, only stuck scenes close, overdue turns run out. |
| `MCParts` | The last three side by side for TLC: a behaviour is one of one of them. |
| `PartsProofs` | A behaviour of `MCParts` is one of each part; types. |

### 2.1 CanonicalCommit

State and code:

| Variable | Code |
|---|---|
| `lease` | `canonical_partition_leases`; fence 0 where there is no row |
| `committedSeq`, `storeVersion`, `storeClaims` | `canonical_world_state`, `canonical_entity_versions`, `canonical_claims` |
| `journal` | `action_journal` joined with `canonical_commits`; a row also records what its committer had in memory (`base`, `phantom`), which the code does not store |
| `runtime[p]` | the parts of `RuntimeWorld` the protocol reads: `next_event_seq`, entity versions, claims, the journal cursor; `seen` and `phantom` are history |
| `applied[p]` | `canonical_applied_journal_seq` |
| `held[p][slot]` | the leases copied into a running command or a system record |
| `boot[p]`, `serving[p]` | a boot's fresh owner id; whether it has read the journal head |
| `snapshot[p]` | the checkpoint file |

Actions: `BeginCommand` and `BeginSystem` (acquisition), `Commit` and
`CommitFails` (the whole of `commit_journal_record_blocking`: which of the two a
transaction ends in follows from its checks, but a store failure may refuse any),
`EndCommand`, `Sync`, `Handoff`, `Restart` and `BeginServing` (boot in two
steps), `PersistSnapshot`, `Tick`.

A record is its shape: the rooms it names, those its events name, whether the
kernel accepted it, how many events it numbered, the entities and claims it
changed.  Everything else a record carries is data no property tells apart.

Assumptions, all named in the module or here:

* One clock.  The processes compare `now_millis` with expiries written by each
  other; clock skew between hosts is not modelled.  (Fencing does not need it:
  the proofs never compare two readings of the clock.)
* `RecordAssumption`: only a successful event bumps a version, and a rejected
  record claims nothing, as in `bump_entity_versions_for_events` and the claim
  helpers of `canonical_world.rs`.
* Restoring fails only on a journal that does not replay, and boot fails closed
  then, as in production.
* The in-memory apply and the transaction are one step: both happen under the
  runtime lock.  Capture and write of a snapshot are one step as well; an older
  capture is a shorter prefix, which is as good a checkpoint.
* The region check of the same transactions passes.

### 2.2 CommandIntents

`pc[c]` follows one connection through `command_with_forwarding`: `queued` for a
command lock, `checked` (looked up), `leased`, `fenced` (its lease ran out under
it), `refused` or `failed` (nothing committed), `replying`, `storing`.  The
commit is one step here, and a lease is its owner alone: what a lease protects
is `CanonicalCommit`'s matter.  `origin[c]` and `at[c]` are the process that was
called and the one that serves; `lock[p]` is the command lock, which the
forwarding process keeps.  `receipts`, `recent` (order of finalized rows, for
pruning) and `cache[p]` are the receipts; `effects` and `purged` are history.

Dropped futures are actions: `Disconnect` and `ForwardTimeout` end a handler at
any await, up to the one before the finalizing write.  `CommitFails` stands for
every rolled-back transaction, and `StoreAnswer` may fail.  `Crash` stops a
process anywhere.  `RefuseEarly` stands for every refusal before the lease.

Assumptions: explicit intent ids (a compat envelope keeps no receipt);
a disconnect ends the forwarding and the forwarded handler together; the
executing process's `DropCache` covers every rebuild and eviction, `Purge` every
removal by retention.

### 2.3 ActorJobs

State and code:

| Variable | Code |
|---|---|
| `row` | `actor_jobs`: status, actor, room, attempts; `lease` is what the claim reads of `lease_until_ms` (live or lapsed), `ready` what it reads of `available_at_ms`, and `due` that column's value, which each retry sets anew |
| `chosen[w]` | the row a worker's `SELECT` returned and its `UPDATE` compares, field by field |
| `tasks` | the attempts at work: in the worker's loop (`inline`) or spawned as a reply |
| `effects` | history: consequences, turns and lines committed on account of a job |
| `failures` | history and bound: processes stopped, writes failed |

Actions: `Enqueue` (with the card's commit), `Select` and `Claim` or `LoseClaim`
(the two statements of `claim_next_actor_job_filtered`, between which another
process may act), `Observe`, `Act`, `Reply` (the three places where an attempt
commits), `Settle` and `SettleFails`, `Wake` and `Lapse` (the two times pass),
`Crash`.

Worth knowing of the code, and so of the model:

* That an actor has no other live attempt is checked by the `SELECT` and not by
  the `UPDATE`: two processes can run two jobs of one actor at once, and do so in
  `JobsPrompt`.
* A retry finds an earlier result of the card, of whichever kind, and completes
  in silence: a stop between the consequence and the line loses the line.
* A line whose commit is refused counts as done and is not tried again.
* A settlement names the job and not the attempt.

`Prompt` is an assumption about the environment: every attempt ends before its
lease does.  The code does not enforce it; finding 6 is what happens without it.

Assumptions: heartbeats without a relationship reply, with a payload that
parses; a store is configured; each commit is made by a world that has taken in
the other processes' commits (`CanonicalCommit` shows that any other is refused).

### 2.4 DurableRecovery

One process; routed processes never compact, so more than one adds nothing to
what compaction may delete (`CommitSerial` has the checkpoint beside others).

| Variable | Code |
|---|---|
| `store`, `disk` | `action_journal` and its compaction floor as SQLite reports them, and as they were at the last sync (WAL, `synchronous = NORMAL`) |
| `file`, `fileDisk` | the checkpoint as the operating system reports it, and what a hard stop leaves of it: `write_json_atomically` renames without a file sync |
| `world` | `RuntimeWorld`: its effects in order, the journal cursor and `next_event_seq` |
| `writer` | `SnapshotWriter`: the claim of a regular write, the channel of one message, the job at work with its stage |
| `power` | down, serving, draining (the last snapshot is waited for) or unbootable |
| `minted`, `truth`, `stops` | history: the names of records, the rows committed and not lost, kills and hard stops |

Actions: `CommitRecord` and `CommitRollsBack` (each may end in a capture,
`PersistRuntime`), `Remembered`, `FinalSnapshot`; the writer's steps `ReadHead`,
`GuardCheckpoint`, `RenameCheckpoint`, `CompactStore`; `WriteBackStore` and
`WriteBackFile` of the operating system; `KillProcess`, `HardStop`,
`BootProcess`.

Three assumptions are constants, because they carry the result; with any of them
`FALSE` the model has the behaviour, and TLC shows what fails:

* `Ordered`: a sync of the store makes earlier renames durable, as a journaling
  file system in ordered mode does.  Without it `HardStopLosesASuffix` fails:
  compaction may delete rows whose checkpoint a hard stop takes back.
* `RebuildsSucceed`: a rebuild after a rollback succeeds where it can.  Without
  it `KillLosesNothing` fails: the effect of the rolled-back record stays in
  memory and the next capture writes it into a checkpoint (`main.rs:20889`,
  `main.rs:28811`).  A rebuild can fail with no fault in the store, when a
  rename and a compaction come between its two reads
  (`journal_checkpoint.rs:237`).
* `Readable`: the guard can read the store's commit point.  Where it cannot, the
  code lets the write proceed (`snapshot_persistence.rs:148-152`), so
  `GuardCheckpoint` goes on to the rename with no cursor compared and no log
  flushed, and the journal may be compacted behind it.  Without the assumption
  `CheckpointIsDurable` fails at the rename, `HardStopLosesASuffix` (and with it
  `StopsKeepRecords`) and `RecoverableSpec` fail by a hard stop over a compacted
  floor, after which no boot succeeds, and `CheckpointNeverRegresses` fails by
  one at floor 0, after which the boot replays the shorter journal.  This is
  finding 7.

The last and the first are about hard stops only: if none takes anything back
(`ReportedSpec`), `KillLosesNothing` and `CheckpointNeverRegresses` need neither
(`KillsAloneLoseNothing`, `CheckpointsAdvanceAlone`).

Each row numbers one event, so `journal_seq` and `committed_seq` are one number;
`world_events` and the commit ranges, which follow the same cut, are left out.

### 2.5 RegionFailover

`site[r]` is the store of a region (identity, authority and epoch, journal rows,
the fence of the one partition's lease row, the checkpoints on record);
`lease[r]` the fence its process holds; `request` are the
`replicate_canonical_store` calls in progress, each step a transaction or read of
its own (`Backup`, `HashReplica`, `RecordOnReplica`, `RecordOnPrimary`,
`CheckpointFails`); `approved` is the checkpoint the operator keeps and hands to
`Promote`.  `CutOff` and `Rejoin` are the operator's, as
`v2/docs/canonical-world.md` prescribes; `mandate` is history: the rows of the
world.

`Fencing` says whether the source is cut off before a promotion.  Nothing in the
code can check it, since the two stores are two files, and without it
`OneRegionWrites` fails.  `EpochsOrderRows` holds either way.  Worth knowing:

* A request that fails after its backup, or two requests with a lease change
  between, leave a replica no approved checkpoint matches; its promotion is
  refused until another request succeeds (`canonical_journal.rs:1003`).
* A late request of an old region that was not cut off overwrites the promoted
  store, authority and all.
* What orders the rows of two epochs is the fence a new owner's acquisition
  raises; the raise at promotion comes on top of it.

### 2.6 CombatScene

`scene` holds the kernel's encounter (order, index, escaped and able actors), the
status of its job, and what the event log says of the turn (`announced`,
`extended`); `seen` is the age of each player's session in three steps (near,
near only if time was asked for, away); `tracker` is the scheduler's
`FocusedRecoveryTracker`.  `passing`, `lost` and `struck` are history.  A request
is one action, as it holds the runtime lock: `DeclareCombat`, `DeclareJoins`,
`TakeTurn`, `AskTime`, `Nudge`, each with the beats the handler drives before and
after.  `FeatureWins`, `Strand`, `Revive`, `EndJob`, `ResetJob` are the world
around; `Sweep` and `RestartProcess` the scheduler.

Initiative is drawn; hit points, rounds and places are left out.  Worth knowing
of the code, and so of the model:

* A resident that a room feature knocks out in its own turn decides nothing,
  "idle" clears the tracker, and the scene waits until somebody revives it or
  nudges (`combat.rs:816`).
* After a restart every session counts as not seen, so a player who is present
  may be passed within a second (`main.rs:29741`).
* A nudge passes a holder who is present.
* A declaration that joins a scene and gets the turn from the beat that follows
  panics, after join and beat were committed (`combat.rs:1460`).
* With `Stalls` (an able resident finds no offer it can play) the turn of that
  resident hangs; the run assumes it always finds one.

Focused *work* scenes (turns of a job without combat) share `turns.rs`; no
content pack that ships enables them, and they are not modelled.  Reading them
showed that a current participant who left the room makes pass records bind no
context (`turns.rs:615`, `turns.rs:300`), so that such a turn would never pass.


## 3. What the runs check

Two processes, one or two rooms.  Two processes are the smallest number in which
every hazard of the list occurs: each is about one process and one successor,
or about the writer and the reader of one row.

| Run | Checks | Bounds |
|---|---|---|
| `CommitAll` | `TypeOK`, `FencesOrderCommits`, `OneHolderPerFence`, `LeaseRowBoundsFences`, `GapFreeSequence`, `VersionsOrderCommits`, `ClaimsMintedOnce`, `LiveLeaseIsNotStolen` with accepted, silent and rejected records | journal of 2, fences to 2, one tick with `Ttl` 1: a lease is taken, lapses and is taken over, or is handed off, with a stale holder behind it |
| `CommitSerial` | `NoLostUpdate`, `OnlyCurrentWorldsCommit`, `CheckpointIsPrefix`, the refinement `SerialSpec`, and `Converges`, with one record shape that touches everything | journal of 3, one restart per process, one process with a checkpoint: checkpoint, two foreign rows, restart and rebuild fit |
| `IntentsRetried` | `TypeOK`, `EffectOnce`, `OkMeansEffect`, `RefusalMeansNoEffect`, the refinement `OneLedger` | one envelope twice, the same intent under another envelope, a second intent whose receipt displaces the first (`Capacity` 1), one crash or one purge of the intent that is retried |
| `JobsPrompt` | `TypeOK`, `ClaimsAreExclusive`, `OneHeartbeatPerRoom`, `AnsweredOnce`, `SettledJobsRest`, `EveryJobSettles`; of `CommandIntents`: `EveryRequestEnds` | two processes, two jobs of one actor in one room or two, two attempts before a job is dead, one crash or failed write; a third claim of a job is the one after a crash, and `MaxClaims` 3 cuts nothing off; beside it two clients in two rooms that may be leased crosswise, one crash, one purge |
| `Parts` | `PartsTypeOK` and, of `DurableRecovery`: `StopsKeepRecords` (`KillLosesNothing` and `HardStopLosesASuffix`), the refinement `RecoverableSpec`, `CheckpointIsDurable`, `CheckpointNeverRegresses`, `WriteClaimIsReleased`; of `RegionFailover`: `OneRegionWrites`, `EpochsOrderRows`, `CheckpointsNeverRegress`, the refinement `ApprovedRowsSurvive`; of `CombatScene`: `TurnsBeginAble`, `AnnouncedTurnIsHeld`, `NobodyIsPassedOver`, `OnlyStuckScenesClose`, `OverdueTurnsEnd` | four records and two stops: a checkpoint, a compaction, a later capture and a stop between any two steps, then the same after a boot; two regions, two overlapping requests, three rows, promotion there and back; two players and a resident, budgets of 2, one I/O failure or restart |
| `CommitRejected`, `CommitSilent`, `CommitFirstSilent`, `CommitBoot`, `IntentsLost`, `JobsLapsed`, `CheckpointUnread` | one documented statement each that the code does not keep (section 5) | the smallest instance that shows it |

Deadlock checking is off everywhere: the bounds on clock, fences, journal, boots
and sends let a model stop where the program would go on.

**Fairness.**  `CanonicalCommit!FairSpec` asks that a process keeps polling
(`Sync`: the poll loop runs every 100 ms and before each command), that a boot
goes on to serve, and that a system record that holds the runtime lock finishes,
as its function is synchronous.  It asks nothing of clients, timers or commits.
`MCActorJobs!PartsSpec` asks of a request of `CommandIntents` that it goes on as
long as it can (`GoesOn`): its handler runs, a free command lock is granted
(tokio's mutex is fair), or the forwarder's ten-second timer fires; any one of
them will do.  It asks nothing of clients, leases, crashes or disconnects.
`ActorJobs!Fairness`, in the same run, asks that each worker selects and claims (its loop polls
every two seconds), that an attempt runs on (a model's answer is awaited with a
timeout), and that the two times of a row come.  It asks nothing of players,
crashes or failed writes.
`MCParts!PartsSpec` asks that the writer thread works while it has a job (it is a
thread of its own that blocks on nothing but its channel) and that the combat
scheduler sweeps (every second).  It asks nothing of players, operators, file
systems or stops.

**Why each property could fail.**  `PROJECT.json` pairs every property with a
mutant of the code that breaks it: an owner id that survives a restart, a
takeover that keeps the fence, a sequence that is not compared, a rebuild that
skips the journal suffix, a receipt that does not stop a second commit, a
forwarder that waits without a limit, and so on.


## 4. What is proved

TLAPS proves the following for every set of processes, rooms, entities, claims
and records, and with no bound on anything that the guards do not name.

| Theorem | Statement |
|---|---|
| `TypeCorrect` | `Spec => []TypeOK` |
| `BoundedFences` | `Spec => []LeaseRowBoundsFences` |
| `UniqueHolders`, `FencedCommits` | `Spec => []OneHolderPerFence`, `Spec => []FencesOrderCommits` |
| `ClaimsOnce`, `VersionsGrow`, `GapFree` | `Spec => []ClaimsMintedOnce`, `[]VersionsOrderCommits`, `[]GapFreeSequence` |
| `NoStolenLease` | `Spec => LiveLeaseIsNotStolen` |
| `ImplementsSerialWorld` | `Spec => SerialSpec`, while the kernel accepts every record |
| `NoUpdateLost`, `CurrentWorldsCommit`, `CheckpointsArePrefixes` | `Spec => []NoLostUpdate`, `[]OnlyCurrentWorldsCommit`, `[]CheckpointIsPrefix`, given `EachRecordNumbers` |
| `NumberedSeen` | `Spec => []NumberedRowsAreSeen`, given `EachRecordIsAccepted` and no process with a checkpoint |
| `EffectsOnce`, `RefusalsExclude` | `CommandIntents!Spec => []EffectOnce`, `[]RefusalMeansNoEffect` |
| `IntentTypes`, `OkAnswers`, `FinalAnswers` | `CommandIntents!Spec => []TypeOK`, `[]OkMeansEffect`, `FinalAnswersStand` |
| `ImplementsLedger` | `CommandIntents!Spec => OneLedger` |
| `LedgerPromises` | `OneLedger => [](EffectOnce /\ RefusalMeansNoEffect /\ OkMeansEffect) /\ FinalAnswersStand` |
| `OneCommand`, `LocksAreWorked` | `CommandIntents!Spec => []OneCommandPerProcess`, `[]WaitersAreWaitedFor` |
| `JobTypes`, `NumbersTellAttempts` | `ActorJobs!Spec => []TypeOK`, `[]AttemptsIdentify`, prompt or not |
| `ExclusiveClaims`, `OneHeartbeat`, `AnswersOnce` | `ActorJobs!Spec => []ClaimsAreExclusive`, `[]OneHeartbeatPerRoom`, `[]AnsweredOnce`, if attempts are prompt |
| `SettledRest` | `ActorJobs!Spec => SettledJobsRest`, if attempts are prompt |
| `DurableTypes`, `ClaimsHaveJobs` | `DurableSpec => []DurableTypeOK`, `[]ClaimsAreWorked`, whatever `Ordered`, `RebuildsSucceed` and `Readable` are |
| `KillsLoseNothing`, `HardStopsLoseASuffix`, `StopsLoseASuffix` | `DurableSpec => []KillLosesNothing`, `[]HardStopLosesASuffix`, and both as `[]StopsKeepRecords`, given `Ordered`, `RebuildsSucceed` and `Readable` |
| `RecordsAreRecoverable` | `DurableSpec => RecoverableSpec`: what a boot could restore is a `DurableLog`, given the same |
| `CheckpointsAreDurable`, `CheckpointsAdvance` | `DurableSpec => []CheckpointIsDurable`, `CheckpointNeverRegresses`, given the same |
| `KillsAloneLoseNothing`, `CheckpointsAdvanceAlone` | `ReportedSpec => []KillLosesNothing`, `CheckpointNeverRegresses`, given `RebuildsSucceed` only: `ReportedSpec` is `DurableSpec` without the hard stops that take something back |
| `RegionTypes`, `EpochsInOrder` | `RegionSpec => []RegionTypeOK`, `[]EpochsOrderRows` |
| `CombatTypes`, `TurnsBegin`, `AnnouncedHolds`, `NobodyPassedOver` | `CombatSpec => []CombatTypeOK`, `[]TurnsBeginAble`, `[]AnnouncedTurnIsHeld`, `[]NobodyIsPassedOver` |
| `StuckScenesClose` | `CombatSpec => OnlyStuckScenesClose` |
| `OverdueRunOut` | `CombatSpec => OverdueTurnsRunOut`, given that no able resident `Stalls` |
| `OneWriter`, `CheckpointsGrow` | `RegionSpec => []OneRegionWrites`, `CheckpointsNeverRegress`, given `Fencing` |
| `ApprovedRowsLast` | `RegionSpec => ApprovedRowsSurvive`: the rows of the world are a `DurableLog` whose safe part is the approved checkpoint, given `Fencing` |
| `PartsKeepApart`, `PartsTypes` | `PartsSpec => DurableSpec /\ RegionSpec /\ CombatSpec`, `[]PartsTypeOK` |

Assumptions: `ConstantsAssumption` and `RecordAssumption` of `CanonicalCommit`,
`IntentsAssumption` of `CommandIntents`, `JobsAssumption` of `ActorJobs`,
`DurableAssumption`, `RegionAssumption` (two regions), `CombatAssumption`; for
`ImplementsSerialWorld` and `NumberedSeen`, that every record is accepted; and
for the theorems that say so, `EachRecordNumbers` (every record is accepted and
numbers an event: `CommitSilent` and `CommitRejected` show why), an empty
`Checkpointer` (a deployment without snapshot paths), `Prompt`, `Ordered`,
`RebuildsSucceed`, `Readable`, `Fencing` and `~Stalls`.

**Fencing.**  A commit checks equality of owner and fence.  That says something
only because of `LeaseRowBoundsFences`: the lease row bounds every fence that is
in some process's memory or was ever committed, and where it equals one, it
names the same owner.  A takeover raises the fence, so every older copy falls
strictly below the row and can never become valid again; a boot takes a new
owner id and forgets what it held.  This invariant is inductive with `TypeOK`,
and the order of the commits' fences and the uniqueness of holders follow.

**The store.**  `GapFreeSequence`, `VersionsOrderCommits` and `ClaimsMintedOnce`
each bound the rows of the journal by the row of the store, and the
compare-and-set keeps the bound.  The cases that need an argument are the first
commit (`Bootstraps`, and the copy of the committer's versions and claims):
there the strengthenings say that an empty store means an empty journal for the
numbered rows, and that a version the store does not list was never committed.

**Refinement.**  The abstract sequence is the committed one, or the seed's while
nothing was committed; a version the store does not list is the seeded one.
The proof shows that an accepted commit is one step of `SerialWorld` and every
other action a stutter.  The strengthening (`UnlistedInv`) says that while the
store lists nothing, every world in memory and in a checkpoint still has the
seeded versions and no claims.  A rejected record breaks exactly this: a world
whose rebuild fails keeps a phantom effect and would publish it as the first
commit, which is why the theorem has its assumption.

**Worlds.**  `WorldInv` says that every world in memory and in a checkpoint is the
world of the first rows of the journal up to its cursor, and proposes the number
after the last of them.  The last numbers of the rows grow, so only the whole
journal's world continues the committed cursor (`CurrentIsWhole`): the sequence
check, which compares one number, compares the whole past.  A rebuild gives the
whole journal because the base is a prefix, and no rebuild fails because every
row was accepted, so no phantom effect ever stays in memory.

**Silent records.**  With records that number no event a world is no longer told
by its cursor.  What survives without checkpoints is `SeenInv`: a world that
proposes the number after a row with events holds that row, and a row's own
committer held the ones before it.  A rebuild then starts from the seed and
replays everything, a commit in memory keeps what was there.  A checkpoint breaks
it: a stale process that commits a silent record stamps its world, and the
checkpoint written right after, with a cursor past the row it lacks, and no later
rebuild goes back (`CommitSilent`).

**Intents.**  `EffectOnce` is not inductive: a commit needs to know that an
intent without a receipt has had an effect only if a receipt was removed.
`LedgerInv` adds that, and the same for an intent whose receipt is a refusal.
The other three follow from `IntentInv`: every "ok" in a receipt, a cache, a
request or an answer is about a committed envelope (`OkInv`); a request that
committed and has not answered yet owns the provisional row of its intent, alone
(`PendingInv`), so its late write finalizes its own row and never a foreign one;
and the pruning order names finalized rows only, each once (`RecentInv`), so
pruning never frees an intent whose request is under way.

`ImplementsLedger` puts these together: with the receipts as entries, a commit
applies, a stored answer closes its own entry or an open one and forgets what
pruning displaces, retention forgets, and every other action of every process is
a stutter that tells only the truth.  The heart is that the late write of a
committed request finds its own provisional row (`PendingInv`), and that a new
row is never the one it displaces (`StoreForgets`).  `LedgerPromises` shows that
the abstraction is not hollow: the four promises follow from it alone.

**Command locks.**  `LocksMatch` says who should hold each lock, from the
requests alone (`Holds`): whoever is served at a process holds its lock, and so
does whoever came to it and was forwarded.  Every action keeps lock and request
in step, with the dropped futures and the crash that frees several locks at
once.  So a wait can only be for a request that moves, or for one that is waiting
for its forwarder's timer; that both end is `EveryRequestEnds`, which TLC checks.

**Jobs.**  `ClaimsAreExclusive` needs two facts: an attempt at work holds its
row (running, live lease, its own number of attempts), and what a `SELECT`
returned was free to be claimed, so that a comparison that still succeeds finds
a row no attempt holds.  `Prompt` is used in one place, the lapse of a lease.
With that, a settlement always finds the row its own claim left, which gives
`SettledJobsRest` and, as no settled row becomes active again,
`OneHeartbeatPerRoom`.  For `AnsweredOnce` the strengthening says what an attempt
at each stage has not done yet.
`NumbersTellAttempts` does without `Prompt`: a claim raises the row's count, and
no attempt at work carries a number above it (`NumberInv`).  A settlement that
compared the count with its own would therefore settle its own claim or nothing,
which would repair finding 6.

**Durability.**  `DurableInv` says of every copy what it is a prefix of.  The
store holds the rows of `truth` from its floor on, the disk those up to its own
head; the file, its durable copy, the job at work and the capture in the channel
are each the world after some prefix, in this order: file, job, channel, world.
Each store's floor is at or below the cursor of the checkpoint a boot would read
with it, which is the heart: `RestoredWorld` shows that such a pair restores the
whole prefix.  `CompactKeeps` needs that the renamed job is the file's cursor;
`HardStop` needs `Ordered`, so that a durable floor never overtakes the durable
file; every capture needs `RebuildsSucceed`, so that the world in memory is the
journal; and the guard needs `Readable` (`GuardKeeps`), so that the checkpoint it
lets through does not lead the durable journal.  `KillsAloneLoseNothing` and
`CheckpointsAdvanceAlone` drop the durable copies from the invariant
(`ReportedInv`), and with them `Ordered` and `Readable`: what the operating
system reports is enough for kills, and for them a checkpoint behind an
unread commit point is as good as any.

What a boot could restore implements `DurableLog`: the abstract log is what a
kill would leave, its safe part what a hard stop would leave.  A commit appends,
the system's write-back and the writer's sync secure, a hard stop falls back to
the safe part, and capture, rename, compaction, rollback and boot are stutters;
`DurableInv` gives each case.  `DurableTypes` and `ClaimsHaveJobs` use none of
this: whatever the environment does, a malformed world cannot arise, and the
claim on captures is taken exactly while one regular capture waits or is at work,
so that it is never left with nobody to release it.

**Regions.**  `EpochsOrderRows` follows from an invariant that puts the rows of a
store behind its authority row (epoch, region) and its lease row (fence), which
copies carry along.  `OneRegionWrites` needs more: a request in progress belongs
to the region that writes, what it has proved is a prefix of the mandate, and a
region that is cut off runs no request.  `CheckpointsGrow` uses that invariant,
and that a record is only replaced by one at least as long.
`ApprovedRowsLast` adds that the approved checkpoint is a prefix of the rows of
the world and of every copy that is newer than it: a replica that still proves
the approved checkpoint at its promotion begins with it, so a promotion may take
back rows, and never an approved one.

**Scenes.**  A function of the kernel takes a scene to a scene, so each has a
lemma of its own and an action composes them (`SceneInv`).  `NextHolder` shows
that the search around the order ends at somebody who can act and skips nobody
who can; it needs the least element of a set of numbers, which the library gives
for well-founded relations.  A turn costs at most one side its last able actor
(`TurnsInv`), so a turn of a scene that could go on never ends it without a
winner.  `NobodyPassedOver` rests on `PassingInv`: whoever had a turn while
`Watched` waited stands, in the cyclic order, behind `Watched` and not behind the
holder; a join shifts places and keeps this order, and the next holder is not
among them because `Watched` is not skipped.

`OverdueRunOut` is the safety half of `OverdueTurnsEnd`.  A beat passes an overdue
turn unless the kernel refuses, every refusal of a sweep is counted, and the
count is reset by nothing else but a turn that passes, an I/O failure or a
restart; at the budget the scene closes.

**Parts.**  An action of one part leaves the variables of the others, so a
behaviour of the run is one of each part, and each part's theorems hold of it.

Only model-checked are the liveness properties (`Converges`, `EveryRequestEnds`,
`EveryJobSettles`, `WriteClaimIsReleased`, `OverdueTurnsEnd`), which no installed
prover reaches.  Of three of them the safety half is proved: a waiting request
waits for one that moves (`LocksAreWorked`), a claim has a job that will release
it (`ClaimsHaveJobs`), an overdue turn outlasts only so many sweeps
(`OverdueRunOut`).  TLC then adds that under the stated fairness the steps come.


## 5. Where the code and its documentation disagree

1. **A rejected record is journaled** (`CommitRejected`).  A commit does not ask
   for the kernel's status, but replay stops at a row that was not accepted.
   One such row makes every later rebuild and boot without a newer checkpoint
   fail.
2. **A silent record is not checked** (`CommitSilent`).  The sequence check skips
   records without numbered events.  Such a record is committed by a world that
   may lack another process's rows, which then count as applied.  With a
   checkpoint written right after, those rows are lost to that process for good:
   its rebuilds start behind them, and its next numbered record commits without
   their effects.
3. **A silent first commit** (`CommitFirstSilent`).  On a fresh store it uses up
   the only chance to adopt the seed's numbering; the next rebuild proposes a
   sequence the store never accepts.
4. **A row between replay and head** (`CommitBoot`).  Rows committed between a
   boot's replay and its first read of the journal head are not polled for until
   another row follows.  Safety is kept: the process's commits are refused and
   the rebuild heals it.
5. **A lost answer stays lost** (`IntentsLost`).  A handler dropped between the
   commit and the finalizing write leaves a provisional receipt: no retry can
   read it, none can replace it, and retention keeps it.  The effect is still
   applied once.
6. **A late settlement** (`JobsLapsed`).  An attempt that outlives its lease
   settles the job by its id, whoever works on it by then.  If another attempt
   completed it and the next card armed the room again, the late failure brings
   the completed job back beside its successor: two heartbeats in one room.
   The row's count of attempts would tell the two apart (`NumbersTellAttempts`).

7. **An unread commit point** (`CheckpointUnread`).  The guard of a checkpoint
   refuses a cursor that leads the durable store, except when it cannot read the
   store: then it writes, with nothing compared or flushed.  A hard stop may then
   leave a checkpoint that counts rows the journal has lost, which is what the
   guard's own comment calls invalid.  Over a compacted floor no boot succeeds.
   Kills lose nothing by it (`KillsAloneLoseNothing`).

Each is quoted with its lines in `PROJECT.json`.


## 6. Plan

Done: the commit protocol and its refinement, the command's life, the outbox of
heartbeats, checkpoints and compaction, region failover, combat scenes, and the
proofs above.  In the order of their weight, what is left is

1. The other kinds of job (chat, model interaction, reflection), with their
   requeue and provider-terminal branches, in `ActorJobs`; an abstract job
   (pending, running or settled, settled once) it implements.
2. Of the proofs: such a job refined by `ActorJobs` with prompt attempts; the
   phantom worlds of `CommitAll`, which a rejected record leaves, as an
   invariant instead of an assumption of `ImplementsSerialWorld`.
3. Focused work scenes, once content enables them; the fan-out cursor of the
   event stream.

## 7. Not modelled

* **Projection cache and event stream**: reads only; no state of the world
  depends on them.
* **Spine prototype**: a crate the live system does not use.
* **Game rules, transfers, autonomy, content packs**: wide sequential data whose
  results are records; what the protocol reads of a record is its shape, and
  every shape is allowed.
* **AI gateway, publication, media**: outside services; their delay and failure
  are the nondeterminism of an attempt in `ActorJobs`.
* **Accounts, sessions, rate limits, moderation**: they refuse requests before a
  command begins (`RefuseEarly`).  The age of a session is in `CombatScene`.
* **Clients, scripts, infrastructure**: not part of the orchestrator.
* **Clock skew between hosts, several partitions per region**: see the
  assumptions in sections 2.1 and 2.5.
