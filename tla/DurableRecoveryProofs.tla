------------------------- MODULE DurableRecoveryProofs -------------------------
(***************************************************************************)
(* What kills, hard stops and compaction leave of a process's records, if  *)
(* syncing the store makes earlier renames durable (Ordered), a rebuild    *)
(* after a rollback succeeds (RebuildsSucceed) and the guard of a          *)
(* checkpoint can read the commit point (Readable): what can be restored   *)
(* is a DurableLog.  What kills alone leave needs only RebuildsSucceed.    *)
(* Without any of the three: types, and that a claim on captures is always *)
(* somebody's to release.                                                  *)
(***************************************************************************)
EXTENDS DurableRecovery, SequenceTheorems, TLAPS

\* The first c rows of a history, and the world they make.
First(t, c) == [i \in 1..c |-> t[i]]
WorldAfter(t, c) == [effects |-> First(t, c), cursor |-> c, next |-> c + 1]

\* A store of the first m rows of a history, compacted up to its floor.
From(floor) == IF floor = 0 THEN 1 ELSE floor
StoreAfter(t, floor, m) == [rows |-> [i \in From(floor)..m |-> t[i]], floor |-> floor]

HoldsRows(s, t, m) == s.floor \in 0..m /\ s = StoreAfter(t, s.floor, m)
IsWorld(w, t) == w.cursor \in 0..Len(t) /\ w = WorldAfter(t, w.cursor)

Histories == Seq(Nat)

LEMMA Prefixes ==
    ASSUME NEW t \in Histories
    PROVE  /\ First(t, 0) = <<>> /\ First(t, Len(t)) = t
           /\ \A c \in 0..Len(t) : /\ First(t, c) \in Histories /\ Len(First(t, c)) = c
                                   /\ First(t, c) = SubSeq(t, 1, c)
                                   /\ DOMAIN First(t, c) = 1..c
<1> USE DEF Histories
<1>1. Len(t) \in Nat /\ t \in [1..Len(t) -> Nat] /\ DOMAIN t = 1..Len(t)
  BY LenProperties
<1>2. ASSUME NEW c \in 0..Len(t)
      PROVE  /\ First(t, c) \in Histories /\ Len(First(t, c)) = c
             /\ First(t, c) = SubSeq(t, 1, c)
  <2>1. /\ SubSeq(t, 1, c) \in Seq(Nat)
        /\ Len(SubSeq(t, 1, c)) = c
        /\ \A i \in 1..c : SubSeq(t, 1, c)[i] = t[i]
    <3>1. \A i \in 1..c : t[i] \in Nat
      BY <1>1
    <3> QED BY <3>1, <1>1, SubSeqProperties
  <2>2. SubSeq(t, 1, c) = First(t, c)
    BY <2>1, LenProperties DEF First
  <2> QED BY <2>1, <2>2
<1>3. First(t, Len(t)) = t
  BY <1>1 DEF First
<1>4. First(t, 0) = <<>>
  BY <1>1, <1>2, EmptySeq
<1> QED BY <1>1, <1>2, <1>3, <1>4 DEF First

LEMMA Joining ==
    ASSUME NEW a \in Seq(Nat), NEW b \in Seq(Nat)
    PROVE  /\ a \o b \in Seq(Nat) /\ Len(a \o b) = Len(a) + Len(b)
           /\ \A i \in 1..Len(a) + Len(b) :
                 (a \o b)[i] = IF i <= Len(a) THEN a[i] ELSE b[i - Len(a)]
BY ConcatProperties

\* The latest row of a store is what its history says.
LEMMA LatestRow ==
    ASSUME NEW t \in Histories, NEW m \in 0..Len(t), NEW s, HoldsRows(s, t, m)
    PROVE  /\ LatestSeq(s) = m
           /\ DOMAIN s.rows = From(s.floor)..m
           /\ \A i \in DOMAIN s.rows : s.rows[i] = t[i]
           /\ s.rows = <<>> <=> m = 0
           /\ m = 0 => s.floor = 0
<1>1. Len(t) \in Nat
  BY LenProperties DEF Histories
<1>2. /\ DOMAIN s.rows = From(s.floor)..m
      /\ \A i \in DOMAIN s.rows : s.rows[i] = t[i]
      /\ s.floor \in 0..m
  <2>1. PICK floor \in 0..m : floor = s.floor /\ s = StoreAfter(t, floor, m)
    BY DEF HoldsRows
  <2>2. s.rows = [i \in From(floor)..m |-> t[i]]
    BY <2>1 DEF StoreAfter
  <2> QED BY <2>1, <2>2
<1>3. CASE m = 0
  <2>1. s.rows = First(t, 0)
    BY <1>2, <1>3 DEF HoldsRows, StoreAfter, From, First
  <2>2. s.rows = <<>>
    BY <2>1, Prefixes
  <2> QED BY <1>2, <1>3, <2>2 DEF LatestSeq
<1>4. CASE m # 0
  <2>1. m \in DOMAIN s.rows
    BY <1>1, <1>2, <1>4 DEF From
  <2>2. s.rows # <<>>
    BY <2>1
  <2>3. \A k \in DOMAIN s.rows : k <= m /\ k \in Int
    BY <1>1, <1>2 DEF From
  <2>4. LatestSeq(s) \in DOMAIN s.rows /\ \A k \in DOMAIN s.rows : k <= LatestSeq(s)
    BY <2>1, <2>2, <2>3 DEF LatestSeq
  <2>5. LatestSeq(s) = m
    BY <1>1, <2>1, <2>3, <2>4
  <2> QED BY <1>2, <1>4, <2>2, <2>5
<1> QED BY <1>3, <1>4

\* What a boot makes of a store and of a checkpoint that reaches its floor.
LEMMA RestoredWorld ==
    ASSUME NEW t \in Histories, NEW m \in 0..Len(t), NEW s, HoldsRows(s, t, m),
           NEW f, IsWorld(f, t), s.floor <= f.cursor, f.cursor <= m
    PROVE  Restorable(s, f) /\ Restored(s, f) = WorldAfter(t, m)
<1>1. Len(t) \in Nat
  BY LenProperties DEF Histories
<1>2. /\ LatestSeq(s) = m
      /\ DOMAIN s.rows = From(s.floor)..m
      /\ \A i \in DOMAIN s.rows : s.rows[i] = t[i]
      /\ s.rows = <<>> <=> m = 0
      /\ m = 0 => s.floor = 0
  BY LatestRow
<1>3. s.floor \in 0..m /\ f.cursor \in 0..m /\ f = WorldAfter(t, f.cursor)
  BY <1>1 DEF HoldsRows, IsWorld
<1>4. Restorable(s, f)
  BY <1>1, <1>2, <1>3 DEF Restorable, Usable
<1>5. ASSUME NEW c \in 0..m, From(s.floor) <= c + 1
      PROVE  Replay(WorldAfter(t, c), s) = WorldAfter(t, m)
  <2> DEFINE a == First(t, c)
             b == RowsAfter(s, c)
  <2>0. c \in Nat /\ m \in Nat /\ m - c \in Nat
    BY <1>1
  <2>1. /\ a \in Seq(Nat) /\ Len(a) = c /\ \A i \in 1..c : a[i] = t[i]
        /\ First(t, m) \in Seq(Nat) /\ Len(First(t, m)) = m
        /\ \A i \in 1..m : First(t, m)[i] = t[i]
    <3>1. c \in 0..Len(t) /\ m \in 0..Len(t)
      BY <1>1
    <3> QED BY <3>1, Prefixes DEF Histories, First
  <2>2. \A i \in 1..m - c : s.rows[c + i] = t[c + i] /\ t[c + i] \in Nat
    <3>1. \A i \in 1..m - c : c + i \in DOMAIN s.rows /\ c + i \in 1..Len(t)
      BY <1>1, <1>2, <1>3, <1>5 DEF From
    <3> QED BY <1>2, <3>1, LenProperties DEF Histories
  <2>3. b \in Seq(Nat) /\ Len(b) = m - c /\ \A i \in 1..m - c : b[i] = t[c + i]
    <3>1. b = [i \in 1..m - c |-> t[c + i]]
      BY <1>2, <2>2 DEF RowsAfter
    <3>2. b \in [1..m - c -> Nat]
      BY <2>2, <3>1
    <3>3. \A n \in Nat : \A g \in [1..n -> Nat] : g \in Seq(Nat) /\ Len(g) = n
      OBVIOUS
    <3> HIDE DEF b
    <3> QED BY <2>0, <3>1, <3>2, <3>3
  <2>4. a \o b = First(t, m)
    <3> HIDE DEF a, b
    <3>1. /\ a \o b \in Seq(Nat) /\ Len(a \o b) = m
          /\ \A i \in 1..m : (a \o b)[i] = IF i <= c THEN a[i] ELSE b[i - c]
      <4>1. a \in Seq(Nat) /\ b \in Seq(Nat) /\ Len(a) = c /\ Len(b) = m - c
        BY <2>1, <2>3
      <4>2. /\ a \o b \in Seq(Nat) /\ Len(a \o b) = Len(a) + Len(b)
            /\ \A i \in 1..Len(a) + Len(b) :
                  (a \o b)[i] = IF i <= Len(a) THEN a[i] ELSE b[i - Len(a)]
        BY <4>1, Joining
      <4>3. c + (m - c) = m
        BY <2>0
      <4> QED BY <4>1, <4>2, <4>3
    <3>2. \A i \in 1..m : (a \o b)[i] = t[i]
      <4> TAKE i \in 1..m
      <4>1. CASE i <= c
        BY <2>0, <2>1, <3>1, <4>1
      <4>2. CASE ~(i <= c)
        <5>1. i - c \in 1..m - c /\ c + (i - c) = i
          BY <2>0, <4>2
        <5> QED BY <2>3, <3>1, <4>2, <5>1
      <4> QED BY <4>1, <4>2
    <3>3. \A i \in 1..m : (a \o b)[i] = First(t, m)[i]
      BY <2>1, <3>2
    <3>4. Len(a \o b) = Len(First(t, m))
      BY <2>1, <3>1
    <3> HIDE DEF First
    <3> QED BY <2>1, <3>1, <3>3, <3>4, SeqEqual
  <2>5. c + 1 + m - c = m + 1
    BY <2>0
  <2> QED BY <1>2, <2>4, <2>5 DEF Replay, WorldAfter
<1>6. Seed = WorldAfter(t, 0)
  BY Prefixes DEF Seed, WorldAfter
<1>7. ReconciledWith(WorldAfter(t, m), s) = WorldAfter(t, m)
  BY <1>2 DEF ReconciledWith, WorldAfter
<1>8. CASE s.rows = <<>>
  <2>1. f = WorldAfter(t, m)
    <3>1. m = 0 /\ f.cursor = 0
      BY <1>1, <1>2, <1>3, <1>8
    <3> QED BY <1>3, <3>1
  <2>2. Restored(s, f) = ReconciledWith(f, s)
    <3>1. ~Usable(f, s)
      BY <1>1, <1>2, <1>3, <1>8 DEF Usable
    <3> QED BY <1>8, <3>1 DEF Restored
  <2> QED BY <1>4, <1>7, <2>1, <2>2
<1>9. CASE s.rows # <<>> /\ Usable(f, s)
  <2>1. Replay(f, s) = WorldAfter(t, m)
    BY <1>1, <1>3, <1>5, <1>9 DEF From, Usable
  <2> QED BY <1>4, <1>7, <1>9, <2>1 DEF Restored
<1>10. CASE s.rows # <<>> /\ ~Usable(f, s)
  <2>1. s.floor = 0
    BY <1>1, <1>2, <1>3, <1>10 DEF Usable
  <2>2. Replay(Seed, s) = WorldAfter(t, m)
    BY <1>1, <1>5, <1>6, <2>1 DEF From
  <2> QED BY <1>4, <1>7, <1>10, <2>2 DEF Restored
<1> QED BY <1>8, <1>9, <1>10
-----------------------------------------------------------------------------
(* The invariant: the store holds every row, the disk and the two          *)
(* checkpoints a prefix, each reaching the floor of its own store; what is *)
(* in the writer's hands is a prefix as well, in the order of the captures.*)

Jobs == [snap : [effects : Histories, cursor : Nat, next : Nat], flush : BOOLEAN,
         head : Nat, stage : {"none", "queued", "sync", "rename", "compact"}]
Writers == [claimed : BOOLEAN, channel : Seq(Jobs), job : Jobs]

IsCapture(job, t, f) == IsWorld(job.snap, t) /\ f.cursor <= job.snap.cursor

WriterHolds(w, t, f, d) ==
    /\ w \in Writers /\ Len(w.channel) <= 1
    /\ w.job.stage # "none" => IsCapture(w.job, t, f)
    /\ w.channel # <<>> => /\ IsCapture(w.channel[1], t, f)
                           /\ w.job.stage # "none" =>
                                  w.job.snap.cursor <= w.channel[1].snap.cursor
    /\ w.job.stage \in {"rename", "compact"} => w.job.snap.cursor <= d
    /\ w.job.stage = "compact" => w.job.snap.cursor <= f.cursor

CountersInv == truth \in Histories /\ minted \in Nat /\ stops \in Nat
StoreInv == /\ HoldsRows(store, truth, Len(truth))
            /\ LatestSeq(disk) \in 0..Len(truth)
            /\ HoldsRows(disk, truth, LatestSeq(disk))
FileInv == /\ IsWorld(file, truth) /\ IsWorld(fileDisk, truth)
           /\ file.cursor <= LatestSeq(disk) /\ fileDisk.cursor <= file.cursor
           /\ store.floor <= file.cursor /\ disk.floor <= fileDisk.cursor
WorldInv == power \in {"serving", "draining"} => world = WorldAfter(truth, Len(truth))
WriterInv == WriterHolds(writer, truth, file, LatestSeq(disk))

DurableInv == CountersInv /\ StoreInv /\ FileInv /\ WorldInv /\ WriterInv

\* What two histories agree on.
Agree(t, u, m) == /\ t \in Histories /\ u \in Histories
                  /\ m \in Nat /\ m <= Len(t) /\ m <= Len(u)
                  /\ \A i \in 1..m : t[i] = u[i]

LEMMA LongerHistory ==
    ASSUME NEW t \in Histories, NEW x \in Nat
    PROVE  /\ Append(t, x) \in Histories /\ Len(Append(t, x)) = Len(t) + 1
           /\ Append(t, x)[Len(t) + 1] = x
           /\ Agree(t, Append(t, x), Len(t))
<1>1. Len(t) \in Nat
  BY LenProperties DEF Histories
<1> QED BY <1>1 DEF Agree, Histories

LEMMA ShorterHistory ==
    ASSUME NEW t \in Histories, NEW d \in 0..Len(t)
    PROVE  /\ SubSeq(t, 1, d) \in Histories /\ Len(SubSeq(t, 1, d)) = d
           /\ Agree(t, SubSeq(t, 1, d), d)
<1>1. Len(t) \in Nat
  BY LenProperties DEF Histories
<1>2. /\ SubSeq(t, 1, d) = First(t, d) /\ First(t, d) \in Histories
      /\ Len(First(t, d)) = d
  BY Prefixes
<1>3. \A i \in 1..d : First(t, d)[i] = t[i]
  BY DEF First
<1>4. Agree(t, First(t, d), d)
  BY <1>1, <1>2, <1>3 DEF Agree
<1> QED BY <1>2, <1>4

LEMMA SameRows ==
    ASSUME NEW t, NEW u, NEW n, Agree(t, u, n), NEW m \in 0..n, NEW s, HoldsRows(s, t, m)
    PROVE  HoldsRows(s, u, m)
<1>1. \A i \in From(s.floor)..m : t[i] = u[i]
  BY DEF Agree, HoldsRows, From
<1>2. StoreAfter(t, s.floor, m) = StoreAfter(u, s.floor, m)
  BY <1>1 DEF StoreAfter
<1> QED BY <1>2 DEF HoldsRows

LEMMA SameWorld ==
    ASSUME NEW t, NEW u, NEW n, Agree(t, u, n), NEW w, IsWorld(w, t), w.cursor <= n
    PROVE  IsWorld(w, u)
<1>1. Len(t) \in Nat /\ Len(u) \in Nat
  BY LenProperties DEF Agree, Histories
<1>2. w.cursor \in 0..n /\ w.cursor \in 0..Len(u)
  BY <1>1 DEF Agree, IsWorld
<1>3. WorldAfter(t, w.cursor) = WorldAfter(u, w.cursor)
  <2>1. \A i \in 1..w.cursor : t[i] = u[i]
    BY <1>2 DEF Agree
  <2> QED BY <2>1 DEF WorldAfter, First
<1> QED BY <1>2, <1>3 DEF IsWorld

LEMMA SameWriter ==
    ASSUME NEW t, NEW u, Agree(t, u, Len(t)),
           NEW w, NEW f, NEW d, WriterHolds(w, t, f, d)
    PROVE  WriterHolds(w, u, f, d)
<1>1. \A s : IsWorld(s, t) => IsWorld(s, u)
  <2> TAKE s
  <2> HAVE IsWorld(s, t)
  <2>1. s.cursor <= Len(t)
    BY LenProperties DEF IsWorld, Agree, Histories
  <2> QED BY <2>1, SameWorld
<1> QED BY <1>1 DEF WriterHolds, IsCapture

LEMMA QuietHolds == ASSUME NEW t, NEW f, NEW d PROVE WriterHolds(QuietWriter, t, f, d)
<1>1. NoJob \in Jobs /\ <<>> \in Seq(Jobs) /\ Len(<<>>) = 0
  BY EmptySeq DEF NoJob, Seed, Jobs, Histories
<1>2. NoJob.stage = "none"
  BY DEF NoJob
<1> QED BY <1>1, <1>2 DEF WriterHolds, QuietWriter, Writers

LEMMA WholeWorld ==
    ASSUME NEW t \in Histories
    PROVE  /\ IsWorld(WorldAfter(t, Len(t)), t) /\ IsWorld(Seed, t) /\ Seed.cursor = 0
           /\ WorldAfter(t, Len(t)).cursor = Len(t)
           /\ Seed = WorldAfter(t, 0)
<1>1. Len(t) \in Nat
  BY LenProperties DEF Histories
<1>2. Seed = WorldAfter(t, 0)
  BY Prefixes DEF Seed, WorldAfter
<1> QED BY <1>1, <1>2 DEF IsWorld, WorldAfter

LEMMA WorldType ==
    ASSUME NEW t \in Histories, NEW w, IsWorld(w, t)
    PROVE  w \in [effects : Histories, cursor : Nat, next : Nat] /\ w.cursor <= Len(t)
<1>1. Len(t) \in Nat
  BY LenProperties DEF Histories
<1>2. PICK c \in 0..Len(t) : w = WorldAfter(t, c)
  BY DEF IsWorld
<1>3. First(t, c) \in Histories /\ c + 1 \in Nat /\ c \in Nat
  BY <1>1, Prefixes
<1>4. w = [effects |-> First(t, c), cursor |-> c, next |-> c + 1]
  BY <1>2 DEF WorldAfter
<1> QED BY <1>1, <1>3, <1>4

\* A capture joins the channel behind what it was captured after.
LEMMA CaptureJoins ==
    ASSUME NEW t \in Histories, NEW f, NEW d, NEW w, WriterHolds(w, t, f, d),
           w.channel = <<>>, f.cursor <= Len(t), NEW flush \in BOOLEAN,
           NEW claimed \in BOOLEAN, world' = WorldAfter(t, Len(t))
    PROVE  WriterHolds(Scheduled([w EXCEPT !.claimed = claimed], flush), t, f, d)
<1> DEFINE job == Captured(flush)
           new == [claimed |-> claimed, channel |-> <<job>>, job |-> w.job]
<1>1. Len(t) \in Nat
  BY LenProperties DEF Histories
<1>2. IsWorld(world', t) /\ world'.cursor = Len(t)
  BY WholeWorld
<1>3. job = [snap |-> world', flush |-> flush, head |-> 0, stage |-> "queued"]
  <2>1. NoJob = [snap |-> Seed, flush |-> FALSE, head |-> 0, stage |-> "none"]
    BY DEF NoJob
  <2>2. job = [NoJob EXCEPT !.snap = world', !.flush = flush, !.stage = "queued"]
    BY DEF Captured
  <2> QED BY <2>1, <2>2
<1>4. job \in Jobs
  BY <1>2, <1>3, WorldType DEF Jobs
<1>5. Scheduled([w EXCEPT !.claimed = claimed], flush) = new
  <2>1. PICK old \in BOOLEAN, work \in Jobs :
            w = [claimed |-> old, channel |-> <<>>, job |-> work]
    <3>1. w = [claimed |-> w.claimed, channel |-> w.channel, job |-> w.job]
      BY DEF WriterHolds, Writers
    <3> QED BY <3>1 DEF WriterHolds, Writers
  <2>2. Append(<<>>, job) = <<job>>
    OBVIOUS
  <2>3. [w EXCEPT !.claimed = claimed] = [claimed |-> claimed, channel |-> <<>>, job |-> work]
    BY <2>1
  <2>4. Scheduled([claimed |-> claimed, channel |-> <<>>, job |-> work], flush)
          = [claimed |-> claimed, channel |-> Append(<<>>, job), job |-> work]
    BY DEF Scheduled
  <2> QED BY <2>1, <2>2, <2>3, <2>4
<1>6. /\ <<job>> \in Seq(Jobs) /\ Len(<<job>>) = 1 /\ <<job>>[1] = job
  <2> HIDE DEF job
  <2> QED BY <1>4
<1>7. w.job.stage # "none" => w.job.snap.cursor <= Len(t)
  BY WorldType DEF WriterHolds, IsCapture
<1>8. IsCapture(job, t, f) /\ job.snap.cursor = Len(t)
  BY <1>2, <1>3 DEF IsCapture
<1> HIDE DEF job
<1>9. WriterHolds(new, t, f, d)
  BY <1>6, <1>7, <1>8 DEF WriterHolds, Writers
<1> QED BY <1>5, <1>9

LEMMA PersistHolds ==
    ASSUME NEW t \in Histories, NEW f, NEW d, WriterHolds(writer, t, f, d),
           f.cursor <= Len(t), world' = WorldAfter(t, Len(t)), PersistRuntime
    PROVE  WriterHolds(writer', t, f, d)
BY CaptureJoins DEF PersistRuntime

LEMMA WriterFields ==
    ASSUME NEW t, NEW f, NEW d, NEW w, WriterHolds(w, t, f, d)
    PROVE  /\ w \in Writers
           /\ w.claimed \in BOOLEAN /\ w.channel \in Seq(Jobs) /\ w.job \in Jobs
           /\ w.channel # <<>> => w.channel[1] \in Jobs
<1>1. \A q \in Seq(Jobs) : q # <<>> => q[1] \in Jobs
  OBVIOUS
<1> QED BY <1>1 DEF WriterHolds, Writers

LEMMA JobReplaced ==
    ASSUME NEW w \in Writers, NEW k \in Jobs, NEW v, v = [w EXCEPT !.job = k]
    PROVE  v \in Writers /\ v.channel = w.channel /\ v.job = k
BY DEF Writers

LEMMA ChannelEmptied ==
    ASSUME NEW w \in Writers
    PROVE  /\ [w EXCEPT !.channel = <<>>] \in Writers
           /\ [w EXCEPT !.channel = <<>>].channel = <<>>
<1>1. <<>> \in Seq(Jobs)
  OBVIOUS
<1> QED BY <1>1 DEF Writers

LEMMA ClaimReleased ==
    ASSUME NEW w \in Writers, NEW b \in BOOLEAN
    PROVE  /\ [w EXCEPT !.claimed = b] \in Writers
           /\ [w EXCEPT !.claimed = b].channel = w.channel
BY DEF Writers

LEMMA DiskGrows ==
    ASSUME NEW t, NEW f, NEW d \in Nat, NEW e \in Nat, d <= e, NEW w, WriterHolds(w, t, f, d)
    PROVE  WriterHolds(w, t, f, e)
<1>1. w.job.snap.cursor \in Nat
  BY WriterFields DEF Jobs
<1> QED BY <1>1 DEF WriterHolds

LEMMA StageHolds ==
    ASSUME NEW t \in Histories, NEW f, NEW d, NEW w, WriterHolds(w, t, f, d),
           w.job.stage # "none", NEW to \in {"rename", "compact"}, NEW e \in Nat, NEW g,
           IsWorld(g, t), g.cursor <= w.job.snap.cursor, w.job.snap.cursor <= e,
           to = "compact" => w.job.snap.cursor <= g.cursor
    PROVE  WriterHolds([w EXCEPT !.job.stage = to], t, g, e)
<1> DEFINE job == [w.job EXCEPT !.stage = to]
           new == [w EXCEPT !.job = job]
<1>0. w \in Writers /\ w.job \in Jobs /\ (w.channel # <<>> => w.channel[1] \in Jobs)
  BY WriterFields
<1>1. job \in Jobs /\ job.snap = w.job.snap /\ job.stage = to
  BY <1>0 DEF Jobs
<1>2. new \in Writers /\ new.channel = w.channel /\ new.job = job
  <2> HIDE DEF job
  <2> QED BY <1>0, <1>1, JobReplaced
<1>3. Len(t) \in Nat
  BY LenProperties DEF Histories
<1>4. /\ w.job.snap.cursor \in Nat /\ g.cursor \in Nat
      /\ w.channel # <<>> => w.channel[1].snap.cursor \in Nat
  BY <1>0, <1>3 DEF Jobs, IsWorld
<1>5. /\ Len(w.channel) <= 1
      /\ IsWorld(w.job.snap, t)
      /\ w.channel # <<>> => /\ IsWorld(w.channel[1].snap, t)
                             /\ w.job.snap.cursor <= w.channel[1].snap.cursor
  BY DEF WriterHolds, IsCapture
<1>6. w.channel # <<>> => g.cursor <= w.channel[1].snap.cursor
  BY <1>4, <1>5
<1> HIDE DEF job, new
<1>7. WriterHolds(new, t, g, e)
  BY <1>1, <1>2, <1>5, <1>6 DEF WriterHolds, IsCapture
<1> QED BY <1>7 DEF job, new

LEMMA NothingAtWork == NoJob \in Jobs /\ NoJob.stage = "none"
<1>1. <<>> \in Histories
  BY DEF Histories
<1>2. Seed \in [effects : Histories, cursor : Nat, next : Nat]
  BY <1>1 DEF Seed
<1>3. NoJob = [snap |-> Seed, flush |-> FALSE, head |-> 0, stage |-> "none"]
  BY DEF NoJob
<1> QED BY <1>2, <1>3 DEF Jobs

LEMMA EndHolds ==
    ASSUME NEW t \in Histories, NEW f, NEW d, NEW e, WriterHolds(writer, t, f, d), JobEnds
    PROVE  WriterHolds(writer', t, f, e)
<1>1. CASE writer.job.flush
  BY <1>1, QuietHolds DEF JobEnds
<1>2. CASE ~writer.job.flush
  <2> DEFINE released == [writer EXCEPT !.claimed = FALSE]
  <2>1. writer' = [released EXCEPT !.job = NoJob]
    BY <1>2 DEF JobEnds
  <2>2. released \in Writers /\ released.channel = writer.channel
    BY WriterFields, ClaimReleased
  <2> HIDE DEF released
  <2>3. writer' \in Writers /\ writer'.channel = writer.channel /\ writer'.job = NoJob
    BY <2>1, <2>2, JobReplaced, NothingAtWork
  <2> QED BY <2>3, NothingAtWork DEF WriterHolds
<1> QED BY <1>1, <1>2

LEMMA TakenHolds ==
    ASSUME NEW t \in Histories, NEW f, NEW d, NEW w, WriterHolds(w, t, f, d),
           w.channel # <<>>, NEW head \in Nat, NEW v,
           v = [w EXCEPT !.channel = <<>>,
                         !.job = [w.channel[1] EXCEPT !.head = head, !.stage = "sync"]]
    PROVE  WriterHolds(v, t, f, d)
<1> DEFINE job == [w.channel[1] EXCEPT !.head = head, !.stage = "sync"]
           emptied == [w EXCEPT !.channel = <<>>]
<1>1. job \in Jobs /\ job.snap = w.channel[1].snap /\ job.stage = "sync"
  <2>1. w.channel[1] \in Jobs
    BY WriterFields
  <2> QED BY <2>1 DEF Jobs
<1>2. <<>> \in Seq(Jobs) /\ Len(<<>>) = 0
  OBVIOUS
<1>3. w \in Writers /\ IsCapture(w.channel[1], t, f)
  BY DEF WriterHolds
<1>4. emptied \in Writers /\ emptied.channel = <<>>
  BY <1>3, ChannelEmptied
<1>5. v = [emptied EXCEPT !.job = job]
  OBVIOUS
<1> HIDE DEF job, emptied
<1>6. v \in Writers /\ v.channel = <<>> /\ v.job = job
  <2>1. \A u : u = [emptied EXCEPT !.job = job] =>
            u \in Writers /\ u.channel = <<>> /\ u.job = job
    BY <1>1, <1>4, JobReplaced
  <2> QED BY <1>5, <2>1
<1> QED BY <1>1, <1>2, <1>3, <1>6 DEF WriterHolds, IsCapture

LEMMA CompactedRows ==
    ASSUME NEW t \in Histories, NEW s, HoldsRows(s, t, Len(t)), NEW snap,
           snap.cursor \in Nat, AtFrontier(s, snap)
    PROVE  /\ HoldsRows(Compacted(s, snap), t, Len(t))
           /\ Compacted(s, snap).floor <= snap.cursor
<1>1. /\ LatestSeq(s) = Len(t) /\ Len(t) \in Nat
      /\ DOMAIN s.rows = From(s.floor)..Len(t)
      /\ \A i \in DOMAIN s.rows : s.rows[i] = t[i]
  BY LatestRow, LenProperties DEF Histories
<1>2. snap.cursor = Len(t) /\ Len(t) > 0 /\ s.floor \in 0..Len(t)
  BY <1>1 DEF AtFrontier, HoldsRows
<1>3. Kept(s, snap) = Len(t)..Len(t)
  BY <1>1, <1>2 DEF Kept, From
<1>4. CASE Kept(s, snap) = DOMAIN s.rows
  BY <1>2, <1>4 DEF Compacted
<1>5. CASE Kept(s, snap) # DOMAIN s.rows
  <2>1. Compacted(s, snap) = [rows |-> [i \in Kept(s, snap) |-> s.rows[i]], floor |-> snap.cursor]
    BY <1>5 DEF Compacted
  <2>2. [i \in Kept(s, snap) |-> s.rows[i]] = [i \in From(snap.cursor)..Len(t) |-> t[i]]
    BY <1>1, <1>2, <1>3 DEF From
  <2>3. Compacted(s, snap) = StoreAfter(t, snap.cursor, Len(t))
    BY <2>1, <2>2 DEF StoreAfter
  <2>4. Compacted(s, snap).floor = snap.cursor
    BY <2>1
  <2> QED BY <1>2, <2>3, <2>4 DEF HoldsRows
<1> QED BY <1>4, <1>5

LEMMA CommittedRows ==
    ASSUME NEW t \in Histories, NEW s, HoldsRows(s, t, Len(t)), NEW x \in Nat
    PROVE  HoldsRows([s EXCEPT !.rows = [i \in DOMAIN s.rows \cup {Len(t) + 1} |->
                                           IF i = Len(t) + 1 THEN x ELSE s.rows[i]]],
                     Append(t, x), Len(t) + 1)
<1> DEFINE u == Append(t, x)
           n == Len(t) + 1
           rows == [i \in DOMAIN s.rows \cup {n} |-> IF i = n THEN x ELSE s.rows[i]]
<1>1. /\ Len(t) \in Nat
      /\ DOMAIN s.rows = From(s.floor)..Len(t)
      /\ \A i \in DOMAIN s.rows : s.rows[i] = t[i]
      /\ Len(t) = 0 => s.floor = 0
  BY LatestRow, LenProperties DEF Histories
<1>2. u[n] = x /\ \A i \in 1..Len(t) : u[i] = t[i]
  BY LongerHistory DEF Agree
<1>3. s.floor \in 0..Len(t)
  BY DEF HoldsRows
<1>4. rows = [i \in From(s.floor)..n |-> u[i]]
  <2>1. rows = [i \in DOMAIN s.rows \cup {n} |-> IF i = n THEN x ELSE s.rows[i]]
    OBVIOUS
  <2>2. DOMAIN s.rows \cup {n} = From(s.floor)..n
    BY <1>1, <1>3 DEF From
  <2>3. \A i \in From(s.floor)..n : u[i] = IF i = n THEN x ELSE s.rows[i]
    BY <1>1, <1>2, <1>3 DEF From
  <2> HIDE DEF u, n, rows
  <2> QED BY <2>1, <2>2, <2>3
<1>5. PICK floor \in 0..Len(t), old \in {s.rows} : s = [rows |-> old, floor |-> floor]
  BY <1>3 DEF HoldsRows, StoreAfter
<1> HIDE DEF rows, u
<1>6. [s EXCEPT !.rows = rows] = [rows |-> rows, floor |-> s.floor]
  BY <1>5
<1>7. [s EXCEPT !.rows = rows] = StoreAfter(u, s.floor, n) /\ [s EXCEPT !.rows = rows].floor = s.floor
  BY <1>4, <1>6 DEF StoreAfter
<1>8. HoldsRows([s EXCEPT !.rows = rows], u, n)
  BY <1>1, <1>3, <1>7 DEF HoldsRows
<1> QED BY <1>8 DEF rows, u
-----------------------------------------------------------------------------
(* The steps.                                                              *)

\* A boot, and a rebuild after a rollback, restore every row.
LEMMA RestoredHere ==
    ASSUME CountersInv, StoreInv, FileInv
    PROVE  Restorable(store, file) /\ Restored(store, file) = WorldAfter(truth, Len(truth))
<1>1. Len(truth) \in Nat /\ Len(truth) \in 0..Len(truth)
  BY LenProperties DEF CountersInv, Histories
<1>2. file.cursor \in Nat /\ file.cursor <= Len(truth)
  BY <1>1 DEF FileInv, IsWorld
<1> QED BY <1>1, <1>2, RestoredWorld DEF CountersInv, StoreInv, FileInv

\* A step that leaves the store, the disk, the checkpoints and the truth alone.
LEMMA OnlyMemory ==
    ASSUME DurableInv, UNCHANGED <<store, disk, file, fileDisk, truth>>,
           WriterHolds(writer', truth, file, LatestSeq(disk)),
           minted' \in Nat, stops' \in Nat, WorldInv'
    PROVE  DurableInv'
BY DEF DurableInv, CountersInv, StoreInv, FileInv, WriterInv

LEMMA CommitKeeps == ASSUME DurableInv, CommitRecord PROVE DurableInv'
<1> DEFINE t == truth
           u == Append(truth, minted')
           n == Len(truth)
           d == LatestSeq(disk)
<1> USE DEF DurableInv
<1>1. /\ t \in Histories /\ minted' \in Nat /\ stops' \in Nat /\ n \in Nat
      /\ truth' = u /\ power = "serving"
      /\ UNCHANGED <<disk, file, fileDisk, power>>
  BY LenProperties DEF CommitRecord, Decide, CountersInv, Histories
<1>2. u \in Histories /\ Len(u) = n + 1 /\ Agree(t, u, n)
  BY <1>1, LongerHistory
<1>3. LatestSeq(store) = n
  BY <1>1, LatestRow DEF StoreInv
<1>4. store' = [store EXCEPT !.rows = [i \in DOMAIN store.rows \cup {n + 1} |->
                                           IF i = n + 1 THEN minted' ELSE store.rows[i]]]
  BY <1>3 DEF CommitRecord
<1>5. HoldsRows(store', u, n + 1)
  BY <1>1, <1>4, CommittedRows DEF StoreInv
<1>6. store'.floor = store.floor
  BY <1>4, <1>1 DEF StoreInv, HoldsRows, StoreAfter
<1>7. d \in 0..n /\ HoldsRows(disk, u, d)
  BY <1>2, SameRows DEF StoreInv
<1>8. /\ IsWorld(file, u) /\ IsWorld(fileDisk, u)
      /\ file.cursor \in Nat /\ file.cursor <= n
  <2>1. file.cursor \in 0..n /\ fileDisk.cursor \in 0..n
    BY DEF FileInv, IsWorld
  <2> QED BY <1>1, <1>2, <2>1, SameWorld DEF FileInv
<1>9. world' = WorldAfter(u, n + 1)
  <2>1. world = WorldAfter(t, n)
    BY <1>1 DEF WorldInv
  <2>2. world.effects = t /\ world.next = n + 1
    BY <1>1, <2>1, Prefixes DEF WorldAfter
  <2>3. world' = [effects |-> u, cursor |-> n + 1, next |-> n + 2]
    BY <1>1, <1>3, <2>2 DEF CommitRecord
  <2>4. First(u, n + 1) = u
    BY <1>2, Prefixes
  <2> QED BY <1>1, <2>3, <2>4 DEF WorldAfter
<1>10. WriterHolds(writer, u, file, d)
  BY <1>2, SameWriter DEF WriterInv
<1>11. WriterHolds(writer', u, file, d)
  <2>1. PersistRuntime
    BY DEF CommitRecord
  <2>2. file.cursor <= Len(u)
    BY <1>1, <1>2, <1>8
  <2>3. world' = WorldAfter(u, Len(u))
    BY <1>2, <1>9
  <2> HIDE DEF u, d
  <2> QED BY <1>2, <1>10, <2>1, <2>2, <2>3, PersistHolds
<1> HIDE DEF u, d, n
<1>12. CountersInv'
  BY <1>1, <1>2 DEF CountersInv
<1>13. StoreInv'
  BY <1>1, <1>2, <1>5, <1>7 DEF StoreInv, d, n
<1>14. FileInv'
  BY <1>1, <1>6, <1>8 DEF FileInv
<1>15. WorldInv' /\ WriterInv'
  BY <1>1, <1>2, <1>9, <1>11 DEF WorldInv, WriterInv, d
<1> QED BY <1>12, <1>13, <1>14, <1>15

LEMMA RollbackKeeps ==
    ASSUME RebuildsSucceed, DurableInv, CommitRollsBack PROVE DurableInv'
<1> USE DEF DurableInv
<1>1. /\ truth \in Histories /\ minted' \in Nat /\ stops' \in Nat /\ power = "serving"
      /\ UNCHANGED <<store, disk, file, fileDisk, truth, power>>
  BY DEF CommitRollsBack, Decide, CountersInv
<1>2. world' = WorldAfter(truth, Len(truth))
  BY RestoredHere DEF CommitRollsBack
<1>3. file.cursor <= Len(truth)
  BY <1>1, WorldType DEF FileInv
<1>4. WriterHolds(writer', truth, file, LatestSeq(disk))
  BY <1>1, <1>2, <1>3, PersistHolds DEF CommitRollsBack, WriterInv
<1>5. WorldInv'
  BY <1>1, <1>2 DEF WorldInv
<1> QED BY <1>1, <1>4, <1>5, OnlyMemory

LEMMA RememberedKeeps == ASSUME DurableInv, Remembered PROVE DurableInv'
<1> USE DEF DurableInv
<1>1. /\ truth \in Histories /\ minted' \in Nat /\ stops' \in Nat /\ power = "serving"
      /\ UNCHANGED <<store, disk, file, fileDisk, truth, power, world>>
  BY DEF Remembered, CountersInv
<1>2. world' = WorldAfter(truth, Len(truth))
  BY <1>1 DEF WorldInv
<1>3. file.cursor <= Len(truth)
  BY <1>1, WorldType DEF FileInv
<1>4. WriterHolds(writer', truth, file, LatestSeq(disk))
  BY <1>1, <1>2, <1>3, PersistHolds DEF Remembered, WriterInv
<1>5. WorldInv'
  BY <1>1, <1>2 DEF WorldInv
<1> QED BY <1>1, <1>4, <1>5, OnlyMemory

LEMMA FinalKeeps == ASSUME DurableInv, FinalSnapshot PROVE DurableInv'
<1> USE DEF DurableInv
<1>1. /\ truth \in Histories /\ minted' \in Nat /\ stops' \in Nat /\ power = "serving"
      /\ UNCHANGED <<store, disk, file, fileDisk, truth, world>>
      /\ writer.channel = <<>> /\ writer' = Scheduled(writer, TRUE)
  BY DEF FinalSnapshot, CountersInv
<1>2. world = WorldAfter(truth, Len(truth)) /\ world' = WorldAfter(truth, Len(truth))
  BY <1>1 DEF WorldInv
<1>3. file.cursor <= Len(truth)
  BY <1>1, WorldType DEF FileInv
<1>4. writer.claimed \in BOOLEAN /\ [writer EXCEPT !.claimed = writer.claimed] = writer
  BY WriterFields DEF WriterInv, Writers
<1>5. WriterHolds(Scheduled([writer EXCEPT !.claimed = writer.claimed], TRUE),
                  truth, file, LatestSeq(disk))
  BY <1>1, <1>2, <1>3, <1>4, CaptureJoins DEF WriterInv
<1>6. WorldInv'
  BY <1>1, <1>2 DEF WorldInv
<1> QED BY <1>1, <1>4, <1>5, <1>6, OnlyMemory

LEMMA EndWorld == ASSUME WorldInv, JobEnds, truth' = truth PROVE WorldInv'
BY DEF WorldInv, JobEnds

\* The store was synced, and the checkpoint in place before it with it.
LEMMA SyncKeeps ==
    ASSUME Ordered, DurableInv, SyncStore, UNCHANGED <<store, file, truth>>,
           minted' \in Nat, stops' \in Nat, WorldInv',
           WriterHolds(writer', truth, file, Len(truth))
    PROVE  DurableInv'
<1> USE DEF DurableInv
<1>1. /\ disk' = store /\ fileDisk' = file
      /\ truth \in Histories /\ Len(truth) \in Nat
  BY LenProperties DEF SyncStore, CountersInv, Histories
<1>2. LatestSeq(store) = Len(truth)
  BY <1>1, LatestRow DEF StoreInv
<1>3. IsWorld(file, truth) /\ file.cursor \in Nat /\ file.cursor <= Len(truth)
  BY <1>1 DEF FileInv, IsWorld
<1> QED BY <1>1, <1>2, <1>3 DEF CountersInv, StoreInv, FileInv, WriterInv

LEMMA ReadHeadKeeps == ASSUME DurableInv, ReadHead PROVE DurableInv'
<1> USE DEF DurableInv
<1>1. /\ truth \in Histories /\ minted' \in Nat /\ stops' \in Nat
      /\ UNCHANGED <<store, disk, file, fileDisk, truth, world, power>>
      /\ LatestSeq(store) \in Nat
  BY LatestRow, LenProperties DEF ReadHead, CountersInv, StoreInv, Histories
<1>2. writer.channel # <<>>
      /\ writer' = [writer EXCEPT !.channel = <<>>,
                        !.job = [writer.channel[1] EXCEPT !.head = LatestSeq(store),
                                                          !.stage = "sync"]]
  BY DEF ReadHead
<1>3. WriterHolds(writer', truth, file, LatestSeq(disk))
  BY <1>1, <1>2, TakenHolds DEF WriterInv
<1>4. WorldInv'
  BY <1>1 DEF WorldInv
<1> QED BY <1>1, <1>3, <1>4, OnlyMemory

LEMMA GuardKeeps == ASSUME Ordered, Readable, DurableInv, GuardCheckpoint PROVE DurableInv'
<1> USE DEF DurableInv
<1>1. /\ truth \in Histories /\ minted' \in Nat /\ stops' \in Nat /\ Len(truth) \in Nat
      /\ UNCHANGED <<store, file, truth>> /\ writer.job.stage = "sync"
  BY LenProperties DEF GuardCheckpoint, CountersInv, Histories
<1>2. CASE JobEnds /\ UNCHANGED <<disk, fileDisk>>
  <2>1. WorldInv' /\ WriterHolds(writer', truth, file, LatestSeq(disk))
    BY <1>1, <1>2, EndWorld, EndHolds DEF WriterInv
  <2> QED BY <1>1, <1>2, <2>1, OnlyMemory
<1>3. CASE JobEnds /\ SyncStore
  <2>1. WorldInv' /\ WriterHolds(writer', truth, file, Len(truth))
    BY <1>1, <1>3, EndWorld, EndHolds DEF WriterInv
  <2> QED BY <1>1, <1>3, <2>1, SyncKeeps
<1>4. CASE JobGoesOn("rename") /\ SyncStore
  <2>1. writer' = [writer EXCEPT !.job.stage = "rename"] /\ UNCHANGED <<power, world>>
    BY <1>4 DEF JobGoesOn, Stage
  <2>2. WorldInv'
    BY <1>1, <2>1 DEF WorldInv
  <2>3. IsCapture(writer.job, truth, file)
    BY <1>1 DEF WriterInv, WriterHolds
  <2>4. file.cursor <= writer.job.snap.cursor /\ writer.job.snap.cursor <= Len(truth)
        /\ IsWorld(file, truth)
    BY <1>1, <2>3, WorldType DEF IsCapture, FileInv
  <2>5. WriterHolds([writer EXCEPT !.job.stage = "rename"], truth, file, Len(truth))
    BY <1>1, <2>4, StageHolds DEF WriterInv
  <2> QED BY <1>1, <1>4, <2>1, <2>2, <2>5, SyncKeeps
<1> QED BY <1>2, <1>3, <1>4 DEF GuardCheckpoint

LEMMA RenameKeeps == ASSUME DurableInv, RenameCheckpoint PROVE DurableInv'
<1> USE DEF DurableInv
<1>1. /\ truth \in Histories /\ minted' \in Nat /\ stops' \in Nat
      /\ UNCHANGED <<store, disk, fileDisk, truth>> /\ writer.job.stage = "rename"
      /\ LatestSeq(disk) \in Nat
  BY LenProperties DEF RenameCheckpoint, CountersInv, StoreInv, Histories
<1>2. CASE JobEnds /\ UNCHANGED file
  <2>1. WorldInv' /\ WriterHolds(writer', truth, file, LatestSeq(disk))
    BY <1>1, <1>2, EndWorld, EndHolds DEF WriterInv
  <2> QED BY <1>1, <1>2, <2>1, OnlyMemory
<1>3. CASE file' = writer.job.snap /\ JobGoesOn("compact")
  <2> DEFINE snap == writer.job.snap
  <2>1. writer' = [writer EXCEPT !.job.stage = "compact"] /\ UNCHANGED <<power, world>>
    BY <1>3 DEF JobGoesOn, Stage
  <2>2. IsWorld(snap, truth) /\ file.cursor <= snap.cursor /\ snap.cursor <= LatestSeq(disk)
    BY <1>1 DEF WriterInv, WriterHolds, IsCapture
  <2>3. file.cursor \in Nat /\ fileDisk.cursor \in Nat /\ snap.cursor \in Nat
    BY <1>1, <2>2 DEF FileInv, IsWorld
  <2>4. store.floor \in Nat
    <3>1. Len(truth) \in Nat
      BY <1>1, LenProperties DEF Histories
    <3>2. store.floor \in 0..Len(truth)
      BY DEF StoreInv, HoldsRows
    <3> QED BY <3>1, <3>2
  <2>5. WriterHolds([writer EXCEPT !.job.stage = "compact"], truth, snap, LatestSeq(disk))
    <3>1. /\ WriterHolds(writer, truth, file, LatestSeq(disk)) /\ truth \in Histories
          /\ writer.job.stage # "none" /\ "compact" \in {"rename", "compact"}
          /\ snap.cursor <= snap.cursor /\ snap.cursor <= LatestSeq(disk)
          /\ LatestSeq(disk) \in Nat /\ IsWorld(snap, truth)
      BY <1>1, <2>2, <2>3 DEF WriterInv
    <3> QED BY <3>1, StageHolds
  <2>6. CountersInv' /\ StoreInv'
    BY <1>1 DEF CountersInv, StoreInv
  <2>7. FileInv'
    BY <1>1, <1>3, <2>2, <2>3, <2>4 DEF FileInv
  <2>8. WorldInv' /\ WriterInv'
    BY <1>1, <1>3, <2>1, <2>5 DEF WorldInv, WriterInv
  <2> QED BY <2>6, <2>7, <2>8
<1> QED BY <1>2, <1>3 DEF RenameCheckpoint

LEMMA CompactKeeps == ASSUME DurableInv, CompactStore PROVE DurableInv'
<1> USE DEF DurableInv
<1>1. /\ truth \in Histories /\ minted' \in Nat /\ stops' \in Nat
      /\ UNCHANGED <<disk, file, fileDisk, truth>>
      /\ writer.job.stage = "compact" /\ JobEnds
  BY DEF CompactStore, CountersInv
<1>2. WorldInv' /\ WriterHolds(writer', truth, file, LatestSeq(disk))
  BY <1>1, EndWorld, EndHolds DEF WriterInv
<1>3. CASE UNCHANGED store
  BY <1>1, <1>2, <1>3, OnlyMemory
<1>4. CASE AtFrontier(store, writer.job.snap) /\ store' = Compacted(store, writer.job.snap)
  <2>1. writer.job.snap.cursor <= file.cursor /\ writer.job.snap.cursor \in Nat
    BY <1>1, WriterFields DEF WriterInv, WriterHolds, Jobs
  <2>2. HoldsRows(store', truth, Len(truth)) /\ store'.floor <= writer.job.snap.cursor
    BY <1>1, <1>4, <2>1, CompactedRows DEF StoreInv
  <2>3. store'.floor \in Nat /\ file.cursor \in Nat
    BY <1>1, <2>2, LenProperties DEF HoldsRows, FileInv, IsWorld, Histories
  <2>4. StoreInv' /\ FileInv'
    BY <1>1, <2>1, <2>2, <2>3 DEF StoreInv, FileInv
  <2> QED BY <1>1, <1>2, <2>4 DEF CountersInv, WriterInv
<1> QED BY <1>3, <1>4 DEF CompactStore

LEMMA WriteBackKeeps ==
    ASSUME Ordered, DurableInv, WriteBackStore \/ WriteBackFile PROVE DurableInv'
<1> USE DEF DurableInv
<1>1. /\ truth \in Histories /\ minted' \in Nat /\ stops' \in Nat /\ Len(truth) \in Nat
      /\ UNCHANGED <<store, file, truth, world, power, writer>>
  BY LenProperties DEF WriteBackStore, WriteBackFile, CountersInv, Histories
<1>2. WorldInv'
  BY <1>1 DEF WorldInv
<1>3. CASE WriteBackStore
  <2>1. LatestSeq(disk) \in Nat /\ LatestSeq(disk) <= Len(truth)
    BY <1>1 DEF StoreInv
  <2>2. WriterHolds(writer', truth, file, Len(truth))
    BY <1>1, <2>1, DiskGrows DEF WriterInv
  <2> QED BY <1>1, <1>2, <1>3, <2>2, SyncKeeps DEF WriteBackStore
<1>4. CASE WriteBackFile
  <2>1. fileDisk' = file /\ disk' = disk
    BY <1>4 DEF WriteBackFile
  <2>2. /\ file.cursor \in Nat /\ fileDisk.cursor \in Nat /\ disk.floor \in Nat
        /\ fileDisk.cursor <= file.cursor /\ disk.floor <= fileDisk.cursor
    BY <1>1 DEF FileInv, StoreInv, IsWorld, HoldsRows
  <2>3. FileInv'
    BY <1>1, <2>1, <2>2 DEF FileInv
  <2> QED BY <1>1, <1>2, <2>1, <2>3 DEF CountersInv, StoreInv, WriterInv
<1> QED BY <1>1, <1>3, <1>4

LEMMA KillKeeps == ASSUME DurableInv, KillProcess PROVE DurableInv'
<1> USE DEF DurableInv
<1>1. /\ minted' \in Nat /\ stops' \in Nat /\ power' = "down" /\ writer' = QuietWriter
      /\ UNCHANGED <<store, disk, file, fileDisk, truth>>
  BY DEF KillProcess, Stop, CountersInv
<1>2. WorldInv'
  BY <1>1 DEF WorldInv
<1> QED BY <1>1, <1>2, QuietHolds, OnlyMemory

LEMMA HardStopKeeps == ASSUME DurableInv, HardStop PROVE DurableInv'
<1> DEFINE d == LatestSeq(disk)
           u == SubSeq(truth, 1, d)
<1> USE DEF DurableInv
<1>1. /\ truth \in Histories /\ minted' \in Nat /\ stops' \in Nat /\ Len(truth) \in Nat
      /\ power' = "down" /\ writer' = QuietWriter
      /\ UNCHANGED <<disk, fileDisk>> /\ store' = disk /\ file' = fileDisk /\ truth' = u
      /\ d \in 0..Len(truth)
  BY LenProperties DEF HardStop, Stop, CountersInv, StoreInv, Histories
<1>2. u \in Histories /\ Len(u) = d /\ Agree(truth, u, d)
  BY <1>1, ShorterHistory
<1>3. HoldsRows(disk, u, d)
  BY <1>1, <1>2, SameRows DEF StoreInv
<1>4. /\ fileDisk.cursor \in Nat /\ fileDisk.cursor <= d /\ disk.floor <= fileDisk.cursor
  BY <1>1 DEF FileInv, IsWorld
<1>5. IsWorld(fileDisk, u)
  BY <1>2, <1>4, SameWorld DEF FileInv
<1> HIDE DEF u
<1>6. CountersInv'
  BY <1>1, <1>2 DEF CountersInv
<1>7. StoreInv'
  BY <1>1, <1>2, <1>3 DEF StoreInv
<1>8. FileInv'
  BY <1>1, <1>4, <1>5 DEF FileInv
<1>9. WorldInv' /\ WriterInv'
  BY <1>1, QuietHolds DEF WorldInv, WriterInv
<1> QED BY <1>6, <1>7, <1>8, <1>9

LEMMA BootKeeps == ASSUME DurableInv, BootProcess PROVE DurableInv'
<1> USE DEF DurableInv
<1>1. /\ minted' \in Nat /\ stops' \in Nat
      /\ UNCHANGED <<store, disk, file, fileDisk, truth, writer>>
  BY DEF BootProcess, CountersInv
<1>2. world' = WorldAfter(truth, Len(truth))
  BY RestoredHere DEF BootProcess
<1>3. WorldInv'
  BY <1>1, <1>2 DEF WorldInv
<1>4. WriterHolds(writer', truth, file, LatestSeq(disk))
  BY <1>1 DEF WriterInv
<1> QED BY <1>1, <1>3, <1>4, OnlyMemory

LEMMA DurableInvariant ==
    ASSUME Ordered, RebuildsSucceed, Readable PROVE DurableSpec => []DurableInv
<1>1. ASSUME DurableInit PROVE DurableInv
  <2>1. truth = <<>> /\ <<>> \in Histories /\ Len(<<>>) = 0
    BY <1>1 DEF DurableInit, Histories
  <2>2. store = [rows |-> <<>>, floor |-> 0] /\ disk = store
    BY <1>1 DEF DurableInit
  <2>3. /\ StoreAfter(<<>>, 0, 0) = [rows |-> First(<<>>, 0), floor |-> 0]
        /\ First(<<>>, 0) = <<>>
    BY <2>1, Prefixes DEF StoreAfter, First, From
  <2>4. HoldsRows(store, <<>>, 0)
    BY <2>2, <2>3 DEF HoldsRows
  <2>5. LatestSeq(disk) = 0
    BY <2>2 DEF LatestSeq
  <2>6. Seed = WorldAfter(<<>>, 0) /\ Seed.cursor = 0 /\ IsWorld(Seed, <<>>)
    BY <2>1, WholeWorld
  <2>7. CountersInv /\ StoreInv
    BY <1>1, <2>1, <2>2, <2>4, <2>5 DEF DurableInit, CountersInv, StoreInv
  <2>8. FileInv
    BY <1>1, <2>1, <2>2, <2>5, <2>6 DEF DurableInit, FileInv
  <2>9. WorldInv
    BY <1>1, <2>1, <2>6 DEF DurableInit, WorldInv
  <2>10. WriterInv
    BY <1>1, QuietHolds DEF DurableInit, WriterInv
  <2> QED BY <2>7, <2>8, <2>9, <2>10 DEF DurableInv
<1>2. ASSUME DurableInv, [DurableNext]_durableVars PROVE DurableInv'
  <2>1. CASE UNCHANGED durableVars
    BY <1>2, <2>1 DEF durableVars, DurableInv, CountersInv, StoreInv, FileInv, WorldInv,
                      WriterInv
  <2> QED BY <1>2, <2>1, CommitKeeps, RollbackKeeps, RememberedKeeps, FinalKeeps,
             ReadHeadKeeps, GuardKeeps, RenameKeeps, CompactKeeps, WriteBackKeeps,
             KillKeeps, HardStopKeeps, BootKeeps DEF DurableNext
<1> QED BY <1>1, <1>2, PTL DEF DurableSpec
-----------------------------------------------------------------------------
\* Whatever was compacted and whenever the process is killed, a boot restores
\* every committed record and nothing else; hard stops in between included.
THEOREM KillsLoseNothing ==
    ASSUME Ordered, RebuildsSucceed, Readable PROVE DurableSpec => []KillLosesNothing
<1>1. ASSUME DurableInv PROVE KillLosesNothing
  <2>1. First(truth, Len(truth)) = truth
    BY <1>1, Prefixes DEF DurableInv, CountersInv
  <2> QED BY <1>1, <2>1, RestoredHere DEF DurableInv, KillLosesNothing, WorldAfter
<1> QED BY <1>1, DurableInvariant, PTL

\* A hard stop at any moment leaves a store and a checkpoint a boot can read, and
\* takes back the latest records only.
THEOREM HardStopsLoseASuffix ==
    ASSUME Ordered, RebuildsSucceed, Readable PROVE DurableSpec => []HardStopLosesASuffix
<1>1. ASSUME DurableInv PROVE HardStopLosesASuffix
  <2> DEFINE d == LatestSeq(disk)
  <2>1. /\ truth \in Histories /\ d \in 0..Len(truth) /\ HoldsRows(disk, truth, d)
        /\ IsWorld(fileDisk, truth) /\ disk.floor <= fileDisk.cursor
    BY <1>1 DEF DurableInv, CountersInv, StoreInv, FileInv
  <2>2. fileDisk.cursor <= d
    BY <1>1, LenProperties DEF DurableInv, CountersInv, StoreInv, FileInv, IsWorld, Histories
  <2>3. Restorable(disk, fileDisk) /\ Restored(disk, fileDisk) = WorldAfter(truth, d)
    BY <2>1, <2>2, RestoredWorld
  <2>4. First(truth, d) = SubSeq(truth, 1, d)
    BY <2>1, Prefixes
  <2>5. WorldAfter(truth, d).effects = First(truth, d)
    BY DEF WorldAfter
  <2>6. Restored(disk, fileDisk).effects = SubSeq(truth, 1, d)
    BY <2>3, <2>4, <2>5
  <2> QED BY <2>3, <2>6 DEF HardStopLosesASuffix
<1> QED BY <1>1, DurableInvariant, PTL

\* Kills and hard stops together: nothing is lost but the latest records, and
\* those only by a hard stop.
THEOREM StopsLoseASuffix ==
    ASSUME Ordered, RebuildsSucceed, Readable PROVE DurableSpec => []StopsKeepRecords
<1>1. KillLosesNothing /\ HardStopLosesASuffix => StopsKeepRecords
  BY DEF StopsKeepRecords
<1> QED BY <1>1, KillsLoseNothing, HardStopsLoseASuffix, PTL

\* No checkpoint is in place, on disk or not, that leads the durable journal, as
\* long as the guard reads the commit point: where it cannot, the guard passes
\* what it did not compare (snapshot_persistence.rs:151), and this fails.
THEOREM CheckpointsAreDurable ==
    ASSUME Ordered, RebuildsSucceed, Readable PROVE DurableSpec => []CheckpointIsDurable
<1>1. DurableInv => CheckpointIsDurable
  BY DEF DurableInv, FileInv, CheckpointIsDurable
<1> QED BY <1>1, DurableInvariant, PTL

\* While the machine runs, a checkpoint is only ever replaced by a later one.
THEOREM CheckpointsAdvance ==
    ASSUME Ordered, RebuildsSucceed, Readable PROVE DurableSpec => CheckpointNeverRegresses
<1>1. ASSUME DurableInv, [DurableNext]_durableVars, stops' = stops
      PROVE  file'.cursor >= file.cursor
  <2>1. file.cursor \in Nat /\ stops \in Nat
    BY <1>1, LenProperties DEF DurableInv, CountersInv, FileInv, IsWorld, Histories
  <2>2. ASSUME RenameCheckpoint, file' # file PROVE file'.cursor >= file.cursor
    <3>1. file' = writer.job.snap /\ IsCapture(writer.job, truth, file)
      BY <1>1, <2>2 DEF RenameCheckpoint, DurableInv, WriterInv, WriterHolds
    <3>2. file'.cursor \in Nat
      BY <1>1, <3>1, LenProperties DEF IsCapture, IsWorld, DurableInv, CountersInv, Histories
    <3> QED BY <2>1, <3>1, <3>2 DEF IsCapture
  <2>3. ~HardStop
    BY <1>1, <2>1 DEF HardStop, Stop
  <2>4. file' = file \/ RenameCheckpoint
    BY <1>1, <2>3 DEF DurableNext, CommitRecord, CommitRollsBack, Remembered, FinalSnapshot,
           ReadHead, GuardCheckpoint, CompactStore, WriteBackStore, WriteBackFile, KillProcess,
           BootProcess, durableVars
  <2> QED BY <2>1, <2>2, <2>4
<1>2. DurableInv /\ [DurableNext]_durableVars
        => [stops' = stops => file'.cursor >= file.cursor]_durableVars
  BY <1>1
<1> QED BY <1>2, DurableInvariant, PTL DEF DurableSpec, CheckpointNeverRegresses
-----------------------------------------------------------------------------
(* Without hard stops: what the operating system reports, whatever the     *)
(* disk has of it.                                                         *)

\* Every stop leaves what the operating system was told.
ReportedSpec == DurableSpec /\ [][HardStop => KillProcess]_durableVars

ReportedInv ==
    /\ CountersInv /\ WorldInv
    /\ HoldsRows(store, truth, Len(truth))
    /\ IsWorld(file, truth) /\ store.floor <= file.cursor
    /\ WriterHolds(writer, truth, file, Len(truth))

LEMMA ReportedRestores ==
    ASSUME ReportedInv
    PROVE  /\ Restorable(store, file) /\ Restored(store, file) = WorldAfter(truth, Len(truth))
           /\ truth \in Histories /\ Len(truth) \in Nat /\ LatestSeq(store) = Len(truth)
           /\ file.cursor \in Nat /\ file.cursor <= Len(truth)
<1>1. truth \in Histories /\ Len(truth) \in Nat /\ Len(truth) \in 0..Len(truth)
  BY LenProperties DEF ReportedInv, CountersInv, Histories
<1>2. file.cursor \in Nat /\ file.cursor <= Len(truth)
  BY <1>1 DEF ReportedInv, IsWorld
<1>3. LatestSeq(store) = Len(truth)
  BY <1>1, LatestRow DEF ReportedInv
<1> QED BY <1>1, <1>2, <1>3, RestoredWorld DEF ReportedInv

LEMMA ReportedCommit == ASSUME ReportedInv, CommitRecord PROVE ReportedInv'
<1> DEFINE u == Append(truth, minted')
           n == Len(truth)
<1>1. /\ truth \in Histories /\ minted' \in Nat /\ stops' \in Nat /\ n \in Nat
      /\ truth' = u /\ power' = power /\ power = "serving" /\ file' = file
      /\ LatestSeq(store) = n /\ file.cursor \in Nat /\ file.cursor <= n
  BY ReportedRestores DEF CommitRecord, Decide, ReportedInv, CountersInv
<1>2. u \in Histories /\ Len(u) = n + 1 /\ Agree(truth, u, n)
  BY <1>1, LongerHistory
<1>3. store' = [store EXCEPT !.rows = [i \in DOMAIN store.rows \cup {n + 1} |->
                                           IF i = n + 1 THEN minted' ELSE store.rows[i]]]
  BY <1>1 DEF CommitRecord
<1>4. HoldsRows(store', u, n + 1)
  BY <1>1, <1>3, CommittedRows DEF ReportedInv
<1>5. store'.floor = store.floor
  BY <1>3 DEF ReportedInv, HoldsRows, StoreAfter
<1>6. IsWorld(file, u)
  BY <1>1, <1>2, SameWorld DEF ReportedInv
<1>7. world' = WorldAfter(u, n + 1)
  <2>1. world.effects = truth /\ world.next = n + 1
    BY <1>1, Prefixes DEF ReportedInv, WorldInv, WorldAfter
  <2>2. world' = [effects |-> u, cursor |-> n + 1, next |-> n + 2]
    BY <1>1, <2>1 DEF CommitRecord
  <2>3. First(u, Len(u)) = u
    BY <1>2, Prefixes
  <2>4. n + 1 + 1 = n + 2
    BY <1>1
  <2> HIDE DEF u, n
  <2> QED BY <1>2, <2>2, <2>3, <2>4 DEF WorldAfter
<1>8. WriterHolds(writer', u, file, n + 1)
  <2>1. PersistRuntime
    BY DEF CommitRecord
  <2>2. WriterHolds(writer, u, file, n)
    BY <1>2, SameWriter DEF ReportedInv
  <2>3. n + 1 \in Nat /\ n <= n + 1
    BY <1>1
  <2> HIDE DEF u, n
  <2>4. WriterHolds(writer, u, file, n + 1)
    BY <1>1, <2>2, <2>3, DiskGrows
  <2>5. world' = WorldAfter(u, Len(u)) /\ file.cursor <= Len(u)
    BY <1>1, <1>2, <1>7
  <2> QED BY <1>2, <2>1, <2>4, <2>5, PersistHolds
<1> HIDE DEF u, n
<1>9. CountersInv' /\ WorldInv'
  BY <1>1, <1>2, <1>7 DEF CountersInv, WorldInv
<1> QED BY <1>1, <1>2, <1>4, <1>5, <1>6, <1>8, <1>9 DEF ReportedInv

\* A step that leaves what the operating system reports alone.
LEMMA ReportedMemory ==
    ASSUME ReportedInv, UNCHANGED <<store, file, truth>>, minted' \in Nat, stops' \in Nat,
           WorldInv', WriterHolds(writer', truth, file, Len(truth))
    PROVE  ReportedInv'
BY DEF ReportedInv, CountersInv

\* A capture is of the whole history.
LEMMA ReportedCaptures ==
    ASSUME ReportedInv, RebuildsSucceed, CommitRollsBack \/ Remembered \/ FinalSnapshot
    PROVE  ReportedInv'
<1>1. /\ truth \in Histories /\ Len(truth) \in Nat /\ file.cursor <= Len(truth)
      /\ minted' \in Nat /\ stops' \in Nat /\ power = "serving"
      /\ UNCHANGED <<store, file, truth>>
      /\ WriterHolds(writer, truth, file, Len(truth))
  <2>1. /\ truth \in Histories /\ Len(truth) \in Nat /\ file.cursor <= Len(truth)
        /\ minted \in Nat /\ stops \in Nat /\ WriterHolds(writer, truth, file, Len(truth))
    BY ReportedRestores DEF ReportedInv, CountersInv
  <2>2. /\ power = "serving" /\ stops' = stops /\ minted' \in {minted, minted + 1}
        /\ UNCHANGED <<store, file, truth>>
    BY DEF CommitRollsBack, Remembered, FinalSnapshot, Decide
  <2> QED BY <2>1, <2>2
<1>2. world' = WorldAfter(truth, Len(truth))
  BY <1>1, ReportedRestores DEF CommitRollsBack, Remembered, FinalSnapshot, ReportedInv,
                                WorldInv
<1>3. WorldInv'
  BY <1>1, <1>2 DEF WorldInv
<1>4. WriterHolds(writer', truth, file, Len(truth))
  <2>1. CASE PersistRuntime
    BY <1>1, <1>2, <2>1, PersistHolds
  <2>2. CASE FinalSnapshot
    <3>1. writer.claimed \in BOOLEAN /\ [writer EXCEPT !.claimed = writer.claimed] = writer
      BY <1>1, WriterFields DEF Writers
    <3> QED BY <1>1, <1>2, <2>2, <3>1, CaptureJoins DEF FinalSnapshot
  <2> QED BY <2>1, <2>2 DEF CommitRollsBack, Remembered
<1> QED BY <1>1, <1>3, <1>4, ReportedMemory

\* A job may go on whatever the guard proved: a rename needs none of it, and
\* a compaction only the rename before it.
LEMMA ReportedJobs == ASSUME ReportedInv, WriterStep PROVE ReportedInv'
<1> DEFINE n == Len(truth)
           snap == writer.job.snap
<1>1. /\ truth \in Histories /\ n \in Nat /\ n <= n /\ file.cursor \in Nat /\ file.cursor <= n
      /\ truth' = truth /\ minted' \in Nat /\ stops' \in Nat
      /\ WriterHolds(writer, truth, file, n) /\ IsWorld(file, truth) /\ LatestSeq(store) = n
  BY ReportedRestores DEF WriterStep, ReadHead, GuardCheckpoint, RenameCheckpoint,
                          CompactStore, ReportedInv, CountersInv
<1>2. ASSUME JobEnds, store' = store, file' = file PROVE ReportedInv'
  <2>1. WorldInv' /\ WriterHolds(writer', truth, file, n)
    BY <1>1, <1>2, EndWorld, EndHolds DEF ReportedInv
  <2> QED BY <1>1, <1>2, <2>1, ReportedMemory
<1>3. ASSUME writer.job.stage # "none"
      PROVE  IsWorld(snap, truth) /\ file.cursor <= snap.cursor /\ snap.cursor <= n
  BY <1>1, <1>3, WorldType DEF WriterHolds, IsCapture
<1>4. CASE ReadHead
  <2>1. /\ UNCHANGED <<store, file, world, power>> /\ writer.channel # <<>>
        /\ writer' = [writer EXCEPT !.channel = <<>>,
                          !.job = [writer.channel[1] EXCEPT !.head = n, !.stage = "sync"]]
    BY <1>1, <1>4 DEF ReadHead
  <2>2. WriterHolds(writer', truth, file, n)
    BY <1>1, <2>1, TakenHolds
  <2> QED BY <1>1, <2>1, <2>2, ReportedMemory DEF ReportedInv, WorldInv
<1>5. CASE GuardCheckpoint
  <2>1. store' = store /\ file' = file /\ writer.job.stage = "sync"
    BY <1>5 DEF GuardCheckpoint
  <2>2. CASE JobEnds
    BY <1>2, <2>1, <2>2
  <2>3. CASE JobGoesOn("rename")
    <3>1. writer' = [writer EXCEPT !.job.stage = "rename"] /\ UNCHANGED <<power, world>>
      BY <2>3 DEF JobGoesOn, Stage
    <3>2. WriterHolds(writer', truth, file, n)
      BY <1>1, <1>3, <2>1, <3>1, StageHolds
    <3> QED BY <1>1, <2>1, <3>1, <3>2, ReportedMemory DEF ReportedInv, WorldInv
  <2> QED BY <1>5, <2>2, <2>3 DEF GuardCheckpoint
<1>6. CASE RenameCheckpoint
  <2>1. store' = store /\ writer.job.stage = "rename"
    BY <1>6 DEF RenameCheckpoint
  <2>2. CASE JobEnds /\ UNCHANGED file
    BY <1>2, <2>1, <2>2
  <2>3. CASE file' = snap /\ JobGoesOn("compact")
    <3>1. writer' = [writer EXCEPT !.job.stage = "compact"] /\ UNCHANGED <<power, world>>
      BY <2>3 DEF JobGoesOn, Stage
    <3>2. IsWorld(snap, truth) /\ file.cursor <= snap.cursor /\ snap.cursor <= n
      BY <1>3, <2>1
    <3>3. snap.cursor \in Nat /\ store.floor \in Nat
      BY <1>1, <3>2 DEF IsWorld, ReportedInv, HoldsRows
    <3>4. snap.cursor <= snap.cursor
      BY <3>3
    <3>5. WriterHolds(writer', truth, snap, n)
      BY <1>1, <2>1, <3>1, <3>2, <3>4, StageHolds
    <3>6. store.floor <= snap.cursor
      BY <1>1, <3>2, <3>3 DEF ReportedInv
    <3>7. CountersInv' /\ WorldInv'
      BY <1>1, <3>1 DEF ReportedInv, CountersInv, WorldInv
    <3> QED BY <1>1, <2>1, <2>3, <3>2, <3>5, <3>6, <3>7 DEF ReportedInv
  <2> QED BY <1>6, <2>2, <2>3 DEF RenameCheckpoint
<1>7. CASE CompactStore
  <2>1. file' = file /\ writer.job.stage = "compact" /\ JobEnds
    BY <1>7 DEF CompactStore
  <2>2. CASE UNCHANGED store
    BY <1>2, <2>1, <2>2
  <2>3. CASE AtFrontier(store, snap) /\ store' = Compacted(store, snap)
    <3>1. WorldInv' /\ WriterHolds(writer', truth, file, n)
      BY <1>1, <2>1, EndWorld, EndHolds DEF ReportedInv
    <3>2. snap.cursor <= file.cursor /\ snap.cursor \in Nat
      BY <1>1, <2>1, WriterFields DEF WriterHolds, Jobs
    <3>3. HoldsRows(store', truth, n) /\ store'.floor <= snap.cursor
      BY <1>1, <2>3, <3>2, CompactedRows DEF ReportedInv
    <3>4. store'.floor \in Nat
      BY <1>1, <3>3 DEF HoldsRows
    <3>5. store'.floor <= file.cursor
      BY <1>1, <3>2, <3>3, <3>4
    <3> QED BY <1>1, <2>1, <3>1, <3>3, <3>5 DEF ReportedInv, CountersInv
  <2> QED BY <1>7, <2>2, <2>3 DEF CompactStore
<1> QED BY <1>4, <1>5, <1>6, <1>7 DEF WriterStep

LEMMA ReportedInvariant == ASSUME RebuildsSucceed PROVE ReportedSpec => []ReportedInv
<1>1. ASSUME DurableInit PROVE ReportedInv
  <2>1. truth = <<>> /\ truth \in Histories /\ Len(truth) = 0
    BY <1>1 DEF DurableInit, Histories
  <2>2. store = [rows |-> <<>>, floor |-> 0]
    BY <1>1 DEF DurableInit
  <2>3. HoldsRows(store, truth, 0)
    BY <2>1, <2>2, Prefixes DEF HoldsRows, StoreAfter, First, From
  <2>4. Seed = WorldAfter(truth, 0) /\ Seed.cursor = 0 /\ IsWorld(Seed, truth)
    BY <2>1, WholeWorld
  <2> QED BY <1>1, <2>1, <2>2, <2>3, <2>4, QuietHolds
          DEF DurableInit, ReportedInv, CountersInv, WorldInv
<1>2. ASSUME ReportedInv, [DurableNext]_durableVars, [HardStop => KillProcess]_durableVars
      PROVE  ReportedInv'
  <2>1. CASE UNCHANGED durableVars
    BY <1>2, <2>1 DEF durableVars, ReportedInv, CountersInv, WorldInv
  <2>2. CASE WriteBackStore \/ WriteBackFile
    <3>1. UNCHANGED <<store, file, truth, minted, stops, world, power, writer>>
      BY <2>2 DEF WriteBackStore, WriteBackFile
    <3> QED BY <1>2, <3>1, ReportedMemory DEF ReportedInv, CountersInv, WorldInv
  <2>3. CASE KillProcess
    <3>1. /\ UNCHANGED <<store, file, truth, minted>> /\ stops' \in Nat
          /\ power' = "down" /\ writer' = QuietWriter
      BY <1>2, <2>3 DEF KillProcess, Stop, ReportedInv, CountersInv
    <3> QED BY <1>2, <3>1, QuietHolds, ReportedMemory DEF ReportedInv, CountersInv, WorldInv
  <2>4. CASE BootProcess
    <3>1. UNCHANGED <<store, file, truth, minted, stops, writer>>
      BY <2>4 DEF BootProcess
    <3>2. WorldInv'
      BY <1>2, <2>4, <3>1, ReportedRestores DEF BootProcess, WorldInv
    <3> QED BY <1>2, <3>1, <3>2, ReportedMemory DEF ReportedInv, CountersInv
  <2>5. CASE WriterStep
    BY <1>2, <2>5, ReportedJobs
  <2>6. CASE HardStop
    <3>1. stops' # stops
      BY <1>2, <2>6 DEF HardStop, Stop, ReportedInv, CountersInv
    <3>2. KillProcess
      BY <1>2, <2>6, <3>1 DEF durableVars
    <3> QED BY <2>3, <3>2
  <2> QED BY <1>2, <2>1, <2>2, <2>3, <2>4, <2>5, <2>6, ReportedCommit, ReportedCaptures
          DEF DurableNext, WriterStep
<1> QED BY <1>1, <1>2, PTL DEF ReportedSpec, DurableSpec

\* As long as no hard stop takes anything back, no rollback, kill, boot or
\* compaction loses a record, also behind a checkpoint that nothing was compared
\* with: without assumption on Ordered or Readable.
THEOREM KillsAloneLoseNothing ==
    ASSUME RebuildsSucceed PROVE ReportedSpec => []KillLosesNothing
<1>1. ASSUME ReportedInv PROVE KillLosesNothing
  <2>1. First(truth, Len(truth)) = truth
    BY <1>1, ReportedRestores, Prefixes
  <2> QED BY <1>1, <2>1, ReportedRestores DEF KillLosesNothing, WorldAfter
<1> QED BY <1>1, ReportedInvariant, PTL

\* Under the same assumption a checkpoint is only ever replaced by a later one.
THEOREM CheckpointsAdvanceAlone ==
    ASSUME RebuildsSucceed PROVE ReportedSpec => CheckpointNeverRegresses
<1>1. ASSUME ReportedInv, [DurableNext]_durableVars, stops' = stops
      PROVE  file'.cursor >= file.cursor
  <2>1. file.cursor \in Nat /\ Len(truth) \in Nat /\ stops \in Nat
    BY <1>1, ReportedRestores DEF ReportedInv, CountersInv
  <2>2. ASSUME RenameCheckpoint, file' # file PROVE file'.cursor >= file.cursor
    <3>1. file' = writer.job.snap /\ IsCapture(writer.job, truth, file)
      BY <1>1, <2>2 DEF RenameCheckpoint, ReportedInv, WriterHolds
    <3> QED BY <2>1, <3>1 DEF IsCapture, IsWorld
  <2>3. ~HardStop
    BY <1>1, <2>1 DEF HardStop, Stop
  <2>4. file' = file \/ RenameCheckpoint
    BY <1>1, <2>3 DEF DurableNext, CommitRecord, CommitRollsBack, Remembered, FinalSnapshot,
           ReadHead, GuardCheckpoint, CompactStore, WriteBackStore, WriteBackFile, KillProcess,
           BootProcess, durableVars
  <2> QED BY <2>1, <2>2, <2>4
<1>2. ReportedInv /\ [DurableNext]_durableVars
        => [stops' = stops => file'.cursor >= file.cursor]_durableVars
  BY <1>1
<1> QED BY <1>2, ReportedInvariant, PTL DEF ReportedSpec, DurableSpec, CheckpointNeverRegresses
-----------------------------------------------------------------------------
(* What can be restored implements DurableLog.                             *)

LEMMA StandsFor ==
    ASSUME NEW t \in Histories, NEW m \in 0..Len(t), NEW s, HoldsRows(s, t, m),
           NEW f, IsWorld(f, t), s.floor <= f.cursor, f.cursor <= m
    PROVE  Stand(s, f) = First(t, m)
BY RestoredWorld DEF Stand, WorldAfter

LEMMA FirstBegins ==
    ASSUME NEW t \in Histories, NEW n \in 0..Len(t), NEW m \in 0..n
    PROVE  records!Begins(First(t, m), First(t, n)) /\ records!Begins(First(t, m), t)
<1>1. Len(t) \in Nat /\ m \in 0..Len(t)
  BY LenProperties DEF Histories
<1>2. /\ Len(First(t, m)) = m /\ Len(First(t, n)) = n
      /\ \A i \in 1..m : First(t, m)[i] = t[i] /\ First(t, n)[i] = t[i]
  <2>1. Len(First(t, m)) = m /\ Len(First(t, n)) = n
    BY <1>1, Prefixes
  <2> QED BY <1>1, <2>1 DEF First
<1> QED BY <1>1, <1>2 DEF records!Begins

LEMMA RecoverableStep ==
    ASSUME DurableInv, DurableInv', [DurableNext]_durableVars PROVE records!Next
<1> DEFINE d == LatestSeq(disk)
           log == Stand(store, file)
           safe == Stand(disk, fileDisk)
<1>1. truth \in Histories /\ d \in 0..Len(truth) /\ Len(truth) \in Nat
  BY LenProperties DEF DurableInv, CountersInv, StoreInv, Histories
<1>2. log = truth /\ safe = First(truth, d)
  <2>1. /\ HoldsRows(store, truth, Len(truth)) /\ HoldsRows(disk, truth, LatestSeq(disk))
        /\ LatestSeq(disk) \in 0..Len(truth)
        /\ IsWorld(file, truth) /\ IsWorld(fileDisk, truth)
        /\ file.cursor <= LatestSeq(disk) /\ fileDisk.cursor <= file.cursor
        /\ store.floor <= file.cursor /\ disk.floor <= fileDisk.cursor
    BY DEF DurableInv, StoreInv, FileInv
  <2>2. /\ Len(truth) \in 0..Len(truth) /\ store.floor <= file.cursor /\ file.cursor <= Len(truth)
        /\ fileDisk.cursor <= LatestSeq(disk)
    BY <1>1, <2>1, LenProperties DEF Histories, IsWorld
  <2>3. Stand(store, file) = First(truth, Len(truth))
    BY <1>1, <2>1, <2>2, StandsFor
  <2>4. Stand(disk, fileDisk) = First(truth, LatestSeq(disk))
    BY <1>1, <2>1, <2>2, StandsFor
  <2>5. First(truth, Len(truth)) = truth
    BY <1>1, Prefixes
  <2> QED BY <2>3, <2>4, <2>5
<1>4. truth' \in Histories /\ d' \in 0..Len(truth')
  BY DEF DurableInv, CountersInv, StoreInv
<1>3. log' = truth' /\ safe' = First(truth', d')
  <2>1. /\ HoldsRows(store', truth', Len(truth')) /\ HoldsRows(disk', truth', LatestSeq(disk'))
        /\ LatestSeq(disk') \in 0..Len(truth')
        /\ IsWorld(file', truth') /\ IsWorld(fileDisk', truth')
        /\ file'.cursor <= LatestSeq(disk') /\ fileDisk'.cursor <= file'.cursor
        /\ store'.floor <= file'.cursor /\ disk'.floor <= fileDisk'.cursor
    BY DEF DurableInv, StoreInv, FileInv
  <2>2. /\ Len(truth') \in 0..Len(truth') /\ store'.floor <= file'.cursor /\ file'.cursor <= Len(truth')
        /\ fileDisk'.cursor <= LatestSeq(disk')
    BY <1>4, <2>1, LenProperties DEF Histories, IsWorld
  <2>3. Stand(store', file') = First(truth', Len(truth'))
    BY <1>4, <2>1, <2>2, StandsFor
  <2>4. Stand(disk', fileDisk') = First(truth', LatestSeq(disk'))
    BY <1>4, <2>1, <2>2, StandsFor
  <2>5. First(truth', Len(truth')) = truth'
    BY <1>4, Prefixes
  <2> QED BY <2>3, <2>4, <2>5
<1> HIDE DEF log, safe
<1>5. ASSUME truth' = truth, disk' = disk \/ disk' = store PROVE records!Secure
  <2>1. LatestSeq(store) = Len(truth)
    BY <1>1, LatestRow DEF DurableInv, StoreInv
  <2>2. d' \in 0..Len(truth) /\ d \in 0..d'
    BY <1>1, <1>5, <2>1
  <2>3. records!Begins(safe, safe') /\ records!Begins(safe', log)
    BY <1>1, <1>2, <1>3, <1>5, <2>2, FirstBegins
  <2> QED BY <1>2, <1>3, <1>5, <2>3 DEF records!Secure, log, safe
<1>6. ASSUME CommitRecord PROVE records!Take
  <2>1. /\ truth' = Append(truth, minted') /\ minted' \in Nat
        /\ disk' = disk /\ fileDisk' = fileDisk
    BY <1>6 DEF CommitRecord, Decide, DurableInv, CountersInv
  <2>2. Agree(truth, truth', Len(truth)) /\ Len(truth') = Len(truth) + 1
    BY <1>1, <2>1, LongerHistory
  <2>3. records!Begins(log, log') /\ Len(log') = Len(log) + 1
    BY <1>1, <1>2, <1>3, <2>2 DEF Agree, records!Begins
  <2> QED BY <2>1, <2>3 DEF records!Take, log, safe
<1>7. ASSUME HardStop PROVE records!Fall
  <2>1. disk' = disk /\ fileDisk' = fileDisk /\ truth' = SubSeq(truth, 1, d)
    BY <1>7 DEF HardStop, Stop
  <2>2. safe' = safe
    BY <2>1 DEF safe
  <2>3. log' = safe
    BY <1>1, <1>2, <1>3, <2>1, Prefixes
  <2> QED BY <2>2, <2>3 DEF records!Fall, log, safe
<1>8. CASE UNCHANGED <<truth, disk>>
  BY <1>5, <1>8 DEF records!Next
<1>9. CASE UNCHANGED truth /\ (SyncStore \/ UNCHANGED disk)
  BY <1>5, <1>9 DEF records!Next, SyncStore
<1> QED BY <1>6, <1>7, <1>8, <1>9
        DEF records!Next, DurableNext, durableVars, CommitRollsBack, Remembered, FinalSnapshot,
            ReadHead, GuardCheckpoint, RenameCheckpoint, CompactStore, WriteBackStore,
            WriteBackFile, KillProcess, Stop, BootProcess

\* What a boot could restore is a log with a safe part: a commit adds one record,
\* a sync secures some, a hard stop falls back to them, and no checkpoint,
\* compaction, rollback, kill or boot changes either.
THEOREM RecordsAreRecoverable ==
    ASSUME Ordered, RebuildsSucceed, Readable PROVE DurableSpec => RecoverableSpec
<1>1. ASSUME DurableInit PROVE records!Init
  <2>1. store.rows = <<>> /\ store.floor = 0 /\ disk = store /\ file = Seed /\ fileDisk = Seed
    BY <1>1 DEF DurableInit
  <2>2. Restored(store, file) = Seed /\ Restorable(store, file)
    <3>1. LatestSeq(store) = 0 /\ Restorable(store, file)
      BY <2>1 DEF LatestSeq, Restorable
    <3>2. Restored(store, file) = ReconciledWith(file, store)
      <4>1. ~Usable(file, store)
        BY <2>1 DEF Usable, Seed
      <4> QED BY <2>1, <4>1 DEF Restored
    <3> QED BY <2>1, <3>1, <3>2 DEF ReconciledWith
  <2> QED BY <2>1, <2>2 DEF records!Init, Stand, Seed
<1>2. DurableInv /\ DurableInv' /\ [DurableNext]_durableVars => records!Next
  BY RecoverableStep
<1> QED BY <1>1, <1>2, DurableInvariant, PTL DEF DurableSpec, RecoverableSpec, records!Spec
-----------------------------------------------------------------------------
(* Types, which need neither assumption: whatever is lost or fails, a      *)
(* store's rows are without gaps behind its floor, and nothing anywhere is *)
(* newer than the latest record that was decided.                          *)

\* Worlds, jobs and writers of the first k records.
WorldsOf(k) == [effects : Seq(1..k), cursor : 0..k, next : 1..k + 1]
JobsOf(k) == [snap : WorldsOf(k), flush : BOOLEAN, head : 0..k,
              stage : {"none", "queued", "sync", "rename", "compact"}]
WritersOf(J) == [claimed : BOOLEAN, channel : Seq(J), job : J]

\* A store of rows up to m, each of the first k records.
RowsUpTo(s, m, k) == /\ s.floor \in 0..m /\ s.rows \in [From(s.floor)..m -> 1..k]
                     /\ s = [rows |-> s.rows, floor |-> s.floor]

StoreOf(s, k) == LatestSeq(s) \in 0..k /\ RowsUpTo(s, LatestSeq(s), k)

LEMMA LatestOf ==
    ASSUME NEW k \in Nat, NEW m \in Nat, NEW s, RowsUpTo(s, m, k)
    PROVE  /\ LatestSeq(s) = m
           /\ DOMAIN s.rows = From(s.floor)..m
           /\ s.rows = <<>> <=> m = 0
           /\ m = 0 => s.floor = 0
<1>1. /\ DOMAIN s.rows = From(s.floor)..m /\ s.floor \in 0..m
      /\ s.rows = [i \in From(s.floor)..m |-> s.rows[i]]
  BY DEF RowsUpTo
<1>2. CASE m = 0
  <2>1. From(s.floor)..m = {} /\ s.floor = 0
    BY <1>1, <1>2 DEF From
  <2>2. s.rows = <<>>
    BY <1>1, <2>1
  <2> QED BY <1>1, <1>2, <2>1, <2>2 DEF LatestSeq
<1>3. CASE m # 0
  <2>1. m \in DOMAIN s.rows /\ s.rows # <<>>
    BY <1>1, <1>3 DEF From
  <2>2. \A i \in DOMAIN s.rows : i <= m /\ i \in Int
    BY <1>1 DEF From
  <2>3. LatestSeq(s) \in DOMAIN s.rows /\ \A i \in DOMAIN s.rows : i <= LatestSeq(s)
    BY <2>1, <2>2 DEF LatestSeq
  <2> QED BY <1>1, <1>3, <2>1, <2>2, <2>3
<1> QED BY <1>2, <1>3

LEMMA MoreRecords ==
    ASSUME NEW k \in Nat
    PROVE  /\ Seq(1..k) \subseteq Seq(1..k + 1)
           /\ WorldsOf(k) \subseteq WorldsOf(k + 1)
           /\ JobsOf(k) \subseteq JobsOf(k + 1)
           /\ WritersOf(JobsOf(k)) \subseteq WritersOf(JobsOf(k + 1))
           /\ \A s : StoreOf(s, k) => StoreOf(s, k + 1)
<1>1. \A S, T : S \subseteq T => Seq(S) \subseteq Seq(T)
  OBVIOUS
<1>2. 1..k \subseteq 1..k + 1 /\ 0..k \subseteq 0..k + 1 /\ 1..k + 1 \subseteq 1..k + 1 + 1
  OBVIOUS
<1>3. Seq(1..k) \subseteq Seq(1..k + 1)
  BY <1>1, <1>2
<1>4. WorldsOf(k) \subseteq WorldsOf(k + 1)
  BY <1>2, <1>3 DEF WorldsOf
<1>5. JobsOf(k) \subseteq JobsOf(k + 1)
  BY <1>2, <1>4 DEF JobsOf
<1>6. Seq(JobsOf(k)) \subseteq Seq(JobsOf(k + 1))
  BY <1>1, <1>5
<1>7. WritersOf(JobsOf(k)) \subseteq WritersOf(JobsOf(k + 1))
  BY <1>5, <1>6 DEF WritersOf
<1>8. \A s : StoreOf(s, k) => StoreOf(s, k + 1)
  BY <1>2 DEF StoreOf, RowsUpTo
<1> QED BY <1>3, <1>4, <1>5, <1>7, <1>8

LEMMA EmptyWorlds ==
    ASSUME NEW k \in Nat
    PROVE  /\ Seed \in WorldsOf(k) /\ NoJob \in JobsOf(k)
           /\ QuietWriter \in WritersOf(JobsOf(k)) /\ Len(QuietWriter.channel) = 0
<1>1. \A S : <<>> \in Seq(S)
  OBVIOUS
<1>2. 0 \in 0..k /\ 1 \in 1..k + 1
  OBVIOUS
<1>3. Seed \in WorldsOf(k)
  BY <1>1, <1>2 DEF Seed, WorldsOf
<1>4. NoJob \in JobsOf(k)
  BY <1>2, <1>3 DEF NoJob, JobsOf
<1> QED BY <1>1, <1>3, <1>4 DEF QuietWriter, WritersOf

LEMMA ReplayOf ==
    ASSUME NEW k \in Nat, NEW s, StoreOf(s, k), LatestSeq(s) # 0,
           NEW w \in WorldsOf(k), w.cursor <= LatestSeq(s), From(s.floor) <= w.cursor + 1
    PROVE  ReconciledWith(Replay(w, s), s) \in WorldsOf(k)
<1> DEFINE m == LatestSeq(s)
           c == w.cursor
           rows == RowsAfter(s, c)
<1>1. /\ m \in Nat /\ m <= k /\ c \in Nat /\ m - c \in Nat /\ DOMAIN s.rows = From(s.floor)..m
      /\ w.effects \in Seq(1..k)
      /\ \A i \in DOMAIN s.rows : s.rows[i] \in 1..k
  <2>1. m \in 0..k /\ RowsUpTo(s, m, k) /\ w.effects \in Seq(1..k) /\ c \in 0..k
    BY DEF StoreOf, WorldsOf
  <2>2. DOMAIN s.rows = From(s.floor)..m /\ \A i \in DOMAIN s.rows : s.rows[i] \in 1..k
    BY <2>1 DEF RowsUpTo
  <2>3. c <= m
    OBVIOUS
  <2> HIDE DEF m, c
  <2> QED BY <2>1, <2>2, <2>3
<1>2. \A i \in 1..m - c : s.rows[c + i] \in 1..k
  <2>1. \A i \in 1..m - c : c + i \in From(s.floor)..m
    BY <1>1 DEF From, StoreOf, RowsUpTo
  <2> QED BY <1>1, <2>1
<1>3. rows \in Seq(1..k)
  <2>1. rows = [i \in 1..m - c |-> s.rows[c + i]]
    BY DEF RowsAfter
  <2>2. rows \in [1..m - c -> 1..k]
    BY <1>2, <2>1
  <2>3. \A S : \A n \in Nat : \A g \in [1..n -> S] : g \in Seq(S)
    OBVIOUS
  <2> HIDE DEF rows
  <2> QED BY <1>1, <2>2, <2>3
<1>4. w.effects \o rows \in Seq(1..k)
  <2>1. \A S : \A a, b \in Seq(S) : a \o b \in Seq(S)
    OBVIOUS
  <2> HIDE DEF rows
  <2> QED BY <1>1, <1>3, <2>1
<1>5. ReconciledWith(Replay(w, s), s) =
        [effects |-> w.effects \o rows, cursor |-> m, next |-> m + 1]
  BY DEF ReconciledWith, Replay
<1>6. m \in 0..k /\ m + 1 \in 1..k + 1
  BY <1>1
<1> HIDE DEF rows, m
<1> QED BY <1>4, <1>5, <1>6 DEF WorldsOf

\* What is restored is made of the records there are.
LEMMA RestoredOf ==
    ASSUME NEW k \in Nat, NEW s, StoreOf(s, k), NEW f \in WorldsOf(k), Restorable(s, f)
    PROVE  Restored(s, f) \in WorldsOf(k)
<1>1. /\ s.rows = <<>> <=> LatestSeq(s) = 0
      /\ LatestSeq(s) \in Nat /\ s.floor \in 0..LatestSeq(s) /\ f.cursor \in Nat
  BY LatestOf DEF StoreOf, RowsUpTo, WorldsOf
<1>2. CASE s.rows = <<>>
  <2>1. ~Usable(f, s)
    BY <1>1, <1>2 DEF Usable
  <2>2. Restored(s, f) = ReconciledWith(f, s)
    BY <1>2, <2>1 DEF Restored
  <2> QED BY <1>1, <1>2, <2>2 DEF ReconciledWith
<1>3. CASE s.rows # <<>> /\ Usable(f, s)
  <2>1. Restored(s, f) = ReconciledWith(Replay(f, s), s)
    BY <1>3 DEF Restored
  <2>2. f.cursor <= LatestSeq(s) /\ From(s.floor) <= f.cursor + 1
    BY <1>1, <1>3 DEF Usable, From
  <2> QED BY <1>1, <1>3, <2>1, <2>2, ReplayOf
<1>4. CASE s.rows # <<>> /\ ~Usable(f, s)
  <2>1. Restored(s, f) = ReconciledWith(Replay(Seed, s), s)
    BY <1>4 DEF Restored
  <2>2. Seed \in WorldsOf(k) /\ Seed.cursor = 0
    BY EmptyWorlds DEF Seed
  <2>3. Seed.cursor <= LatestSeq(s) /\ From(s.floor) <= Seed.cursor + 1
    BY <1>1, <1>4, <2>2 DEF Restorable, From
  <2> QED BY <1>1, <1>4, <2>1, <2>2, <2>3, ReplayOf
<1> QED BY <1>2, <1>3, <1>4

\* Writers whose jobs are in J, with one message in the channel at most.
WriterOf(w, J) == w \in WritersOf(J) /\ Len(w.channel) <= 1

LEMMA CapturedOf ==
    ASSUME NEW k \in Nat, world' \in WorldsOf(k), NEW flush \in BOOLEAN
    PROVE  Captured(flush) \in JobsOf(k)
<1>1. Captured(flush) = [snap |-> world', flush |-> flush, head |-> 0, stage |-> "queued"]
  <2>1. NoJob = [snap |-> Seed, flush |-> FALSE, head |-> 0, stage |-> "none"]
    BY DEF NoJob
  <2>2. Captured(flush) = [NoJob EXCEPT !.snap = world', !.flush = flush, !.stage = "queued"]
    BY DEF Captured
  <2> QED BY <2>1, <2>2
<1>2. 0 \in 0..k
  OBVIOUS
<1> QED BY <1>1, <1>2 DEF JobsOf

LEMMA ScheduledOf ==
    ASSUME NEW J, NEW w, WriterOf(w, J), w.channel = <<>>, NEW flush, Captured(flush) \in J,
           NEW b \in BOOLEAN, NEW v, v = w \/ v = [w EXCEPT !.claimed = b]
    PROVE  WriterOf(Scheduled(v, flush), J)
<1> DEFINE job == Captured(flush)
<1>1. PICK claimed \in BOOLEAN, work \in J :
          v = [claimed |-> claimed, channel |-> <<>>, job |-> work]
  <2>1. w = [claimed |-> w.claimed, channel |-> <<>>, job |-> w.job]
    BY DEF WriterOf, WritersOf
  <2>2. w.claimed \in BOOLEAN /\ w.job \in J
    BY DEF WriterOf, WritersOf
  <2>3. [w EXCEPT !.claimed = b] = [claimed |-> b, channel |-> <<>>, job |-> w.job]
    BY <2>1
  <2> QED BY <2>1, <2>2, <2>3
<1>2. Scheduled(v, flush) = [claimed |-> claimed, channel |-> Append(<<>>, job), job |-> work]
  BY <1>1 DEF Scheduled
<1>3. \A x \in J : Append(<<>>, x) \in Seq(J) /\ Len(Append(<<>>, x)) = 1
  OBVIOUS
<1> HIDE DEF job
<1>4. Append(<<>>, job) \in Seq(J) /\ Len(Append(<<>>, job)) = 1
  BY <1>3 DEF job
<1> QED BY <1>2, <1>4 DEF WriterOf, WritersOf

LEMMA PersistOf ==
    ASSUME NEW k \in Nat, WriterOf(writer, JobsOf(k)), world' \in WorldsOf(k), PersistRuntime
    PROVE  WriterOf(writer', JobsOf(k))
<1>1. CASE writer' = writer
  BY <1>1
<1>2. CASE writer.channel = <<>> /\ writer' = Scheduled([writer EXCEPT !.claimed = TRUE], FALSE)
  BY <1>2, CapturedOf, ScheduledOf
<1> QED BY <1>1, <1>2 DEF PersistRuntime

LEMMA WriterParts ==
    ASSUME NEW J, NEW w, WriterOf(w, J)
    PROVE  \E claimed \in BOOLEAN, channel \in Seq(J), job \in J :
               /\ w = [claimed |-> claimed, channel |-> channel, job |-> job]
               /\ Len(channel) <= 1
<1>1. w = [claimed |-> w.claimed, channel |-> w.channel, job |-> w.job]
  BY DEF WriterOf, WritersOf
<1> QED BY <1>1 DEF WriterOf, WritersOf

LEMMA ReleasedOf ==
    ASSUME NEW J, NEW w, WriterOf(w, J), NEW job \in J, NEW b \in BOOLEAN
    PROVE  WriterOf([w EXCEPT !.claimed = b, !.job = job], J)
<1> DEFINE released == [w EXCEPT !.claimed = b]
<1>1. PICK claimed \in BOOLEAN, channel \in Seq(J), old \in J :
          /\ w = [claimed |-> claimed, channel |-> channel, job |-> old]
          /\ Len(channel) <= 1
  BY WriterParts
<1>2. [w EXCEPT !.claimed = b, !.job = job] = [released EXCEPT !.job = job]
  OBVIOUS
<1>3. released = [claimed |-> b, channel |-> channel, job |-> old]
  BY <1>1
<1> HIDE DEF released
<1>4. [released EXCEPT !.job = job] = [claimed |-> b, channel |-> channel, job |-> job]
  BY <1>3
<1> QED BY <1>1, <1>2, <1>4 DEF WriterOf, WritersOf

LEMMA EndOf ==
    ASSUME NEW k \in Nat, WriterOf(writer, JobsOf(k)), world \in WorldsOf(k), JobEnds,
           power \in {"down", "serving", "draining", "unbootable"}
    PROVE  /\ WriterOf(writer', JobsOf(k)) /\ world' \in WorldsOf(k)
           /\ power' \in {"down", "serving", "draining", "unbootable"}
<1>1. NoJob \in JobsOf(k) /\ WriterOf(QuietWriter, JobsOf(k)) /\ Seed \in WorldsOf(k)
  BY EmptyWorlds DEF WriterOf
<1>2. WriterOf([writer EXCEPT !.claimed = FALSE, !.job = NoJob], JobsOf(k))
  <2> DEFINE J == JobsOf(k)
  <2> HIDE DEF J
  <2>1. WriterOf(writer, J) /\ NoJob \in J
    BY <1>1 DEF J
  <2>2. WriterOf([writer EXCEPT !.claimed = FALSE, !.job = NoJob], J)
    BY <2>1, ReleasedOf
  <2> QED BY <2>2 DEF J
<1> QED BY <1>1, <1>2 DEF JobEnds

LEMMA JobOf ==
    ASSUME NEW J, NEW w, WriterOf(w, J), NEW job \in J
    PROVE  /\ WriterOf([w EXCEPT !.job = job], J)
           /\ WriterOf([w EXCEPT !.channel = <<>>, !.job = job], J)
           /\ w.job \in J
           /\ w.channel # <<>> => w.channel[1] \in J
<1>1. PICK claimed \in BOOLEAN, channel \in Seq(J), old \in J :
          /\ w = [claimed |-> claimed, channel |-> channel, job |-> old]
          /\ Len(channel) <= 1
  BY WriterParts
<1>2. [w EXCEPT !.job = job] = [claimed |-> claimed, channel |-> channel, job |-> job]
  BY <1>1
<1>3. [w EXCEPT !.channel = <<>>, !.job = job]
        = [claimed |-> claimed, channel |-> <<>>, job |-> job]
  <2> DEFINE emptied == [w EXCEPT !.channel = <<>>]
  <2>1. [w EXCEPT !.channel = <<>>, !.job = job] = [emptied EXCEPT !.job = job]
    OBVIOUS
  <2>2. emptied = [claimed |-> claimed, channel |-> <<>>, job |-> old]
    BY <1>1
  <2> HIDE DEF emptied
  <2> QED BY <2>1, <2>2
<1>4. <<>> \in Seq(J) /\ Len(<<>>) <= 1
  OBVIOUS
<1>5. channel # <<>> => channel[1] \in J
  OBVIOUS
<1>6. WriterOf([w EXCEPT !.job = job], J)
  BY <1>1, <1>2 DEF WriterOf, WritersOf
<1>7. WriterOf([w EXCEPT !.channel = <<>>, !.job = job], J)
  BY <1>3, <1>4 DEF WriterOf, WritersOf
<1> QED BY <1>1, <1>5, <1>6, <1>7

LEMMA CommittedOf ==
    ASSUME NEW k \in Nat, NEW s, StoreOf(s, k), NEW n, n = LatestSeq(s) + 1,
           NEW rows, rows = [i \in DOMAIN s.rows \cup {n} |->
                                IF i = n THEN k + 1 ELSE s.rows[i]]
    PROVE  /\ StoreOf([s EXCEPT !.rows = rows], k + 1)
           /\ LatestSeq([s EXCEPT !.rows = rows]) = n
<1>1. /\ LatestSeq(s) \in Nat /\ LatestSeq(s) <= k /\ DOMAIN s.rows = From(s.floor)..LatestSeq(s)
      /\ s.floor \in 0..LatestSeq(s)
      /\ LatestSeq(s) = 0 => s.floor = 0
  BY LatestOf DEF StoreOf, RowsUpTo
<1>2. \A i \in DOMAIN s.rows : s.rows[i] \in 1..k + 1
  <2>1. \A i \in DOMAIN s.rows : s.rows[i] \in 1..k
    BY <1>1 DEF StoreOf, RowsUpTo
  <2> QED BY <2>1
<1>3. DOMAIN s.rows \cup {n} = From(s.floor)..n
  BY <1>1 DEF From
<1>4. rows \in [From(s.floor)..n -> 1..k + 1]
  BY <1>2, <1>3
<1>5. PICK floor \in 0..LatestSeq(s) :
          floor = s.floor /\ [s EXCEPT !.rows = rows] = [rows |-> rows, floor |-> floor]
  <2>1. PICK old \in {s.rows}, floor \in 0..LatestSeq(s) :
            s = [rows |-> old, floor |-> floor]
    BY <1>1 DEF StoreOf, RowsUpTo
  <2>2. [s EXCEPT !.rows = rows] = [rows |-> rows, floor |-> floor]
    BY <2>1
  <2> QED BY <2>1, <2>2
<1> DEFINE t == [s EXCEPT !.rows = rows]
<1>6. n \in 0..k + 1 /\ n \in Nat /\ floor \in 0..n
  BY <1>1
<1>7. RowsUpTo(t, n, k + 1)
  <2>1. t = [rows |-> rows, floor |-> floor] /\ rows \in [From(floor)..n -> 1..k + 1]
    BY <1>4, <1>5
  <2> HIDE DEF t
  <2> QED BY <1>6, <2>1 DEF RowsUpTo
<1> HIDE DEF t
<1>8. LatestSeq(t) = n
  BY <1>6, <1>7, LatestOf
<1>9. StoreOf(t, k + 1)
  BY <1>6, <1>7, <1>8 DEF StoreOf
<1> QED BY <1>8, <1>9 DEF t

LEMMA CompactedOf ==
    ASSUME NEW k \in Nat, NEW s, StoreOf(s, k), NEW snap, AtFrontier(s, snap)
    PROVE  StoreOf(Compacted(s, snap), k) /\ LatestSeq(Compacted(s, snap)) = LatestSeq(s)
<1> DEFINE m == LatestSeq(s)
           rows == [i \in Kept(s, snap) |-> s.rows[i]]
<1>1. /\ m \in 0..k /\ m \in Nat /\ DOMAIN s.rows = From(s.floor)..m
      /\ s.floor \in 0..m /\ \A i \in DOMAIN s.rows : s.rows[i] \in 1..k
      /\ snap.cursor = m /\ m > 0
  <2>1. m \in 0..k /\ RowsUpTo(s, m, k)
    BY DEF StoreOf
  <2>2. snap.cursor = m /\ snap.cursor > 0
    BY DEF AtFrontier
  <2>3. s.floor \in 0..m /\ s.rows \in [From(s.floor)..m -> 1..k]
    BY <2>1 DEF RowsUpTo
  <2>4. DOMAIN s.rows = From(s.floor)..m /\ \A i \in DOMAIN s.rows : s.rows[i] \in 1..k
    BY <2>3
  <2> HIDE DEF m
  <2>5. m \in Nat
    BY <2>1
  <2> QED BY <2>1, <2>2, <2>3, <2>4, <2>5
<1>2. CASE Kept(s, snap) = DOMAIN s.rows
  BY <1>2 DEF Compacted
<1>3. CASE Kept(s, snap) # DOMAIN s.rows
  <2>1. Kept(s, snap) = From(m)..m
    BY <1>1 DEF Kept, From
  <2>2. rows \in [From(m)..m -> 1..k]
    BY <1>1, <2>1 DEF Kept
  <2>3. Compacted(s, snap) = [rows |-> rows, floor |-> m]
    BY <1>1, <1>3 DEF Compacted
  <2> HIDE DEF rows, m
  <2>4. RowsUpTo(Compacted(s, snap), m, k)
    BY <1>1, <2>2, <2>3 DEF RowsUpTo
  <2>5. LatestSeq(Compacted(s, snap)) = m
    BY <1>1, <2>4, LatestOf
  <2> QED BY <1>1, <2>4, <2>5 DEF StoreOf, m
<1> QED BY <1>2, <1>3

Powers == {"down", "serving", "draining", "unbootable"}

TypedInv ==
    /\ minted \in 0..MaxRecords /\ stops \in 0..MaxStops /\ power \in Powers
    /\ StoreOf(store, minted) /\ StoreOf(disk, minted)
    /\ file \in WorldsOf(minted) /\ fileDisk \in WorldsOf(minted) /\ world \in WorldsOf(minted)
    /\ WriterOf(writer, JobsOf(minted))
    /\ truth \in Seq(1..minted) /\ Len(truth) = LatestSeq(store)
    /\ LatestSeq(disk) <= Len(truth)

LEMMA TypedImplies == ASSUME TypedInv PROVE DurableTypeOK
<1> DEFINE k == minted
<1>1. k \in Nat /\ k \in 0..MaxRecords /\ MaxRecords \in Nat
  BY DurableAssumption DEF TypedInv
<1>2. 1..k \subseteq 1..MaxRecords /\ 0..k \subseteq 0..MaxRecords
      /\ 1..k + 1 \subseteq 1..MaxRecords + 1
  BY <1>1
<1>3. \A S, T : S \subseteq T => Seq(S) \subseteq Seq(T)
  OBVIOUS
<1>4. Seq(1..k) \subseteq Seq(1..MaxRecords)
  BY <1>2, <1>3
<1>5. WorldsOf(k) \subseteq World
  BY <1>2, <1>4 DEF WorldsOf, World
<1>6. JobsOf(k) \subseteq SnapshotJob
  BY <1>2, <1>5 DEF JobsOf, SnapshotJob
<1>7. \A s : StoreOf(s, k) => IsStore(s)
  <2> SUFFICES ASSUME NEW s, StoreOf(s, k) PROVE IsStore(s)
    OBVIOUS
  <2>1. /\ LatestSeq(s) \in 0..k /\ s.floor \in 0..LatestSeq(s)
        /\ DOMAIN s.rows = From(s.floor)..LatestSeq(s)
        /\ \A i \in DOMAIN s.rows : s.rows[i] \in 1..k
    BY DEF StoreOf, RowsUpTo
  <2> QED BY <1>1, <1>2, <2>1 DEF IsStore, From
<1>8. /\ writer.claimed \in BOOLEAN /\ writer.job \in JobsOf(k) /\ Len(writer.channel) <= 1
      /\ \A i \in DOMAIN writer.channel : writer.channel[i] \in JobsOf(k)
  BY DEF TypedInv, WriterOf, WritersOf
<1> HIDE DEF k
<1> QED BY <1>4, <1>5, <1>6, <1>7, <1>8 DEF TypedInv, DurableTypeOK, Powers, k

LEMMA TypedCommit == ASSUME TypedInv, CommitRecord PROVE TypedInv'
<1> DEFINE k == minted
           n == LatestSeq(store) + 1
           rows == [i \in DOMAIN store.rows \cup {n} |->
                       IF i = n THEN minted' ELSE store.rows[i]]
<1>1. /\ k \in Nat /\ k < MaxRecords /\ minted' = k + 1 /\ minted' \in 0..MaxRecords
      /\ StoreOf(store, k) /\ StoreOf(disk, k)
      /\ LatestSeq(store) \in 0..k /\ LatestSeq(disk) \in Nat
  BY DurableAssumption DEF TypedInv, CommitRecord, Decide, StoreOf
<1>2. StoreOf(store', k + 1) /\ LatestSeq(store') = n
  <2>1. rows = [i \in DOMAIN store.rows \cup {n} |-> IF i = n THEN k + 1 ELSE store.rows[i]]
    BY <1>1
  <2>2. store' = [store EXCEPT !.rows = rows]
    BY DEF CommitRecord
  <2> HIDE DEF rows, k, n
  <2>3. n = LatestSeq(store) + 1
    BY DEF n
  <2> QED BY <1>1, <2>1, <2>2, <2>3, CommittedOf
<1>3. /\ truth' = Append(truth, minted') /\ truth \in Seq(1..k + 1)
      /\ Len(truth) = LatestSeq(store) /\ world.effects \in Seq(1..k + 1)
      /\ minted' \in 1..k + 1
  <2>1. truth \in Seq(1..k) /\ Len(truth) = LatestSeq(store) /\ world \in WorldsOf(k)
    BY DEF TypedInv
  <2>2. Seq(1..k) \subseteq Seq(1..k + 1) /\ world \in WorldsOf(k + 1)
    BY <1>1, <2>1, MoreRecords
  <2> QED BY <1>1, <2>1, <2>2 DEF CommitRecord, WorldsOf
<1>4. truth' \in Seq(1..k + 1) /\ Len(truth') = n /\ Append(world.effects, minted') \in Seq(1..k + 1)
  <2>1. \A S : \A q \in Seq(S) : \A x \in S : Append(q, x) \in Seq(S) /\ Len(Append(q, x)) = Len(q) + 1
    OBVIOUS
  <2> DEFINE S == 1..k + 1
  <2>2. /\ truth \in Seq(S) /\ world.effects \in Seq(S) /\ minted' \in S
        /\ truth' = Append(truth, minted') /\ Len(truth) = LatestSeq(store)
    BY <1>3
  <2> HIDE DEF S, k
  <2>3. truth' \in Seq(S) /\ Len(truth') = n /\ Append(world.effects, minted') \in Seq(S)
    BY <2>1, <2>2
  <2> QED BY <2>3 DEF S
<1>5. world' \in WorldsOf(k + 1)
  <2>1. world.next = n /\ n \in 0..k + 1 /\ n + 1 \in 1..k + 1 + 1
    BY <1>1 DEF CommitRecord, SequenceHolds
  <2>2. world' = [effects |-> Append(world.effects, minted'), cursor |-> n, next |-> n + 1]
    BY <2>1 DEF CommitRecord
  <2> QED BY <1>4, <2>1, <2>2 DEF WorldsOf
<1>6. WriterOf(writer, JobsOf(k + 1))
  <2>1. writer \in WritersOf(JobsOf(k)) /\ Len(writer.channel) <= 1
    BY DEF TypedInv, WriterOf
  <2>2. WritersOf(JobsOf(k)) \subseteq WritersOf(JobsOf(k + 1))
    BY <1>1, MoreRecords
  <2> HIDE DEF k
  <2> QED BY <2>1, <2>2 DEF WriterOf
<1>7. WriterOf(writer', JobsOf(k + 1))
  <2>1. k + 1 \in Nat /\ PersistRuntime
    BY <1>1 DEF CommitRecord
  <2> HIDE DEF k
  <2> QED BY <1>5, <1>6, <2>1, PersistOf
<1>8. file \in WorldsOf(k + 1) /\ fileDisk \in WorldsOf(k + 1) /\ StoreOf(disk, k + 1)
  BY <1>1, MoreRecords DEF TypedInv
<1>9. disk' = disk /\ file' = file /\ fileDisk' = fileDisk /\ power' = power /\ stops' = stops
  BY DEF CommitRecord
<1>10. stops \in 0..MaxStops /\ power \in Powers /\ LatestSeq(disk) <= Len(truth)
  BY DEF TypedInv
<1>11. LatestSeq(disk) <= Len(truth')
  BY <1>1, <1>3, <1>4, <1>10
<1> HIDE DEF k, n
<1> QED BY <1>1, <1>2, <1>4, <1>5, <1>7, <1>8, <1>9, <1>10, <1>11 DEF TypedInv

LEMMA TypedRollback == ASSUME TypedInv, CommitRollsBack PROVE TypedInv'
<1> DEFINE k == minted
<1>1. /\ k \in Nat /\ k + 1 \in Nat /\ minted' = k + 1 /\ minted' \in 0..MaxRecords
  BY DurableAssumption DEF TypedInv, CommitRollsBack, Decide
<1>2. /\ StoreOf(store, k + 1) /\ StoreOf(disk, k + 1)
      /\ file \in WorldsOf(k + 1) /\ fileDisk \in WorldsOf(k + 1)
      /\ truth \in Seq(1..k + 1)
  BY <1>1, MoreRecords DEF TypedInv
<1>3. WriterOf(writer, JobsOf(k + 1))
  <2>1. writer \in WritersOf(JobsOf(k)) /\ Len(writer.channel) <= 1
    BY DEF TypedInv, WriterOf
  <2>2. WritersOf(JobsOf(k)) \subseteq WritersOf(JobsOf(k + 1))
    BY <1>1, MoreRecords
  <2> HIDE DEF k
  <2> QED BY <2>1, <2>2 DEF WriterOf
<1>4. world' \in WorldsOf(k + 1)
  <2>1. CASE Restorable(store, file) /\ world' = Restored(store, file)
    <3> HIDE DEF k
    <3> QED BY <1>1, <1>2, <2>1, RestoredOf
  <2>2. CASE world' = [world EXCEPT !.effects = Append(@, minted'), !.next = @ + 1]
    <3>1. PICK e \in Seq(1..k), c \in 0..k, n \in 1..k + 1 :
              world = [effects |-> e, cursor |-> c, next |-> n]
      BY DEF TypedInv, WorldsOf
    <3>2. world' = [effects |-> Append(e, minted'), cursor |-> c, next |-> n + 1]
      BY <2>2, <3>1
    <3>3. e \in Seq(1..k + 1) /\ minted' \in 1..k + 1 /\ c \in 0..k + 1 /\ n + 1 \in 1..k + 1 + 1
      BY <1>1, MoreRecords
    <3>4. \A S : \A q \in Seq(S) : \A x \in S : Append(q, x) \in Seq(S)
      OBVIOUS
    <3>5. Append(e, minted') \in Seq(1..k + 1)
      <4> DEFINE S == 1..k + 1
      <4>1. e \in Seq(S) /\ minted' \in S
        BY <3>3
      <4> HIDE DEF S
      <4>2. Append(e, minted') \in Seq(S)
        BY <3>4, <4>1
      <4> QED BY <4>2 DEF S
    <3> QED BY <3>2, <3>3, <3>5 DEF WorldsOf
  <2> QED BY <2>1, <2>2 DEF CommitRollsBack
<1>5. WriterOf(writer', JobsOf(k + 1))
  <2>1. PersistRuntime
    BY DEF CommitRollsBack
  <2> HIDE DEF k
  <2> QED BY <1>1, <1>3, <1>4, <2>1, PersistOf
<1>6. /\ store' = store /\ disk' = disk /\ file' = file /\ fileDisk' = fileDisk
      /\ power' = power /\ truth' = truth /\ stops' = stops
  BY DEF CommitRollsBack
<1>7. /\ stops \in 0..MaxStops /\ power \in Powers
      /\ Len(truth) = LatestSeq(store) /\ LatestSeq(disk) <= Len(truth)
  BY DEF TypedInv
<1> HIDE DEF k
<1> QED BY <1>1, <1>2, <1>4, <1>5, <1>6, <1>7 DEF TypedInv

\* Steps of a job: what the store and the file become, and how the job ends.
LEMMA TypedJob ==
    ASSUME TypedInv, minted' = minted, stops' = stops, truth' = truth,
           WriterOf(writer', JobsOf(minted)), world' \in WorldsOf(minted), power' \in Powers,
           StoreOf(store', minted), LatestSeq(store') = LatestSeq(store),
           disk' \in {disk, store}, file' \in WorldsOf(minted), fileDisk' \in {fileDisk, file}
    PROVE  TypedInv'
<1>1. /\ StoreOf(disk', minted) /\ fileDisk' \in WorldsOf(minted)
      /\ LatestSeq(disk') <= Len(truth)
  <2>1. /\ StoreOf(disk, minted) /\ StoreOf(store, minted)
        /\ file \in WorldsOf(minted) /\ fileDisk \in WorldsOf(minted)
        /\ Len(truth) = LatestSeq(store) /\ LatestSeq(disk) <= Len(truth)
        /\ LatestSeq(store) \in 0..minted /\ minted \in Nat
    BY DEF TypedInv, StoreOf
  <2> QED BY <2>1
<1> QED BY <1>1 DEF TypedInv

LEMMA TypedWriter ==
    ASSUME TypedInv, ReadHead \/ GuardCheckpoint \/ RenameCheckpoint \/ CompactStore
    PROVE  TypedInv'
<1> DEFINE J == JobsOf(minted)
<1>1. /\ minted \in Nat /\ WriterOf(writer, J) /\ world \in WorldsOf(minted)
      /\ power \in Powers /\ StoreOf(store, minted) /\ LatestSeq(store) \in 0..minted
      /\ file \in WorldsOf(minted) /\ minted' = minted /\ stops' = stops /\ truth' = truth
  BY DEF TypedInv, StoreOf, ReadHead, GuardCheckpoint, RenameCheckpoint, CompactStore
<1>2. JobEnds => /\ WriterOf(writer', J) /\ world' \in WorldsOf(minted) /\ power' \in Powers
  BY <1>1, EndOf DEF Powers
<1>3. ASSUME NEW job \in J, NEW head \in 0..minted, NEW to \in {"sync", "rename", "compact"}
      PROVE  [job EXCEPT !.head = head, !.stage = to] \in J /\ [job EXCEPT !.stage = to] \in J
  BY <1>3 DEF JobsOf
<1>4. ASSUME NEW to \in {"rename", "compact"}, JobGoesOn(to)
      PROVE  /\ WriterOf(writer', J) /\ world' \in WorldsOf(minted) /\ power' \in Powers
  <2>1. writer' = [writer EXCEPT !.job.stage = to] /\ world' = world /\ power' = power
    BY <1>4 DEF JobGoesOn, Stage
  <2>2. writer.job \in J
    BY <1>1 DEF WriterOf, WritersOf
  <2>3. [writer.job EXCEPT !.stage = to] \in J
    BY <1>1, <1>3, <2>2
  <2>4. WriterOf([writer EXCEPT !.job = [writer.job EXCEPT !.stage = to]], J)
    <3> HIDE DEF J
    <3> QED BY <1>1, <2>3, JobOf
  <2> QED BY <1>1, <2>1, <2>4
<1>5. CASE ReadHead
  <2> DEFINE head == LatestSeq(store)
             job == writer.channel[1]
             taken == [job EXCEPT !.head = head, !.stage = "sync"]
  <2>1. job \in J
    <3> HIDE DEF J
    <3> QED BY <1>1, <1>5, WriterParts DEF ReadHead
  <2>2. taken \in J
    <3> HIDE DEF J, job
    <3> QED BY <1>1, <1>3, <2>1
  <2>3. writer' = [writer EXCEPT !.channel = <<>>, !.job = taken]
    BY <1>5 DEF ReadHead
  <2>4. WriterOf(writer', J)
    <3> HIDE DEF J, taken
    <3> QED BY <1>1, <2>2, <2>3, JobOf
  <2>5. /\ store' = store /\ disk' = disk /\ file' = file /\ fileDisk' = fileDisk
        /\ world' = world /\ power' = power
    BY <1>5 DEF ReadHead
  <2> QED BY <1>1, <2>4, <2>5, TypedJob
<1>6. CASE GuardCheckpoint
  <2>1. \/ JobGoesOn("rename")
        \/ JobEnds
    BY <1>6 DEF GuardCheckpoint
  <2>2. /\ store' = store /\ file' = file
        /\ disk' \in {disk, store} /\ fileDisk' \in {fileDisk, file}
    BY <1>6 DEF GuardCheckpoint, SyncStore
  <2>3. WriterOf(writer', J) /\ world' \in WorldsOf(minted) /\ power' \in Powers
    BY <1>2, <1>4, <2>1
  <2> QED BY <1>1, <2>2, <2>3, TypedJob
<1>7. CASE RenameCheckpoint
  <2>1. JobGoesOn("compact") \/ JobEnds
    BY <1>7 DEF RenameCheckpoint
  <2>2. /\ store' = store /\ disk' = disk /\ fileDisk' = fileDisk
        /\ file' \in {file, writer.job.snap}
    BY <1>7 DEF RenameCheckpoint
  <2>3. WriterOf(writer', J) /\ world' \in WorldsOf(minted) /\ power' \in Powers
    BY <1>2, <1>4, <2>1
  <2>4. writer.job.snap \in WorldsOf(minted)
    BY <1>1 DEF WriterOf, WritersOf, JobsOf
  <2> QED BY <1>1, <2>2, <2>3, <2>4, TypedJob
<1>8. CASE CompactStore
  <2>1. JobEnds /\ disk' = disk /\ file' = file /\ fileDisk' = fileDisk
    BY <1>8 DEF CompactStore
  <2>2. StoreOf(store', minted) /\ LatestSeq(store') = LatestSeq(store)
    BY <1>1, <1>8, CompactedOf DEF CompactStore
  <2> QED BY <1>1, <1>2, <2>1, <2>2, TypedJob
<1> QED BY <1>5, <1>6, <1>7, <1>8

LEMMA TypedStop == ASSUME TypedInv, KillProcess \/ HardStop PROVE TypedInv'
<1>1. /\ minted \in 0..MaxRecords /\ minted \in Nat /\ minted' = minted
      /\ stops' \in 0..MaxStops /\ power' \in Powers
      /\ disk' = disk /\ fileDisk' = fileDisk
      /\ StoreOf(store, minted) /\ StoreOf(disk, minted)
      /\ file \in WorldsOf(minted) /\ fileDisk \in WorldsOf(minted)
      /\ truth \in Seq(1..minted) /\ Len(truth) = LatestSeq(store)
      /\ LatestSeq(disk) <= Len(truth) /\ LatestSeq(disk) \in Nat
  BY DurableAssumption DEF TypedInv, KillProcess, HardStop, Stop, Powers, StoreOf
<1>2. world' \in WorldsOf(minted) /\ WriterOf(writer', JobsOf(minted))
  <2>1. world' = Seed /\ writer' = QuietWriter
    BY DEF KillProcess, HardStop, Stop
  <2> QED BY <1>1, <2>1, EmptyWorlds DEF WriterOf
<1>3. CASE KillProcess
  <2>1. store' = store /\ file' = file /\ truth' = truth
    BY <1>3 DEF KillProcess
  <2> QED BY <1>1, <1>2, <2>1 DEF TypedInv
<1>4. CASE HardStop
  <2>1. store' = disk /\ file' = fileDisk /\ truth' = SubSeq(truth, 1, LatestSeq(disk))
    BY <1>4 DEF HardStop
  <2>2. truth' \in Seq(1..minted) /\ Len(truth') = LatestSeq(disk)
    <3>1. \A S : \A q \in Seq(S) : \A n \in 0..Len(q) :
             SubSeq(q, 1, n) \in Seq(S) /\ Len(SubSeq(q, 1, n)) = n
      OBVIOUS
    <3> DEFINE S == 1..minted
               n == LatestSeq(disk)
    <3>2. truth \in Seq(S) /\ n \in 0..Len(truth) /\ truth' = SubSeq(truth, 1, n)
      BY <1>1, <2>1
    <3> HIDE DEF S, n
    <3>3. truth' \in Seq(S) /\ Len(truth') = n
      BY <3>1, <3>2
    <3> QED BY <3>3 DEF S, n
  <2> QED BY <1>1, <1>2, <2>1, <2>2 DEF TypedInv
<1> QED BY <1>3, <1>4

LEMMA TypedStep == ASSUME TypedInv, [DurableNext]_durableVars PROVE TypedInv'
<1>1. CASE Remembered
  <2>1. /\ minted \in Nat /\ world' \in WorldsOf(minted)
        /\ WriterOf(writer, JobsOf(minted)) /\ PersistRuntime
    BY <1>1, DurableAssumption DEF TypedInv, Remembered
  <2>2. WriterOf(writer', JobsOf(minted))
    BY <2>1, PersistOf
  <2> QED BY <1>1, <2>1, <2>2 DEF TypedInv, Remembered
<1>2. CASE FinalSnapshot
  <2>1. /\ minted \in Nat /\ world' \in WorldsOf(minted)
        /\ WriterOf(writer, JobsOf(minted)) /\ writer.channel = <<>>
        /\ writer' = Scheduled(writer, TRUE)
    BY <1>2, DurableAssumption DEF TypedInv, FinalSnapshot
  <2>2. WriterOf(writer', JobsOf(minted))
    BY <2>1, CapturedOf, ScheduledOf
  <2> QED BY <1>2, <2>1, <2>2 DEF TypedInv, FinalSnapshot, Powers
<1>3. CASE WriteBackStore
  BY <1>3, TypedJob DEF WriteBackStore, SyncStore, TypedInv
<1>4. CASE WriteBackFile
  BY <1>4, TypedJob DEF WriteBackFile, TypedInv
<1>5. CASE BootProcess
  <2>1. /\ minted \in Nat /\ StoreOf(store, minted) /\ file \in WorldsOf(minted)
        /\ world \in WorldsOf(minted)
    BY DurableAssumption DEF TypedInv
  <2>2. world' \in WorldsOf(minted) /\ power' \in Powers
    BY <1>5, <2>1, RestoredOf DEF BootProcess, Powers
  <2> QED BY <1>5, <2>2 DEF TypedInv, BootProcess
<1>6. CASE UNCHANGED durableVars
  BY <1>6 DEF TypedInv, durableVars
<1> QED BY <1>1, <1>2, <1>3, <1>4, <1>5, <1>6,
           TypedCommit, TypedRollback, TypedWriter, TypedStop DEF DurableNext

LEMMA TypedInit == ASSUME DurableInit PROVE TypedInv
<1> DEFINE s == [rows |-> <<>>, floor |-> 0]
<1>1. RowsUpTo(s, 0, 0)
  <2>1. From(0)..0 = {}
    BY DEF From
  <2>2. <<>> \in [{} -> 1..0]
    OBVIOUS
  <2> QED BY <2>1, <2>2 DEF RowsUpTo
<1>2. LatestSeq(s) = 0 /\ StoreOf(s, 0)
  BY <1>1 DEF LatestSeq, StoreOf
<1>3. <<>> \in Seq(1..0) /\ Len(<<>>) = 0
  OBVIOUS
<1> HIDE DEF s
<1>4. store = s /\ disk = s
  BY DEF DurableInit, s
<1> QED BY <1>2, <1>3, <1>4, EmptyWorlds, DurableAssumption
        DEF DurableInit, TypedInv, WriterOf, Powers

\* Whatever the process does and wherever it is stopped, its stores hold rows
\* of records there were, and its checkpoints, captures and world are made of
\* those, also when a rename outlives its rows or a rebuild fails (no
\* assumption on Ordered, RebuildsSucceed or Readable): advance_runtime_next_
\* event_seq_from_store, persist_runtime, the writer thread, the boot in main.rs.
THEOREM DurableTypes == DurableSpec => []DurableTypeOK
<1>1. DurableInit => TypedInv
  BY TypedInit
<1>2. TypedInv /\ [DurableNext]_durableVars => TypedInv'
  BY TypedStep
<1>3. TypedInv => DurableTypeOK
  BY TypedImplies
<1> QED BY <1>1, <1>2, <1>3, PTL DEF DurableSpec
-----------------------------------------------------------------------------
(* Claims and captures.                                                    *)

\* A capture of the given kind is in the channel or at work.
Outstanding(flush) ==
    \/ writer.channel # <<>> /\ writer.channel[1].flush = flush
    \/ writer.job.stage # "none" /\ writer.job.flush = flush

\* The claim stands for one regular capture, and a process that drains has one
\* last capture: a claim without a capture would end all checkpoints, and a
\* drain without one would never end.
ClaimsAreWorked ==
    /\ writer.claimed <=> Outstanding(FALSE)
    /\ power = "draining" <=> Outstanding(TRUE)
    /\ writer.channel # <<>> /\ writer.job.stage # "none"
           => writer.channel[1].flush # writer.job.flush

LEMMA CapturedIs ==
    ASSUME NEW flush
    PROVE  Captured(flush).flush = flush /\ Captured(flush).stage = "queued"
<1>1. NoJob = [snap |-> Seed, flush |-> FALSE, head |-> 0, stage |-> "none"]
  BY DEF NoJob
<1>2. Captured(flush) = [NoJob EXCEPT !.snap = world', !.flush = flush, !.stage = "queued"]
  BY DEF Captured
<1> QED BY <1>1, <1>2

\* The parts of the writer after a capture, an end and a take.
LEMMA ScheduledParts ==
    ASSUME NEW v, v = [claimed |-> v.claimed, channel |-> <<>>, job |-> v.job], NEW flush
    PROVE  LET new == Scheduled(v, flush) IN
           /\ new.claimed = v.claimed /\ new.job = v.job
           /\ new.channel # <<>> /\ new.channel[1] = Captured(flush)
<1> DEFINE cap == Captured(flush)
           new == Scheduled(v, flush)
<1>1. PICK claimed, job : v = [claimed |-> claimed, channel |-> <<>>, job |-> job]
  OBVIOUS
<1>2. new = [claimed |-> claimed, channel |-> Append(<<>>, cap), job |-> job]
  BY <1>1 DEF Scheduled
<1>3. \A x : Append(<<>>, x) # <<>> /\ Append(<<>>, x)[1] = x
  OBVIOUS
<1> HIDE DEF cap, new
<1>4. Append(<<>>, cap) # <<>> /\ Append(<<>>, cap)[1] = cap
  BY <1>3
<1>5. new.claimed = v.claimed /\ new.job = v.job /\ new.channel = Append(<<>>, cap)
  BY <1>1, <1>2
<1> QED BY <1>4, <1>5 DEF cap, new

LEMMA EndedParts ==
    ASSUME NEW J, NEW w, WriterOf(w, J), NEW job, NEW b \in BOOLEAN
    PROVE  LET ended == [w EXCEPT !.claimed = b, !.job = job]
               taken == [w EXCEPT !.channel = <<>>, !.job = job]
               staged == [w EXCEPT !.job = job]
           IN /\ ended.claimed = b /\ ended.channel = w.channel /\ ended.job = job
              /\ taken.claimed = w.claimed /\ taken.channel = <<>> /\ taken.job = job
              /\ staged.claimed = w.claimed /\ staged.channel = w.channel /\ staged.job = job
<1>1. PICK claimed \in BOOLEAN, channel \in Seq(J), old \in J :
          w = [claimed |-> claimed, channel |-> channel, job |-> old]
  BY WriterParts
<1> QED BY <1>1

LEMMA PersistClaims ==
    ASSUME TypedInv, ClaimsAreWorked, PersistRuntime, power' = power, power = "serving"
    PROVE  ClaimsAreWorked'
<1>1. CASE writer' = writer
  BY <1>1 DEF ClaimsAreWorked, Outstanding
<1>2. CASE /\ ~writer.claimed /\ writer.channel = <<>>
           /\ writer' = Scheduled([writer EXCEPT !.claimed = TRUE], FALSE)
  <2> DEFINE b == TRUE
             v == [writer EXCEPT !.claimed = b]
  <2>0. b \in BOOLEAN /\ b
    OBVIOUS
  <2>1. /\ writer'.claimed /\ writer'.job = writer.job
        /\ writer'.channel # <<>> /\ writer'.channel[1] = Captured(FALSE)
    <3>1. PICK claimed \in BOOLEAN, job \in JobsOf(minted) :
              writer = [claimed |-> claimed, channel |-> <<>>, job |-> job]
      BY <1>2, WriterParts DEF TypedInv
    <3>2. writer' = Scheduled(v, FALSE) /\ v = [claimed |-> b, channel |-> <<>>, job |-> job]
      <4>1. writer' = Scheduled(v, FALSE)
        BY <1>2
      <4> HIDE DEF b
      <4>2. v = [claimed |-> b, channel |-> <<>>, job |-> job]
        BY <3>1
      <4> QED BY <4>1, <4>2
    <3> HIDE DEF v, b
    <3>3. v = [claimed |-> v.claimed, channel |-> <<>>, job |-> v.job]
      BY <3>2
    <3>4. /\ writer'.claimed = v.claimed /\ writer'.job = v.job
          /\ writer'.channel # <<>> /\ writer'.channel[1] = Captured(FALSE)
      BY <3>2, <3>3, ScheduledParts
    <3>5. v.claimed = b /\ v.job = writer.job
      BY <3>1, <3>2
    <3> QED BY <2>0, <3>4, <3>5
  <2>2. writer'.channel[1].flush = FALSE
    BY <2>1, CapturedIs
  <2>3. writer.job.stage = "none"
    <3>1. writer.job.flush \in BOOLEAN
      BY DEF TypedInv, WriterOf, WritersOf, JobsOf
    <3> QED BY <1>2, <3>1 DEF ClaimsAreWorked, Outstanding
  <2> QED BY <2>1, <2>2, <2>3 DEF ClaimsAreWorked, Outstanding
<1> QED BY <1>1, <1>2 DEF PersistRuntime

LEMMA QuietClaims ==
    ASSUME writer' = QuietWriter, power' # "draining"
    PROVE  ClaimsAreWorked'
BY DEF QuietWriter, NoJob, ClaimsAreWorked, Outstanding

LEMMA EndClaims ==
    ASSUME TypedInv, ClaimsAreWorked, JobEnds, writer.job.stage # "none"
    PROVE  ClaimsAreWorked'
<1>1. CASE writer.job.flush
  BY <1>1, QuietClaims DEF JobEnds
<1>2. CASE ~writer.job.flush
  <2> DEFINE b == FALSE
  <2>1. writer' = [writer EXCEPT !.claimed = b, !.job = NoJob] /\ power' = power
    BY <1>2 DEF JobEnds
  <2>2. b \in BOOLEAN /\ ~b
    OBVIOUS
  <2> HIDE DEF b
  <2>3. /\ writer'.claimed = b /\ writer'.channel = writer.channel /\ writer'.job = NoJob
    BY <2>1, <2>2, EndedParts DEF TypedInv
  <2>4. NoJob.stage = "none"
    BY DEF NoJob
  <2>5. writer.job.flush = FALSE
    BY <1>2 DEF TypedInv, WriterOf, WritersOf, JobsOf
  <2> QED BY <2>1, <2>2, <2>3, <2>4, <2>5 DEF ClaimsAreWorked, Outstanding
<1> QED BY <1>1, <1>2

LEMMA OnClaims ==
    ASSUME TypedInv, ClaimsAreWorked, NEW to \in {"rename", "compact"}, JobGoesOn(to),
           writer.job.stage # "none"
    PROVE  ClaimsAreWorked'
<1> DEFINE job == [writer.job EXCEPT !.stage = to]
<1>1. writer' = [writer EXCEPT !.job = job] /\ power' = power
  BY DEF JobGoesOn, Stage
<1>2. job.stage = to /\ job.flush = writer.job.flush
  BY DEF TypedInv, WriterOf, WritersOf, JobsOf
<1> HIDE DEF job
<1>3. writer'.claimed = writer.claimed /\ writer'.channel = writer.channel /\ writer'.job = job
  BY <1>1, EndedParts DEF TypedInv
<1> QED BY <1>1, <1>2, <1>3 DEF ClaimsAreWorked, Outstanding

LEMMA ClaimsStep == ASSUME TypedInv, ClaimsAreWorked, [DurableNext]_durableVars
                    PROVE  ClaimsAreWorked'
<1>1. CASE CommitRecord \/ CommitRollsBack \/ Remembered
  BY <1>1, PersistClaims DEF CommitRecord, CommitRollsBack, Remembered, Decide
<1>2. CASE FinalSnapshot
  <2>1. /\ writer.channel = <<>> /\ writer' = Scheduled(writer, TRUE)
        /\ power = "serving" /\ power' = "draining"
    BY <1>2 DEF FinalSnapshot
  <2>2. /\ writer'.claimed = writer.claimed /\ writer'.job = writer.job
        /\ writer'.channel # <<>> /\ writer'.channel[1] = Captured(TRUE)
    <3>1. writer = [claimed |-> writer.claimed, channel |-> <<>>, job |-> writer.job]
      BY <2>1 DEF TypedInv, WriterOf, WritersOf
    <3> QED BY <2>1, <3>1, ScheduledParts
  <2>3. writer'.channel[1].flush = TRUE
    BY <2>2, CapturedIs
  <2> QED BY <2>1, <2>2, <2>3 DEF ClaimsAreWorked, Outstanding
<1>3. CASE ReadHead
  <2> DEFINE taken == [writer.channel[1] EXCEPT !.head = LatestSeq(store), !.stage = "sync"]
  <2>1. /\ writer.job = NoJob /\ writer.channel # <<>> /\ power' = power
        /\ writer' = [writer EXCEPT !.channel = <<>>, !.job = taken]
    BY <1>3 DEF ReadHead
  <2>2. writer.channel[1] \in JobsOf(minted)
    BY <2>1, WriterParts DEF TypedInv
  <2>3. taken.stage = "sync" /\ taken.flush = writer.channel[1].flush
    BY <2>2 DEF JobsOf
  <2> HIDE DEF taken
  <2>4. writer'.claimed = writer.claimed /\ writer'.channel = <<>> /\ writer'.job = taken
    BY <2>1, EndedParts DEF TypedInv
  <2>5. writer.job.stage = "none"
    BY <2>1 DEF NoJob
  <2> QED BY <2>1, <2>3, <2>4, <2>5 DEF ClaimsAreWorked, Outstanding
<1>4. CASE GuardCheckpoint
  <2>1. writer.job.stage # "none" /\ (JobEnds \/ JobGoesOn("rename"))
    BY <1>4 DEF GuardCheckpoint
  <2> QED BY <2>1, EndClaims, OnClaims
<1>5. CASE RenameCheckpoint
  <2>1. writer.job.stage # "none" /\ (JobEnds \/ JobGoesOn("compact"))
    BY <1>5 DEF RenameCheckpoint
  <2> QED BY <2>1, EndClaims, OnClaims
<1>6. CASE CompactStore
  BY <1>6, EndClaims DEF CompactStore
<1>7. CASE WriteBackStore \/ WriteBackFile
  BY <1>7 DEF WriteBackStore, WriteBackFile, ClaimsAreWorked, Outstanding
<1>8. CASE KillProcess \/ HardStop
  BY <1>8, QuietClaims DEF KillProcess, HardStop, Stop
<1>9. CASE BootProcess
  <2>1. writer' = writer /\ power # "draining" /\ power' # "draining"
    BY <1>9 DEF BootProcess
  <2> QED BY <2>1 DEF ClaimsAreWorked, Outstanding
<1>10. CASE UNCHANGED durableVars
  BY <1>10 DEF durableVars, ClaimsAreWorked, Outstanding
<1> QED BY <1>1, <1>2, <1>3, <1>4, <1>5, <1>6, <1>7, <1>8, <1>9, <1>10 DEF DurableNext

\* A claim always has its one capture, in the channel or at work, and a process
\* that drains its last one, however the jobs before them ended: persist_runtime,
\* persist_final_snapshot and the writer thread (the safety half of
\* WriteClaimIsReleased).
THEOREM ClaimsHaveJobs == DurableSpec => []ClaimsAreWorked
<1>1. DurableInit => TypedInv /\ ClaimsAreWorked
  BY TypedInit DEF DurableInit, QuietWriter, NoJob, ClaimsAreWorked, Outstanding
<1>2. TypedInv /\ ClaimsAreWorked /\ [DurableNext]_durableVars => (TypedInv /\ ClaimsAreWorked)'
  BY TypedStep, ClaimsStep
<1> QED BY <1>1, <1>2, PTL DEF DurableSpec
=============================================================================
