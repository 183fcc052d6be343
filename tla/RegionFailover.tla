---------------------------- MODULE RegionFailover ----------------------------
(***************************************************************************)
(* Recovery replicas and their promotion                                   *)
(* (src/v2/orchestrator-rust/src/canonical_journal.rs and the internal     *)
(* region routes of main.rs).  Each region has a store of its own.  The    *)
(* active region copies its store over that of the recovery region and     *)
(* records a checkpoint, the proof of the copied prefix, in both.  The     *)
(* process of the recovery region promotes its store if it still is the    *)
(* prefix the operator approved, and raises every lease fence.             *)
(*                                                                         *)
(* The two stores are two files: nothing the code does to one fences the   *)
(* other.  That the operator fences the source region before a promotion,  *)
(* and lets it back only as a standby, is modelled as in                   *)
(* v2/docs/canonical-world.md, and Fencing says whether it is done.        *)
(* Modelled: one partition; a row numbers one event; a prefix hash is the  *)
(* prefix itself, as equal hashes mean equal prefixes; the regions know    *)
(* each other's store as their recovery path.                              *)
(***************************************************************************)
EXTENDS Integers, Sequences

CONSTANTS
    Region,      \* the two regions
    Primary,     \* the one that first boots on the empty store
    Request,     \* checkpoint requests that may be in progress at once
    Fencing,     \* whether the operator fences the source before a promotion
    MaxCommits, MaxLeases, MaxPromotions   \* bounds of the model

ASSUME RegionAssumption ==
    /\ \E standby \in Region \ {Primary} : Region = {Primary, standby}
    /\ Fencing \in BOOLEAN
    /\ {MaxCommits, MaxLeases, MaxPromotions} \subseteq Nat

VARIABLES
    site,      \* the store of each region
    lease,     \* the fence of the lease the region's process holds, 0 for none
    request,   \* replicate_canonical_store in progress
    approved,  \* the checkpoint the operator keeps: the last one confirmed
    cut,       \* the regions the operator has cut off from traffic and storage
    mandate    \* history: the rows of the world, as authority passed on

regionVars == <<site, lease, request, approved, cut, mandate>>

Rows == Seq([region : Region, epoch : Nat \ {0}, fence : Nat \ {0}])
Unproven == [rows |-> <<>>, fence |-> -1]
Proof == {Unproven} \cup [rows : Rows, fence : Nat]
\* authority: canonical_region_authority; fence: the lease row's; recorded:
\* canonical_region_replicas.  A store without identity is not a replica yet.
Site == [identity : BOOLEAN, authority : Region, epoch : Nat \ {0},
         rows : Rows, fence : Nat, recorded : [Region -> Proof]]
Idle == [by |-> Primary, step |-> "none", proof |-> Unproven]

RegionTypeOK ==
    /\ site \in [Region -> Site]
    /\ lease \in [Region -> Nat]
    /\ request \in [Request -> [by : Region, proof : Proof,
                                step : {"none", "backup", "hash", "replica", "primary"}]]
    /\ approved \in Proof /\ cut \subseteq Region /\ mandate \in Rows

Other(r) == CHOOSE s \in Region : s # r

RegionInit ==
    /\ site = [r \in Region |->
          [identity |-> r = Primary, authority |-> Primary, epoch |-> 1,
           rows |-> <<>>, fence |-> 0, recorded |-> [s \in Region |-> Unproven]]]
    /\ lease = [r \in Region |-> 0]
    /\ request = [i \in Request |-> Idle]
    /\ approved = Unproven
    /\ cut = {} /\ mandate = <<>>

\* validate_active_region and the store identity, in the transaction of every
\* lease, handoff and commit: read from the region's own store.
ActiveRegion(r) == site[r].identity /\ site[r].authority = r

Runs(r) == r \notin cut
-----------------------------------------------------------------------------
(* The canonical writes of a region.                                       *)

AcquireLease(r) ==
    /\ Runs(r) /\ ActiveRegion(r)
    /\ lease[r] = 0 \/ site[r].fence < MaxLeases
    /\ site' = [site EXCEPT ![r].fence = @ + 1]
    /\ lease' = [lease EXCEPT ![r] = site'[r].fence]
    /\ UNCHANGED <<request, approved, cut, mandate>>

CommitInRegion(r) ==
    /\ Runs(r) /\ ActiveRegion(r)
    /\ lease[r] > 0 /\ lease[r] = site[r].fence
    /\ Len(site[r].rows) < MaxCommits
    /\ LET row == [region |-> r, epoch |-> site[r].epoch, fence |-> lease[r]]
       IN /\ site' = [site EXCEPT ![r].rows = Append(@, row)]
          /\ mandate' = Append(mandate, row)
    /\ UNCHANGED <<lease, request, approved, cut>>
-----------------------------------------------------------------------------
(* replicate_canonical_store, each step a transaction or a read of its own. *)

PrefixHash(s) == [rows |-> s.rows, fence |-> s.fence]

ReplicaStep(i, from, to) ==
    request[i].step = from /\ request' = [request EXCEPT ![i].step = to]

RequestCheckpoint(i, r) ==
    /\ Runs(r) /\ ActiveRegion(r)
    /\ request[i] = Idle
    /\ request' = [request EXCEPT ![i] = [Idle EXCEPT !.by = r, !.step = "backup"]]
    /\ UNCHANGED <<site, lease, approved, cut, mandate>>

\* The backup replaces the whole file, its authority and its records with it.
Backup(i) ==
    LET r == request[i].by
    IN /\ ReplicaStep(i, "backup", "hash")
       /\ site' = [site EXCEPT ![Other(r)] = site[r]]
       /\ UNCHANGED <<lease, approved, cut, mandate>>

HashReplica(i) ==
    /\ request[i].step = "hash"
    /\ request' = [request EXCEPT ![i].step = "replica",
                                  ![i].proof = PrefixHash(site[Other(request[i].by)])]
    /\ UNCHANGED <<site, lease, approved, cut, mandate>>

\* Mutant: only a checkpoint ahead of the store is refused.
RecordableOlder(proof, s, target) == Len(proof.rows) <= Len(s.rows)

\* record_region_replica_checkpoint: not ahead of the store and not behind
\* the record it replaces.
Recordable(proof, s, target) ==
    /\ Len(proof.rows) <= Len(s.rows)
    /\ Len(s.recorded[target].rows) <= Len(proof.rows)

\* A refused record ends the request with an error.
Record(i, at, from, to) ==
    LET proof == request[i].proof
        target == Other(request[i].by)
    IN IF Recordable(proof, site[at], target)
       THEN /\ ReplicaStep(i, from, to)
            /\ site' = [site EXCEPT ![at].recorded[target] = proof]
       ELSE /\ request[i].step = from
            /\ request' = [request EXCEPT ![i] = Idle]
            /\ UNCHANGED site

RecordOnReplica(i) ==
    /\ Record(i, Other(request[i].by), "replica", "primary")
    /\ UNCHANGED <<lease, approved, cut, mandate>>

\* The confirmed request hands its proof to the operator, who keeps it.
RecordOnPrimary(i) ==
    LET r == request[i].by
        proof == request[i].proof
        ok == Recordable(proof, site[r], Other(r))
    IN /\ request[i].step = "primary"
       /\ request' = [request EXCEPT ![i] = Idle]
       /\ site' = IF ok THEN [site EXCEPT ![r].recorded[Other(r)] = proof] ELSE site
       /\ approved' = IF ok THEN proof ELSE approved
       /\ UNCHANGED <<lease, cut, mandate>>

\* A step may fail, which ends the request where it stands.
CheckpointFails(i) ==
    /\ request[i].step \notin {"none", "backup"}
    /\ request' = [request EXCEPT ![i] = Idle]
    /\ UNCHANGED <<site, lease, approved, cut, mandate>>
-----------------------------------------------------------------------------
(* The operator, and promotion in the recovery region.                     *)

\* Ingress and writers are stopped, and with them the requests in progress.
CutOff(r) ==
    /\ Runs(r) /\ cut' = cut \cup {r}
    /\ lease' = [lease EXCEPT ![r] = 0]
    /\ request' = [i \in Request |-> IF request[i].by = r THEN Idle ELSE request[i]]
    /\ UNCHANGED <<site, approved, mandate>>

\* A quarantined store is never a writer again: the region comes back as a
\* standby on a copy of the present authority's store.
Rejoin(r) ==
    /\ r \in cut /\ site[r].authority # r
    /\ cut' = cut \ {r}
    /\ UNCHANGED <<site, lease, request, approved, mandate>>

\* Mutant: the store itself is not compared with the proof.
RecordedPrefix(s, target, proof) == s.recorded[target] = proof

\* The stored record, the proof the operator approved and what the store
\* holds now are one prefix.
ProvenPrefix(s, target, proof) ==
    /\ s.recorded[target] = proof
    /\ PrefixHash(s) = proof

\* Mutant: the authority moves within its epoch.
PromotedInEpoch(s, t) ==
    [s EXCEPT !.authority = t, !.fence = IF @ = 0 THEN 0 ELSE @ + 1]

\* The new authority, and every lease fence one up.
Promoted(s, t) ==
    [s EXCEPT !.authority = t, !.epoch = @ + 1, !.fence = IF @ = 0 THEN 0 ELSE @ + 1]

\* promote_recovery_region, one transaction on the target's store.  The
\* operator names the source and its epoch.
Promote(t) ==
    LET source == Other(t)
        s == site[t]
    IN /\ Runs(t) /\ (Fencing => source \in cut)
       /\ s.identity /\ s.authority = source
       /\ s.epoch < MaxPromotions + 1
       /\ approved # Unproven
       /\ ProvenPrefix(s, t, approved)
       /\ site' = [site EXCEPT ![t] = Promoted(s, t)]
       /\ mandate' = approved.rows
       /\ UNCHANGED <<lease, request, approved, cut>>

RegionNext ==
    \/ \E r \in Region : AcquireLease(r) \/ CommitInRegion(r)
                         \/ CutOff(r) \/ Rejoin(r) \/ Promote(r)
    \/ \E i \in Request, r \in Region : RequestCheckpoint(i, r)
    \/ \E i \in Request : Backup(i) \/ HashReplica(i) \/ RecordOnReplica(i)
                          \/ RecordOnPrimary(i) \/ CheckpointFails(i)

RegionSpec == RegionInit /\ [][RegionNext]_regionVars
-----------------------------------------------------------------------------
(* Properties.  The first is about an operator who fences (Fencing).       *)

Writable(r) == Runs(r) /\ ActiveRegion(r)

\* One region at most can commit, and its store holds the rows of the world:
\* what was proven at the last promotion, and what was committed since.
OneRegionWrites ==
    \A r \in Region : Writable(r) =>
        /\ \A s \in Region : Writable(s) => s = r
        /\ site[r].rows = mandate

\* Along the rows of a store authority only passes on: an epoch has one region,
\* and rows of two epochs never have one fence, however often it moved.
RowsInOrder(rows) ==
    \A j \in DOMAIN rows : \A i \in 1..j :
        /\ rows[i].fence <= rows[j].fence /\ rows[i].epoch <= rows[j].epoch
        /\ rows[i].epoch < rows[j].epoch => rows[i].fence < rows[j].fence
        /\ rows[i].epoch = rows[j].epoch => rows[i].region = rows[j].region

EpochsOrderRows == \A r \in Region : RowsInOrder(site[r].rows)

\* The rows of the world are a log, and the checkpoint the operator keeps is its
\* safe part: each approval holds what the one before it held, and a promotion
\* takes back no row that was approved, in whichever order requests end.
approvals == INSTANCE DurableLog WITH log <- mandate, safe <- approved.rows

ApprovedRowsSurvive == approvals!Spec

\* "Checkpoints never regress" (v2/docs/canonical-world.md): what the region
\* that replicates has on record, whichever of its requests ends first.
CheckpointsNeverRegress ==
    [][\A r \in Region : Writable(r) /\ Writable(r)' =>
          Len(site[r].recorded[Other(r)].rows) <= Len(site[r].recorded[Other(r)].rows)']_regionVars
=============================================================================
