-------------------------- MODULE RegionFailoverProofs --------------------------
(***************************************************************************)
(* The order of epochs, fences and rows in every store; and, if the        *)
(* operator fences, that one region writes, that checkpoints never         *)
(* regress, and that the rows of the world are a DurableLog whose safe     *)
(* part is the checkpoint the operator keeps.                              *)
(***************************************************************************)
EXTENDS RegionFailover, TLAPS

LEMMA TwoRegions ==
    \A r \in Region : /\ Other(r) \in Region /\ Other(r) # r
                      /\ \A s \in Region : s = r \/ s = Other(r)
BY RegionAssumption DEF Other

LEMMA RowsAreSequences == \A s \in Site : s.rows \in Rows /\ s.fence \in Nat
BY DEF Site

LEMMA AppendedRow ==
    \A rows \in Rows, row \in [region : Region, epoch : Nat \ {0}, fence : Nat \ {0}] :
        Append(rows, row) \in Rows
<1> DEFINE R == [region : Region, epoch : Nat \ {0}, fence : Nat \ {0}]
<1>1. \A S : \A rows \in Seq(S), row \in S : Append(rows, row) \in Seq(S)
  OBVIOUS
<1> QED BY <1>1 DEF Rows

LEMMA StoreWithRows == \A s \in Site, rows \in Rows : [s EXCEPT !.rows = rows] \in Site
BY DEF Site

LEMMA StoreWithRecord ==
    \A s \in Site, r \in Region, p \in Proof : [s EXCEPT !.recorded[r] = p] \in Site
<1> SUFFICES ASSUME NEW s \in Site, NEW r \in Region, NEW p \in Proof
             PROVE [s EXCEPT !.recorded[r] = p] \in Site
  OBVIOUS
<1> DEFINE recorded == [s.recorded EXCEPT ![r] = p]
<1>1. recorded \in [Region -> Proof]
  BY DEF Site
<1>2. [s EXCEPT !.recorded[r] = p] = [s EXCEPT !.recorded = recorded]
  OBVIOUS
<1>3. [s EXCEPT !.recorded = recorded] \in Site
  <2> HIDE DEF recorded
  <2> QED BY <1>1 DEF Site
<1> QED BY <1>2, <1>3

LEMMA PromotedStore == \A s \in Site, t \in Region : Promoted(s, t) \in Site
<1> SUFFICES ASSUME NEW s \in Site, NEW t \in Region PROVE Promoted(s, t) \in Site
  OBVIOUS
<1> DEFINE fence == IF s.fence = 0 THEN 0 ELSE s.fence + 1
           epoch == s.epoch + 1
<1>1. fence \in Nat /\ epoch \in Nat \ {0}
  BY DEF Site
<1>2. [s EXCEPT !.authority = t, !.epoch = epoch, !.fence = fence] \in Site
  <2> HIDE DEF fence, epoch
  <2> QED BY <1>1 DEF Site
<1> QED BY <1>2 DEF Promoted

\* Types: what a store, a request and the operator hold is always of its type.
THEOREM RegionTypes == RegionSpec => []RegionTypeOK
<1>1. RegionInit => RegionTypeOK
  BY RegionAssumption
     DEF RegionInit, RegionTypeOK, Site, Rows, Idle, Proof, Unproven
<1>2. RegionTypeOK /\ [RegionNext]_regionVars => RegionTypeOK'
  <2> SUFFICES ASSUME RegionTypeOK, [RegionNext]_regionVars PROVE RegionTypeOK'
    OBVIOUS
  <2> USE DEF RegionTypeOK
  <2>1. ASSUME NEW r \in Region, AcquireLease(r) PROVE RegionTypeOK'
    <3>1. [site[r] EXCEPT !.fence = @ + 1] \in Site
      BY DEF Site
    <3>2. site' = [site EXCEPT ![r] = [site[r] EXCEPT !.fence = @ + 1]]
      BY <2>1 DEF AcquireLease
    <3>3. site' \in [Region -> Site]
      BY <3>1, <3>2
    <3>4. site'[r].fence \in Nat
      BY <3>3 DEF Site
    <3> QED BY <2>1, <3>3, <3>4 DEF AcquireLease
  <2>2. ASSUME NEW r \in Region, CommitInRegion(r) PROVE RegionTypeOK'
    <3> DEFINE row == [region |-> r, epoch |-> site[r].epoch, fence |-> lease[r]]
    <3>1. row \in [region : Region, epoch : Nat \ {0}, fence : Nat \ {0}]
      BY <2>2 DEF CommitInRegion, Site
    <3>2. Append(site[r].rows, row) \in Rows /\ Append(mandate, row) \in Rows
      BY <3>1, RowsAreSequences, AppendedRow
    <3>3. [site[r] EXCEPT !.rows = Append(@, row)] \in Site
      BY <3>2, StoreWithRows
    <3>4. site' = [site EXCEPT ![r] = [site[r] EXCEPT !.rows = Append(@, row)]]
      BY <2>2 DEF CommitInRegion
    <3> QED BY <2>2, <3>2, <3>3, <3>4 DEF CommitInRegion
  <2>3. ASSUME NEW i \in Request, NEW r \in Region, RequestCheckpoint(i, r)
        PROVE RegionTypeOK'
    BY <2>3 DEF RequestCheckpoint, Idle, Proof, Unproven
  <2>4. ASSUME NEW i \in Request, Backup(i) PROVE RegionTypeOK'
    BY <2>4, TwoRegions DEF Backup, ReplicaStep
  <2>5. ASSUME NEW i \in Request, HashReplica(i) PROVE RegionTypeOK'
    <3>1. PrefixHash(site[Other(request[i].by)]) \in Proof
      BY TwoRegions, RowsAreSequences DEF PrefixHash, Proof
    <3> QED BY <2>5, <3>1 DEF HashReplica
  <2>6. ASSUME NEW i \in Request, NEW at \in Region,
               NEW from, NEW to \in {"primary"}, Record(i, at, from, to)
        PROVE site' \in [Region -> Site] /\ request' \in [Request ->
                 [by : Region, proof : Proof,
                  step : {"none", "backup", "hash", "replica", "primary"}]]
    <3> DEFINE target == Other(request[i].by)
               next == [site[at] EXCEPT !.recorded[target] = request[i].proof]
    <3>1. next \in Site
      BY TwoRegions, StoreWithRecord
    <3>2. CASE Recordable(request[i].proof, site[at], target)
      <4>1. site' = [site EXCEPT ![at] = next]
        BY <2>6, <3>2 DEF Record
      <4> QED BY <2>6, <3>1, <3>2, <4>1 DEF Record, ReplicaStep
    <3>3. CASE ~Recordable(request[i].proof, site[at], target)
      BY <2>6, <3>3, RegionAssumption DEF Record, Idle, Proof
    <3> QED BY <3>2, <3>3
  <2>7. ASSUME NEW i \in Request, RecordOnReplica(i) PROVE RegionTypeOK'
    BY <2>6, <2>7, TwoRegions DEF RecordOnReplica
  <2>8. ASSUME NEW i \in Request, RecordOnPrimary(i) PROVE RegionTypeOK'
    <3> DEFINE r == request[i].by
               next == [site[r] EXCEPT !.recorded[Other(r)] = request[i].proof]
    <3>1. r \in Region /\ next \in Site /\ request[i].proof \in Proof
      BY TwoRegions, StoreWithRecord
    <3>2. site' = site \/ site' = [site EXCEPT ![r] = next]
      BY <2>8 DEF RecordOnPrimary
    <3>3. site' \in [Region -> Site]
      BY <3>1, <3>2
    <3> QED BY <2>8, <3>1, <3>3, RegionAssumption DEF RecordOnPrimary, Idle, Proof
  <2>9. ASSUME NEW i \in Request, CheckpointFails(i) PROVE RegionTypeOK'
    BY <2>9, RegionAssumption DEF CheckpointFails, Idle, Proof
  <2>10. ASSUME NEW r \in Region, CutOff(r) PROVE RegionTypeOK'
    BY <2>10, RegionAssumption DEF CutOff, Idle, Proof
  <2>11. ASSUME NEW r \in Region, Rejoin(r) PROVE RegionTypeOK'
    BY <2>11 DEF Rejoin
  <2>12. ASSUME NEW t \in Region, Promote(t) PROVE RegionTypeOK'
    <3>1. Promoted(site[t], t) \in Site
      BY PromotedStore
    <3>2. approved.rows \in Rows
      BY <2>12 DEF Promote, Proof
    <3> QED BY <2>12, <3>1, <3>2 DEF Promote
  <2>13. CASE UNCHANGED regionVars
    BY <2>13 DEF regionVars
  <2> QED BY <2>1, <2>2, <2>3, <2>4, <2>5, <2>7, <2>8, <2>9, <2>10, <2>11,
             <2>12, <2>13 DEF RegionNext
<1> QED BY <1>1, <1>2, PTL DEF RegionSpec
-----------------------------------------------------------------------------
(* Every row of a store is behind its authority row and its lease row: a   *)
(* fence of the present epoch was not used in an earlier one.              *)

BehindAuthority(s) ==
    \A i \in DOMAIN s.rows :
        /\ s.rows[i].fence <= s.fence /\ s.rows[i].epoch <= s.epoch
        /\ s.rows[i].epoch < s.epoch => s.rows[i].fence < s.fence
        /\ s.rows[i].epoch = s.epoch => s.rows[i].region = s.authority

StoreInOrder(s) == RowsInOrder(s.rows) /\ BehindAuthority(s)

RowType == [region : Region, epoch : Nat \ {0}, fence : Nat \ {0}]

LEMMA RowFields ==
    \A s \in Site : /\ Len(s.rows) \in Nat /\ DOMAIN s.rows = 1..Len(s.rows)
                    /\ \A i \in DOMAIN s.rows : s.rows[i] \in RowType
<1>1. \A S : \A q \in Seq(S) : /\ Len(q) \in Nat /\ DOMAIN q = 1..Len(q)
                               /\ \A i \in DOMAIN q : q[i] \in S
  OBVIOUS
<1> QED BY <1>1 DEF Site, Rows, RowType

\* A commit adds a row of the present authority and fence.
LEMMA CommitKeepsOrder ==
    ASSUME NEW s \in Site, StoreInOrder(s), NEW row \in RowType,
           row.fence = s.fence, row.epoch = s.epoch, row.region = s.authority
    PROVE  StoreInOrder([s EXCEPT !.rows = Append(@, row)])
<1> DEFINE n == Len(s.rows)
           new == Append(s.rows, row)
<1>1. /\ n \in Nat /\ DOMAIN s.rows = 1..n
      /\ \A i \in 1..n : s.rows[i] \in RowType
  BY RowFields
<1>2. s.rows \in Seq(RowType)
  BY DEF Site, Rows, RowType
<1>3. \A S : \A q \in Seq(S), e \in S :
         /\ DOMAIN Append(q, e) = 1..Len(q) + 1
         /\ \A i \in 1..Len(q) + 1 :
               Append(q, e)[i] = IF i = Len(q) + 1 THEN e ELSE q[i]
  OBVIOUS
<1>4. /\ DOMAIN new = 1..n + 1
      /\ \A i \in 1..n + 1 : new[i] = IF i = n + 1 THEN row ELSE s.rows[i]
  BY <1>2, <1>3
<1>5. s.epoch \in Nat /\ s.fence \in Nat
  BY DEF Site
<1> HIDE DEF new, n
<1>6. RowsInOrder(new)
  <2> SUFFICES ASSUME NEW j \in 1..n + 1, NEW i \in 1..j
               PROVE /\ new[i].fence <= new[j].fence /\ new[i].epoch <= new[j].epoch
                     /\ new[i].epoch < new[j].epoch => new[i].fence < new[j].fence
                     /\ new[i].epoch = new[j].epoch => new[i].region = new[j].region
    BY <1>4 DEF RowsInOrder
  <2>1. CASE j = n + 1 /\ i = n + 1
    BY <2>1, <1>1, <1>4 DEF RowType
  <2>2. CASE j = n + 1 /\ i # n + 1
    BY <2>2, <1>1, <1>4 DEF StoreInOrder, BehindAuthority
  <2>3. CASE j # n + 1
    BY <2>3, <1>1, <1>4 DEF StoreInOrder, RowsInOrder
  <2> QED BY <2>1, <2>2, <2>3
<1>7. BehindAuthority([s EXCEPT !.rows = new])
  <2> SUFFICES ASSUME NEW i \in 1..n + 1
               PROVE /\ new[i].fence <= s.fence /\ new[i].epoch <= s.epoch
                     /\ new[i].epoch < s.epoch => new[i].fence < s.fence
                     /\ new[i].epoch = s.epoch => new[i].region = s.authority
    BY <1>4 DEF BehindAuthority, Site
  <2>1. CASE i = n + 1
    BY <2>1, <1>1, <1>4, <1>5
  <2>2. CASE i # n + 1
    BY <2>2, <1>1, <1>4 DEF StoreInOrder, BehindAuthority
  <2> QED BY <2>1, <2>2
<1>8. [s EXCEPT !.rows = new].rows = new
  BY DEF Site
<1> QED BY <1>6, <1>7, <1>8 DEF StoreInOrder, new

LEMMA HigherFenceKeepsOrder ==
    ASSUME NEW s \in Site, StoreInOrder(s)
    PROVE  StoreInOrder([s EXCEPT !.fence = @ + 1])
BY RowFields DEF StoreInOrder, RowsInOrder, BehindAuthority, Site, RowType

\* A promotion leaves no row in its epoch, and every fence it finds behind it.
LEMMA PromotionKeepsOrder ==
    ASSUME NEW s \in Site, NEW t \in Region, StoreInOrder(s)
    PROVE  StoreInOrder(Promoted(s, t))
<1> DEFINE p == Promoted(s, t)
<1>1. /\ p.rows = s.rows /\ p.epoch = s.epoch + 1
      /\ p.fence = IF s.fence = 0 THEN 0 ELSE s.fence + 1
  BY DEF Promoted, Site
<1>2. s.epoch \in Nat /\ s.fence \in Nat
  BY DEF Site
<1>3. \A i \in DOMAIN s.rows : /\ s.rows[i].fence \in Nat \ {0} /\ s.rows[i].epoch \in Nat
                               /\ s.rows[i].fence <= s.fence /\ s.rows[i].epoch <= s.epoch
  BY RowFields DEF RowType, StoreInOrder, BehindAuthority
<1> HIDE DEF p
<1>4. BehindAuthority(p)
  BY <1>1, <1>2, <1>3 DEF BehindAuthority
<1> QED BY <1>1, <1>4 DEF p, StoreInOrder

OrderInv == \A r \in Region : StoreInOrder(site[r])

LEMMA OrderStep ==
    ASSUME RegionTypeOK, OrderInv, [RegionNext]_regionVars PROVE OrderInv'
<1> USE DEF OrderInv
<1>0. \A r \in Region : site[r] \in Site
  BY DEF RegionTypeOK
<1>1. ASSUME NEW r \in Region, AcquireLease(r) PROVE OrderInv'
  <2>1. site' = [site EXCEPT ![r] = [site[r] EXCEPT !.fence = @ + 1]]
    BY <1>1 DEF AcquireLease
  <2> QED BY <2>1, <1>0, HigherFenceKeepsOrder DEF RegionTypeOK
<1>2. ASSUME NEW r \in Region, CommitInRegion(r) PROVE OrderInv'
  <2> DEFINE row == [region |-> r, epoch |-> site[r].epoch, fence |-> lease[r]]
  <2>1. site' = [site EXCEPT ![r] = [site[r] EXCEPT !.rows = Append(@, row)]]
    BY <1>2 DEF CommitInRegion
  <2>2. /\ row \in RowType
        /\ row.fence = site[r].fence /\ row.epoch = site[r].epoch
        /\ row.region = site[r].authority
    BY <1>0, <1>2 DEF CommitInRegion, ActiveRegion, RegionTypeOK, RowType, Site
  <2>3. StoreInOrder([site[r] EXCEPT !.rows = Append(@, row)])
    <3> HIDE DEF row
    <3> QED BY <1>0, <2>2, CommitKeepsOrder
  <2> QED BY <2>1, <2>3 DEF RegionTypeOK
<1>3. ASSUME NEW i \in Request, Backup(i) PROVE OrderInv'
  BY <1>3, TwoRegions DEF Backup, RegionTypeOK
<1>4. ASSUME NEW i \in Request, NEW at \in Region, NEW target,
             site' = [site EXCEPT ![at].recorded[target] = request[i].proof]
      PROVE OrderInv'
  <2>1. \A r \in Region : /\ site'[r].rows = site[r].rows /\ site'[r].fence = site[r].fence
                          /\ site'[r].epoch = site[r].epoch
                          /\ site'[r].authority = site[r].authority
    BY <1>4, <1>0 DEF RegionTypeOK, Site
  <2> QED BY <2>1 DEF StoreInOrder, RowsInOrder, BehindAuthority
<1>5. ASSUME NEW i \in Request, RecordOnReplica(i) PROVE OrderInv'
  BY <1>4, <1>5, TwoRegions DEF RecordOnReplica, Record, RegionTypeOK
<1>6. ASSUME NEW i \in Request, RecordOnPrimary(i) PROVE OrderInv'
  <2> DEFINE r == request[i].by
             next == [site EXCEPT ![r].recorded[Other(r)] = request[i].proof]
  <2>1. r \in Region
    BY DEF RegionTypeOK
  <2>2. site' = site \/ site' = next
    BY <1>6 DEF RecordOnPrimary
  <2> QED BY <2>1, <2>2, <1>4
<1>7. ASSUME NEW t \in Region, Promote(t) PROVE OrderInv'
  BY <1>7, <1>0, PromotionKeepsOrder DEF Promote, RegionTypeOK
<1>8. ASSUME UNCHANGED site PROVE OrderInv'
  BY <1>8
<1> QED BY <1>1, <1>2, <1>3, <1>5, <1>6, <1>7, <1>8
        DEF RegionNext, RequestCheckpoint, HashReplica, CheckpointFails, CutOff, Rejoin,
            regionVars

\* In every store, of an active region or of a standby, the rows are in the
\* order of the epochs, whether or not anybody fences.
THEOREM EpochsInOrder == RegionSpec => []EpochsOrderRows
<1>1. ASSUME RegionInit PROVE OrderInv
  <2>1. DOMAIN <<>> = {}
    OBVIOUS
  <2>2. \A r \in Region : site[r].rows = <<>>
    BY <1>1 DEF RegionInit
  <2> QED BY <2>1, <2>2 DEF OrderInv, StoreInOrder, RowsInOrder, BehindAuthority
<1>2. OrderInv => EpochsOrderRows
  BY DEF OrderInv, StoreInOrder, EpochsOrderRows
<1> QED BY <1>1, <1>2, RegionTypes, OrderStep, PTL DEF RegionSpec
-----------------------------------------------------------------------------
(* If the operator fences: who may write, and who may replicate.           *)

\* A request in progress is one of the region that writes: being cut off ends
\* it, and no other step takes the authority from a region that has it.
RequestsOfWriter == \A i \in Request : request[i].step # "none" => Writable(request[i].by)

OneWriterInv == OneRegionWrites /\ RequestsOfWriter

LEMMA WriterUnchanged ==
    ASSUME OneWriterInv, cut' = cut, mandate' = mandate,
           \A r \in Region : /\ site'[r].identity = site[r].identity
                             /\ site'[r].authority = site[r].authority
                             /\ site'[r].rows = site[r].rows,
           \A i \in Request : request'[i].step # "none" =>
               request[i].step # "none" /\ request'[i].by = request[i].by,
           RegionTypeOK
    PROVE  OneWriterInv'
BY DEF OneWriterInv, OneRegionWrites, RequestsOfWriter, Writable, Runs, ActiveRegion,
       RegionTypeOK

LEMMA RecordKeepsWriter ==
    ASSUME RegionTypeOK, NEW at \in Region, NEW target, NEW proof,
           site' = site \/ site' = [site EXCEPT ![at].recorded[target] = proof]
    PROVE  \A r \in Region : /\ site'[r].identity = site[r].identity
                             /\ site'[r].authority = site[r].authority
                             /\ site'[r].rows = site[r].rows
<1>1. \A r \in Region : site[r] \in Site
  BY DEF RegionTypeOK
<1> QED BY <1>1 DEF RegionTypeOK, Site

LEMMA WriterPreserved ==
    ASSUME Fencing, RegionTypeOK, OneWriterInv, [RegionNext]_regionVars PROVE OneWriterInv'
<1> USE DEF OneWriterInv
<1>0. \A r \in Region : site[r] \in Site
  BY DEF RegionTypeOK
<1>1. ASSUME NEW r \in Region, AcquireLease(r) PROVE OneWriterInv'
  <2>1. \A q \in Region : /\ site'[q].identity = site[q].identity
                          /\ site'[q].authority = site[q].authority
                          /\ site'[q].rows = site[q].rows
    BY <1>0, <1>1 DEF AcquireLease, RegionTypeOK, Site
  <2> QED BY <2>1, <1>1, WriterUnchanged DEF AcquireLease
<1>2. ASSUME NEW r \in Region, CommitInRegion(r) PROVE OneWriterInv'
  <2> DEFINE row == [region |-> r, epoch |-> site[r].epoch, fence |-> lease[r]]
  <2>0. /\ site' = [site EXCEPT ![r] = [site[r] EXCEPT !.rows = Append(@, row)]]
        /\ mandate' = Append(mandate, row)
        /\ UNCHANGED <<cut, request>>
    BY <1>2 DEF CommitInRegion
  <2> HIDE DEF row
  <2>1. /\ \A q \in Region : /\ site'[q].identity = site[q].identity
                             /\ site'[q].authority = site[q].authority
        /\ \A q \in Region : q # r => site'[q].rows = site[q].rows
        /\ site'[r].rows = Append(site[r].rows, row)
    BY <1>0, <2>0 DEF RegionTypeOK, Site
  <2>2. Writable(r)
    BY <1>2 DEF CommitInRegion, Writable
  <2>3. \A q \in Region : Writable(q)' <=> Writable(q)
    BY <2>0, <2>1 DEF Writable, Runs, ActiveRegion
  <2>4. OneRegionWrites'
    BY <2>0, <2>1, <2>2, <2>3 DEF OneRegionWrites
  <2>5. RequestsOfWriter'
    BY <2>0, <2>3 DEF RequestsOfWriter, RegionTypeOK
  <2> QED BY <2>4, <2>5
<1>3. ASSUME NEW i \in Request, NEW r \in Region, RequestCheckpoint(i, r) PROVE OneWriterInv'
  <2>1. UNCHANGED <<site, cut, mandate>> /\ Writable(r)
    BY <1>3 DEF RequestCheckpoint, Writable
  <2>2. \A q \in Region : Writable(q)' <=> Writable(q)
    BY <2>1 DEF Writable, Runs, ActiveRegion
  <2>3. \A j \in Request : request'[j].step # "none" =>
            request'[j].by = r \/ (request[j].step # "none" /\ request'[j].by = request[j].by)
    BY <1>3 DEF RequestCheckpoint, RegionTypeOK, Idle
  <2>4. \A j \in Request : request'[j].by \in Region
    BY <1>3, RegionAssumption DEF RequestCheckpoint, RegionTypeOK, Idle
  <2>5. RequestsOfWriter'
    BY <2>1, <2>2, <2>3, <2>4 DEF RequestsOfWriter, RegionTypeOK
  <2>6. OneRegionWrites'
    BY <2>1, <2>2 DEF OneRegionWrites
  <2> QED BY <2>5, <2>6
<1>4. ASSUME NEW i \in Request, Backup(i) PROVE OneWriterInv'
  <2> DEFINE r == request[i].by
  <2>1. r \in Region /\ Writable(r)
    BY <1>4 DEF Backup, ReplicaStep, RequestsOfWriter, RegionTypeOK
  <2>2. /\ site' = [site EXCEPT ![Other(r)] = site[r]]
        /\ UNCHANGED <<cut, mandate>>
        /\ \A j \in Request : request'[j].step # "none" =>
              request[j].step # "none" /\ request'[j].by = request[j].by
    BY <1>4 DEF Backup, ReplicaStep, RegionTypeOK
  <2>3. \A q \in Region : Writable(q) => q = r
    BY <2>1 DEF OneRegionWrites
  <2>4. \A q \in Region : Writable(q)' <=> q = r
    BY <2>1, <2>2, TwoRegions DEF Writable, Runs, ActiveRegion, RegionTypeOK
  <2>5. site'[r].rows = site[r].rows
    BY <2>1, <2>2, TwoRegions DEF RegionTypeOK
  <2>6. OneRegionWrites'
    BY <2>1, <2>2, <2>4, <2>5 DEF OneRegionWrites
  <2>7. \A j \in Request : request[j].step # "none" => request[j].by = r
    BY <2>3 DEF RequestsOfWriter, RegionTypeOK
  <2>8. RequestsOfWriter'
    BY <2>1, <2>2, <2>4, <2>7 DEF RequestsOfWriter
  <2> QED BY <2>6, <2>8
<1>5. ASSUME NEW i \in Request, HashReplica(i) \/ CheckpointFails(i) PROVE OneWriterInv'
  <2>1. /\ UNCHANGED <<site, cut, mandate>>
        /\ \A j \in Request : request'[j].step # "none" =>
              request[j].step # "none" /\ request'[j].by = request[j].by
    BY <1>5 DEF HashReplica, CheckpointFails, RegionTypeOK, Idle
  <2> QED BY <2>1, WriterUnchanged
<1>6. ASSUME NEW i \in Request, RecordOnReplica(i) PROVE OneWriterInv'
  <2> DEFINE at == Other(request[i].by)
  <2>1. /\ site' = site \/ site' = [site EXCEPT ![at].recorded[at] = request[i].proof]
        /\ UNCHANGED <<cut, mandate>>
        /\ \A j \in Request : request'[j].step # "none" =>
              request[j].step # "none" /\ request'[j].by = request[j].by
    BY <1>6 DEF RecordOnReplica, Record, ReplicaStep, RegionTypeOK, Idle
  <2>2. at \in Region
    BY TwoRegions DEF RegionTypeOK
  <2> QED BY <2>1, <2>2, WriterUnchanged, RecordKeepsWriter
<1>7. ASSUME NEW i \in Request, RecordOnPrimary(i) PROVE OneWriterInv'
  <2> DEFINE r == request[i].by
  <2>1. /\ site' = site \/ site' = [site EXCEPT ![r].recorded[Other(r)] = request[i].proof]
        /\ UNCHANGED <<cut, mandate>>
        /\ \A j \in Request : request'[j].step # "none" =>
              request[j].step # "none" /\ request'[j].by = request[j].by
    BY <1>7 DEF RecordOnPrimary, RegionTypeOK, Idle
  <2>2. r \in Region
    BY DEF RegionTypeOK
  <2>3. \A q \in Region : /\ site'[q].identity = site[q].identity
                          /\ site'[q].authority = site[q].authority
                          /\ site'[q].rows = site[q].rows
    <3> DEFINE target == Other(r)
               proof == request[i].proof
    <3>1. site' = site \/ site' = [site EXCEPT ![r].recorded[target] = proof]
      BY <2>1
    <3> HIDE DEF r, target, proof
    <3> QED BY <2>2, <3>1, RecordKeepsWriter
  <2> QED BY <2>1, <2>3, WriterUnchanged
<1>8. ASSUME NEW r \in Region, CutOff(r) PROVE OneWriterInv'
  <2>1. \A q \in Region : Writable(q)' <=> Writable(q) /\ q # r
    BY <1>8 DEF CutOff, Writable, Runs, ActiveRegion
  <2>2. OneRegionWrites'
    BY <1>8, <2>1 DEF CutOff, OneRegionWrites
  <2>3. \A j \in Request : request'[j].step # "none" =>
            /\ request[j].step # "none" /\ request[j].by # r
            /\ request'[j].by = request[j].by /\ request[j].by \in Region
    BY <1>8 DEF CutOff, Idle, RegionTypeOK
  <2>4. RequestsOfWriter'
    BY <2>1, <2>3 DEF RequestsOfWriter
  <2> QED BY <2>2, <2>4
<1>9. ASSUME NEW r \in Region, Rejoin(r) PROVE OneWriterInv'
  <2>1. \A q \in Region : Writable(q)' <=> Writable(q)
    BY <1>9 DEF Rejoin, Writable, Runs, ActiveRegion
  <2>2. UNCHANGED <<site, request, mandate>>
    BY <1>9 DEF Rejoin
  <2> QED BY <2>1, <2>2 DEF OneRegionWrites, RequestsOfWriter, RegionTypeOK
<1>10. ASSUME NEW t \in Region, Promote(t) PROVE OneWriterInv'
  <2> DEFINE source == Other(t)
  <2>1. /\ source \in Region /\ source \in cut /\ t \notin cut
        /\ site[t].identity /\ site[t].authority = source /\ site[t].rows = approved.rows
        /\ site' = [site EXCEPT ![t] = Promoted(site[t], t)]
        /\ mandate' = approved.rows /\ UNCHANGED <<request, cut>>
    BY <1>10, TwoRegions DEF Promote, Runs, ProvenPrefix, PrefixHash
  <2>2. \A q \in Region : ~Writable(q)
    BY <2>1, TwoRegions DEF Writable, Runs, ActiveRegion
  <2>3. \A j \in Request : request[j].step = "none"
    BY <2>2 DEF RequestsOfWriter, RegionTypeOK
  <2>4. /\ site'[t].rows = approved.rows
        /\ \A q \in Region : Writable(q)' => q = t
    BY <1>0, <2>1, TwoRegions DEF Promoted, Writable, Runs, RegionTypeOK, Site
  <2> QED BY <2>1, <2>3, <2>4 DEF OneRegionWrites, RequestsOfWriter
<1>11. CASE UNCHANGED regionVars
  BY <1>11, WriterUnchanged DEF regionVars
<1> QED BY <1>1, <1>2, <1>3, <1>4, <1>5, <1>6, <1>7, <1>8, <1>9, <1>10, <1>11
        DEF RegionNext

LEMMA WriterInvariant == ASSUME Fencing PROVE RegionSpec => []OneWriterInv
<1>1. ASSUME RegionInit PROVE OneWriterInv
  <2>1. \A r \in Region : site[r].rows = mandate /\ (Writable(r) => r = Primary)
    BY <1>1 DEF RegionInit, Writable, ActiveRegion
  <2>2. \A i \in Request : request[i].step = "none"
    BY <1>1 DEF RegionInit, Idle
  <2> QED BY <2>1, <2>2 DEF OneWriterInv, OneRegionWrites, RequestsOfWriter
<1>2. RegionTypeOK /\ OneWriterInv /\ [RegionNext]_regionVars => OneWriterInv'
  BY WriterPreserved
<1> QED BY <1>1, <1>2, RegionTypes, PTL DEF RegionSpec

\* With an operator who fences, one region at most can commit, and it does so on
\* the rows the world has.
THEOREM OneWriter == ASSUME Fencing PROVE RegionSpec => []OneRegionWrites
<1>1. OneWriterInv => OneRegionWrites
  BY DEF OneWriterInv
<1> QED BY <1>1, WriterInvariant, PTL

Recorded(r) == Len(site[r].recorded[Other(r)].rows)

RecordGrows == \A r \in Region : Writable(r) /\ Writable(r)' => Recorded(r) <= Recorded(r)'

LEMMA RecordStep ==
    ASSUME RegionTypeOK, OneWriterInv, [RegionNext]_regionVars PROVE RecordGrows
<1>0. /\ \A r \in Region : site[r] \in Site /\ Other(r) \in Region
      /\ \A r \in Region : Recorded(r) \in Nat
  <2>1. \A S : \A q \in Seq(S) : Len(q) \in Nat
    OBVIOUS
  <2>2. Len(<<>>) \in Nat
    OBVIOUS
  <2>3. \A p \in Proof : Len(p.rows) \in Nat
    BY <2>1, <2>2 DEF Proof, Unproven, Rows
  <2>4. \A r \in Region : site[r] \in Site /\ Other(r) \in Region
    BY TwoRegions DEF RegionTypeOK
  <2>5. \A r \in Region : site[r].recorded[Other(r)] \in Proof
    BY <2>4 DEF Site
  <2> QED BY <2>3, <2>4, <2>5 DEF Recorded
<1>1. ASSUME \A r \in Region : Writable(r) => site'[r].recorded = site[r].recorded
      PROVE RecordGrows
  BY <1>0, <1>1 DEF RecordGrows, Recorded
<1>2. ASSUME NEW q \in Region, AcquireLease(q) PROVE RecordGrows
  <2>1. \A r \in Region : site'[r].recorded = site[r].recorded
    BY <1>0, <1>2 DEF AcquireLease, RegionTypeOK, Site
  <2> QED BY <2>1, <1>1
<1>3. ASSUME NEW q \in Region, CommitInRegion(q) PROVE RecordGrows
  <2> DEFINE row == [region |-> q, epoch |-> site[q].epoch, fence |-> lease[q]]
  <2>1. site' = [site EXCEPT ![q] = [site[q] EXCEPT !.rows = Append(@, row)]]
    BY <1>3 DEF CommitInRegion
  <2> HIDE DEF row
  <2>2. \A r \in Region : site'[r].recorded = site[r].recorded
    BY <1>0, <2>1 DEF RegionTypeOK, Site
  <2> QED BY <2>2, <1>1
<1>4. ASSUME NEW i \in Request, request[i].step # "none"
      PROVE \A r \in Region : Writable(r) => r = request[i].by
  BY <1>4 DEF OneWriterInv, OneRegionWrites, RequestsOfWriter, RegionTypeOK
<1>5. ASSUME NEW i \in Request, Backup(i) PROVE RecordGrows
  <2>1. /\ request[i].step # "none" /\ request[i].by \in Region
        /\ site' = [site EXCEPT ![Other(request[i].by)] = site[request[i].by]]
    BY <1>5 DEF Backup, ReplicaStep, RegionTypeOK
  <2>2. site'[request[i].by] = site[request[i].by]
    BY <2>1, TwoRegions DEF RegionTypeOK
  <2> QED BY <2>1, <2>2, <1>1, <1>4
<1>6. ASSUME NEW i \in Request, RecordOnReplica(i) PROVE RecordGrows
  <2> DEFINE by == request[i].by
  <2>1. /\ request[i].step # "none" /\ by \in Region
        /\ \/ site' = site
           \/ site' = [site EXCEPT ![Other(by)].recorded[Other(by)] = request[i].proof]
    BY <1>6 DEF RecordOnReplica, Record, ReplicaStep, RegionTypeOK
  <2>2. site'[by] = site[by]
    BY <2>1, TwoRegions DEF RegionTypeOK
  <2> QED BY <2>1, <2>2, <1>1, <1>4
<1>7. ASSUME NEW i \in Request, RecordOnPrimary(i), NEW by \in Region, by = request[i].by
      PROVE RecordGrows
  <2> DEFINE recorded == [site[by].recorded EXCEPT ![Other(by)] = request[i].proof]
  <2>1. /\ by \in Region /\ Other(by) \in Region
        /\ \/ site' = site
           \/ /\ Len(site[by].recorded[Other(by)].rows) <= Len(request[i].proof.rows)
              /\ site' = [site EXCEPT ![by] = [site[by] EXCEPT !.recorded = recorded]]
    BY <1>7, TwoRegions DEF RecordOnPrimary, Recordable, RegionTypeOK
  <2>2. CASE site' = site
    BY <2>2, <1>1
  <2>3. CASE site' # site
    <3>1. recorded[Other(by)] = request[i].proof
      BY <1>0, <2>1 DEF Site
    <3> HIDE DEF recorded
    <3>2. site'[by].recorded = recorded
      BY <1>0, <2>1, <2>3 DEF RegionTypeOK, Site
    <3>3. \A r \in Region : r # by => site'[r] = site[r]
      BY <2>1, <2>3 DEF RegionTypeOK
    <3>4. Recorded(by) <= Recorded(by)'
      BY <2>1, <2>3, <3>1, <3>2 DEF Recorded
    <3>5. \A r \in Region : r # by => Recorded(r)' = Recorded(r)
      BY <3>3 DEF Recorded
    <3> QED BY <1>0, <3>4, <3>5 DEF RecordGrows
  <2> QED BY <2>2, <2>3
<1>8. ASSUME NEW t \in Region, Promote(t) PROVE RecordGrows
  <2>1. ~Writable(t) /\ site' = [site EXCEPT ![t] = Promoted(site[t], t)]
    BY <1>8, TwoRegions DEF Promote, Writable, ActiveRegion
  <2>2. \A r \in Region : r # t => site'[r] = site[r]
    BY <2>1 DEF RegionTypeOK
  <2> QED BY <2>1, <2>2, <1>1
<1>9. ASSUME UNCHANGED site PROVE RecordGrows
  BY <1>1, <1>9
<1>10. \A i \in Request : request[i].by \in Region
  BY DEF RegionTypeOK
<1> QED BY <1>2, <1>3, <1>5, <1>6, <1>7, <1>8, <1>9, <1>10
        DEF RegionNext, RequestCheckpoint, HashReplica, CheckpointFails, CutOff, Rejoin,
            regionVars

\* With an operator who fences, no request of a region that writes puts an older
\* checkpoint over a newer one, in whichever order its requests end.
THEOREM CheckpointsGrow == ASSUME Fencing PROVE RegionSpec => CheckpointsNeverRegress
<1>1. RegionTypeOK /\ OneWriterInv /\ [RegionNext]_regionVars => [RecordGrows]_regionVars
  BY RecordStep
<1>2. RecordGrows <=>
        \A r \in Region : Writable(r) /\ Writable(r)' =>
            Len(site[r].recorded[Other(r)].rows) <= Len(site[r].recorded[Other(r)].rows)'
  BY DEF RecordGrows, Recorded
<1>3. RegionSpec => [][RecordGrows]_regionVars
  BY <1>1, RegionTypes, WriterInvariant, PTL DEF RegionSpec
<1> QED BY <1>2, <1>3, PTL DEF CheckpointsNeverRegress
-----------------------------------------------------------------------------
(* If the operator fences: no promotion takes back an approved row.        *)

Begins(s, t) == approvals!Begins(s, t)

LEMMA BeginsRows ==
    \A s, t, u \in Rows :
        /\ Begins(s, s) /\ Begins(<<>>, s)
        /\ Begins(s, u) /\ Begins(t, u) /\ Len(s) <= Len(t) => Begins(s, t)
        /\ Begins(s, u) => Len(s) <= Len(u)
        /\ Len(s) \in Nat
<1>1. \A s \in Rows : Len(s) \in Nat
  BY DEF Rows
<1>2. \A s, t, u \in Rows : Begins(s, u) /\ Begins(t, u) /\ Len(s) <= Len(t) => Begins(s, t)
  BY <1>1 DEF Begins, approvals!Begins
<1> QED BY <1>1, <1>2 DEF Begins, approvals!Begins

LEMMA BeginsAppended ==
    \A s, t \in Rows, row \in RowType :
        /\ Append(t, row) \in Rows /\ Len(Append(t, row)) = Len(t) + 1
        /\ Begins(s, t) => Begins(s, Append(t, row))
<1>1. \A S : \A q \in Seq(S), e \in S :
         /\ Append(q, e) \in Seq(S) /\ Len(q) \in Nat /\ Len(Append(q, e)) = Len(q) + 1
         /\ \A i \in 1..Len(q) : Append(q, e)[i] = q[i]
  OBVIOUS
<1>2. Rows = Seq(RowType)
  BY DEF Rows, RowType
<1>3. \A t \in Rows, row \in RowType :
         /\ Append(t, row) \in Rows /\ Len(t) \in Nat /\ Len(Append(t, row)) = Len(t) + 1
         /\ \A i \in 1..Len(t) : Append(t, row)[i] = t[i]
  BY <1>1, <1>2
<1>4. \A s \in Rows : Len(s) \in Nat
  BY <1>1, <1>2
<1>5. ASSUME NEW s \in Rows, NEW t \in Rows, NEW row \in RowType, Begins(s, t)
      PROVE Begins(s, Append(t, row))
  <2>1. \A i \in 1..Len(s) : i \in 1..Len(t) /\ s[i] = t[i]
    BY <1>4, <1>5 DEF Begins, approvals!Begins
  <2>2. Len(s) <= Len(Append(t, row))
    BY <1>3, <1>4, <1>5 DEF Begins, approvals!Begins
  <2> QED BY <1>3, <2>1, <2>2 DEF Begins, approvals!Begins
<1> QED BY <1>3, <1>5

\* A request that has copied the store, and one that has hashed the copy.
Copied(i) == request[i].step \in {"hash", "replica", "primary"}
Proven(i) == request[i].step \in {"replica", "primary"}

\* Copies and proofs are how the world's rows begin.
CopiesBegin ==
    \A i \in Request :
        /\ Copied(i) => Begins(site[Other(request[i].by)].rows, mandate)
        /\ Proven(i) => Begins(request[i].proof.rows, mandate)

HasApproved(rows) == Len(approved.rows) <= Len(rows)

\* An approval is not behind the last one: either the region that writes has
\* that one on record and refuses what is behind it, or it was promoted with it
\* and has copied nothing older since.
ProofsKeepUp ==
    \A r \in Region : Writable(r) =>
        \/ HasApproved(site[r].recorded[Other(r)].rows)
        \/ \A i \in Request : /\ Copied(i) => HasApproved(site[Other(r)].rows)
                              /\ Proven(i) => HasApproved(request[i].proof.rows)

ApprovedInv == Begins(approved.rows, mandate) /\ CopiesBegin /\ ProofsKeepUp

LEMMA ProofRows == \A p \in Proof : p.rows \in Rows
<1>1. <<>> \in Rows
  BY DEF Rows
<1> QED BY <1>1 DEF Proof, Unproven

LEMMA RowsKnown ==
    ASSUME RegionTypeOK
    PROVE  /\ approved.rows \in Rows /\ mandate \in Rows
           /\ \A i \in Request : request[i].proof.rows \in Rows /\ request[i].by \in Region
           /\ \A r \in Region : /\ site[r] \in Site /\ site[r].rows \in Rows
                                /\ Other(r) \in Region
                                /\ site[r].recorded[Other(r)].rows \in Rows
BY ProofRows, RowsAreSequences, TwoRegions DEF RegionTypeOK, Site

\* A step that neither commits, copies, hashes, approves nor promotes.
LEMMA ApprovedUnchanged ==
    ASSUME RegionTypeOK, ApprovedInv, UNCHANGED <<approved, mandate>>,
           \A r \in Region : site'[r].rows = site[r].rows,
           \A r \in Region : Writable(r)' =>
               Writable(r) /\ site'[r].recorded = site[r].recorded,
           \A i \in Request : Copied(i)' => Copied(i) /\ request'[i].by = request[i].by,
           \A i \in Request : Proven(i)' => Proven(i) /\ request'[i].proof = request[i].proof
    PROVE  ApprovedInv'
<1>1. CopiesBegin'
  BY RowsKnown DEF ApprovedInv, CopiesBegin
<1>2. ProofsKeepUp'
  BY RowsKnown DEF ApprovedInv, ProofsKeepUp, HasApproved
<1> QED BY <1>1, <1>2 DEF ApprovedInv

\* A step that may commit, but does not approve or promote.
LEMMA CommitApproves ==
    ASSUME RegionTypeOK, OneWriterInv, ApprovedInv, NEW r \in Region, CommitInRegion(r)
    PROVE  ApprovedInv' /\ approvals!Take
<1> DEFINE row == [region |-> r, epoch |-> site[r].epoch, fence |-> lease[r]]
<1>1. /\ row \in RowType
      /\ site' = [site EXCEPT ![r] = [site[r] EXCEPT !.rows = Append(@, row)]]
      /\ mandate' = Append(mandate, row)
      /\ UNCHANGED <<request, approved, cut>>
      /\ Writable(r)
  BY DEF CommitInRegion, RegionTypeOK, RowType, Site, Writable
<1> HIDE DEF row
<1>2. /\ \A s \in Rows : Begins(s, mandate) => Begins(s, mandate')
      /\ Begins(mandate, mandate') /\ Len(mandate') = Len(mandate) + 1
  BY <1>1, RowsKnown, BeginsAppended, BeginsRows
<1>3. \A q \in Region : /\ q # r => site'[q].rows = site[q].rows
                        /\ site'[q].recorded = site[q].recorded
                        /\ Writable(q)' => Writable(q)
  BY <1>1, RowsKnown DEF RegionTypeOK, Site, Writable, Runs, ActiveRegion
<1>4. \A i \in Request : Copied(i) => request[i].by = r
  BY <1>1, RowsKnown DEF Copied, OneWriterInv, RequestsOfWriter, OneRegionWrites
<1>5. /\ \A i \in Request : Copied(i)' <=> Copied(i)
      /\ \A i \in Request : Proven(i)' <=> Proven(i)
      /\ \A i \in Request : Proven(i) => Copied(i)
  BY <1>1 DEF Copied, Proven
<1>6. CopiesBegin'
  BY <1>1, <1>2, <1>3, <1>4, <1>5, RowsKnown, TwoRegions DEF ApprovedInv, CopiesBegin
<1>7. \A q \in Region : Writable(q) => q = r
  BY <1>1 DEF OneWriterInv, OneRegionWrites
<1>8. ProofsKeepUp'
  BY <1>1, <1>3, <1>5, <1>7, RowsKnown, TwoRegions DEF ApprovedInv, ProofsKeepUp, HasApproved
<1> QED BY <1>1, <1>2, <1>6, <1>8, RowsKnown
        DEF ApprovedInv, approvals!Take, Begins

\* The copy holds what the region that writes holds, which is the mandate.
LEMMA BackupApproves ==
    ASSUME RegionTypeOK, OneWriterInv, ApprovedInv, NEW i \in Request, Backup(i)
    PROVE  ApprovedInv'
<1> DEFINE r == request[i].by
<1>1. /\ r \in Region /\ Other(r) \in Region /\ Other(r) # r
      /\ site' = [site EXCEPT ![Other(r)] = site[r]]
      /\ request[i].step = "backup" /\ request' = [request EXCEPT ![i].step = "hash"]
      /\ UNCHANGED <<approved, cut, mandate>>
  BY TwoRegions DEF Backup, ReplicaStep, RegionTypeOK
<1>2. Writable(r) /\ site[r].rows = mandate /\ \A q \in Region : Writable(q) => q = r
  BY <1>1 DEF OneWriterInv, RequestsOfWriter, OneRegionWrites
<1>3. \A j \in Request : request[j].step # "none" => request[j].by = r
  BY <1>2, RowsKnown DEF OneWriterInv, RequestsOfWriter
<1> HIDE DEF r
<1>4. site'[Other(r)].rows = mandate /\ site'[r] = site[r]
  BY <1>1, <1>2 DEF RegionTypeOK
<1>5. \A j \in Request : /\ request'[j].by = request[j].by
                         /\ request'[j].proof = request[j].proof
                         /\ Proven(j)' => Proven(j)
                         /\ Copied(j)' => request[j].by = r
  BY <1>1, <1>3 DEF Proven, Copied, RegionTypeOK
<1>6. Begins(mandate, mandate) /\ Len(approved.rows) <= Len(mandate)
  BY RowsKnown, BeginsRows DEF ApprovedInv
<1>7. CopiesBegin'
  BY <1>1, <1>4, <1>5, <1>6 DEF ApprovedInv, CopiesBegin
<1>8. \A q \in Region : Writable(q)' => q = r
  BY <1>1, <1>2, <1>4, TwoRegions DEF Writable, Runs, ActiveRegion, RegionTypeOK
<1>9. ProofsKeepUp'
  <2>1. CASE HasApproved(site[r].recorded[Other(r)].rows)
    BY <1>1, <1>4, <1>8, <2>1 DEF ProofsKeepUp, HasApproved
  <2>2. CASE \A j \in Request : Proven(j) => HasApproved(request[j].proof.rows)
    BY <1>1, <1>4, <1>5, <1>6, <1>8, <2>2 DEF ProofsKeepUp, HasApproved
  <2> QED BY <1>1, <1>2, <2>1, <2>2 DEF ApprovedInv, ProofsKeepUp
<1> QED BY <1>1, <1>7, <1>9 DEF ApprovedInv

LEMMA HashApproves ==
    ASSUME RegionTypeOK, OneWriterInv, ApprovedInv, NEW i \in Request, HashReplica(i)
    PROVE  ApprovedInv'
<1> DEFINE copy == site[Other(request[i].by)]
<1>1. /\ UNCHANGED <<site, approved, cut, mandate>> /\ request[i].step = "hash"
      /\ request' = [request EXCEPT ![i].step = "replica", ![i].proof = PrefixHash(copy)]
  BY DEF HashReplica
<1>2. /\ request'[i].proof.rows = copy.rows
      /\ \A j \in Request : /\ request'[j].by = request[j].by
                            /\ Copied(j)' <=> Copied(j)
                            /\ j # i => request'[j] = request[j]
      /\ Copied(i)
  BY <1>1 DEF PrefixHash, Copied, RegionTypeOK
<1>3. \A j \in Request : j # i => (Proven(j)' <=> Proven(j))
  BY <1>2 DEF Proven
<1>4. CopiesBegin'
  BY <1>1, <1>2, <1>3, RowsKnown DEF ApprovedInv, CopiesBegin
<1>5. \A q \in Region : Writable(q)' <=> Writable(q)
  BY <1>1 DEF Writable, Runs, ActiveRegion
<1>6. \A q \in Region : Writable(q) => request[i].by = q
  BY <1>1, RowsKnown DEF OneWriterInv, RequestsOfWriter, OneRegionWrites
<1>7. ProofsKeepUp'
  <2> SUFFICES ASSUME NEW q \in Region, Writable(q),
                      ~HasApproved(site[q].recorded[Other(q)].rows)
               PROVE  \A j \in Request : /\ Copied(j) => HasApproved(site[Other(q)].rows)
                                         /\ Proven(j)' => HasApproved(request'[j].proof.rows)
    BY <1>1, <1>2, <1>5 DEF ProofsKeepUp, HasApproved
  <2> QED BY <1>2, <1>3, <1>6 DEF ApprovedInv, ProofsKeepUp, HasApproved
<1> QED BY <1>1, <1>4, <1>7 DEF ApprovedInv

\* A confirmed checkpoint is how the mandate begins and holds the one before.
LEMMA ApprovalSecures ==
    ASSUME RegionTypeOK, OneWriterInv, ApprovedInv, NEW i \in Request, RecordOnPrimary(i)
    PROVE  ApprovedInv' /\ (approvals!Secure \/ UNCHANGED <<approved, mandate>>)
<1> DEFINE r == request[i].by
           proof == request[i].proof
<1>1. /\ r \in Region /\ Other(r) \in Region /\ Other(r) # r
      /\ request[i].step = "primary" /\ request' = [request EXCEPT ![i] = Idle]
      /\ UNCHANGED <<cut, mandate>> /\ Proven(i) /\ Copied(i)
  BY TwoRegions DEF RecordOnPrimary, Proven, Copied, RegionTypeOK
<1>2. Writable(r) /\ \A q \in Region : Writable(q) => q = r
  BY <1>1 DEF OneWriterInv, RequestsOfWriter, OneRegionWrites
<1>3. \A j \in Request : /\ Copied(j)' => j # i /\ request'[j] = request[j] /\ Copied(j)
                         /\ Proven(j)' => j # i /\ request'[j] = request[j] /\ Proven(j)
  BY <1>1 DEF Copied, Proven, Idle, RegionTypeOK
<1>4. CASE site' = site /\ approved' = approved
  <2>1. \A q \in Region : Writable(q)' => Writable(q)
    BY <1>1, <1>4 DEF Writable, Runs, ActiveRegion
  <2>2. ApprovedInv'
    BY <1>1, <1>3, <1>4, <2>1, ApprovedUnchanged
  <2> QED BY <1>1, <1>4, <2>2
<1>5. CASE /\ Recordable(proof, site[r], Other(r)) /\ approved' = proof
           /\ site' = [site EXCEPT ![r].recorded[Other(r)] = proof]
  <2>1. \A q \in Region : /\ site'[q].identity = site[q].identity
                          /\ site'[q].authority = site[q].authority
                          /\ site'[q].rows = site[q].rows
    <3> HIDE DEF r, proof
    <3> QED BY <1>1, <1>5, RecordKeepsWriter
  <2>2. site'[r].recorded[Other(r)] = proof
    <3> HIDE DEF r, proof
    <3> QED BY <1>1, <1>5, RowsKnown DEF RegionTypeOK, Site
  <2>3. Begins(proof.rows, mandate) /\ proof.rows \in Rows
    BY <1>1, RowsKnown DEF ApprovedInv, CopiesBegin
  <2>4. Len(approved.rows) <= Len(proof.rows)
    <3>1. CASE HasApproved(site[r].recorded[Other(r)].rows)
      <4>1. Len(site[r].recorded[Other(r)].rows) <= Len(proof.rows)
        BY <1>5 DEF Recordable
      <4>2. /\ Len(approved.rows) \in Nat /\ Len(proof.rows) \in Nat
            /\ Len(site[r].recorded[Other(r)].rows) \in Nat
        <5>1. \A rows \in Rows : Len(rows) \in Nat
          BY BeginsRows
        <5> QED BY <1>1, <2>3, <5>1, RowsKnown
      <4>3. \A a, b, c \in Nat : a <= b /\ b <= c => a <= c
        OBVIOUS
      <4>4. Len(approved.rows) <= Len(site[r].recorded[Other(r)].rows)
        BY <3>1 DEF HasApproved
      <4> HIDE DEF r, proof
      <4> QED BY <4>1, <4>2, <4>3, <4>4
    <3>2. CASE HasApproved(proof.rows)
      BY <3>2 DEF HasApproved
    <3> QED BY <1>1, <1>2, <3>1, <3>2 DEF ApprovedInv, ProofsKeepUp
  <2>5. Begins(approved.rows, proof.rows)
    BY <2>3, <2>4, RowsKnown, BeginsRows DEF ApprovedInv
  <2>6. CopiesBegin'
    BY <1>1, <1>3, <2>1, RowsKnown DEF ApprovedInv, CopiesBegin
  <2>7. \A q \in Region : Writable(q)' => q = r
    BY <1>1, <1>2, <2>1 DEF Writable, Runs, ActiveRegion
  <2>8. ProofsKeepUp'
    BY <1>5, <2>2, <2>3, <2>7, BeginsRows DEF ProofsKeepUp, HasApproved
  <2> QED BY <1>1, <1>5, <2>3, <2>5, <2>6, <2>8 DEF ApprovedInv, approvals!Secure, Begins
<1> QED BY <1>4, <1>5 DEF RecordOnPrimary

\* Nothing is in progress when a region is promoted: it starts with the
\* approved rows, and so does every copy of it.
LEMMA PromotionFalls ==
    ASSUME Fencing, RegionTypeOK, OneWriterInv, ApprovedInv, NEW t \in Region, Promote(t)
    PROVE  ApprovedInv' /\ approvals!Fall
<1>1. /\ Other(t) \in Region /\ Other(t) \in cut /\ site[t].authority = Other(t)
      /\ mandate' = approved.rows /\ UNCHANGED <<request, approved, cut>>
  BY TwoRegions DEF Promote
<1>2. \A q \in Region : ~Writable(q)
  BY <1>1, TwoRegions DEF Writable, Runs, ActiveRegion
<1>3. \A j \in Request : request[j].step = "none"
  BY <1>2, RowsKnown DEF OneWriterInv, RequestsOfWriter
<1>4. \A j \in Request : ~Copied(j)' /\ ~Proven(j)'
  BY <1>1, <1>3 DEF Copied, Proven
<1> QED BY <1>1, <1>4, RowsKnown, BeginsRows
        DEF ApprovedInv, CopiesBegin, ProofsKeepUp, approvals!Fall

LEMMA ApprovedStep ==
    ASSUME Fencing, RegionTypeOK, OneWriterInv, ApprovedInv, [RegionNext]_regionVars
    PROVE  ApprovedInv' /\ [approvals!Next]_<<mandate, approved.rows>>
<1>1. ASSUME UNCHANGED <<approved, mandate>>,
             \A r \in Region : site'[r].rows = site[r].rows,
             \A r \in Region : Writable(r)' =>
                 Writable(r) /\ site'[r].recorded = site[r].recorded,
             \A i \in Request : request'[i].step # "none" =>
                 \/ request'[i].step = "backup"
                 \/ request'[i] = request[i]
                 \/ /\ request[i].step = "replica" /\ request'[i].step = "primary"
                    /\ request'[i].proof = request[i].proof
                    /\ request'[i].by = request[i].by
      PROVE  ApprovedInv' /\ [approvals!Next]_<<mandate, approved.rows>>
  BY <1>1, ApprovedUnchanged DEF Copied, Proven
<1>2. ASSUME NEW r \in Region, AcquireLease(r) PROVE ApprovedInv' /\ UNCHANGED <<approved, mandate>>
  <2>1. \A q \in Region : /\ site'[q].rows = site[q].rows
                          /\ site'[q].recorded = site[q].recorded
                          /\ site'[q].identity = site[q].identity
                          /\ site'[q].authority = site[q].authority
    BY <1>2, RowsKnown DEF AcquireLease, RegionTypeOK, Site
  <2> QED BY <1>1, <1>2, <2>1 DEF AcquireLease, Writable, Runs, ActiveRegion
<1>3. ASSUME NEW i \in Request, NEW r \in Region, RequestCheckpoint(i, r)
      PROVE ApprovedInv' /\ UNCHANGED <<approved, mandate>>
  <2>1. \A j \in Request : request'[j].step = "backup" \/ request'[j] = request[j]
    BY <1>3 DEF RequestCheckpoint, RegionTypeOK, Idle
  <2> QED BY <1>1, <1>3, <2>1 DEF RequestCheckpoint, Writable, Runs, ActiveRegion
<1>4. ASSUME NEW i \in Request, RecordOnReplica(i)
      PROVE ApprovedInv' /\ UNCHANGED <<approved, mandate>>
  <2> DEFINE at == Other(request[i].by)
  <2>1. /\ site' = site \/ site' = [site EXCEPT ![at].recorded[at] = request[i].proof]
        /\ UNCHANGED <<cut, mandate, approved>>
        /\ at \in Region /\ ~Writable(at)
    BY <1>4, TwoRegions, RowsKnown
       DEF RecordOnReplica, Record, ReplicaStep, OneWriterInv, RequestsOfWriter, OneRegionWrites
  <2>2. \A j \in Request : request'[j].step # "none" =>
            \/ request'[j] = request[j]
            \/ /\ request[j].step = "replica" /\ request'[j].step = "primary"
               /\ request'[j].proof = request[j].proof /\ request'[j].by = request[j].by
    BY <1>4 DEF RecordOnReplica, Record, ReplicaStep, RegionTypeOK, Idle
  <2>3. \A q \in Region : /\ site'[q].identity = site[q].identity
                          /\ site'[q].authority = site[q].authority
                          /\ site'[q].rows = site[q].rows
    <3> HIDE DEF at
    <3> QED BY <2>1, RecordKeepsWriter
  <2>4. \A q \in Region : q # at => site'[q] = site[q]
    BY <2>1 DEF RegionTypeOK
  <2>5. \A q \in Region : Writable(q)' => Writable(q) /\ q # at
    BY <2>1, <2>3 DEF Writable, Runs, ActiveRegion
  <2> QED BY <1>1, <2>1, <2>2, <2>3, <2>4, <2>5
<1>5. ASSUME NEW i \in Request, CheckpointFails(i)
      PROVE ApprovedInv' /\ UNCHANGED <<approved, mandate>>
  <2>1. \A j \in Request : request'[j].step # "none" => request'[j] = request[j]
    BY <1>5 DEF CheckpointFails, RegionTypeOK, Idle
  <2> QED BY <1>1, <1>5, <2>1 DEF CheckpointFails, Writable, Runs, ActiveRegion
<1>6. ASSUME NEW r \in Region, CutOff(r) PROVE ApprovedInv' /\ UNCHANGED <<approved, mandate>>
  <2>1. \A j \in Request : request'[j].step # "none" => request'[j] = request[j]
    BY <1>6 DEF CutOff, RegionTypeOK, Idle
  <2> QED BY <1>1, <1>6, <2>1 DEF CutOff, Writable, Runs, ActiveRegion
<1>7. ASSUME NEW r \in Region, Rejoin(r) PROVE ApprovedInv' /\ UNCHANGED <<approved, mandate>>
  BY <1>1, <1>7 DEF Rejoin, Writable, Runs, ActiveRegion
<1>8. CASE UNCHANGED regionVars
  BY <1>1, <1>8 DEF regionVars, Writable, Runs, ActiveRegion
<1>9. ASSUME NEW i \in Request, Backup(i) \/ HashReplica(i)
      PROVE ApprovedInv' /\ UNCHANGED <<approved, mandate>>
  BY <1>9, BackupApproves, HashApproves DEF Backup, HashReplica
<1> QED BY <1>2, <1>3, <1>4, <1>5, <1>6, <1>7, <1>8, <1>9, CommitApproves, ApprovalSecures,
           PromotionFalls DEF RegionNext, approvals!Next

\* With an operator who fences, the rows of the world are a log whose safe part
\* is the checkpoint the operator keeps: every approval extends the one before
\* it, and a promotion takes back what was committed after it and nothing else.
THEOREM ApprovedRowsLast == ASSUME Fencing PROVE RegionSpec => ApprovedRowsSurvive
<1>1. ASSUME RegionInit PROVE ApprovedInv /\ approvals!Init
  <2>1. approved.rows = <<>> /\ mandate = <<>> /\ <<>> \in Rows
    BY <1>1 DEF RegionInit, Unproven, Rows
  <2>2. \A i \in Request : ~Copied(i) /\ ~Proven(i)
    BY <1>1 DEF RegionInit, Idle, Copied, Proven
  <2> QED BY <2>1, <2>2, BeginsRows
          DEF ApprovedInv, CopiesBegin, ProofsKeepUp, approvals!Init
<1>2. RegionTypeOK /\ OneWriterInv /\ ApprovedInv /\ [RegionNext]_regionVars
        => ApprovedInv' /\ [approvals!Next]_<<mandate, approved.rows>>
  BY ApprovedStep
<1> QED BY <1>1, <1>2, RegionTypes, WriterInvariant, PTL
        DEF RegionSpec, ApprovedRowsSurvive, approvals!Spec
=============================================================================
