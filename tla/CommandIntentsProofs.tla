------------------------- MODULE CommandIntentsProofs -------------------------
(***************************************************************************)
(* Proofs about CommandIntents: types, an intent takes effect once per     *)
(* kept receipt, a stored refusal excludes an effect, an "ok" means a      *)
(* committed effect, a finalized answer stands; the processes implement    *)
(* one IntentLedger, which promises all of this; and a held command lock   *)
(* has one request that works or waits for a process it forwarded to.      *)
(***************************************************************************)
EXTENDS CommandIntents, TLAPS, SequenceTheorems

Ledger == <<receipts, purged, effects>>

LedgerTypes ==
    /\ receipts \in [Intent -> Receipt]
    /\ effects \in [Intent -> Seq(Hash)]
    /\ purged \in [Intent -> Nat]

\* EffectOnce is not inductive alone: a commit needs to know that an intent
\* without a receipt has an effect only if one was removed.
LedgerInv ==
    \A i \in Intent :
        /\ Len(effects[i]) <= purged[i] + 1
        /\ receipts[i] = NoReceipt => Len(effects[i]) <= purged[i]
        /\ receipts[i].answer = "refused" => Len(effects[i]) <= purged[i]

Took(i) == {effects[i][n] : n \in DOMAIN effects[i]}

-----------------------------------------------------------------------------
(* Rows.                                                                   *)

LEMMA Rows ==
    /\ NoReceipt \in Receipt /\ NoReceipt \in Remembered
    /\ NoReceipt.answer = "none" /\ NoReceipt.final = FALSE
    /\ \A h \in Hash :
           /\ Provisional(h) \in Receipt /\ Provisional(h) # NoReceipt
           /\ Provisional(h).answer = "ok" /\ Provisional(h).hash = h
           /\ ~Provisional(h).final
    /\ \A h \in Hash, a \in Answer :
           /\ Final(h, a) \in Receipt /\ Final(h, a) \in Remembered
           /\ Final(h, a) # NoReceipt
           /\ Final(h, a).answer = a /\ Final(h, a).hash = h /\ Final(h, a).final
<1>1. NoReceipt \in Receipt /\ NoReceipt \in Remembered
    BY DEF Receipt, Remembered
<1>2. NoReceipt.answer = "none" /\ NoReceipt.final = FALSE
    BY DEF NoReceipt
<1>3. ASSUME NEW h \in Hash
      PROVE  /\ Provisional(h) \in Receipt /\ Provisional(h).answer = "ok"
             /\ Provisional(h).hash = h /\ ~Provisional(h).final
    BY DEF Receipt, Provisional
<1>4. ASSUME NEW h \in Hash, NEW a \in Answer
      PROVE  /\ Final(h, a) \in Receipt /\ Final(h, a) \in Remembered
    BY DEF Receipt, Remembered, Finals
<1>5. ASSUME NEW h \in Hash, NEW a \in Answer
      PROVE  /\ Final(h, a).answer = a /\ Final(h, a).hash = h /\ Final(h, a).final
    BY DEF Final
<1>. QED
    BY <1>1, <1>2, <1>3, <1>4, <1>5

LEMMA RowCases ==
    ASSUME NEW row \in Receipt
    PROVE  /\ \/ row = NoReceipt
              \/ \E h \in Hash : row = Provisional(h)
              \/ \E h \in Hash, a \in Answer : row = Final(h, a)
           /\ row # NoReceipt => row.hash \in Hash
           /\ row.final => row \in Remembered
<1>1. \/ row = NoReceipt
      \/ \E h \in Hash : row = Provisional(h)
      \/ \E h \in Hash, a \in Answer : row = Final(h, a)
    BY DEF Receipt, Remembered, Finals
<1>. QED
    BY <1>1, Rows

LEMMA ClientTypes ==
    ASSUME NEW c \in Client
    PROVE  IntentOf[c] \in Intent /\ HashOf[c] \in Hash
    BY IntentsAssumption

\* What a store write makes of a row: an ok row stays ok, a refusal is written
\* where there was nothing.
LEMMA WrittenRow ==
    ASSUME LedgerTypes, NEW c \in Client
    PROVE  LET old == receipts[IntentOf[c]]
               new == Written(c) IN
           /\ new \in Receipt
           /\ \/ new = old
              \/ /\ reply[c] = "ok" /\ old # NoReceipt /\ new = Final(HashOf[c], "ok")
              \/ /\ old = NoReceipt /\ new = Final(HashOf[c], "refused")
    <1>1. receipts[IntentOf[c]] \in Receipt /\ HashOf[c] \in Hash
        BY ClientTypes DEF LedgerTypes
    <1>2. Final(HashOf[c], "ok") \in Receipt /\ Final(HashOf[c], "refused") \in Receipt
        BY <1>1, Rows DEF Answer
    <1>. QED
        BY <1>1, <1>2 DEF Written

-----------------------------------------------------------------------------
(* Three kinds of step move the ledger.                                    *)

LEMMA LedgerMoves ==
    ASSUME [Next]_vars, ~UNCHANGED Ledger
    PROVE  \/ \E c \in Client : Commit(c) \/ StoreAnswer(c)
           \/ \E i \in Intent : Purge(i)
    BY DEF Next, Serve, vars, durable, Ledger, Send, Enter, RefuseEarly, Lease, Forward,
           NoAuthority, Refuse, CommitFails, Reconcile, Remember, Disconnect,
           ForwardTimeout, Expire, DropCache, Crash

LEMMA CommitLedger ==
    ASSUME LedgerTypes, NEW c \in Client, Commit(c)
    PROVE  /\ receipts[IntentOf[c]] = NoReceipt
           /\ receipts' = [receipts EXCEPT ![IntentOf[c]] = Provisional(HashOf[c])]
           /\ effects' = [effects EXCEPT ![IntentOf[c]] = Append(@, HashOf[c])]
           /\ purged' = purged
           /\ Len(effects'[IntentOf[c]]) = Len(effects[IntentOf[c]]) + 1
           /\ Took(IntentOf[c])' = Took(IntentOf[c]) \cup {HashOf[c]}
    <1>1. IntentOf[c] \in Intent /\ HashOf[c] \in Hash
        BY ClientTypes
    <1>2. effects[IntentOf[c]] \in Seq(Hash)
        BY <1>1 DEF LedgerTypes
    <1>3. effects'[IntentOf[c]] = Append(effects[IntentOf[c]], HashOf[c])
        BY <1>1 DEF Commit, LedgerTypes
    <1>4. /\ Len(effects'[IntentOf[c]]) = Len(effects[IntentOf[c]]) + 1
          /\ DOMAIN effects'[IntentOf[c]] =
                 DOMAIN effects[IntentOf[c]] \cup {Len(effects[IntentOf[c]]) + 1}
          /\ effects'[IntentOf[c]][Len(effects[IntentOf[c]]) + 1] = HashOf[c]
          /\ \A n \in DOMAIN effects[IntentOf[c]] :
                 effects'[IntentOf[c]][n] = effects[IntentOf[c]][n]
        BY <1>1, <1>2, <1>3
    <1>5. Took(IntentOf[c])' = Took(IntentOf[c]) \cup {HashOf[c]}
        BY <1>4 DEF Took
    <1>. QED
        BY <1>4, <1>5 DEF Commit

\* A stored answer leaves every intent as it was, removes its receipt, or
\* writes its row.
LEMMA StoreLedger ==
    ASSUME LedgerTypes, NEW c \in Client, StoreAnswer(c), NEW i \in Intent
    PROVE  /\ effects' = effects
           /\ purged'[i] \in Nat
           /\ \/ receipts'[i] = receipts[i] /\ purged'[i] = purged[i]
              \/ receipts'[i] = NoReceipt /\ purged'[i] = purged[i] + 1
              \/ /\ i = IntentOf[c] /\ receipts'[i] = Written(c)
                 /\ purged'[i] = purged[i]
    <1>1. purged[i] \in Nat
        BY DEF LedgerTypes
    <1>2. effects' = effects
        BY DEF StoreAnswer
    <1>3. CASE UNCHANGED <<receipts, recent, purged>>
        BY <1>1, <1>2, <1>3
    <1>4. CASE ~UNCHANGED <<receipts, recent, purged>>
        <2>1. PICK pruned :
                  /\ receipts' = [j \in Intent |->
                         IF j \in pruned THEN NoReceipt
                         ELSE IF j = IntentOf[c] THEN Written(c) ELSE receipts[j]]
                  /\ purged' = [j \in Intent |->
                         IF j \in pruned THEN purged[j] + 1 ELSE purged[j]]
            BY <1>4 DEF StoreAnswer
        <2>. QED
            BY <1>1, <1>2, <2>1
    <1>. QED
        BY <1>3, <1>4

LEMMA LedgerStep ==
    ASSUME LedgerTypes, LedgerInv, [Next]_vars
    PROVE  LedgerInv'
<1>. SUFFICES ASSUME NEW i \in Intent
              PROVE  /\ Len(effects'[i]) <= purged'[i] + 1
                     /\ receipts'[i] = NoReceipt => Len(effects'[i]) <= purged'[i]
                     /\ receipts'[i].answer = "refused" => Len(effects'[i]) <= purged'[i]
    BY DEF LedgerInv
<1>1. /\ effects[i] \in Seq(Hash) /\ purged[i] \in Nat /\ receipts[i] \in Receipt
      /\ Len(effects[i]) \in Nat
    BY DEF LedgerTypes
<1>2. /\ Len(effects[i]) <= purged[i] + 1
      /\ receipts[i] = NoReceipt => Len(effects[i]) <= purged[i]
      /\ receipts[i].answer = "refused" => Len(effects[i]) <= purged[i]
    BY DEF LedgerInv
<1>3. CASE UNCHANGED Ledger
    BY <1>2, <1>3 DEF Ledger
<1>4. ASSUME NEW c \in Client, Commit(c)
      PROVE  /\ Len(effects'[i]) <= purged'[i] + 1
             /\ receipts'[i] = NoReceipt => Len(effects'[i]) <= purged'[i]
             /\ receipts'[i].answer = "refused" => Len(effects'[i]) <= purged'[i]
    <2>1. CASE i = IntentOf[c]
        <3>1. /\ receipts[i] = NoReceipt /\ purged'[i] = purged[i]
              /\ Len(effects'[i]) = Len(effects[i]) + 1
            BY <1>4, <2>1, CommitLedger
        <3>2. receipts'[i] = Provisional(HashOf[c])
            BY <1>4, <2>1, CommitLedger DEF LedgerTypes
        <3>3. receipts'[i] # NoReceipt /\ receipts'[i].answer = "ok"
            BY <3>2, ClientTypes, Rows
        <3>. QED
            BY <1>1, <1>2, <3>1, <3>3
    <2>2. CASE i # IntentOf[c]
        <3>1. receipts'[i] = receipts[i] /\ effects'[i] = effects[i] /\ purged'[i] = purged[i]
            BY <1>4, <2>2, CommitLedger DEF LedgerTypes
        <3>. QED
            BY <1>2, <3>1
    <2>. QED
        BY <2>1, <2>2
<1>5. ASSUME NEW c \in Client, StoreAnswer(c)
      PROVE  /\ Len(effects'[i]) <= purged'[i] + 1
             /\ receipts'[i] = NoReceipt => Len(effects'[i]) <= purged'[i]
             /\ receipts'[i].answer = "refused" => Len(effects'[i]) <= purged'[i]
    <2>1. effects'[i] = effects[i]
        BY <1>5, StoreLedger
    <2>2. CASE receipts'[i] = receipts[i] /\ purged'[i] = purged[i]
        BY <1>2, <2>1, <2>2
    <2>3. CASE receipts'[i] = NoReceipt /\ purged'[i] = purged[i] + 1
        BY <1>1, <1>2, <2>1, <2>3
    <2>4. CASE i = IntentOf[c] /\ receipts'[i] = Written(c) /\ purged'[i] = purged[i]
        <3>1. \/ Written(c) = receipts[i]
              \/ receipts[i] # NoReceipt /\ Written(c) = Final(HashOf[c], "ok")
              \/ receipts[i] = NoReceipt /\ Written(c) = Final(HashOf[c], "refused")
            BY <2>4, WrittenRow
        <3>2. Final(HashOf[c], "ok") # NoReceipt /\ Final(HashOf[c], "ok").answer = "ok"
            BY ClientTypes, Rows DEF Answer
        <3>. QED
            BY <1>1, <1>2, <2>1, <2>4, <3>1, <3>2
    <2>. QED
        BY <1>5, <2>2, <2>3, <2>4, StoreLedger
<1>6. ASSUME NEW j \in Intent, Purge(j)
      PROVE  /\ Len(effects'[i]) <= purged'[i] + 1
             /\ receipts'[i] = NoReceipt => Len(effects'[i]) <= purged'[i]
             /\ receipts'[i].answer = "refused" => Len(effects'[i]) <= purged'[i]
    <2>1. CASE i = j
        <3>1. effects'[i] = effects[i] /\ purged'[i] = purged[i] + 1
            BY <1>6, <2>1 DEF Purge, LedgerTypes
        <3>. QED
            BY <1>1, <1>2, <3>1
    <2>2. CASE i # j
        <3>1. receipts'[i] = receipts[i] /\ effects'[i] = effects[i] /\ purged'[i] = purged[i]
            BY <1>6, <2>2 DEF Purge, LedgerTypes
        <3>. QED
            BY <1>2, <3>1
    <2>. QED
        BY <2>1, <2>2
<1>. QED
    BY <1>3, <1>4, <1>5, <1>6, LedgerMoves

LEMMA LedgerTypesStep ==
    ASSUME LedgerTypes, [Next]_vars
    PROVE  LedgerTypes'
<1>1. CASE UNCHANGED Ledger
    BY <1>1 DEF Ledger, LedgerTypes
<1>2. ASSUME NEW c \in Client, Commit(c) PROVE LedgerTypes'
    <2>1. /\ receipts' = [receipts EXCEPT ![IntentOf[c]] = Provisional(HashOf[c])]
          /\ effects' = [effects EXCEPT ![IntentOf[c]] = Append(@, HashOf[c])]
          /\ purged' = purged
        BY <1>2, CommitLedger
    <2>2. Provisional(HashOf[c]) \in Receipt /\ IntentOf[c] \in Intent
        BY ClientTypes, Rows
    <2>3. Append(effects[IntentOf[c]], HashOf[c]) \in Seq(Hash)
        BY ClientTypes DEF LedgerTypes
    <2>. QED
        BY <2>1, <2>2, <2>3 DEF LedgerTypes
<1>3. ASSUME NEW c \in Client, StoreAnswer(c) PROVE LedgerTypes'
    <2>1. ASSUME NEW i \in Intent
          PROVE  receipts'[i] \in Receipt /\ purged'[i] \in Nat
        <3>1. receipts[i] \in Receipt /\ NoReceipt \in Receipt /\ Written(c) \in Receipt
            BY WrittenRow, Rows DEF LedgerTypes
        <3>. QED
            BY <1>3, <3>1, StoreLedger
    <2>2. /\ receipts' = [i \in Intent |-> receipts'[i]]
          /\ purged' = [i \in Intent |-> purged'[i]] /\ effects' = effects
        BY <1>3 DEF StoreAnswer, LedgerTypes
    <2>. QED
        BY <2>1, <2>2 DEF LedgerTypes
<1>4. ASSUME NEW i \in Intent, Purge(i) PROVE LedgerTypes'
    BY <1>4, Rows DEF Purge, LedgerTypes
<1>. QED
    BY <1>1, <1>2, <1>3, <1>4, LedgerMoves

LEMMA LedgerInit ==
    ASSUME Init
    PROVE  LedgerTypes /\ LedgerInv
<1>1. /\ receipts = [i \in Intent |-> NoReceipt] /\ purged = [i \in Intent |-> 0]
      /\ effects = [i \in Intent |-> <<>>]
    BY DEF Init
<1>2. LedgerTypes
    BY <1>1, Rows DEF LedgerTypes
<1>3. ASSUME NEW i \in Intent
      PROVE  Len(effects[i]) = 0 /\ purged[i] = 0
    BY <1>1
<1>. QED
    BY <1>2, <1>3 DEF LedgerInv

LEMMA LedgerAlways == Spec => [](LedgerTypes /\ LedgerInv)
<1>1. Init => LedgerTypes /\ LedgerInv
    BY LedgerInit
<1>2. LedgerTypes /\ LedgerInv /\ [Next]_vars => (LedgerTypes /\ LedgerInv)'
    BY LedgerStep, LedgerTypesStep
<1>. QED
    BY <1>1, <1>2, PTL DEF Spec

\* However many processes serve it, and however often its client retries, an
\* intent takes effect once for every receipt that is kept.
THEOREM EffectsOnce == Spec => []EffectOnce
<1>1. LedgerTypes /\ LedgerInv => EffectOnce
    BY DEF LedgerInv, EffectOnce
<1>. QED
    BY <1>1, LedgerAlways, PTL

\* A refusal is stored only for an intent none of whose effects is covered by
\* that receipt.
THEOREM RefusalsExclude == Spec => []RefusalMeansNoEffect
<1>1. LedgerTypes /\ LedgerInv => RefusalMeansNoEffect
    BY DEF LedgerInv, RefusalMeansNoEffect
<1>. QED
    BY <1>1, LedgerAlways, PTL
-----------------------------------------------------------------------------
(* The order of the finalized rows.                                        *)

OnceEach(rows) == \A m, n \in DOMAIN rows : rows[m] = rows[n] => m = n

\* Only rows that are finalized stand in the order, each once: a provisional row
\* is never pruned.
RecentInv ==
    /\ recent \in Seq(Intent) /\ OnceEach(recent)
    /\ \A n \in DOMAIN recent : receipts[recent[n]].final

LEMMA WithoutRow ==
    ASSUME NEW rows \in Seq(Intent), OnceEach(rows), NEW i
    PROVE  LET less == Without(rows, i) IN
           /\ less \in Seq(Intent) /\ OnceEach(less)
           /\ \A n \in DOMAIN less :
                  less[n] # i /\ \E m \in DOMAIN rows : less[n] = rows[m]
<1>1. CASE ~\E n \in DOMAIN rows : rows[n] = i
    BY <1>1 DEF Without
<1>2. CASE \E n \in DOMAIN rows : rows[n] = i
    <2> DEFINE k == CHOOSE n \in DOMAIN rows : rows[n] = i
               front == SubSeq(rows, 1, k - 1)
               back == SubSeq(rows, k + 1, Len(rows))
               less == front \o back
    <2>1. k \in DOMAIN rows /\ rows[k] = i
        BY <1>2
    <2>2. Without(rows, i) = less
        BY <1>2 DEF Without
    <2>3. /\ Len(rows) \in Nat /\ k \in 1..Len(rows) /\ DOMAIN rows = 1..Len(rows)
          /\ \A n \in 1..Len(rows) : rows[n] \in Intent
        BY <2>1, LenProperties, ElementOfSeq
    <2> HIDE DEF k
    <2>4. /\ front \in Seq(Intent) /\ Len(front) = k - 1
          /\ \A n \in 1..k - 1 : front[n] = rows[n]
        <3>1. 1 \in Int /\ k - 1 \in Int /\ \A n \in 1..k - 1 : rows[n] \in Intent
            BY <2>3
        <3>2. /\ front \in Seq(Intent)
              /\ Len(front) = IF 1 <= k - 1 THEN (k - 1) - 1 + 1 ELSE 0
              /\ \A n \in 1..(k - 1) - 1 + 1 : front[n] = rows[1 + n - 1]
            BY <3>1, SubSeqProperties
        <3> HIDE DEF front
        <3>. QED
            BY <2>3, <3>2
    <2>5. /\ back \in Seq(Intent) /\ Len(back) = Len(rows) - k
          /\ \A n \in 1..Len(rows) - k : back[n] = rows[k + n]
        <3>1. k + 1 \in Int /\ Len(rows) \in Int
              /\ \A n \in k + 1..Len(rows) : rows[n] \in Intent
            BY <2>3
        <3>2. /\ back \in Seq(Intent)
              /\ Len(back) = IF k + 1 <= Len(rows) THEN Len(rows) - (k + 1) + 1 ELSE 0
              /\ \A n \in 1..Len(rows) - (k + 1) + 1 : back[n] = rows[(k + 1) + n - 1]
            BY <3>1, SubSeqProperties
        <3> HIDE DEF back
        <3>3. Len(back) = Len(rows) - k
            <4>1. Len(back) = IF k + 1 <= Len(rows) THEN Len(rows) - (k + 1) + 1 ELSE 0
                BY <3>2
            <4>2. Len(rows) \in Nat /\ k \in 1..Len(rows)
                BY <2>3
            <4>. QED
                BY <4>1, <4>2
        <3>4. ASSUME NEW n \in 1..Len(rows) - k PROVE back[n] = rows[k + n]
            <4>1. n \in 1..Len(rows) - (k + 1) + 1 /\ (k + 1) + n - 1 = k + n
                BY <2>3
            <4>. QED
                BY <3>2, <4>1
        <3>. QED
            BY <3>2, <3>3, <3>4
    <2> HIDE DEF front, back
    <2>6. /\ less \in Seq(Intent) /\ Len(less) = Len(rows) - 1
          /\ \A n \in 1..Len(rows) - 1 : less[n] = IF n < k THEN rows[n] ELSE rows[n + 1]
        <3>1. /\ less \in Seq(Intent) /\ Len(less) = Len(front) + Len(back)
              /\ \A n \in 1..Len(front) + Len(back) :
                     less[n] = IF n <= Len(front) THEN front[n] ELSE back[n - Len(front)]
            BY <2>4, <2>5, ConcatProperties
        <3> HIDE DEF less
        <3>2. Len(less) = Len(rows) - 1
            BY <2>3, <2>4, <2>5, <3>1
        <3>3. ASSUME NEW n \in 1..Len(rows) - 1
              PROVE  less[n] = IF n < k THEN rows[n] ELSE rows[n + 1]
            <4>1. CASE n < k
                <5>1. n \in 1..k - 1 /\ n <= k - 1 /\ n \in 1..Len(front) + Len(back)
                    BY <2>3, <2>4, <2>5, <4>1
                <5>. QED
                    BY <2>4, <3>1, <4>1, <5>1
            <4>2. CASE ~(n < k)
                <5>1. /\ n - (k - 1) \in 1..Len(rows) - k /\ k + (n - (k - 1)) = n + 1
                      /\ ~(n <= k - 1) /\ n \in 1..Len(front) + Len(back)
                    BY <2>3, <2>4, <2>5, <4>2
                <5>. QED
                    BY <2>4, <2>5, <3>1, <4>2, <5>1
            <4>. QED
                BY <4>1, <4>2
        <3>. QED
            BY <3>1, <3>2, <3>3
    <2> HIDE DEF less
    <2>7. DOMAIN less = 1..Len(rows) - 1
        BY <2>6, LenProperties
    <2>8. ASSUME NEW n \in DOMAIN less
          PROVE  \E m \in DOMAIN rows \ {k} : less[n] = rows[m] /\ m = IF n < k THEN n ELSE n + 1
        BY <2>3, <2>6, <2>7
    <2>9. OnceEach(less)
        <3> SUFFICES ASSUME NEW m \in DOMAIN less, NEW n \in DOMAIN less, less[m] = less[n]
                     PROVE  m = n
            BY DEF OnceEach
        <3>1. (IF m < k THEN m ELSE m + 1) = (IF n < k THEN n ELSE n + 1)
            BY <2>8 DEF OnceEach
        <3>. QED
            BY <2>3, <2>7, <3>1
    <2>. QED
        BY <2>1, <2>2, <2>6, <2>8, <2>9 DEF OnceEach
<1>. QED
    BY <1>1, <1>2

LEMMA PushedRow ==
    ASSUME NEW rows \in Seq(Intent), OnceEach(rows), NEW i \in Intent,
           \A n \in DOMAIN rows : rows[n] # i
    PROVE  LET more == <<i>> \o rows IN
           /\ more \in Seq(Intent) /\ OnceEach(more)
           /\ \A n \in DOMAIN more : more[n] = i \/ \E m \in DOMAIN rows : more[n] = rows[m]
<1> DEFINE more == <<i>> \o rows
<1>1. Len(rows) \in Nat /\ DOMAIN rows = 1..Len(rows)
    BY LenProperties
<1>2. <<i>> \in Seq(Intent) /\ Len(<<i>>) = 1 /\ <<i>>[1] = i
    OBVIOUS
<1>3. /\ more \in Seq(Intent) /\ Len(more) = 1 + Len(rows)
      /\ \A n \in 1..1 + Len(rows) :
             more[n] = IF n <= 1 THEN <<i>>[n] ELSE rows[n - 1]
    BY <1>2, ConcatProperties
<1> HIDE DEF more
<1>4. DOMAIN more = 1..1 + Len(rows)
    BY <1>3, LenProperties
<1>5. ASSUME NEW n \in DOMAIN more
      PROVE  \/ n = 1 /\ more[n] = i
             \/ n - 1 \in DOMAIN rows /\ more[n] = rows[n - 1]
    BY <1>1, <1>2, <1>3, <1>4
<1>6. OnceEach(more)
    <2> SUFFICES ASSUME NEW m \in DOMAIN more, NEW n \in DOMAIN more, more[m] = more[n]
                 PROVE  m = n
        BY DEF OnceEach
    <2>1. CASE m = 1 \/ n = 1
        BY <1>5, <2>1
    <2>2. CASE m # 1 /\ n # 1
        <3>1. m - 1 \in DOMAIN rows /\ n - 1 \in DOMAIN rows /\ rows[m - 1] = rows[n - 1]
            BY <1>5, <2>2
        <3>2. m - 1 = n - 1
            BY <3>1 DEF OnceEach
        <3>. QED
            BY <1>1, <1>4, <3>2
    <2>. QED
        BY <2>1, <2>2
<1>. QED
    BY <1>3, <1>5, <1>6 DEF more

LEMMA FirstRows ==
    ASSUME NEW rows \in Seq(Intent), OnceEach(rows), NEW m \in 0..Len(rows)
    PROVE  LET front == SubSeq(rows, 1, m) IN
           /\ front \in Seq(Intent) /\ OnceEach(front)
           /\ \A n \in DOMAIN front : n \in 1..m /\ n \in DOMAIN rows /\ front[n] = rows[n]
<1> DEFINE front == SubSeq(rows, 1, m)
<1>1. /\ Len(rows) \in Nat /\ DOMAIN rows = 1..Len(rows)
      /\ \A n \in 1..Len(rows) : rows[n] \in Intent
    BY LenProperties, ElementOfSeq
<1>2. 1 \in Int /\ m \in Int /\ \A n \in 1..m : rows[n] \in Intent
    BY <1>1
<1>3. /\ front \in Seq(Intent) /\ Len(front) = IF 1 <= m THEN m - 1 + 1 ELSE 0
      /\ \A n \in 1..m - 1 + 1 : front[n] = rows[1 + n - 1]
    BY <1>2, SubSeqProperties
<1> HIDE DEF front
<1>4. DOMAIN front = 1..m
    BY <1>1, <1>3, LenProperties
<1>5. \A n \in DOMAIN front : n \in 1..m /\ n \in DOMAIN rows /\ front[n] = rows[n]
    BY <1>1, <1>3, <1>4
<1>. QED
    BY <1>3, <1>5 DEF front, OnceEach

\* What is pruned after a write is final: the written row, or another one.
LEMMA KeptRows ==
    ASSUME LedgerTypes, RecentInv, NEW c \in Client
    PROVE  LET kept == RecentAfter(c, Written(c)) IN
           /\ kept \in Seq(Intent) /\ OnceEach(kept)
           /\ \A n \in DOMAIN kept :
                  IF kept[n] = IntentOf[c] THEN Written(c).final ELSE receipts[kept[n]].final
<1> DEFINE i == IntentOf[c]
           row == Written(c)
           kept == RecentAfter(c, row)
<1>1. i \in Intent /\ receipts[i] \in Receipt /\ ~NoReceipt.final
    BY ClientTypes, Rows DEF LedgerTypes
<1>2. receipts[i].final => row.final
    <2>1. \/ row = receipts[i] \/ row = Final(HashOf[c], "ok")
          \/ receipts[i] = NoReceipt
        BY WrittenRow
    <2>2. Final(HashOf[c], "ok").final
        BY ClientTypes, Rows DEF Answer
    <2>. QED
        BY <1>1, <2>1, <2>2
<1>3. /\ recent \in Seq(Intent) /\ OnceEach(recent)
      /\ \A n \in DOMAIN recent : receipts[recent[n]].final
    BY DEF RecentInv
<1>4. /\ kept \in Seq(Intent) /\ OnceEach(kept)
      /\ \A n \in DOMAIN kept : IF kept[n] = i THEN row.final ELSE receipts[kept[n]].final
    <2>1. CASE row.final /\ row # receipts[i]
        <3> DEFINE less == Without(recent, i)
        <3>1. /\ less \in Seq(Intent) /\ OnceEach(less)
              /\ \A n \in DOMAIN less :
                     less[n] # i /\ \E k \in DOMAIN recent : less[n] = recent[k]
            BY <1>3, WithoutRow
        <3>2. kept = <<i>> \o less
            BY <2>1 DEF RecentAfter
        <3> HIDE DEF less, kept, row, i
        <3>3. /\ kept \in Seq(Intent) /\ OnceEach(kept)
              /\ \A n \in DOMAIN kept :
                     kept[n] = i \/ \E k \in DOMAIN less : kept[n] = less[k]
            BY <1>1, <3>1, <3>2, PushedRow
        <3>. QED
            BY <1>3, <2>1, <3>1, <3>3
    <2>2. CASE ~(row.final /\ row # receipts[i])
        <3>1. kept = recent
            BY <2>2 DEF RecentAfter
        <3> HIDE DEF kept, row, i
        <3>. QED
            BY <1>2, <1>3, <3>1
    <2>. QED
        BY <2>1, <2>2
<1>. QED
    BY <1>4

\* A stored answer keeps the order: the pruned rows are the last ones.
LEMMA StoreKeepsOrder ==
    ASSUME LedgerTypes, RecentInv, NEW c \in Client, StoreAnswer(c)
    PROVE  RecentInv'
<1> DEFINE i == IntentOf[c]
           row == Written(c)
           kept == RecentAfter(c, row)
           m == IF Len(kept) < Capacity THEN Len(kept) ELSE Capacity
           pruned == {kept[n] : n \in (Capacity + 1) .. Len(kept)}
<1>1. CASE UNCHANGED <<receipts, recent, purged>>
    BY <1>1 DEF RecentInv
<1>2. CASE /\ recent' = SubSeq(kept, 1, m)
           /\ receipts' = [j \in Intent |-> IF j \in pruned THEN NoReceipt
                                            ELSE IF j = i THEN row ELSE receipts[j]]
    <2>1. /\ kept \in Seq(Intent) /\ OnceEach(kept)
          /\ \A n \in DOMAIN kept : IF kept[n] = i THEN row.final ELSE receipts[kept[n]].final
        BY KeptRows
    <2> HIDE DEF kept, row, i
    <2>2. Len(kept) \in Nat /\ Capacity \in Nat /\ DOMAIN kept = 1..Len(kept)
        BY <2>1, LenProperties, IntentsAssumption
    <2>3. m \in 0..Len(kept) /\ m <= Capacity
        BY <2>2
    <2>4. /\ recent' \in Seq(Intent) /\ OnceEach(recent')
          /\ \A n \in DOMAIN recent' : n \in 1..m /\ n \in DOMAIN kept /\ recent'[n] = kept[n]
        BY <1>2, <2>1, <2>3, FirstRows
    <2>5. ASSUME NEW n \in DOMAIN recent'
          PROVE  receipts'[recent'[n]].final
        <3>1. n \in 1..m /\ n \in DOMAIN kept /\ recent'[n] = kept[n]
            BY <2>4
        <3>2. kept[n] \notin pruned
            <4>1. ASSUME NEW q \in (Capacity + 1)..Len(kept) PROVE kept[n] # kept[q]
                <5>1. q \in DOMAIN kept /\ n # q
                    BY <2>2, <2>3, <3>1
                <5>. QED
                    BY <2>1, <3>1, <5>1 DEF OnceEach
            <4>. QED
                BY <4>1
        <3>3. kept[n] \in Intent
            BY <2>1, <3>1, ElementOfSeq, <2>2
        <3>4. receipts'[kept[n]] = IF kept[n] = i THEN row ELSE receipts[kept[n]]
            <4> HIDE DEF pruned
            <4>. QED
                BY <1>2, <3>2, <3>3
        <3>. QED
            BY <2>1, <3>1, <3>4
    <2>6. (OnceEach(recent))'
        BY <2>4 DEF OnceEach
    <2>. QED
        BY <2>4, <2>5, <2>6 DEF RecentInv
<1>. QED
    BY <1>1, <1>2 DEF StoreAnswer

LEMMA RecentStep ==
    ASSUME LedgerTypes, RecentInv, [Next]_vars
    PROVE  RecentInv'
<1>1. CASE UNCHANGED <<recent, receipts>>
    BY <1>1 DEF RecentInv, OnceEach
<1>2. ASSUME NEW c \in Client, Commit(c) PROVE RecentInv'
    <2>1. /\ receipts[IntentOf[c]] = NoReceipt /\ recent' = recent
          /\ receipts' = [receipts EXCEPT ![IntentOf[c]] = Provisional(HashOf[c])]
        BY <1>2, CommitLedger DEF Commit
    <2>2. ~NoReceipt.final
        BY Rows
    <2>3. \A n \in DOMAIN recent : receipts'[recent[n]] = receipts[recent[n]]
        BY <2>1, <2>2 DEF RecentInv, LedgerTypes
    <2>. QED
        BY <2>1, <2>3 DEF RecentInv, OnceEach
<1>3. ASSUME NEW c \in Client, StoreAnswer(c) PROVE RecentInv'
    BY <1>3, StoreKeepsOrder
<1>4. ASSUME NEW i \in Intent, Purge(i) PROVE RecentInv'
    <2>1. recent' = Without(recent, i) /\ receipts' = [receipts EXCEPT ![i] = NoReceipt]
        BY <1>4 DEF Purge
    <2>2. /\ recent' \in Seq(Intent) /\ OnceEach(recent')
          /\ \A n \in DOMAIN recent' :
                 recent'[n] # i /\ \E m \in DOMAIN recent : recent'[n] = recent[m]
        BY <2>1, WithoutRow DEF RecentInv
    <2>3. \A n \in DOMAIN recent' : receipts'[recent'[n]].final
        BY <2>1, <2>2 DEF RecentInv, LedgerTypes
    <2>. QED
        BY <2>2, <2>3 DEF RecentInv, OnceEach
<1>5. CASE ~UNCHANGED <<recent, receipts>>
    <2>1. \/ \E c \in Client : Commit(c) \/ StoreAnswer(c)
          \/ \E i \in Intent : Purge(i)
        BY <1>5 DEF Next, Serve, vars, durable, Send, Enter, RefuseEarly, Lease, Forward,
               NoAuthority, Refuse, CommitFails, Reconcile, Remember, Disconnect,
               ForwardTimeout, Expire, DropCache, Crash
    <2>. QED
        BY <2>1, <1>2, <1>3, <1>4
<1>. QED
    BY <1>1, <1>5
-----------------------------------------------------------------------------
(* The calls.                                                              *)

\* A request that is not idle is served by some process.
CallInv ==
    /\ owner \in [Room -> Process \cup {Nobody, Gone}]
    /\ cache \in [Process -> [Intent -> Remembered]]
    /\ lock \in [Process -> Client \cup {Free}]
    /\ pc \in [Client -> {"idle", "queued", "checked", "leased", "fenced",
                          "refused", "failed", "replying", "storing"}]
    /\ origin \in [Client -> Process \cup {Nobody}]
    /\ at \in [Client -> Process \cup {Nobody}]
    /\ reply \in [Client -> Answer]
    /\ got \in [Client -> Answer \cup {"none", "conflict", "error"}]
    /\ sends \in [Client -> Nat] /\ crashes \in Nat
    /\ \A c \in Client : pc[c] # "idle" => at[c] \in Process

LEMMA VisibleRow ==
    ASSUME LedgerTypes, NEW i \in Intent
    PROVE  /\ Visible(i) \in Remembered
           /\ Visible(i) # NoReceipt => Visible(i) = receipts[i] /\ receipts[i].final
<1>1. receipts[i] \in Receipt
    BY DEF LedgerTypes
<1>. QED
    BY <1>1, RowCases, Rows DEF Visible

LEMMA RowAnswer ==
    ASSUME NEW c \in Client, NEW row \in Remembered, row # NoReceipt
    PROVE  /\ AnswerOf(c, row) \in Answer \cup {"none", "conflict", "error"}
           /\ AnswerOf(c, row) = "ok" => row.answer = "ok" /\ row.hash = HashOf[c]
<1>1. PICK h \in Hash, a \in Answer : row = Final(h, a)
    BY DEF Remembered, Finals
<1>2. row.answer = a
    BY <1>1, Rows
<1>. QED
    BY <1>2 DEF AnswerOf, Answer

LEMMA FinishCalls ==
    ASSUME CallInv, NEW c \in Client, NEW a \in Answer \cup {"none", "conflict", "error"},
           Finish(c, a), UNCHANGED <<owner, cache, crashes>>
    PROVE  CallInv'
<1>1. /\ pc' = [pc EXCEPT ![c] = "idle"] /\ got' = [got EXCEPT ![c] = a]
      /\ lock' = [p \in Process |-> IF lock[p] = c THEN Free ELSE lock[p]]
      /\ origin' = [origin EXCEPT ![c] = Nobody] /\ at' = [at EXCEPT ![c] = Nobody]
      /\ reply' = [reply EXCEPT ![c] = "ok"] /\ sends' = sends
    BY DEF Finish
<1>2. lock' \in [Process -> Client \cup {Free}]
    BY <1>1 DEF CallInv
<1>3. "ok" \in Answer
    BY DEF Answer
<1>4. /\ pc' \in [Client -> {"idle", "queued", "checked", "leased", "fenced",
                             "refused", "failed", "replying", "storing"}]
      /\ got' \in [Client -> Answer \cup {"none", "conflict", "error"}]
      /\ origin' \in [Client -> Process \cup {Nobody}]
      /\ at' \in [Client -> Process \cup {Nobody}]
      /\ reply' \in [Client -> Answer]
    BY <1>1, <1>3 DEF CallInv
<1>5. \A d \in Client : pc'[d] # "idle" => at'[d] \in Process
    BY <1>1 DEF CallInv
<1>. QED
    BY <1>1, <1>2, <1>4, <1>5 DEF CallInv

LEMMA ServeCalls ==
    ASSUME LedgerTypes, CallInv, NEW c \in Client, Serve(c)
    PROVE  CallInv'
<1> USE DEF CallInv
<1>1. /\ IntentOf[c] \in Intent /\ RoomOfClient(c) \in Room
      /\ at[c] \in Process \/ pc[c] = "idle"
      /\ "ok" \in Answer /\ "refused" \in Answer
    BY IntentsAssumption DEF RoomOfClient, Answer
<1>2. CASE Lease(c)
    BY <1>1, <1>2 DEF Lease
<1>3. CASE Forward(c)
    BY <1>1, <1>3 DEF Forward, durable
<1>4. CASE NoAuthority(c)
    BY <1>4, FinishCalls DEF NoAuthority, durable
<1>5. CASE Commit(c)
    BY <1>1, <1>5 DEF Commit
<1>6. CASE Refuse(c)
    <2>1. CASE Finish(c, "error") /\ UNCHANGED <<durable, cache, crashes>>
        BY <2>1, FinishCalls DEF durable
    <2>2. CASE /\ pc' = [pc EXCEPT ![c] = "refused"] /\ pc[c] # "idle"
               /\ UNCHANGED <<lock, origin, at, reply, got, sends, durable, cache, crashes>>
        BY <2>2 DEF durable
    <2>. QED
        BY <1>6, <2>1, <2>2 DEF Refuse
<1>7. CASE CommitFails(c)
    <2>1. [i \in Intent |-> NoReceipt] \in [Intent -> Remembered]
        BY Rows
    <2>. QED
        BY <1>1, <1>7, <2>1 DEF CommitFails, durable
<1>8. CASE Reconcile(c)
    <2>1. UNCHANGED <<owner, cache, crashes>>
        BY <1>8 DEF Reconcile, durable
    <2>2. \/ \E a \in Answer \cup {"none", "conflict", "error"} : Finish(c, a)
          \/ /\ pc[c] # "idle" /\ pc' = [pc EXCEPT ![c] = "replying"]
             /\ reply' = [reply EXCEPT ![c] = "refused"]
             /\ UNCHANGED <<lock, origin, at, got, sends>>
        BY <1>1, <1>8, VisibleRow, RowAnswer DEF Reconcile
    <2>3. CASE \E a \in Answer \cup {"none", "conflict", "error"} : Finish(c, a)
        BY <2>1, <2>3, FinishCalls
    <2>4. CASE /\ pc[c] # "idle" /\ pc' = [pc EXCEPT ![c] = "replying"]
               /\ reply' = [reply EXCEPT ![c] = "refused"]
               /\ UNCHANGED <<lock, origin, at, got, sends>>
        BY <1>1, <2>1, <2>4
    <2>. QED
        BY <2>2, <2>3, <2>4
<1>9. CASE Remember(c)
    <2>1. Final(HashOf[c], reply[c]) \in Remembered /\ at[c] \in Process
        BY <1>1, <1>9, Rows, ClientTypes DEF Remember
    <2>. QED
        BY <1>1, <1>9, <2>1 DEF Remember, durable
<1>10. CASE StoreAnswer(c)
    <2>1. Finish(c, reply[c]) /\ UNCHANGED <<owner, cache, crashes>> /\ reply[c] \in Answer
        BY <1>10 DEF StoreAnswer
    <2>. QED
        BY <2>1, FinishCalls
<1>. QED
    BY <1>2, <1>3, <1>4, <1>5, <1>6, <1>7, <1>8, <1>9, <1>10 DEF Serve

LEMMA CrashCalls ==
    ASSUME CallInv, NEW p \in Process, Crash(p)
    PROVE  CallInv'
<1> USE DEF CallInv
<1> DEFINE hit == {c \in Client : pc[c] # "idle" /\ p \in {origin[c], at[c]}}
<1>1. NoReceipt \in Remembered /\ "ok" \in Answer
    BY Rows DEF Answer
<1>2. /\ pc' = [c \in Client |-> IF c \in hit THEN "idle"
                                 ELSE IF pc[c] = "leased" /\ owner[RoomOfClient(c)] = p
                                      THEN "fenced" ELSE pc[c]]
      /\ at' = [c \in Client |-> IF c \in hit THEN Nobody ELSE at[c]]
      /\ origin' = [c \in Client |-> IF c \in hit THEN Nobody ELSE origin[c]]
      /\ reply' = [c \in Client |-> IF c \in hit THEN "ok" ELSE reply[c]]
      /\ got' = [c \in Client |-> IF c \notin hit THEN got[c]
                                  ELSE IF origin[c] = p THEN "none" ELSE "error"]
      /\ sends' = sends /\ crashes' = crashes + 1
    BY DEF Crash
<1>3. /\ lock' = [q \in Process |-> IF q = p \/ lock[q] \in hit THEN Free ELSE lock[q]]
      /\ owner' = [x \in Room |-> IF owner[x] = p THEN Gone ELSE owner[x]]
      /\ cache' = [cache EXCEPT ![p] = [i \in Intent |-> NoReceipt]]
    BY DEF Crash
<1> HIDE DEF hit
<1>4. /\ pc' \in [Client -> {"idle", "queued", "checked", "leased", "fenced",
                             "refused", "failed", "replying", "storing"}]
      /\ got' \in [Client -> Answer \cup {"none", "conflict", "error"}]
      /\ origin' \in [Client -> Process \cup {Nobody}]
      /\ at' \in [Client -> Process \cup {Nobody}] /\ reply' \in [Client -> Answer]
    BY <1>1, <1>2
<1>5. /\ lock' \in [Process -> Client \cup {Free}]
      /\ owner' \in [Room -> Process \cup {Nobody, Gone}]
      /\ cache' \in [Process -> [Intent -> Remembered]]
    BY <1>1, <1>3
<1>6. \A c \in Client : pc'[c] # "idle" => at'[c] \in Process
    BY <1>2
<1>. QED
    BY <1>2, <1>4, <1>5, <1>6

LEMMA CallsStep ==
    ASSUME LedgerTypes, CallInv, [Next]_vars
    PROVE  CallInv'
<1>1. CASE UNCHANGED vars
    BY <1>1 DEF vars, durable, request, CallInv
<1>2. ASSUME NEW c \in Client, NEW p \in Process, Send(c, p) PROVE CallInv'
    BY <1>2 DEF Send, durable, CallInv
<1>3. ASSUME NEW c \in Client, Enter(c) PROVE CallInv'
    <2> DEFINE row(readable) ==
            IF cache[at[c]][IntentOf[c]] # NoReceipt THEN cache[at[c]][IntentOf[c]]
            ELSE IF readable THEN Visible(IntentOf[c]) ELSE NoReceipt
    <2>1. /\ pc[c] = "queued" /\ UNCHANGED <<durable, cache, crashes>>
          /\ \E readable \in BOOLEAN :
                IF row(readable) # NoReceipt THEN Finish(c, AnswerOf(c, row(readable)))
                ELSE /\ lock' = [lock EXCEPT ![at[c]] = c]
                     /\ pc' = [pc EXCEPT ![c] = "checked"]
                     /\ UNCHANGED <<origin, at, reply, got, sends>>
        BY <1>3 DEF Enter
    <2>2. at[c] \in Process /\ IntentOf[c] \in Intent
        BY <2>1, ClientTypes DEF CallInv
    <2>3. \A readable \in BOOLEAN : row(readable) \in Remembered
        BY <2>2, VisibleRow, Rows DEF CallInv
    <2> HIDE DEF row
    <2>4. \/ \E a \in Answer \cup {"none", "conflict", "error"} : Finish(c, a)
          \/ /\ lock' = [lock EXCEPT ![at[c]] = c] /\ pc' = [pc EXCEPT ![c] = "checked"]
             /\ UNCHANGED <<origin, at, reply, got, sends>>
        BY <2>1, <2>3, RowAnswer
    <2>5. CASE \E a \in Answer \cup {"none", "conflict", "error"} : Finish(c, a)
        BY <2>1, <2>5, FinishCalls DEF durable
    <2>6. CASE /\ lock' = [lock EXCEPT ![at[c]] = c] /\ pc' = [pc EXCEPT ![c] = "checked"]
               /\ UNCHANGED <<origin, at, reply, got, sends>>
        BY <2>1, <2>2, <2>6 DEF CallInv, durable
    <2>. QED
        BY <2>4, <2>5, <2>6
<1>4. ASSUME NEW c \in Client, RefuseEarly(c) \/ ForwardTimeout(c) \/ Disconnect(c)
      PROVE CallInv'
    BY <1>4, FinishCalls DEF RefuseEarly, ForwardTimeout, Disconnect, durable
<1>5. ASSUME NEW c \in Client, Serve(c) PROVE CallInv'
    BY <1>5, ServeCalls
<1>6. ASSUME NEW x \in Room, Expire(x) PROVE CallInv'
    BY <1>6 DEF Expire, CallInv
<1>7. ASSUME NEW p \in Process, DropCache(p) PROVE CallInv'
    <2>1. [i \in Intent |-> NoReceipt] \in [Intent -> Remembered]
        BY Rows
    <2>. QED
        BY <1>7, <2>1 DEF DropCache, CallInv, durable, request
<1>8. ASSUME NEW p \in Process, Crash(p) PROVE CallInv'
    BY <1>8, CrashCalls
<1>9. ASSUME NEW i \in Intent, Purge(i) PROVE CallInv'
    BY <1>9 DEF Purge, CallInv, request
<1>. QED
    BY <1>1, <1>2, <1>3, <1>4, <1>5, <1>6, <1>7, <1>8, <1>9 DEF Next
-----------------------------------------------------------------------------
(* Answers.                                                                *)

\* A request that committed its effect and has not answered yet.
Pending(c) == pc[c] \in {"replying", "storing"} /\ reply[c] = "ok"

\* Every "ok" on its way to a client, in a receipt, a cache or a request, is
\* about an envelope whose effect was committed.
OkInv ==
    /\ \A i \in Intent : receipts[i].answer = "ok" => receipts[i].hash \in Took(i)
    /\ \A p \in Process, i \in Intent :
           cache[p][i].answer = "ok" => cache[p][i].hash \in Took(i)
    /\ \A c \in Client : Pending(c) => HashOf[c] \in Took(IntentOf[c])
    /\ \A c \in Client : got[c] = "ok" => HashOf[c] \in Took(IntentOf[c])

\* It owns the provisional row of its intent, alone.
PendingInv ==
    \A c \in Client : Pending(c) =>
        /\ receipts[IntentOf[c]] = Provisional(HashOf[c])
        /\ \A d \in Client : Pending(d) /\ IntentOf[d] = IntentOf[c] => d = c

LEMMA TookGrows ==
    ASSUME LedgerTypes, [Next]_vars, NEW i \in Intent
    PROVE  Took(i) \subseteq Took(i)'
<1>1. CASE effects'[i] = effects[i]
    BY <1>1 DEF Took
<1>2. ASSUME NEW c \in Client, Commit(c), i = IntentOf[c] PROVE Took(i) \subseteq Took(i)'
    BY <1>2, CommitLedger
<1>3. ASSUME NEW c \in Client, Commit(c), i # IntentOf[c] PROVE effects'[i] = effects[i]
    BY <1>3, CommitLedger DEF LedgerTypes
<1>4. ASSUME NEW c \in Client, StoreAnswer(c) PROVE effects'[i] = effects[i]
    BY <1>4 DEF StoreAnswer
<1>5. ASSUME NEW j \in Intent, Purge(j) PROVE effects'[i] = effects[i]
    BY <1>5 DEF Purge
<1>6. CASE UNCHANGED Ledger
    BY <1>1, <1>6 DEF Ledger
<1>. QED
    BY <1>1, <1>2, <1>3, <1>4, <1>5, <1>6, LedgerMoves

LEMMA FinishMoves ==
    ASSUME CallInv, NEW c \in Client, NEW a, Finish(c, a), NEW d \in Client
    PROVE  /\ (Pending(d))' => Pending(d) /\ d # c
           /\ got'[d] = IF d = c THEN a ELSE got[d]
    BY DEF CallInv, Finish, Pending

LEMMA PendingMoves ==
    ASSUME CallInv, [Next]_vars, NEW d \in Client, (Pending(d))'
    PROVE  Pending(d) \/ Commit(d)
<1> USE DEF CallInv, Pending
<1>1. CASE UNCHANGED vars
    BY <1>1 DEF vars, request
<1>2. ASSUME NEW c \in Client, NEW a, Finish(c, a) PROVE Pending(d)
    BY <1>2, FinishMoves
<1>3. ASSUME NEW c \in Client, NEW p \in Process, Send(c, p) PROVE Pending(d)
    BY <1>3 DEF Send
<1>4. ASSUME NEW c \in Client, Enter(c) PROVE Pending(d)
    BY <1>2, <1>4 DEF Enter
<1>5. ASSUME NEW c \in Client,
             RefuseEarly(c) \/ Disconnect(c) \/ ForwardTimeout(c) \/ NoAuthority(c)
                 \/ StoreAnswer(c)
      PROVE Pending(d)
    BY <1>2, <1>5 DEF RefuseEarly, Disconnect, ForwardTimeout, NoAuthority, StoreAnswer
<1>6. ASSUME NEW c \in Client, Lease(c) \/ Forward(c) \/ CommitFails(c) \/ Remember(c)
      PROVE Pending(d)
    BY <1>6 DEF Lease, Forward, CommitFails, Remember
<1>7. ASSUME NEW c \in Client, Commit(c) PROVE Pending(d) \/ Commit(d)
    BY <1>7 DEF Commit
<1>8. ASSUME NEW c \in Client, Refuse(c) PROVE Pending(d)
    BY <1>2, <1>8 DEF Refuse
<1>9. ASSUME NEW c \in Client, Reconcile(c) PROVE Pending(d)
    BY <1>2, <1>9 DEF Reconcile
<1>10. ASSUME NEW x \in Room, Expire(x) PROVE Pending(d)
    BY <1>10 DEF Expire
<1>11. ASSUME NEW p \in Process, DropCache(p) \/ Crash(p) PROVE Pending(d)
    BY <1>11 DEF DropCache, Crash, request
<1>12. ASSUME NEW i \in Intent, Purge(i) PROVE Pending(d)
    BY <1>12 DEF Purge, request
<1>. QED
    BY <1>1, <1>3, <1>4, <1>5, <1>6, <1>7, <1>8, <1>9, <1>10, <1>11, <1>12 DEF Next, Serve

\* Where an "ok" that a client receives comes from.
Covered(d) ==
    \/ got[d] = "ok" \/ Pending(d)
    \/ /\ receipts[IntentOf[d]].answer = "ok" /\ receipts[IntentOf[d]].hash = HashOf[d]
    \/ \E p \in Process : /\ cache[p][IntentOf[d]].answer = "ok"
                          /\ cache[p][IntentOf[d]].hash = HashOf[d]

LEMMA GotMoves ==
    ASSUME LedgerTypes, CallInv, [Next]_vars, NEW d \in Client, got'[d] = "ok"
    PROVE  Covered(d)
<1>1. CASE got'[d] = got[d]
    BY <1>1 DEF Covered
<1>2. ASSUME NEW c \in Client, NEW a, Finish(c, a), c = d => a # "ok" PROVE Covered(d)
    <2>1. got'[d] = IF d = c THEN a ELSE got[d]
        BY <1>2, FinishMoves
    <2>. QED
        BY <1>2, <2>1 DEF Covered
<1>3. ASSUME NEW c \in Client, NEW row \in Remembered, row # NoReceipt,
             Finish(c, AnswerOf(c, row)),
             \/ row = Visible(IntentOf[c])
             \/ \E p \in Process : row = cache[p][IntentOf[c]]
      PROVE Covered(d)
    <2>1. CASE c = d /\ AnswerOf(c, row) = "ok"
        <3>1. row.answer = "ok" /\ row.hash = HashOf[d]
            BY <1>3, <2>1, RowAnswer
        <3>2. row = Visible(IntentOf[d]) => row = receipts[IntentOf[d]]
            BY <1>3, ClientTypes, VisibleRow
        <3>. QED
            BY <1>3, <2>1, <3>1, <3>2 DEF Covered
    <2>. QED
        BY <1>2, <1>3, <2>1
<1>4. ASSUME NEW c \in Client, Enter(c) PROVE Covered(d)
    <2> DEFINE old == cache[at[c]][IntentOf[c]]
               row(readable) == IF old # NoReceipt THEN old
                                ELSE IF readable THEN Visible(IntentOf[c]) ELSE NoReceipt
    <2>1. at[c] \in Process /\ IntentOf[c] \in Intent
        BY <1>4, ClientTypes DEF Enter, CallInv
    <2>2. \E readable \in BOOLEAN :
             IF row(readable) # NoReceipt THEN Finish(c, AnswerOf(c, row(readable)))
             ELSE got' = got
        BY <1>4 DEF Enter
    <2>3. PICK readable \in BOOLEAN :
             IF row(readable) # NoReceipt THEN Finish(c, AnswerOf(c, row(readable)))
             ELSE got' = got
        BY <2>2
    <2>4. /\ row(readable) \in Remembered
          /\ row(readable) # NoReceipt => \/ row(readable) = Visible(IntentOf[c])
                                          \/ row(readable) = cache[at[c]][IntentOf[c]]
        BY <2>1, VisibleRow, Rows DEF CallInv
    <2> HIDE DEF row
    <2>5. CASE row(readable) = NoReceipt
        BY <1>1, <2>3, <2>5
    <2>6. CASE row(readable) # NoReceipt
        BY <1>3, <2>1, <2>3, <2>4, <2>6
    <2>. QED
        BY <2>5, <2>6
<1>5. ASSUME NEW c \in Client, Reconcile(c) PROVE Covered(d)
    <2>1. \/ got' = got \/ Finish(c, "error")
          \/ /\ Visible(IntentOf[c]) # NoReceipt
             /\ Finish(c, AnswerOf(c, Visible(IntentOf[c])))
        BY <1>5 DEF Reconcile
    <2>2. Visible(IntentOf[c]) \in Remembered
        BY ClientTypes, VisibleRow
    <2>. QED
        BY <1>1, <1>2, <1>3, <2>1, <2>2
<1>6. ASSUME NEW c \in Client, StoreAnswer(c) PROVE Covered(d)
    <2>1. Finish(c, reply[c]) /\ pc[c] = "storing"
        BY <1>6 DEF StoreAnswer
    <2>2. CASE c = d /\ reply[c] = "ok"
        BY <2>1, <2>2 DEF Covered, Pending
    <2>. QED
        BY <1>2, <2>1, <2>2
<1>7. ASSUME NEW c \in Client, RefuseEarly(c) \/ Disconnect(c) \/ ForwardTimeout(c)
                                   \/ NoAuthority(c)
      PROVE Covered(d)
    BY <1>2, <1>7 DEF RefuseEarly, Disconnect, ForwardTimeout, NoAuthority
<1>8. ASSUME NEW c \in Client, Refuse(c) PROVE Covered(d)
    <2>1. got' = got \/ Finish(c, "error")
        BY <1>8 DEF Refuse
    <2>. QED
        BY <1>1, <1>2, <2>1
<1>9. ASSUME NEW c \in Client, NEW p \in Process, Send(c, p) PROVE Covered(d)
    <2>1. got'[d] = got[d]
        BY <1>9 DEF Send, CallInv
    <2>. QED
        BY <1>1, <2>1
<1>10. ASSUME NEW p \in Process, Crash(p) PROVE Covered(d)
    <2>1. got'[d] = got[d]
        BY <1>10 DEF Crash
    <2>. QED
        BY <1>1, <2>1
<1>11. CASE got' = got
    BY <1>1, <1>11
<1>12. \/ got' = got
       \/ \E c \in Client : \/ Enter(c) \/ Reconcile(c) \/ StoreAnswer(c) \/ Refuse(c)
                            \/ RefuseEarly(c) \/ Disconnect(c) \/ ForwardTimeout(c)
                            \/ NoAuthority(c) \/ \E p \in Process : Send(c, p)
       \/ \E p \in Process : Crash(p)
    BY DEF Next, Serve, vars, request, Lease, Forward, Commit, CommitFails, Remember,
           Expire, DropCache, Purge
<1>. QED
    BY <1>4, <1>5, <1>6, <1>7, <1>8, <1>9, <1>10, <1>11, <1>12

LEMMA CacheMoves ==
    ASSUME CallInv, [Next]_vars, NEW p \in Process, NEW i \in Intent
    PROVE  \/ cache'[p][i] = cache[p][i] \/ cache'[p][i] = NoReceipt
           \/ \E c \in Client : /\ pc[c] = "replying" /\ IntentOf[c] = i
                                /\ cache'[p][i] = Final(HashOf[c], reply[c])
<1> DEFINE Moved == \/ cache'[p][i] = cache[p][i] \/ cache'[p][i] = NoReceipt
                    \/ \E c \in Client : /\ pc[c] = "replying" /\ IntentOf[c] = i
                                         /\ cache'[p][i] = Final(HashOf[c], reply[c])
<1>1. CASE cache' = cache
    BY <1>1
<1>2. ASSUME NEW c \in Client, CommitFails(c) PROVE Moved
    BY <1>2 DEF CommitFails, CallInv
<1>3. ASSUME NEW c \in Client, Remember(c) PROVE Moved
    <2>1. /\ cache' = [cache EXCEPT ![at[c]][IntentOf[c]] = Final(HashOf[c], reply[c])]
          /\ pc[c] = "replying"
        BY <1>3 DEF Remember
    <2>2. CASE p = at[c] /\ i = IntentOf[c]
        BY <2>1, <2>2 DEF CallInv
    <2>3. CASE ~(p = at[c] /\ i = IntentOf[c])
        BY <2>1, <2>3 DEF CallInv
    <2>. QED
        BY <2>2, <2>3
<1>4. ASSUME NEW q \in Process, DropCache(q) \/ Crash(q) PROVE Moved
    BY <1>4 DEF DropCache, Crash, CallInv
<1>5. CASE cache' # cache
    <2>1. \/ \E c \in Client : CommitFails(c) \/ Remember(c)
          \/ \E q \in Process : DropCache(q) \/ Crash(q)
        BY <1>5 DEF Next, Serve, vars, Send, Enter, RefuseEarly, Lease, Forward,
               NoAuthority, Commit, Refuse, Reconcile, StoreAnswer, Disconnect,
               ForwardTimeout, Expire, Purge
    <2>. QED
        BY <1>2, <1>3, <1>4, <2>1
<1>. QED
    BY <1>1, <1>5

LEMMA StoreMoves ==
    ASSUME LedgerTypes, RecentInv, NEW c \in Client, StoreAnswer(c), NEW i \in Intent
    PROVE  \/ receipts'[i] = receipts[i]
           \/ i = IntentOf[c] /\ receipts'[i] = Written(c)
           \/ /\ receipts'[i] = NoReceipt
              /\ IF i = IntentOf[c] THEN Written(c).final ELSE receipts[i].final
<1> DEFINE kept == RecentAfter(c, Written(c))
           pruned == {kept[n] : n \in (Capacity + 1) .. Len(kept)}
<1>1. \/ receipts' = receipts
      \/ receipts' = [j \in Intent |-> IF j \in pruned THEN NoReceipt
                                       ELSE IF j = IntentOf[c] THEN Written(c) ELSE receipts[j]]
    BY DEF StoreAnswer
<1>2. /\ kept \in Seq(Intent)
      /\ \A n \in DOMAIN kept :
             IF kept[n] = IntentOf[c] THEN Written(c).final ELSE receipts[kept[n]].final
    BY KeptRows
<1> HIDE DEF kept
<1>3. ASSUME i \in pruned
      PROVE  IF i = IntentOf[c] THEN Written(c).final ELSE receipts[i].final
    <2>1. PICK n \in (Capacity + 1)..Len(kept) : i = kept[n]
        BY <1>3
    <2>2. n \in DOMAIN kept
        BY <1>2, LenProperties, IntentsAssumption
    <2>. QED
        BY <1>2, <2>1, <2>2
<1> HIDE DEF pruned
<1>. QED
    BY <1>1, <1>3

LEMMA OkStep ==
    ASSUME LedgerTypes, RecentInv, CallInv, OkInv, [Next]_vars
    PROVE  OkInv'
<1>1. ASSUME NEW i \in Intent, receipts'[i].answer = "ok"
      PROVE  receipts'[i].hash \in Took(i)'
    <2>1. CASE receipts'[i] = receipts[i]
        BY <1>1, <2>1, TookGrows DEF OkInv
    <2>2. receipts'[i] # NoReceipt
        BY <1>1, Rows
    <2>3. ASSUME NEW c \in Client, Commit(c) PROVE receipts'[i].hash \in Took(i)'
        <3>1. CASE i = IntentOf[c]
            <4>1. receipts'[i] = Provisional(HashOf[c])
                BY <2>3, <3>1, CommitLedger DEF LedgerTypes
            <4>2. receipts'[i].hash = HashOf[c]
                BY <4>1, ClientTypes, Rows
            <4>. QED
                BY <2>3, <3>1, <4>2, CommitLedger
        <3>2. CASE i # IntentOf[c]
            BY <2>1, <2>3, <3>2, CommitLedger DEF LedgerTypes
        <3>. QED
            BY <3>1, <3>2
    <2>4. ASSUME NEW c \in Client, StoreAnswer(c) PROVE receipts'[i].hash \in Took(i)'
        <3>1. CASE i = IntentOf[c] /\ receipts'[i] = Written(c) /\ Written(c) # receipts[i]
            <4>1. /\ Final(HashOf[c], "refused").answer = "refused"
                  /\ Final(HashOf[c], "ok").hash = HashOf[c]
                BY ClientTypes, Rows DEF Answer
            <4>2. reply[c] = "ok" /\ receipts'[i] = Final(HashOf[c], "ok")
                BY <1>1, <3>1, <4>1, WrittenRow
            <4>3. HashOf[c] \in Took(IntentOf[c])
                BY <2>4, <4>2 DEF OkInv, Pending, StoreAnswer
            <4>. QED
                BY <3>1, <4>1, <4>2, <4>3, TookGrows
        <3>. QED
            BY <2>1, <2>2, <2>4, <3>1, StoreMoves
    <2>5. ASSUME NEW j \in Intent, Purge(j) PROVE receipts'[i].hash \in Took(i)'
        BY <2>1, <2>2, <2>5 DEF Purge, LedgerTypes
    <2>6. CASE UNCHANGED Ledger
        BY <2>1, <2>6 DEF Ledger
    <2>. QED
        BY <2>3, <2>4, <2>5, <2>6, LedgerMoves
<1>2. ASSUME NEW p \in Process, NEW i \in Intent, cache'[p][i].answer = "ok"
      PROVE  cache'[p][i].hash \in Took(i)'
    <2>1. CASE cache'[p][i] = cache[p][i]
        BY <1>2, <2>1, TookGrows DEF OkInv
    <2>2. ASSUME NEW c \in Client, pc[c] = "replying", IntentOf[c] = i,
                 cache'[p][i] = Final(HashOf[c], reply[c])
          PROVE  cache'[p][i].hash \in Took(i)'
        <3>1. reply[c] = "ok" /\ cache'[p][i].hash = HashOf[c]
            BY <1>2, <2>2, ClientTypes, Rows DEF CallInv
        <3>. QED
            BY <2>2, <3>1, TookGrows DEF OkInv, Pending
    <2>3. cache'[p][i] # NoReceipt
        BY <1>2, Rows
    <2>. QED
        BY <2>1, <2>2, <2>3, CacheMoves
<1>3. ASSUME NEW c \in Client, (Pending(c))' PROVE HashOf[c] \in Took(IntentOf[c])'
    <2>1. CASE Pending(c)
        BY <2>1, ClientTypes, TookGrows DEF OkInv
    <2>2. CASE Commit(c)
        BY <2>2, CommitLedger
    <2>. QED
        BY <1>3, <2>1, <2>2, PendingMoves
<1>4. ASSUME NEW c \in Client, got'[c] = "ok" PROVE HashOf[c] \in Took(IntentOf[c])'
    <2>1. HashOf[c] \in Took(IntentOf[c])
        BY <1>4, GotMoves, ClientTypes DEF Covered, OkInv
    <2>. QED
        BY <2>1, ClientTypes, TookGrows
<1>. QED
    BY <1>1, <1>2, <1>3, <1>4 DEF OkInv

LEMMA PendingStep ==
    ASSUME LedgerTypes, RecentInv, CallInv, PendingInv, [Next]_vars
    PROVE  PendingInv'
<1> SUFFICES ASSUME NEW c \in Client, (Pending(c))'
             PROVE  /\ receipts'[IntentOf[c]] = Provisional(HashOf[c])
                    /\ \A d \in Client : (Pending(d))' /\ IntentOf[d] = IntentOf[c] => d = c
    BY DEF PendingInv
<1>1. /\ IntentOf[c] \in Intent /\ Provisional(HashOf[c]) # NoReceipt
      /\ ~Provisional(HashOf[c]).final
    BY ClientTypes, Rows
<1>2. ASSUME Commit(c)
      PROVE  /\ receipts'[IntentOf[c]] = Provisional(HashOf[c])
             /\ \A d \in Client : (Pending(d))' /\ IntentOf[d] = IntentOf[c] => d = c
    <2>1. /\ receipts[IntentOf[c]] = NoReceipt
          /\ receipts'[IntentOf[c]] = Provisional(HashOf[c])
        BY <1>1, <1>2, CommitLedger DEF LedgerTypes
    <2>2. ASSUME NEW d \in Client, (Pending(d))', IntentOf[d] = IntentOf[c], d # c
          PROVE  FALSE
        <3>1. Pending(d)
            BY <1>2, <2>2 DEF Commit, Pending, CallInv
        <3>2. receipts[IntentOf[c]] = Provisional(HashOf[d])
            BY <2>2, <3>1 DEF PendingInv
        <3>. QED
            BY <2>1, <3>2, ClientTypes, Rows
    <2>. QED
        BY <2>1, <2>2
<1>3. ASSUME Pending(c)
      PROVE  /\ receipts'[IntentOf[c]] = Provisional(HashOf[c])
             /\ \A d \in Client : (Pending(d))' /\ IntentOf[d] = IntentOf[c] => d = c
    <2>1. /\ receipts[IntentOf[c]] = Provisional(HashOf[c])
          /\ \A d \in Client : Pending(d) /\ IntentOf[d] = IntentOf[c] => d = c
        BY <1>3 DEF PendingInv
    <2>2. ASSUME NEW d \in Client, Commit(d) PROVE IntentOf[d] # IntentOf[c]
        BY <1>1, <2>1, <2>2, CommitLedger
    <2>3. \A d \in Client : (Pending(d))' /\ IntentOf[d] = IntentOf[c] => d = c
        BY <2>1, <2>2, PendingMoves
    <2>4. ASSUME NEW d \in Client, Commit(d)
          PROVE  receipts'[IntentOf[c]] = receipts[IntentOf[c]]
        BY <1>1, <2>2, <2>4, CommitLedger DEF LedgerTypes
    <2>5. ASSUME NEW d \in Client, StoreAnswer(d)
          PROVE  receipts'[IntentOf[c]] = receipts[IntentOf[c]]
        <3>1. CASE IntentOf[d] = IntentOf[c]
            <4>1. d # c
                BY <2>5, FinishMoves DEF StoreAnswer
            <4>2. reply[d] # "ok"
                BY <2>1, <2>5, <3>1, <4>1 DEF StoreAnswer, Pending
            <4>3. Written(d) = receipts[IntentOf[c]]
                BY <1>1, <2>1, <3>1, <4>2 DEF Written
            <4>. QED
                BY <1>1, <2>1, <2>5, <3>1, <4>3, StoreMoves
        <3>2. CASE IntentOf[d] # IntentOf[c]
            BY <1>1, <2>1, <2>5, <3>2, StoreMoves
        <3>. QED
            BY <3>1, <3>2
    <2>6. ASSUME NEW j \in Intent, Purge(j)
          PROVE  receipts'[IntentOf[c]] = receipts[IntentOf[c]]
        BY <1>1, <2>1, <2>6 DEF Purge, LedgerTypes
    <2>7. CASE UNCHANGED Ledger
        BY <2>1, <2>3, <2>7 DEF Ledger
    <2>. QED
        BY <2>1, <2>3, <2>4, <2>5, <2>6, <2>7, LedgerMoves
<1>. QED
    BY <1>2, <1>3, PendingMoves

IntentInv == LedgerTypes /\ RecentInv /\ CallInv /\ OkInv /\ PendingInv

LEMMA IntentInvInit == ASSUME Init PROVE IntentInv
<1>1. /\ receipts = [i \in Intent |-> NoReceipt] /\ recent = <<>>
      /\ cache = [p \in Process |-> [i \in Intent |-> NoReceipt]]
      /\ pc = [c \in Client |-> "idle"] /\ got = [c \in Client |-> "none"]
    BY DEF Init
<1>2. NoReceipt \in Remembered /\ NoReceipt.answer # "ok" /\ "ok" \in Answer
    BY Rows DEF Answer
<1>3. LedgerTypes
    BY LedgerInit
<1>4. recent \in Seq(Intent) /\ DOMAIN recent = {}
    BY <1>1
<1>5. RecentInv
    BY <1>4 DEF RecentInv, OnceEach
<1>6. CallInv
    BY <1>1, <1>2 DEF Init, CallInv
<1>7. OkInv /\ PendingInv
    BY <1>1, <1>2 DEF OkInv, PendingInv, Pending
<1>. QED
    BY <1>3, <1>5, <1>6, <1>7 DEF IntentInv

LEMMA IntentInvAlways == Spec => []IntentInv
<1>1. Init => IntentInv
    BY IntentInvInit
<1>2. IntentInv /\ [Next]_vars => IntentInv'
    BY LedgerTypesStep, RecentStep, CallsStep, OkStep, PendingStep DEF IntentInv
<1>. QED
    BY <1>1, <1>2, PTL DEF Spec

\* Every variable keeps its type; what a process remembers is a complete answer.
THEOREM IntentTypes == Spec => []TypeOK
<1>1. IntentInv => TypeOK
    BY DEF IntentInv, LedgerTypes, RecentInv, CallInv, TypeOK
<1>. QED
    BY <1>1, IntentInvAlways, PTL

\* No client is ever told "ok" for an envelope whose effect was not committed.
THEOREM OkAnswers == Spec => []OkMeansEffect
<1>1. IntentInv => OkMeansEffect
    BY DEF IntentInv, OkInv, OkMeansEffect, Took
<1>. QED
    BY <1>1, IntentInvAlways, PTL

\* A finalized answer is only ever removed, whoever writes late.
THEOREM FinalAnswers == Spec => FinalAnswersStand
<1>1. ASSUME IntentInv, [Next]_vars, NEW i \in Intent, receipts[i].final
      PROVE  receipts'[i] \in {receipts[i], NoReceipt}
    <2> USE <1>1 DEF IntentInv
    <2>1. receipts[i] # NoReceipt
        BY Rows
    <2>2. ASSUME NEW c \in Client, Commit(c) PROVE receipts'[i] = receipts[i]
        BY <2>1, <2>2, CommitLedger DEF LedgerTypes
    <2>3. ASSUME NEW c \in Client, StoreAnswer(c)
          PROVE  receipts'[i] \in {receipts[i], NoReceipt}
        <3>1. CASE i = IntentOf[c] /\ receipts'[i] = Written(c)
            <4>1. reply[c] # "ok"
                <5> SUFFICES ASSUME reply[c] = "ok" PROVE FALSE
                    OBVIOUS
                <5>1. receipts[i] = Provisional(HashOf[c])
                    BY <2>3, <3>1 DEF StoreAnswer, PendingInv, Pending
                <5>. QED
                    BY <5>1, ClientTypes, Rows
            <4>. QED
                BY <2>1, <3>1, <4>1 DEF Written
        <3>. QED
            BY <2>3, <3>1, StoreMoves
    <2>4. ASSUME NEW j \in Intent, Purge(j) PROVE receipts'[i] \in {receipts[i], NoReceipt}
        BY <2>4 DEF Purge, LedgerTypes
    <2>5. CASE UNCHANGED Ledger
        BY <2>5 DEF Ledger
    <2>. QED
        BY <2>2, <2>3, <2>4, <2>5, LedgerMoves
<1>2. IntentInv /\ [Next]_vars =>
          [\A i \in Intent : receipts[i].final => receipts'[i] \in {receipts[i], NoReceipt}]_vars
    BY <1>1
<1>. QED
    BY <1>2, IntentInvAlways, PTL DEF Spec, FinalAnswersStand
-----------------------------------------------------------------------------
(* One ledger.                                                             *)

\* What a written answer displaces is answered, and is not itself.
LEMMA StoreForgets ==
    ASSUME LedgerTypes, RecentInv, NEW c \in Client, StoreAnswer(c)
    PROVE  LET i   == IntentOf[c]
               row == Written(c) IN
           \/ UNCHANGED Ledger
           \/ \E S \in SUBSET Intent :
                 /\ \A j \in S : IF j = i THEN row.final ELSE receipts[j].final
                 /\ row.final /\ row # receipts[i] => i \notin S
                 /\ receipts' = [j \in Intent |->
                        IF j \in S THEN NoReceipt ELSE IF j = i THEN row ELSE receipts[j]]
                 /\ purged' = [j \in Intent |-> IF j \in S THEN purged[j] + 1 ELSE purged[j]]
                 /\ effects' = effects
<1> DEFINE i == IntentOf[c]
           row == Written(c)
           kept == RecentAfter(c, row)
           pruned == {kept[n] : n \in (Capacity + 1) .. Len(kept)}
<1>1. CASE UNCHANGED <<receipts, recent, purged>>
    BY <1>1 DEF StoreAnswer, Ledger
<1>2. CASE /\ receipts' = [j \in Intent |-> IF j \in pruned THEN NoReceipt
                                            ELSE IF j = i THEN row ELSE receipts[j]]
           /\ purged' = [j \in Intent |-> IF j \in pruned THEN purged[j] + 1 ELSE purged[j]]
    <2>1. /\ kept \in Seq(Intent) /\ OnceEach(kept)
          /\ \A n \in DOMAIN kept : IF kept[n] = i THEN row.final ELSE receipts[kept[n]].final
        BY KeptRows
    <2>2. row.final /\ row # receipts[i] => kept = <<i>> \o Without(recent, i)
        BY DEF RecentAfter
    <2>3. Without(recent, i) \in Seq(Intent) /\ i \in Intent
        BY WithoutRow, ClientTypes DEF RecentInv
    <2>4. effects' = effects
        BY DEF StoreAnswer
    <2> HIDE DEF kept, row, i
    <2>5. Len(kept) \in Nat /\ Capacity \in Nat \ {0} /\ DOMAIN kept = 1..Len(kept)
        BY <2>1, LenProperties, IntentsAssumption
    <2>6. ASSUME NEW n \in (Capacity + 1)..Len(kept)
          PROVE  /\ kept[n] \in Intent
                 /\ IF kept[n] = i THEN row.final ELSE receipts[kept[n]].final
                 /\ row.final /\ row # receipts[i] => kept[n] # i
        <3>1. n \in DOMAIN kept /\ 1 \in DOMAIN kept /\ n # 1
            BY <2>5
        <3>2. row.final /\ row # receipts[i] => kept[1] = i
            BY <2>2, <2>3
        <3>. QED
            BY <2>1, <2>5, <3>1, <3>2, ElementOfSeq DEF OnceEach
    <2>7. /\ pruned \in SUBSET Intent
          /\ \A j \in pruned : IF j = i THEN row.final ELSE receipts[j].final
          /\ row.final /\ row # receipts[i] => i \notin pruned
        BY <2>6
    <2> HIDE DEF pruned
    <2>. QED
        BY <1>2, <2>4, <2>7 DEF i, row
<1>. QED
    BY <1>1, <1>2 DEF StoreAnswer

LEMMA LedgerEntries ==
    /\ ledger!Open = NoReceipt
    /\ \A h : ledger!Applied(h) = Provisional(h)
    /\ \A h, a : ledger!Answered(h, a) = Final(h, a)
BY DEF ledger!Open, ledger!Applied, ledger!Answered, NoReceipt, Provisional, Final

LEMMA NothingForgotten ==
    ASSUME LedgerTypes, UNCHANGED Ledger
    PROVE  \E S \in SUBSET Intent : ledger!Forget(S)
<1>1. /\ receipts' = [i \in Intent |-> IF i \in {} THEN ledger!Open ELSE receipts[i]]
      /\ purged' = [i \in Intent |-> IF i \in {} THEN purged[i] + 1 ELSE purged[i]]
      /\ effects' = effects
    BY DEF LedgerTypes, Ledger
<1>2. ledger!Forget({})
    BY <1>1 DEF ledger!Forget, ledger!Without
<1>. QED
    BY <1>2

\* A committed request answers its own entry, a refused one an open entry, and
\* any other write changes nothing but what it displaces.
LEMMA StoreAnswers ==
    ASSUME IntentInv, NEW c \in Client, StoreAnswer(c)
    PROVE  \/ \E i \in Intent, h \in Hash, S \in SUBSET Intent : ledger!Answer(i, h, S)
           \/ \E S \in SUBSET Intent : ledger!Forget(S)
<1> DEFINE i == IntentOf[c]
           row == Written(c)
<1>1. i \in Intent /\ HashOf[c] \in Hash
    BY ClientTypes
<1>2. CASE UNCHANGED Ledger
    BY <1>2, NothingForgotten DEF IntentInv
<1>3. ASSUME NEW S \in SUBSET Intent,
             \A j \in S : IF j = i THEN row.final ELSE receipts[j].final,
             row.final /\ row # receipts[i] => i \notin S,
             receipts' = [j \in Intent |->
                 IF j \in S THEN NoReceipt ELSE IF j = i THEN row ELSE receipts[j]],
             purged' = [j \in Intent |-> IF j \in S THEN purged[j] + 1 ELSE purged[j]],
             effects' = effects
      PROVE  \/ \E j \in Intent, h \in Hash : ledger!Answer(j, h, S)
             \/ ledger!Forget(S)
    <2>1. \/ row = receipts[i]
          \/ receipts[i] = Provisional(HashOf[c]) /\ row = Final(HashOf[c], "ok")
          \/ receipts[i] = NoReceipt /\ row = Final(HashOf[c], "refused")
        <3>1. reply[c] = "ok" => receipts[i] = Provisional(HashOf[c])
            BY DEF StoreAnswer, IntentInv, PendingInv, Pending
        <3>. QED
            BY <3>1, WrittenRow DEF IntentInv
    <2>2. /\ ~NoReceipt.final /\ ~Provisional(HashOf[c]).final
          /\ Final(HashOf[c], "ok").final /\ Final(HashOf[c], "refused").final
        BY DEF NoReceipt, Provisional, Final
    <2> DEFINE e(a) == [receipts EXCEPT ![i] = Final(HashOf[c], a)]
    <2>3. receipts \in [Intent -> Receipt]
        BY DEF IntentInv, LedgerTypes
    <2> HIDE DEF row, i
    <2>4. CASE row = receipts[i]
        <3>1. /\ \A j \in S : receipts[j].final
              /\ receipts' = [j \in Intent |-> IF j \in S THEN ledger!Open ELSE receipts[j]]
            BY <1>3, <2>4, LedgerEntries
        <3>. QED
            BY <1>3, <3>1 DEF ledger!Forget, ledger!Without
    <2>5. ASSUME NEW a \in {"ok", "refused"}, row = Final(HashOf[c], a), row # receipts[i]
          PROVE  i \notin S /\ ledger!Without(S, e(a))
        <3>1. i \notin S
            BY <1>3, <2>2, <2>5
        <3>2. /\ \A j \in S : receipts[j].final
              /\ \A j \in Intent : e(a)[j] = IF j = i THEN row ELSE receipts[j]
            BY <1>1, <1>3, <2>3, <2>5, <3>1
        <3>3. receipts' = [j \in Intent |-> IF j \in S THEN ledger!Open ELSE e(a)[j]]
            BY <1>3, <3>2, LedgerEntries
        <3> HIDE DEF e
        <3>. QED
            BY <1>3, <3>1, <3>2, <3>3 DEF ledger!Without
    <2>6. CASE receipts[i] = Provisional(HashOf[c]) /\ row = Final(HashOf[c], "ok")
        <3>1. i \notin S /\ ledger!Without(S, e("ok"))
            BY <2>2, <2>5, <2>6
        <3>2. ledger!Answer(i, HashOf[c], S)
            BY <2>6, <3>1, LedgerEntries DEF ledger!Answer
        <3>. QED
            BY <1>1, <3>2
    <2>7. CASE receipts[i] = NoReceipt /\ row = Final(HashOf[c], "refused")
        <3>1. i \notin S /\ ledger!Without(S, e("refused"))
            BY <2>2, <2>5, <2>7
        <3>2. ledger!Answer(i, HashOf[c], S)
            BY <2>7, <3>1, LedgerEntries DEF ledger!Answer
        <3>. QED
            BY <1>1, <3>2
    <2>. QED
        BY <2>1, <2>4, <2>6, <2>7
<1>. QED
    BY <1>2, <1>3, StoreForgets DEF IntentInv

\* An ok that is told is about an effect that was there before: the step that
\* commits an effect tells nobody.
LEMMA OnlyTruth ==
    ASSUME IntentInv, IntentInv', [Next]_vars
    PROVE  ledger!Truthful
<1> SUFFICES ASSUME NEW c \in Client, got'[c] = "ok", got[c] # "ok"
             PROVE  HashOf[c] \in Took(IntentOf[c])
    BY DEF ledger!Truthful, Took
<1>1. (HashOf[c] \in Took(IntentOf[c]))'
    BY DEF IntentInv, OkInv
<1>2. ASSUME NEW d \in Client, Commit(d) PROVE FALSE
    BY <1>2 DEF Commit
<1>3. CASE effects' = effects
    BY <1>1, <1>3 DEF Took
<1>4. ASSUME NEW d \in Client, StoreAnswer(d) PROVE effects' = effects
    BY <1>4 DEF StoreAnswer
<1>5. ASSUME NEW i \in Intent, Purge(i) PROVE effects' = effects
    BY <1>5 DEF Purge
<1>. QED
    BY <1>2, <1>3, <1>4, <1>5, LedgerMoves DEF Ledger

LEMMA LedgerImplemented ==
    ASSUME IntentInv, IntentInv', [Next]_vars
    PROVE  ledger!LedgerNext
<1> DEFINE Moved == \/ \E i \in Intent, h \in Hash : ledger!Apply(i, h)
                    \/ \E i \in Intent, h \in Hash, S \in SUBSET Intent : ledger!Answer(i, h, S)
                    \/ \E S \in SUBSET Intent : ledger!Forget(S)
<1>1. ASSUME UNCHANGED Ledger PROVE Moved
    BY <1>1, NothingForgotten DEF IntentInv
<1>2. ASSUME NEW c \in Client, Commit(c) PROVE Moved
    <2>1. ledger!Apply(IntentOf[c], HashOf[c])
        BY <1>2, CommitLedger, LedgerEntries DEF ledger!Apply, IntentInv
    <2>. QED
        BY <2>1, ClientTypes
<1>3. ASSUME NEW c \in Client, StoreAnswer(c) PROVE Moved
    BY <1>3, StoreAnswers
<1>4. ASSUME NEW i \in Intent, Purge(i) PROVE Moved
    <2>1. /\ receipts[i].final
          /\ receipts' = [j \in Intent |-> IF j \in {i} THEN ledger!Open ELSE receipts[j]]
          /\ purged' = [j \in Intent |-> IF j \in {i} THEN purged[j] + 1 ELSE purged[j]]
          /\ effects' = effects
        BY <1>4, LedgerEntries DEF Purge, IntentInv, LedgerTypes
    <2>2. ledger!Forget({i})
        BY <2>1 DEF ledger!Forget, ledger!Without
    <2>. QED
        BY <2>2
<1>5. Moved
    BY <1>1, <1>2, <1>3, <1>4, LedgerMoves
<1>. QED
    BY <1>5, OnlyTruth DEF ledger!LedgerNext

\* Whatever the processes cache, forward, drop or restart, together they are
\* one ledger of intents.
THEOREM ImplementsLedger == Spec => OneLedger
<1>1. Init => ledger!LedgerInit
    BY LedgerEntries DEF Init, ledger!LedgerInit
<1>2. IntentInv /\ IntentInv' /\ [Next]_vars => [ledger!LedgerNext]_(ledger!ledgerVars)
    BY LedgerImplemented
<1>. QED
    BY <1>1, <1>2, IntentInvAlways, PTL DEF Spec, OneLedger, ledger!LedgerSpec

\* What one step of the ledger does to an intent.
LEMMA LedgerActs ==
    ASSUME LedgerTypes, ledger!LedgerNext, NEW i \in Intent
    PROVE  \/ /\ receipts[i] = NoReceipt /\ purged'[i] = purged[i]
              /\ \E h \in Hash : /\ receipts'[i] = Provisional(h)
                                 /\ effects'[i] = Append(effects[i], h)
           \/ /\ effects'[i] = effects[i] /\ purged'[i] = purged[i]
              /\ \E h \in Hash : \/ receipts'[i] = Final(h, "ok") /\ receipts[i] = Provisional(h)
                                 \/ receipts'[i] = Final(h, "refused") /\ receipts[i] = NoReceipt
           \/ /\ effects'[i] = effects[i] /\ purged'[i] = purged[i] + 1
              /\ receipts[i].final /\ receipts'[i] = NoReceipt
           \/ /\ effects'[i] = effects[i] /\ purged'[i] = purged[i]
              /\ receipts'[i] = receipts[i]
<1> USE LedgerEntries DEF LedgerTypes
<1>1. ASSUME NEW j \in Intent, NEW h \in Hash, ledger!Apply(j, h)
      PROVE  \/ /\ i = j /\ receipts[i] = NoReceipt /\ purged'[i] = purged[i]
                /\ receipts'[i] = Provisional(h) /\ effects'[i] = Append(effects[i], h)
             \/ /\ effects'[i] = effects[i] /\ purged'[i] = purged[i]
                /\ receipts'[i] = receipts[i]
    BY <1>1 DEF ledger!Apply
<1>2. ASSUME NEW S \in SUBSET Intent, NEW e, ledger!Without(S, e)
      PROVE  /\ effects'[i] = effects[i]
             /\ i \in S => receipts[i].final /\ receipts'[i] = NoReceipt
                           /\ purged'[i] = purged[i] + 1
             /\ i \notin S => receipts'[i] = e[i] /\ purged'[i] = purged[i]
    BY <1>2 DEF ledger!Without
<1>3. ASSUME NEW j \in Intent, NEW h \in Hash, NEW S \in SUBSET Intent, ledger!Answer(j, h, S)
      PROVE  \/ /\ effects'[i] = effects[i] /\ purged'[i] = purged[i]
                /\ \/ receipts'[i] = Final(h, "ok") /\ receipts[i] = Provisional(h)
                   \/ receipts'[i] = Final(h, "refused") /\ receipts[i] = NoReceipt
             \/ /\ effects'[i] = effects[i] /\ purged'[i] = purged[i] + 1
                /\ receipts[i].final /\ receipts'[i] = NoReceipt
             \/ /\ effects'[i] = effects[i] /\ purged'[i] = purged[i]
                /\ receipts'[i] = receipts[i]
    <2>1. PICK a \in {"ok", "refused"} :
              /\ j \notin S
              /\ IF a = "ok" THEN receipts[j] = Provisional(h) ELSE receipts[j] = NoReceipt
              /\ ledger!Without(S, [receipts EXCEPT ![j] = Final(h, a)])
        BY <1>3 DEF ledger!Answer
    <2> DEFINE e == [receipts EXCEPT ![j] = Final(h, a)]
    <2>2. e[i] = IF i = j THEN Final(h, a) ELSE receipts[i]
        OBVIOUS
    <2> HIDE DEF e
    <2>3. /\ effects'[i] = effects[i]
          /\ i \in S => receipts[i].final /\ receipts'[i] = NoReceipt
                        /\ purged'[i] = purged[i] + 1
          /\ i \notin S => receipts'[i] = e[i] /\ purged'[i] = purged[i]
        <3>1. ledger!Without(S, e)
            BY <2>1 DEF e
        <3>. QED
            BY <1>2, <3>1
    <2>. QED
        BY <2>1, <2>2, <2>3
<1>4. ASSUME NEW S \in SUBSET Intent, ledger!Forget(S)
      PROVE  \/ /\ effects'[i] = effects[i] /\ purged'[i] = purged[i] + 1
                /\ receipts[i].final /\ receipts'[i] = NoReceipt
             \/ /\ effects'[i] = effects[i] /\ purged'[i] = purged[i]
                /\ receipts'[i] = receipts[i]
    BY <1>2, <1>4 DEF ledger!Forget
<1>. QED
    BY <1>1, <1>3, <1>4 DEF ledger!LedgerNext

LEMMA LedgerKeepsFunctions ==
    ASSUME LedgerTypes, ledger!LedgerNext
    PROVE  /\ receipts' = [i \in Intent |-> receipts'[i]]
           /\ effects' = [i \in Intent |-> effects'[i]]
           /\ purged' = [i \in Intent |-> purged'[i]]
BY DEF LedgerTypes, ledger!LedgerNext, ledger!Apply, ledger!Answer, ledger!Forget, ledger!Without

\* The ledger alone keeps what the bookkeeping needs.
LEMMA LedgerKeepsInv ==
    ASSUME LedgerTypes, LedgerInv, OkMeansEffect, ledger!LedgerNext
    PROVE  (LedgerTypes /\ LedgerInv /\ OkMeansEffect)'
<1>1. ASSUME NEW i \in Intent
      PROVE  /\ receipts'[i] \in Receipt /\ effects'[i] \in Seq(Hash) /\ purged'[i] \in Nat
             /\ Len(effects'[i]) <= purged'[i] + 1
             /\ receipts'[i] = NoReceipt => Len(effects'[i]) <= purged'[i]
             /\ receipts'[i].answer = "refused" => Len(effects'[i]) <= purged'[i]
             /\ Took(i) \subseteq Took(i)'
    <2>1. /\ receipts[i] \in Receipt /\ effects[i] \in Seq(Hash) /\ purged[i] \in Nat
          /\ Len(effects[i]) \in Nat
          /\ Len(effects[i]) <= purged[i] + 1
          /\ receipts[i] = NoReceipt => Len(effects[i]) <= purged[i]
          /\ receipts[i].answer = "refused" => Len(effects[i]) <= purged[i]
        BY DEF LedgerTypes, LedgerInv
    <2>2. /\ NoReceipt \in Receipt /\ NoReceipt.answer = "none"
          /\ \A h \in Hash : /\ Provisional(h) \in Receipt /\ Provisional(h) # NoReceipt
                             /\ Provisional(h).answer = "ok"
                             /\ Final(h, "ok") \in Receipt /\ Final(h, "ok") # NoReceipt
                             /\ Final(h, "ok").answer = "ok"
                             /\ Final(h, "refused") \in Receipt
                             /\ Final(h, "refused") # NoReceipt
        BY Rows DEF Answer
    <2>3. ASSUME NEW h \in Hash, effects'[i] = Append(effects[i], h)
          PROVE  /\ effects'[i] \in Seq(Hash) /\ Len(effects'[i]) = Len(effects[i]) + 1
                 /\ Took(i) \subseteq Took(i)'
        <3>1. /\ effects'[i] \in Seq(Hash) /\ Len(effects'[i]) = Len(effects[i]) + 1
              /\ \A n \in DOMAIN effects[i] : n \in DOMAIN effects'[i]
                                              /\ effects'[i][n] = effects[i][n]
            BY <2>1, <2>3
        <3>. QED
            BY <3>1 DEF Took
    <2>4. effects'[i] = effects[i] => Took(i)' = Took(i)
        BY DEF Took
    <2>. QED
        BY <2>1, <2>2, <2>3, <2>4, LedgerActs
<1>2. ASSUME NEW c \in Client, got'[c] = "ok"
      PROVE  (HashOf[c] \in Took(IntentOf[c]))'
    <2>1. HashOf[c] \in Took(IntentOf[c])
        BY <1>2 DEF OkMeansEffect, Took, ledger!LedgerNext, ledger!Truthful
    <2>. QED
        BY <1>1, <2>1, ClientTypes
<1>3. LedgerTypes'
    BY <1>1, LedgerKeepsFunctions DEF LedgerTypes
<1>. QED
    BY <1>1, <1>2, <1>3 DEF LedgerInv, OkMeansEffect, Took

\* What a ledger promises to its senders, however it is implemented: one effect
\* for every answer kept, an ok or a refusal that is true, answers that stand.
THEOREM LedgerPromises ==
    OneLedger => [](EffectOnce /\ RefusalMeansNoEffect /\ OkMeansEffect) /\ FinalAnswersStand
<1> DEFINE Inv == LedgerTypes /\ LedgerInv /\ OkMeansEffect
<1>1. ledger!LedgerInit => Inv
    <2> SUFFICES ASSUME ledger!LedgerInit PROVE Inv
        OBVIOUS
    <2>1. /\ receipts = [i \in Intent |-> NoReceipt] /\ purged = [i \in Intent |-> 0]
          /\ effects = [i \in Intent |-> <<>>] /\ got = [c \in Client |-> "none"]
        BY LedgerEntries DEF ledger!LedgerInit
    <2>2. LedgerTypes /\ OkMeansEffect
        BY <2>1, Rows DEF LedgerTypes, OkMeansEffect
    <2>3. ASSUME NEW i \in Intent PROVE Len(effects[i]) = 0 /\ purged[i] = 0
        BY <2>1
    <2>. QED
        BY <2>2, <2>3 DEF LedgerInv
<1>2. Inv /\ [ledger!LedgerNext]_(ledger!ledgerVars) => Inv'
    <2>1. CASE ledger!LedgerNext
        BY <2>1, LedgerKeepsInv
    <2>2. CASE UNCHANGED ledger!ledgerVars
        BY <2>2 DEF ledger!ledgerVars, LedgerTypes, LedgerInv, OkMeansEffect
    <2>. QED
        BY <2>1, <2>2
<1>3. Inv => EffectOnce /\ RefusalMeansNoEffect /\ OkMeansEffect
    BY DEF LedgerInv, EffectOnce, RefusalMeansNoEffect
<1>4. Inv /\ [ledger!LedgerNext]_(ledger!ledgerVars) =>
          [\A i \in Intent : receipts[i].final => receipts'[i] \in {receipts[i], NoReceipt}]_vars
    <2> SUFFICES ASSUME Inv, [ledger!LedgerNext]_(ledger!ledgerVars),
                        NEW i \in Intent, receipts[i].final
                 PROVE  receipts'[i] \in {receipts[i], NoReceipt}
        OBVIOUS
    <2>1. ~NoReceipt.final /\ \A h \in Hash : ~Provisional(h).final
        BY DEF NoReceipt, Provisional
    <2>2. CASE ledger!LedgerNext
        BY <2>1, <2>2, LedgerActs
    <2>. QED
        BY <2>2 DEF ledger!ledgerVars
<1> HIDE DEF Inv
<1>. QED
    BY <1>1, <1>2, <1>3, <1>4, PTL DEF OneLedger, ledger!LedgerSpec, FinalAnswersStand
-----------------------------------------------------------------------------
(* The command locks.                                                      *)

Serving == {"checked", "leased", "fenced", "refused", "failed", "replying", "storing"}

\* The processes whose lock a request should hold: the one that serves it,
\* and the one that has forwarded it and waits.
Holds(c, p) ==
    \/ pc[c] \in Serving /\ at[c] = p
    \/ pc[c] # "idle" /\ origin[c] = p /\ at[c] # p

LocksMatch == \A c \in Client, p \in Process : lock[p] = c <=> Holds(c, p)

\* A process works on one command at a time, whether a client or another
\* process brought it, and on none while it waits for one it has forwarded.
OneCommandPerProcess ==
    \A c, d \in Client, p \in Process : Holds(c, p) /\ Holds(d, p) => c = d

\* A request that waits for a lock waits for one whose holder is served there
\* or is given up when the forwarding process has waited for ten seconds: no
\* lock is left behind by an answer, a disconnect, a timeout or a crash, and no
\* request waits for itself.
WaitersAreWaitedFor ==
    \A c \in Client :
        pc[c] = "queued" =>
            \/ lock[at[c]] = Free
            \/ \E d \in Client \ {c} :
                  /\ lock[at[c]] = d
                  /\ \/ pc[d] \in Serving /\ at[d] = at[c]
                     \/ pc[d] \in Serving \cup {"queued"} /\ at[d] # origin[d]

LEMMA FinishLocks ==
    ASSUME CallInv, LocksMatch, NEW c \in Client, NEW a, Finish(c, a)
    PROVE  LocksMatch'
<1> SUFFICES ASSUME NEW d \in Client, NEW p \in Process
             PROVE  lock'[p] = d <=> Holds(d, p)'
    BY DEF LocksMatch
<1>1. lock'[p] = (IF lock[p] = c THEN Free ELSE lock[p]) /\ Free \notin Client
    BY IntentsAssumption DEF Finish
<1>2. CASE d = c
    BY <1>1, <1>2 DEF Finish, Holds, Serving, CallInv
<1>3. CASE d # c
    <2>1. pc'[d] = pc[d] /\ at'[d] = at[d] /\ origin'[d] = origin[d]
        BY <1>3 DEF Finish, CallInv
    <2>. QED
        BY <1>1, <1>3, <2>1 DEF LocksMatch, Holds
<1>. QED
    BY <1>2, <1>3

\* Steps within a request's service at one process take and release no lock.
LEMMA ServiceLocks ==
    ASSUME CallInv, LocksMatch, lock' = lock, at' = at, origin' = origin,
           \A c \in Client : \/ pc'[c] = pc[c]
                             \/ pc[c] \in Serving /\ pc'[c] \in Serving
    PROVE  LocksMatch'
<1>1. \A c \in Client : (pc'[c] \in Serving <=> pc[c] \in Serving)
                        /\ (pc'[c] # "idle" <=> pc[c] # "idle")
    BY DEF Serving
<1>. QED
    BY <1>1 DEF LocksMatch, Holds

LEMMA CrashLocks ==
    ASSUME CallInv, LocksMatch, NEW q \in Process, Crash(q)
    PROVE  LocksMatch'
<1> DEFINE hit == {c \in Client : pc[c] # "idle" /\ q \in {origin[c], at[c]}}
<1> SUFFICES ASSUME NEW d \in Client, NEW p \in Process
             PROVE  lock'[p] = d <=> Holds(d, p)'
    BY DEF LocksMatch
<1>1. /\ lock'[p] = (IF p = q \/ lock[p] \in hit THEN Free ELSE lock[p])
      /\ Free \notin Client
    BY IntentsAssumption DEF Crash
<1>2. CASE d \in hit
    <2>1. pc'[d] = "idle" /\ lock'[p] # d
        BY <1>1, <1>2 DEF Crash
    <2>. QED
        BY <2>1 DEF Holds, Serving
<1>3. CASE d \notin hit
    <2>1. /\ \/ pc'[d] = pc[d]
             \/ pc[d] = "leased" /\ pc'[d] = "fenced"
          /\ at'[d] = at[d] /\ origin'[d] = origin[d]
        BY <1>3 DEF Crash
    <2>2. Holds(d, p)' <=> Holds(d, p)
        BY <2>1 DEF Holds, Serving
    <2>3. Holds(d, p) => p # q
        BY <1>3 DEF Holds, Serving
    <2>4. lock[p] = d <=> Holds(d, p)
        BY DEF LocksMatch
    <2>. QED
        BY <1>1, <1>3, <2>2, <2>3, <2>4
<1>. QED
    BY <1>2, <1>3

LEMMA LocksStep == ASSUME CallInv, LocksMatch, [Next]_vars PROVE LocksMatch'
<1>1. ASSUME NEW c \in Client, NEW a, Finish(c, a) PROVE LocksMatch'
    BY <1>1, FinishLocks
<1>2. CASE UNCHANGED vars
    BY <1>2, ServiceLocks DEF vars, request
<1>3. ASSUME NEW c \in Client, NEW p \in Process, Send(c, p) PROVE LocksMatch'
    <2> SUFFICES ASSUME NEW d \in Client, NEW r \in Process
                 PROVE  lock'[r] = d <=> Holds(d, r)'
        BY DEF LocksMatch
    <2>1. lock' = lock /\ (lock[r] = d <=> Holds(d, r))
        BY <1>3 DEF Send, LocksMatch
    <2>2. CASE d = c
        BY <1>3, <2>1, <2>2 DEF Send, Holds, Serving, CallInv
    <2>3. CASE d # c
        BY <1>3, <2>1, <2>3 DEF Send, Holds, Serving, CallInv
    <2>. QED
        BY <2>2, <2>3
<1>4. ASSUME NEW c \in Client, Enter(c) PROVE LocksMatch'
    <2>1. \/ \E a : Finish(c, a)
          \/ /\ lock' = [lock EXCEPT ![at[c]] = c] /\ pc' = [pc EXCEPT ![c] = "checked"]
             /\ origin' = origin /\ at' = at
        BY <1>4 DEF Enter
    <2>2. CASE /\ lock' = [lock EXCEPT ![at[c]] = c] /\ pc' = [pc EXCEPT ![c] = "checked"]
               /\ origin' = origin /\ at' = at
        <3> SUFFICES ASSUME NEW d \in Client, NEW r \in Process
                     PROVE  lock'[r] = d <=> Holds(d, r)'
            BY DEF LocksMatch
        <3>1. /\ pc[c] = "queued" /\ lock[at[c]] = Free /\ at[c] \in Process
              /\ Free \notin Client
            BY <1>4, IntentsAssumption DEF Enter, CallInv
        <3>2. lock[r] = d <=> Holds(d, r)
            BY DEF LocksMatch
        <3>3. lock'[r] = IF r = at[c] THEN c ELSE lock[r]
            BY <2>2 DEF CallInv
        <3>4. CASE d = c
            <4>1. pc'[d] = "checked"
                BY <2>2, <3>4 DEF CallInv
            <4>. QED
                BY <2>2, <3>1, <3>2, <3>3, <3>4, <4>1 DEF Holds, Serving
        <3>5. CASE d # c
            <4>1. Holds(d, r)' <=> Holds(d, r)
                BY <2>2, <3>5 DEF Holds, CallInv
            <4>. QED
                BY <3>1, <3>2, <3>3, <3>5, <4>1
        <3>. QED
            BY <3>4, <3>5
    <2>. QED
        BY <1>1, <2>1, <2>2
<1>5. ASSUME NEW c \in Client,
             RefuseEarly(c) \/ Disconnect(c) \/ ForwardTimeout(c) \/ NoAuthority(c)
                 \/ StoreAnswer(c)
      PROVE  LocksMatch'
    BY <1>1, <1>5 DEF RefuseEarly, Disconnect, ForwardTimeout, NoAuthority, StoreAnswer
<1>6. ASSUME NEW c \in Client, Lease(c) \/ CommitFails(c) \/ Remember(c) \/ Commit(c)
      PROVE  LocksMatch'
    BY <1>6, ServiceLocks
       DEF Lease, CommitFails, Remember, Commit, Serving, CallInv, durable
<1>7. ASSUME NEW c \in Client, Forward(c) PROVE LocksMatch'
    <2> SUFFICES ASSUME NEW d \in Client, NEW r \in Process
                 PROVE  lock'[r] = d <=> Holds(d, r)'
        BY DEF LocksMatch
    <2>1. lock' = lock /\ origin' = origin /\ (lock[r] = d <=> Holds(d, r))
        BY <1>7 DEF Forward, LocksMatch
    <2>2. CASE d = c
        <3>1. /\ pc[c] = "checked" /\ at[c] = origin[c]
              /\ pc'[c] = "queued" /\ at'[c] # origin[c]
            BY <1>7 DEF Forward, CallInv
        <3>. QED
            BY <2>1, <2>2, <3>1 DEF Holds, Serving
    <2>3. CASE d # c
        BY <1>7, <2>1, <2>3 DEF Forward, Holds, CallInv
    <2>. QED
        BY <2>2, <2>3
<1>8. ASSUME NEW c \in Client, Refuse(c) PROVE LocksMatch'
    <2>1. CASE pc' = [pc EXCEPT ![c] = "refused"] /\ UNCHANGED <<lock, origin, at>>
        BY <1>8, <2>1, ServiceLocks DEF Refuse, Serving, CallInv
    <2>. QED
        BY <1>1, <1>8, <2>1 DEF Refuse
<1>9. ASSUME NEW c \in Client, Reconcile(c) PROVE LocksMatch'
    <2>1. CASE pc' = [pc EXCEPT ![c] = "replying"] /\ UNCHANGED <<lock, origin, at>>
        BY <1>9, <2>1, ServiceLocks DEF Reconcile, Serving, CallInv
    <2>. QED
        BY <1>1, <1>9, <2>1 DEF Reconcile
<1>10. ASSUME NEW x \in Room, Expire(x) PROVE LocksMatch'
    BY <1>10, ServiceLocks DEF Expire, Serving
<1>11. ASSUME NEW p \in Process, DropCache(p) PROVE LocksMatch'
    BY <1>11, ServiceLocks DEF DropCache, request
<1>12. ASSUME NEW i \in Intent, Purge(i) PROVE LocksMatch'
    BY <1>12, ServiceLocks DEF Purge, request
<1>13. ASSUME NEW p \in Process, Crash(p) PROVE LocksMatch'
    BY <1>13, CrashLocks
<1>. QED
    BY <1>2, <1>3, <1>4, <1>5, <1>6, <1>7, <1>8, <1>9, <1>10, <1>11, <1>12, <1>13
       DEF Next, Serve

LEMMA LocksAlways == Spec => [](CallInv /\ LocksMatch)
<1>1. Init => IntentInv /\ LocksMatch
    <2> SUFFICES ASSUME Init PROVE LocksMatch
        BY IntentInvInit
    <2>. QED
        BY IntentsAssumption DEF Init, LocksMatch, Holds, Serving
<1>2. IntentInv /\ LocksMatch /\ [Next]_vars => LocksMatch'
    BY LocksStep DEF IntentInv
<1>3. IntentInv => CallInv
    BY DEF IntentInv
<1>. QED
    BY <1>1, <1>2, <1>3, IntentInvAlways, PTL DEF Spec

\* The command lock of a process admits one command, and a process that waits
\* for one it has forwarded serves no other meanwhile: canonical_command_lock
\* in command_with_forwarding.
THEOREM OneCommand == Spec => []OneCommandPerProcess
<1>1. CallInv /\ LocksMatch => OneCommandPerProcess
    BY DEF LocksMatch, OneCommandPerProcess
<1>. QED
    BY <1>1, LocksAlways, PTL

\* No lock outlives its request, and whoever holds one that a request waits for
\* is at work there or can give up: the safety half of EveryRequestEnds.
THEOREM LocksAreWorked == Spec => []WaitersAreWaitedFor
<1>1. ASSUME CallInv, LocksMatch PROVE WaitersAreWaitedFor
    <2> SUFFICES ASSUME NEW c \in Client, pc[c] = "queued", lock[at[c]] # Free
                 PROVE  \E d \in Client \ {c} :
                            /\ lock[at[c]] = d
                            /\ \/ pc[d] \in Serving /\ at[d] = at[c]
                               \/ pc[d] \in Serving \cup {"queued"} /\ at[d] # origin[d]
        BY DEF WaitersAreWaitedFor
    <2>1. at[c] \in Process /\ lock[at[c]] \in Client
        BY <1>1 DEF CallInv
    <2>2. Holds(lock[at[c]], at[c])
        BY <1>1, <2>1 DEF LocksMatch
    <2>3. lock[at[c]] # c
        BY <2>2 DEF Holds, Serving
    <2>4. pc[lock[at[c]]] \in Serving \cup {"idle", "queued"}
        BY <1>1, <2>1 DEF CallInv, Serving
    <2>. QED
        BY <2>1, <2>2, <2>3, <2>4 DEF Holds, Serving
<1>. QED
    BY <1>1, LocksAlways, PTL
=============================================================================
