---------------------------- MODULE CommandIntents ----------------------------
(***************************************************************************)
(* The life of a client's command envelope                                 *)
(* (src/v2/orchestrator-rust/src/main.rs command_with_forwarding and       *)
(* canonical_journal.rs, the receipts): a process serves one command at a  *)
(* time under its command lock, answers an intent it or the shared store   *)
(* remembers, forwards one whose room another process leases, and          *)
(* otherwise executes it, commits a provisional receipt with the effect,   *)
(* and finalizes the receipt once the full answer is known.  The handler   *)
(* is dropped at an await when its caller goes away, and a process may     *)
(* stop anywhere.                                                          *)
(*                                                                         *)
(* A request is one connection; a retry of the same intent is another      *)
(* request, of the same client or of another one with the same envelope.   *)
(* The commit itself is CanonicalCommit's; here it is one step, and a      *)
(* lease is its owner alone.                                               *)
(***************************************************************************)
EXTENDS Naturals, Sequences

CONSTANTS
    Process,      \* orchestrator processes that route to each other
    Room,         \* room partitions
    Intent,       \* explicit intent ids (compat ones keep no receipt)
    Hash,         \* command_request_hash of an envelope
    Client,       \* connections
    IntentOf, HashOf,   \* what each client asks for
    RoomOf,       \* the partition an intent's actor stands in
    Nobody,       \* the owner of an absent or expired lease
    Gone,         \* the owner of a live lease whose process has restarted
    Free,         \* the holder of a command lock that is not held
    Capacity,     \* MAX_DURABLE_COMMAND_RECEIPT_ENTRIES
    MaxSends, MaxCrashes, MaxPurges   \* bounds of the model

ASSUME IntentsAssumption ==
    /\ IntentOf \in [Client -> Intent] /\ HashOf \in [Client -> Hash]
    /\ RoomOf \in [Intent -> Room]
    /\ "none" \notin Hash
    /\ {Nobody, Gone} \cap Process = {} /\ Nobody # Gone /\ Free \notin Client
    /\ Capacity \in Nat \ {0}
    /\ {MaxSends, MaxCrashes, MaxPurges} \subseteq Nat

VARIABLES
    owner,     \* canonical_partition_leases, by room
    receipts,  \* canonical_command_receipts, by intent
    recent,    \* the intents of the finalized rows, the newest first
    cache,     \* CommandReceiptCache of each process's runtime
    lock,      \* canonical_command_lock of each process
    pc,        \* where each request is
    origin,    \* the process the client called, Nobody when idle
    at,        \* the process that serves the request
    reply,     \* the answer under construction
    got,       \* the last answer the client received
    sends,     \* requests each client has made
    crashes,
    purged,    \* history: receipts of an intent that were removed
    effects    \* history: the envelopes whose effect was committed, by intent

durable == <<owner, receipts, recent, purged, effects>>
request == <<pc, origin, at, reply, got>>
vars == <<durable, cache, lock, request, sends, crashes>>

Answer == {"ok", "refused"}
NoReceipt == [hash |-> "none", final |-> FALSE, answer |-> "none"]
Provisional(h) == [hash |-> h, final |-> FALSE, answer |-> "ok"]
Final(h, answer) == [hash |-> h, final |-> TRUE, answer |-> answer]
Finals == {Final(h, answer) : h \in Hash, answer \in Answer}
Remembered == Finals \cup {NoReceipt}
Receipt == Remembered \cup {Provisional(h) : h \in Hash}

\* Type invariant: in particular what a process remembers is always an answer
\* that was complete, never a provisional row.
TypeOK ==
    /\ owner \in [Room -> Process \cup {Nobody, Gone}]
    /\ receipts \in [Intent -> Receipt]
    /\ recent \in Seq(Intent)
    /\ cache \in [Process -> [Intent -> Remembered]]
    /\ lock \in [Process -> Client \cup {Free}]
    /\ pc \in [Client -> {"idle", "queued", "checked", "leased", "fenced",
                          "refused", "failed", "replying", "storing"}]
    /\ origin \in [Client -> Process \cup {Nobody}]
    /\ at \in [Client -> Process \cup {Nobody}]
    /\ reply \in [Client -> Answer]
    /\ got \in [Client -> Answer \cup {"none", "conflict", "error"}]
    /\ sends \in [Client -> Nat] /\ crashes \in Nat
    /\ purged \in [Intent -> Nat] /\ effects \in [Intent -> Seq(Hash)]
-----------------------------------------------------------------------------
RoomOfClient(c) == RoomOf[IntentOf[c]]

\* The caller has its answer and every lock taken for it is released.
Finish(c, answer) ==
    /\ pc' = [pc EXCEPT ![c] = "idle"]
    /\ got' = [got EXCEPT ![c] = answer]
    /\ lock' = [p \in Process |-> IF lock[p] = c THEN Free ELSE lock[p]]
    /\ origin' = [origin EXCEPT ![c] = Nobody]
    /\ at' = [at EXCEPT ![c] = Nobody]
    /\ reply' = [reply EXCEPT ![c] = "ok"]
    /\ UNCHANGED sends

\* A provisional row is not visible.
Visible(i) == IF receipts[i].final THEN receipts[i] ELSE NoReceipt

\* Mutant: a remembered answer is returned whatever the envelope.
AnswerOfAny(c, row) == row.answer

\* A remembered answer is for one envelope only.
AnswerOf(c, row) == IF row.hash = HashOf[c] THEN row.answer ELSE "conflict"

\* Earlier commands may have left leases behind.
Init ==
    /\ owner \in [Room -> Process \cup {Nobody}]
    /\ receipts = [i \in Intent |-> NoReceipt]
    /\ recent = <<>>
    /\ cache = [p \in Process |-> [i \in Intent |-> NoReceipt]]
    /\ lock = [p \in Process |-> Free]
    /\ pc = [c \in Client |-> "idle"]
    /\ origin = [c \in Client |-> Nobody]
    /\ at = [c \in Client |-> Nobody]
    /\ reply = [c \in Client |-> "ok"]
    /\ got = [c \in Client |-> "none"]
    /\ sends = [c \in Client |-> 0]
    /\ crashes = 0
    /\ purged = [i \in Intent |-> 0]
    /\ effects = [i \in Intent |-> <<>>]

Send(c, p) ==
    /\ pc[c] = "idle" /\ sends[c] < MaxSends
    /\ pc' = [pc EXCEPT ![c] = "queued"]
    /\ origin' = [origin EXCEPT ![c] = p]
    /\ at' = [at EXCEPT ![c] = p]
    /\ got' = [got EXCEPT ![c] = "none"]
    /\ sends' = [sends EXCEPT ![c] = @ + 1]
    /\ UNCHANGED <<durable, cache, lock, reply, crashes>>

\* The command lock is taken and the intent is looked up in the cache, then in
\* the store.  A store that cannot be read counts as a miss.
Enter(c) ==
    LET i == IntentOf[c] IN
    /\ pc[c] = "queued" /\ lock[at[c]] = Free
    /\ \E readable \in BOOLEAN :
        LET row == IF cache[at[c]][i] # NoReceipt THEN cache[at[c]][i]
                   ELSE IF readable THEN Visible(i) ELSE NoReceipt IN
        IF row # NoReceipt THEN Finish(c, AnswerOf(c, row))
        ELSE /\ lock' = [lock EXCEPT ![at[c]] = c]
             /\ pc' = [pc EXCEPT ![c] = "checked"]
             /\ UNCHANGED <<origin, at, reply, got, sends>>
    /\ UNCHANGED <<durable, cache, crashes>>

\* The command is refused before anything is leased or stored: the catch-up
\* with the store failed before the lock was asked for, or under the lock the
\* envelope, the session or an observed version does not fit the world.
RefuseEarly(c) ==
    /\ pc[c] \in {"queued", "checked"}
    /\ Finish(c, "error")
    /\ UNCHANGED <<durable, cache, crashes>>

Lease(c) ==
    /\ pc[c] = "checked" /\ owner[RoomOfClient(c)] \in {Nobody, at[c]}
    /\ owner' = [owner EXCEPT ![RoomOfClient(c)] = at[c]]
    /\ pc' = [pc EXCEPT ![c] = "leased"]
    /\ UNCHANGED <<receipts, recent, purged, effects, cache, lock, origin, at,
                   reply, got, sends, crashes>>

\* The room's owner is asked, once: it may not forward again.  The lock of the
\* first process stays taken.
Forward(c) ==
    /\ pc[c] = "checked" /\ at[c] = origin[c]
    /\ owner[RoomOfClient(c)] \in Process \ {at[c]}
    /\ at' = [at EXCEPT ![c] = owner[RoomOfClient(c)]]
    /\ pc' = [pc EXCEPT ![c] = "queued"]
    /\ UNCHANGED <<durable, cache, lock, origin, reply, got, sends, crashes>>

NoAuthority(c) ==
    /\ pc[c] = "checked" /\ owner[RoomOfClient(c)] \notin {Nobody, at[c]}
    /\ Finish(c, "error")
    /\ UNCHANGED <<durable, cache, crashes>>

\* Mutant: an earlier receipt does not stop the transaction.
CommitAgain(c) ==
    LET i == IntentOf[c] IN
    /\ pc[c] = "leased"
    /\ receipts' = [receipts EXCEPT ![i] = Provisional(HashOf[c])]
    /\ effects' = [effects EXCEPT ![i] = Append(@, HashOf[c])]
    /\ reply' = [reply EXCEPT ![c] = "ok"]
    /\ pc' = [pc EXCEPT ![c] = "replying"]
    /\ UNCHANGED <<owner, recent, purged, cache, lock, origin, at, got, sends, crashes>>

\* The effect and a provisional receipt are one transaction; the primary key
\* of the receipt stops a second one.
Commit(c) ==
    LET i == IntentOf[c] IN
    /\ pc[c] = "leased" /\ receipts[i] = NoReceipt
    /\ receipts' = [receipts EXCEPT ![i] = Provisional(HashOf[c])]
    /\ effects' = [effects EXCEPT ![i] = Append(@, HashOf[c])]
    /\ reply' = [reply EXCEPT ![c] = "ok"]
    /\ pc' = [pc EXCEPT ![c] = "replying"]
    /\ UNCHANGED <<owner, recent, purged, cache, lock, origin, at, got, sends, crashes>>

\* The domain says no before anything is committed.  A refused offer is
\* answered at once and not stored.
Refuse(c) ==
    /\ pc[c] \in {"leased", "fenced"}
    /\ \/ pc' = [pc EXCEPT ![c] = "refused"] /\ UNCHANGED <<lock, origin, at, reply, got, sends>>
       \/ Finish(c, "error")
    /\ UNCHANGED <<durable, cache, crashes>>

\* The transaction is rolled back, for a receipt that exists, a lease that was
\* lost or a store that failed; the rebuilt runtime remembers no receipts.
CommitFails(c) ==
    /\ pc[c] \in {"leased", "fenced"}
    /\ pc' = [pc EXCEPT ![c] = "failed"]
    /\ cache' = [cache EXCEPT ![at[c]] = [i \in Intent |-> NoReceipt]]
    /\ UNCHANGED <<durable, lock, origin, at, reply, got, sends, crashes>>

\* Nothing was committed here: the store is asked whether another process has
\* answered meanwhile.
Reconcile(c) ==
    /\ pc[c] \in {"refused", "failed"}
    /\ \E readable \in BOOLEAN :
        LET row == IF readable THEN Visible(IntentOf[c]) ELSE NoReceipt IN
        IF row # NoReceipt THEN Finish(c, AnswerOf(c, row))
        ELSE IF pc[c] = "failed" THEN Finish(c, "error")
        ELSE /\ pc' = [pc EXCEPT ![c] = "replying"]
             /\ reply' = [reply EXCEPT ![c] = "refused"]
             /\ UNCHANGED <<lock, origin, at, got, sends>>
    /\ UNCHANGED <<durable, cache, crashes>>

Remember(c) ==
    /\ pc[c] = "replying"
    /\ cache' = [cache EXCEPT ![at[c]][IntentOf[c]] = Final(HashOf[c], reply[c])]
    /\ pc' = [pc EXCEPT ![c] = "storing"]
    /\ UNCHANGED <<durable, lock, origin, at, reply, got, sends, crashes>>

\* Mutants: a refusal replaces whatever row there is; every answer that is
\* inserted is left provisional.
WrittenOver(c) == Final(HashOf[c], reply[c])
WrittenProvisional(c) ==
    LET row == receipts[IntentOf[c]] IN
    IF row = NoReceipt THEN [hash |-> HashOf[c], final |-> FALSE, answer |-> reply[c]]
    ELSE row

\* A committed command updates its own row; any other inserts one unless one
\* exists.
Written(c) ==
    LET row == receipts[IntentOf[c]] IN
    IF reply[c] = "ok"
    THEN IF row # NoReceipt /\ row.hash = HashOf[c]
         THEN Final(row.hash, "ok") ELSE row
    ELSE IF row = NoReceipt THEN Final(HashOf[c], "refused") ELSE row

\* The row of an intent leaves the order, in which it stands once at most.
Without(rows, i) ==
    IF \E n \in DOMAIN rows : rows[n] = i
    THEN LET n == CHOOSE n \in DOMAIN rows : rows[n] = i
         IN SubSeq(rows, 1, n - 1) \o SubSeq(rows, n + 1, Len(rows))
    ELSE rows

\* The intents of the finalized rows after a write, the newest first.
RecentAfter(c, row) ==
    LET i == IntentOf[c] IN
    IF row.final /\ row # receipts[i] THEN <<i>> \o Without(recent, i) ELSE recent

\* The complete answer is stored and the oldest receipts over capacity are
\* removed.  A failed write is logged and the answer is returned all the same.
StoreAnswer(c) ==
    /\ pc[c] = "storing"
    /\ \/ LET row    == Written(c)
              kept   == RecentAfter(c, row)
              pruned == {kept[n] : n \in (Capacity + 1) .. Len(kept)} IN
          /\ recent' = SubSeq(kept, 1, IF Len(kept) < Capacity THEN Len(kept) ELSE Capacity)
          /\ receipts' = [i \in Intent |->
                 IF i \in pruned THEN NoReceipt
                 ELSE IF i = IntentOf[c] THEN row ELSE receipts[i]]
          /\ purged' = [i \in Intent |-> IF i \in pruned THEN purged[i] + 1 ELSE purged[i]]
       \/ UNCHANGED <<receipts, recent, purged>>
    /\ Finish(c, reply[c])
    /\ UNCHANGED <<owner, effects, cache, crashes>>

\* At an await of the handler its future can be dropped.
Cancellable(c) ==
    pc[c] \in {"queued", "checked", "leased", "fenced", "refused", "failed", "replying"}

\* The client hangs up: its handler, and the one it was forwarded to, are
\* dropped where they are.
Disconnect(c) ==
    /\ Cancellable(c)
    /\ Finish(c, "none")
    /\ UNCHANGED <<durable, cache, crashes>>

\* Mutant: the forwarding process waits for as long as it takes.
ForwardWaits(c) == FALSE

\* The forwarding process gives up after ten seconds and drops the connection.
ForwardTimeout(c) ==
    /\ Cancellable(c) /\ at[c] # origin[c]
    /\ Finish(c, "error")
    /\ UNCHANGED <<durable, cache, crashes>>

\* A lease runs out; a command that holds it will not pass the fence.
Expire(x) ==
    /\ owner[x] # Nobody
    /\ owner' = [owner EXCEPT ![x] = Nobody]
    /\ pc' = [c \in Client |->
                 IF pc[c] = "leased" /\ RoomOfClient(c) = x THEN "fenced" ELSE pc[c]]
    /\ UNCHANGED <<receipts, recent, purged, effects, cache, lock, origin, at,
                   reply, got, sends, crashes>>

\* The runtime is rebuilt after foreign commits and its cache is empty.
DropCache(p) ==
    /\ cache[p] # [i \in Intent |-> NoReceipt]
    /\ cache' = [cache EXCEPT ![p] = [i \in Intent |-> NoReceipt]]
    /\ UNCHANGED <<durable, lock, request, sends, crashes>>

\* Retention removes old finalized receipts; a provisional one is kept.
Purge(i) ==
    /\ receipts[i].final /\ purged[i] < MaxPurges
    /\ receipts' = [receipts EXCEPT ![i] = NoReceipt]
    /\ recent' = Without(recent, i)
    /\ purged' = [purged EXCEPT ![i] = @ + 1]
    /\ UNCHANGED <<owner, effects, cache, lock, request, sends, crashes>>

\* The process stops and boots under a new owner id.  A forwarded request that
\* is being stored elsewhere is taken to finish first.
Crash(p) ==
    LET hit == {c \in Client : pc[c] # "idle" /\ p \in {origin[c], at[c]}} IN
    /\ crashes < MaxCrashes
    /\ \A c \in hit : at[c] # p => pc[c] # "storing"
    /\ crashes' = crashes + 1
    /\ pc' = [c \in Client |-> IF c \in hit THEN "idle"
                               ELSE IF pc[c] = "leased" /\ owner[RoomOfClient(c)] = p
                                    THEN "fenced" ELSE pc[c]]
    /\ got' = [c \in Client |-> IF c \notin hit THEN got[c]
                                ELSE IF origin[c] = p THEN "none" ELSE "error"]
    /\ lock' = [q \in Process |-> IF q = p \/ lock[q] \in hit THEN Free ELSE lock[q]]
    /\ owner' = [x \in Room |-> IF owner[x] = p THEN Gone ELSE owner[x]]
    /\ cache' = [cache EXCEPT ![p] = [i \in Intent |-> NoReceipt]]
    /\ origin' = [c \in Client |-> IF c \in hit THEN Nobody ELSE origin[c]]
    /\ at' = [c \in Client |-> IF c \in hit THEN Nobody ELSE at[c]]
    /\ reply' = [c \in Client |-> IF c \in hit THEN "ok" ELSE reply[c]]
    /\ UNCHANGED <<receipts, recent, purged, effects, sends>>

Serve(c) ==
    \/ Lease(c) \/ Forward(c) \/ NoAuthority(c)
    \/ Commit(c) \/ Refuse(c) \/ CommitFails(c) \/ Reconcile(c)
    \/ Remember(c) \/ StoreAnswer(c)

\* What a request does by itself: a free lock is granted, the handler runs on
\* until its next answer, and the forwarding client's timer fires.
GoesOn(c) == Enter(c) \/ Serve(c) \/ ForwardTimeout(c)

Next ==
    \/ \E c \in Client :
        \/ \E p \in Process : Send(c, p)
        \/ Enter(c) \/ RefuseEarly(c) \/ Serve(c)
        \/ Disconnect(c) \/ ForwardTimeout(c)
    \/ \E x \in Room : Expire(x)
    \/ \E p \in Process : DropCache(p) \/ Crash(p)
    \/ \E i \in Intent : Purge(i)

Spec == Init /\ [][Next]_vars

-----------------------------------------------------------------------------
\* An intent takes effect once, however often, where and under which envelope
\* it is retried, as long as its receipt is kept: every further effect follows
\* the removal of a finalized receipt.
EffectOnce == \A i \in Intent : Len(effects[i]) <= purged[i] + 1

\* A client is told "ok" only for an envelope whose effect was committed: an
\* intent bound to another envelope never answers for this one.
OkMeansEffect ==
    \A c \in Client : got[c] = "ok" =>
        \E n \in DOMAIN effects[IntentOf[c]] : effects[IntentOf[c]][n] = HashOf[c]

\* A finalized answer is the last word on its intent: it never turns into
\* another one, it can only be removed.
FinalAnswersStand ==
    [][\A i \in Intent :
          receipts[i].final => receipts'[i] \in {receipts[i], NoReceipt}]_vars

\* A stored refusal and a committed effect exclude each other: the effects of
\* an intent whose receipt is a refusal all precede a removed receipt.
RefusalMeansNoEffect ==
    \A i \in Intent :
        receipts[i].final /\ receipts[i].answer = "refused" =>
            Len(effects[i]) <= purged[i]

\* The processes implement one ledger: whichever of them serves an intent, and
\* whatever they cache, forward, drop or restart, it is applied or refused only
\* while its intent is open, and an answer stands until it is removed.
ledger == INSTANCE IntentLedger
          WITH entry <- receipts, forgotten <- purged, told <- got
OneLedger == ledger!LedgerSpec

\* Every request ends: two processes that forward to each other while each
\* keeps its own lock do not wait for ever.
EveryRequestEnds == \A c \in Client : pc[c] # "idle" ~> pc[c] = "idle"

\* "A response lost after append can therefore be recovered from the receipt":
\* an effect that is committed, whose command is no longer running, has a
\* receipt that a retry can read.
LostResponseIsRecoverable ==
    \A i \in Intent :
        Len(effects[i]) > purged[i] /\ (\A c \in Client : IntentOf[c] = i => pc[c] = "idle")
            => Visible(i).final
=============================================================================
