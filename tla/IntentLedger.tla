----------------------------- MODULE IntentLedger -----------------------------
(***************************************************************************)
(* What the processes promise together to the senders of intents: one      *)
(* ledger, in which an intent is open, applied or answered.  It is applied *)
(* or refused only while it is open, and an answer stands until it is      *)
(* forgotten, which opens the intent again.  CommandIntents implements it  *)
(* with its processes, caches, locks, leases and forwarding hidden.        *)
(***************************************************************************)
EXTENDS Naturals, Sequences

CONSTANTS
    Client, Intent, Hash,   \* connections, intents, envelopes
    IntentOf, HashOf        \* what each connection asks for

VARIABLES
    entry,      \* the ledger, by intent
    effects,    \* the envelopes applied for each intent, in order
    forgotten,  \* the answers forgotten, by intent
    told        \* what each connection was last told

ledgerVars == <<entry, effects, forgotten, told>>

Open == [hash |-> "none", final |-> FALSE, answer |-> "none"]
Applied(h) == [hash |-> h, final |-> FALSE, answer |-> "ok"]
Answered(h, answer) == [hash |-> h, final |-> TRUE, answer |-> answer]

LedgerInit ==
    /\ entry = [i \in Intent |-> Open]
    /\ effects = [i \in Intent |-> <<>>]
    /\ forgotten = [i \in Intent |-> 0]
    /\ told = [c \in Client |-> "none"]

Apply(i, h) ==
    /\ entry[i] = Open
    /\ entry' = [entry EXCEPT ![i] = Applied(h)]
    /\ effects' = [effects EXCEPT ![i] = Append(@, h)]
    /\ forgotten' = forgotten

\* The intents of S lose their answers, whatever else a step does.
Without(S, e) ==
    /\ \A i \in S : entry[i].final
    /\ entry' = [i \in Intent |-> IF i \in S THEN Open ELSE e[i]]
    /\ forgotten' = [i \in Intent |-> IF i \in S THEN forgotten[i] + 1 ELSE forgotten[i]]
    /\ effects' = effects

\* What was applied is answered, or what is open is refused; a new answer may
\* displace older ones and never itself.
Answer(i, h, S) ==
    /\ i \notin S
    /\ \/ entry[i] = Applied(h) /\ Without(S, [entry EXCEPT ![i] = Answered(h, "ok")])
       \/ entry[i] = Open /\ Without(S, [entry EXCEPT ![i] = Answered(h, "refused")])

Forget(S) == Without(S, entry)

\* Nobody is told ok for an envelope that was not applied.
Truthful ==
    \A c \in Client : told'[c] = "ok" =>
        \/ told[c] = "ok"
        \/ \E n \in DOMAIN effects[IntentOf[c]] : effects[IntentOf[c]][n] = HashOf[c]

LedgerNext ==
    /\ \/ \E i \in Intent, h \in Hash : Apply(i, h)
       \/ \E i \in Intent, h \in Hash, S \in SUBSET Intent : Answer(i, h, S)
       \/ \E S \in SUBSET Intent : Forget(S)
    /\ Truthful

LedgerSpec == LedgerInit /\ [][LedgerNext]_ledgerVars
=============================================================================
