------------------------------- MODULE ActorJobs -------------------------------
(***************************************************************************)
(* The outbox of resident heartbeats                                       *)
(* (src/v2/orchestrator-rust/src/actor_jobs.rs, the player-tick worker and *)
(* complete_player_tick_* of main.rs).  A card that commits arms one job   *)
(* of its room in the same transaction.  The worker of each process        *)
(* selects a job and claims it with a compare-and-set that takes a lease   *)
(* and counts an attempt, lets the residents react under the runtime lock, *)
(* and leaves the spoken reply, which waits for a model's answer, to a     *)
(* task of its own.  The attempt is settled by its job's id alone.         *)
(*                                                                         *)
(* Modelled: the heartbeats without a relationship reply, whose payload    *)
(* parses.  A commit is one step under the runtime lock, of a world that   *)
(* has taken in the other processes' commits; CanonicalCommit has the      *)
(* rest.  A time in the store is what the code compares it with:           *)
(* lease_until_ms is live or lapsed, available_at_ms has come or not.      *)
(***************************************************************************)
EXTENDS Naturals, FiniteSets

CONSTANTS
    Worker,       \* the player-tick worker of each process on the store
    Job,          \* row ids in insertion order, which is source_tick order
    Actor, Room,
    MaxAttempts,  \* ACTOR_JOB_MAX_ATTEMPTS
    Prompt,       \* whether every attempt ends within its lease of 120 s
    MaxClaims, MaxFailures   \* bounds of the model

ASSUME JobsAssumption ==
    /\ Job \subseteq Nat \ {0}
    /\ MaxAttempts \in Nat \ {0}
    /\ Prompt \in BOOLEAN
    /\ {MaxClaims, MaxFailures} \subseteq Nat

VARIABLES
    row,      \* actor_jobs, by id
    chosen,   \* what each worker's SELECT returned, until its UPDATE
    tasks,    \* the attempts at work, in a worker's loop or spawned by it
    effects,  \* history: what was committed on account of each job
    failures  \* processes stopped and writes to the store that failed

vars == <<row, chosen, tasks, effects, failures>>

Blank == [status |-> "absent", actor |-> "none", room |-> "none",
          attempts |-> 0, lease |-> "none", due |-> 0, ready |-> FALSE]
Nothing == [job |-> 0, row |-> Blank]
None == [ripples |-> 0, turns |-> 0, replies |-> 0]

\* due stands for the value of available_at_ms, which every settlement that
\* retries sets anew; ready, whether that time has come.
Row == [status : {"absent", "pending", "running", "completed", "dead"},
        actor : Actor \cup {"none"}, room : Room \cup {"none"},
        attempts : Nat, lease : {"none", "live", "lapsed"},
        due : Nat, ready : BOOLEAN]
Task == [job : Job, n : Nat, at : Worker, inline : BOOLEAN,
         stage : {"observe", "act", "say", "narrate", "done", "failed"}]

\* Type invariant; a lease belongs to a running row and to no other.
TypeOK ==
    /\ row \in [Job -> Row]
    /\ chosen \in [Worker -> {Nothing} \cup [job : Job, row : Row]]
    /\ tasks \subseteq Task
    /\ effects \in [Job -> [ripples : Nat, turns : Nat, replies : Nat]]
    /\ failures \in Nat
    /\ \A j \in Job : row[j].lease # "none" <=> row[j].status = "running"
-----------------------------------------------------------------------------
Active == {j \in Job : row[j].status \in {"pending", "running"}}

\* Mutant: only the heartbeats nobody works on hold a new one back.
ArmedIfIdle(r) == \E j \in Active : row[j].room = r /\ row[j].status = "pending"

\* insert_actor_job counts the room's pending and running heartbeats.
Armed(r) == \E j \in Active : row[j].room = r

\* Mutant: a job whose worker is gone is not taken over.
Waiting(j) == row[j].status = "pending" /\ row[j].ready

Claimable(j) ==
    \/ row[j].status = "pending" /\ row[j].ready
    \/ row[j].status = "running" /\ row[j].lease = "lapsed"

\* A live attempt for the same actor keeps the actor's other jobs back.
Eligible(j) ==
    /\ Claimable(j)
    /\ \A k \in Job \ {j} : ~ /\ row[k].actor = row[j].actor
                              /\ row[k].status = "running"
                              /\ row[k].lease = "live"

Busy(w) == \E t \in tasks : t.at = w /\ t.inline

\* Mutant: the UPDATE names the row and does not compare it.
AnyRow(w) == chosen[w] # Nothing

\* The UPDATE compares everything that the SELECT based its choice on.
Unchanged(w) == chosen[w] # Nothing /\ row[chosen[w].job] = chosen[w].row

\* Mutant: only speech counts as an answer.
Spoken(j) == effects[j].replies > 0

\* player_tick_already_has_autonomous_result: an event caused by the card.
Answered(j) == effects[j].ripples + effects[j].turns + effects[j].replies > 0

Fail == failures < MaxFailures /\ failures' = failures + 1

Init ==
    /\ row = [j \in Job |-> Blank]
    /\ chosen = [w \in Worker |-> Nothing]
    /\ tasks = {}
    /\ effects = [j \in Job |-> None]
    /\ failures = 0

\* A card of the actor commits in a room whose heartbeat is not armed; a card
\* in any other room leaves no row.
Enqueue(j) ==
    /\ row[j].status = "absent"
    /\ \A k \in Job : k < j => row[k].status # "absent"
    /\ \E a \in Actor, r \in Room :
        /\ ~Armed(r)
        /\ row' = [row EXCEPT ![j] = [Blank EXCEPT !.status = "pending",
                                                   !.actor = a, !.room = r]]
    /\ UNCHANGED <<chosen, tasks, effects, failures>>

\* The first half of claim_next_actor_job_filtered.
Select(w) ==
    /\ chosen[w] = Nothing /\ ~Busy(w)
    /\ \E j \in Job :
        /\ Eligible(j)
        /\ \A k \in Job : Eligible(k) => j <= k
        /\ chosen' = [chosen EXCEPT ![w] = [job |-> j, row |-> row[j]]]
    /\ UNCHANGED <<row, tasks, effects, failures>>

Claimed(r, n) == [r EXCEPT !.status = "running", !.attempts = n, !.lease = "live"]

\* What the worker's loop makes of the job that a claim returns.
Attempt(j, n, w) ==
    [job |-> j, n |-> n, at |-> w, inline |-> TRUE, stage |-> "observe"]

\* The second half, without a transaction around the two.
Claim(w) ==
    /\ Unchanged(w)
    /\ chosen[w].row.attempts < MaxClaims
    /\ row' = [row EXCEPT ![chosen[w].job] = Claimed(@, chosen[w].row.attempts + 1)]
    /\ tasks' = tasks \cup {Attempt(chosen[w].job, chosen[w].row.attempts + 1, w)}
    /\ chosen' = [chosen EXCEPT ![w] = Nothing]
    /\ UNCHANGED <<effects, failures>>

\* The row has changed since it was selected, or the store fails.
LoseClaim(w) ==
    /\ chosen[w] # Nothing
    /\ \/ ~Unchanged(w) /\ UNCHANGED failures
       \/ Fail
    /\ chosen' = [chosen EXCEPT ![w] = Nothing]
    /\ UNCHANGED <<row, tasks, effects>>
-----------------------------------------------------------------------------
Continue(t, stage, inline) ==
    tasks' = (tasks \ {t}) \cup {[t EXCEPT !.stage = stage, !.inline = inline]}

\* complete_player_tick_observation, in the worker's loop and under the
\* runtime lock: a card that has been answered is left alone; otherwise a
\* resident's consequence of the card is committed or there is none, and a
\* reply is planned or not.  A reply is spawned.
Observe(t) ==
    /\ t.stage = "observe"
    /\ IF Answered(t.job)
       THEN Continue(t, "done", TRUE) /\ UNCHANGED effects
       ELSE \/ /\ effects' \in {effects, [effects EXCEPT ![t.job].ripples = @ + 1]}
               /\ Continue(t, "act", FALSE) \/ Continue(t, "done", TRUE)
            \/ Continue(t, "failed", TRUE) /\ UNCHANGED effects
    /\ UNCHANGED <<row, chosen, failures>>

\* commit_resident_card_policy_turn: no turn, one that is to be narrated, or
\* an error, which may come after cards were drawn.
Act(t) ==
    /\ t.stage = "act"
    /\ \/ Continue(t, "say", FALSE) /\ UNCHANGED effects
       \/ Continue(t, "failed", FALSE) /\ UNCHANGED effects
       \/ /\ effects' = [effects EXCEPT ![t.job].turns = @ + 1]
          /\ Continue(t, "narrate", FALSE) \/ Continue(t, "failed", FALSE)
    /\ UNCHANGED <<row, chosen, failures>>

\* The model has answered: the line is committed, with no second look at
\* what else the card has led to, or it is refused and the attempt counts as
\* done.  Without an answer the attempt fails, unless it acted: its action is
\* then narrated by an authored line or not at all.
Reply(t) ==
    /\ t.stage \in {"say", "narrate"}
    /\ \/ /\ effects' = [effects EXCEPT ![t.job].replies = @ + 1]
          /\ Continue(t, "done", FALSE)
       \/ Continue(t, "done", FALSE) /\ UNCHANGED effects
       \/ t.stage = "say" /\ Continue(t, "failed", FALSE) /\ UNCHANGED effects
    /\ UNCHANGED <<row, chosen, failures>>

\* Mutant: a retry keeps the lease it was claimed with.
RetriedWithLease(r) == [r EXCEPT !.status = "pending", !.due = @ + 1, !.ready = FALSE]

\* fail_or_retry_actor_job, of an attempt within its budget
Retried(r) ==
    [r EXCEPT !.status = "pending", !.lease = "none", !.due = @ + 1, !.ready = FALSE]

\* complete_actor_job and the terminal case of fail_or_retry_actor_job
Ended(r, status) == [r EXCEPT !.status = status, !.lease = "none"]

\* The write names the job and not the attempt.
Settle(t) ==
    /\ t.stage \in {"done", "failed"}
    /\ row' = [row EXCEPT ![t.job] =
                 IF t.stage = "done" THEN Ended(@, "completed")
                 ELSE IF t.n >= MaxAttempts THEN Ended(@, "dead")
                 ELSE Retried(@)]
    /\ tasks' = tasks \ {t}
    /\ UNCHANGED <<chosen, effects, failures>>

\* The write fails, which is only logged.
SettleFails(t) ==
    /\ t.stage \in {"done", "failed"}
    /\ Fail
    /\ tasks' = tasks \ {t}
    /\ UNCHANGED <<row, chosen, effects>>

\* available_at_ms comes.
Wake(j) ==
    /\ row[j].status = "pending" /\ ~row[j].ready
    /\ row' = [row EXCEPT ![j].ready = TRUE]
    /\ UNCHANGED <<chosen, tasks, effects, failures>>

\* lease_until_ms passes; a prompt attempt is over by then.
Lapse(j) ==
    /\ row[j].status = "running" /\ row[j].lease = "live"
    /\ Prompt => \A t \in tasks : t.job = j => t.n # row[j].attempts
    /\ row' = [row EXCEPT ![j].lease = "lapsed"]
    /\ UNCHANGED <<chosen, tasks, effects, failures>>

\* A process stops, with its worker and every reply it had spawned, and is
\* started again.
Crash(w) ==
    /\ Fail
    /\ chosen' = [chosen EXCEPT ![w] = Nothing]
    /\ tasks' = {t \in tasks : t.at # w}
    /\ UNCHANGED <<row, effects>>

Work(t) == Observe(t) \/ Act(t) \/ Reply(t) \/ Settle(t) \/ SettleFails(t)

Next ==
    \/ \E j \in Job : Enqueue(j) \/ Wake(j) \/ Lapse(j)
    \/ \E w \in Worker : Select(w) \/ Claim(w) \/ LoseClaim(w) \/ Crash(w)
    \/ \E t \in tasks : Work(t)

Spec == Init /\ [][Next]_vars

\* The worker's loop polls every two seconds, a model's answer is awaited
\* with a timeout, and clocks move; nothing makes a player play a card.
Fairness ==
    /\ \A w \in Worker : WF_vars(Select(w)) /\ WF_vars(Claim(w) \/ LoseClaim(w))
    /\ \A j \in Job : /\ WF_vars(Wake(j)) /\ WF_vars(Lapse(j))
                      /\ WF_vars(\E t \in tasks : t.job = j /\ Work(t))

-----------------------------------------------------------------------------
(* Properties.  All but TypeOK are about attempts that end within their    *)
(* leases (Prompt): the settlement does not look at the lease.             *)

\* Two attempts never work on one job, over any number of processes that
\* select the same row (the compare-and-set of claim_next_actor_job_filtered).
ClaimsAreExclusive == \A t, u \in tasks : t.job = u.job => t = u

\* "A room can have only one pending or running heartbeat, so rapid plays
\* coalesce rather than building a reply queue" (v2/README.md:564): in
\* particular no retry brings a job back beside its successor.
OneHeartbeatPerRoom ==
    \A j, k \in Active : row[j].room = row[k].room => j = k

\* A card is answered by one consequence, one turn and one line at most,
\* whatever attempt commits them and wherever a process stops
\* (complete_player_tick_observation looks for an earlier result).
AnsweredOnce ==
    \A j \in Job : /\ effects[j].ripples <= 1
                   /\ effects[j].turns <= 1
                   /\ effects[j].replies <= 1

\* A job that was completed or given up is never taken up again (the
\* settlement of an attempt overwrites whatever the row says).
SettledJobsRest ==
    [][\A j \in Job : row[j].status \in {"completed", "dead"} => row'[j] = row[j]]_vars

\* Every job that was armed is completed or given up, and its room is free
\* again: a stopped process and a lost settlement are made up for by a lease
\* that lapses (Fairness).
EveryJobSettles ==
    \A j \in Job : j \in Active ~> row[j].status \in {"completed", "dead"}
=============================================================================
