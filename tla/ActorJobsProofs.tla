--------------------------- MODULE ActorJobsProofs ---------------------------
(***************************************************************************)
(* Proofs about ActorJobs, for any number of workers, jobs and rooms: the  *)
(* types, and, if every attempt ends within its lease, exclusive claims,   *)
(* one heartbeat per room, one answer per card and settled jobs that rest. *)
(* Within their leases or not, attempts at a job differ in their numbers.  *)
(***************************************************************************)
EXTENDS ActorJobs, TLAPS

\* An attempt at work is the one its row was last claimed by.
AttemptsHoldTheirRows ==
    \A t \in tasks : /\ row[t.job].status = "running"
                     /\ row[t.job].lease = "live"
                     /\ row[t.job].attempts = t.n

\* What a SELECT returned was free to be claimed.
ChosenWereFree ==
    \A w \in Worker : chosen[w] # Nothing =>
        \/ chosen[w].row.status = "pending"
        \/ chosen[w].row.status = "running" /\ chosen[w].row.lease = "lapsed"

\* What an attempt has yet to do has not been done.
EffectsFollowStages ==
    \A t \in tasks :
        /\ t.stage \in {"act", "say"} => effects[t.job].turns = 0
        /\ t.stage \in {"act", "say", "narrate"} => effects[t.job].replies = 0

ClaimInv == ClaimsAreExclusive /\ AttemptsHoldTheirRows /\ ChosenWereFree

-----------------------------------------------------------------------------
(* Types.                                                                  *)

LEMMA InitTypes == Init => TypeOK
    BY JobsAssumption DEF Init, TypeOK, Row, Blank, Nothing, None

LEMMA TaskTypes ==
    ASSUME tasks \subseteq Task, NEW t \in tasks, NEW s, NEW b \in BOOLEAN,
           s \in {"observe", "act", "say", "narrate", "done", "failed"},
           Continue(t, s, b)
    PROVE  /\ tasks' \subseteq Task
           /\ \A u \in tasks' : \/ u \in tasks \ {t}
                                \/ /\ u.job = t.job /\ u.n = t.n /\ u.at = t.at
                                   /\ u.stage = s /\ u.inline = b
    BY DEF Continue, Task

\* What each statement makes of a row.
LEMMA ClaimedRow ==
    ASSUME NEW r \in Row, NEW n \in Nat
    PROVE  /\ Claimed(r, n) \in Row
           /\ Claimed(r, n).status = "running" /\ Claimed(r, n).lease = "live"
           /\ Claimed(r, n).attempts = n /\ Claimed(r, n).room = r.room
    BY DEF Row, Claimed

LEMMA RetriedRow ==
    ASSUME NEW r \in Row
    PROVE  /\ Retried(r) \in Row
           /\ Retried(r).lease = "none" /\ Retried(r).status = "pending"
           /\ Retried(r).room = r.room
<1>1. ASSUME NEW d \in Nat
      PROVE  [r EXCEPT !.status = "pending", !.lease = "none", !.due = d,
                       !.ready = FALSE] \in Row
    BY DEF Row
<1>2. r.due + 1 \in Nat
    BY DEF Row
<1>3. Retried(r) \in Row
    BY <1>1, <1>2 DEF Retried
<1>4. /\ Retried(r).lease = "none" /\ Retried(r).status = "pending"
      /\ Retried(r).room = r.room
    BY DEF Row, Retried
<1>. QED
    BY <1>3, <1>4

LEMMA EndedRow ==
    ASSUME NEW r \in Row, NEW s \in {"completed", "dead"}
    PROVE  /\ Ended(r, s) \in Row
           /\ Ended(r, s).lease = "none" /\ Ended(r, s).status = s
           /\ Ended(r, s).room = r.room
    BY DEF Row, Ended

LEMMA ClockedRow ==
    ASSUME NEW r \in Row
    PROVE  /\ [r EXCEPT !.ready = TRUE] \in Row
           /\ [r EXCEPT !.lease = "lapsed"] \in Row
    BY DEF Row

LEMMA EffectMoves ==
    ASSUME NEW e \in [ripples : Nat, turns : Nat, replies : Nat]
    PROVE  /\ [e EXCEPT !.ripples = @ + 1] \in [ripples : Nat, turns : Nat, replies : Nat]
           /\ [e EXCEPT !.turns = @ + 1] \in [ripples : Nat, turns : Nat, replies : Nat]
           /\ [e EXCEPT !.replies = @ + 1] \in [ripples : Nat, turns : Nat, replies : Nat]
    OBVIOUS

LEMMA EffectCounts ==
    ASSUME NEW e \in [ripples : Nat, turns : Nat, replies : Nat]
    PROVE  /\ LET f == [e EXCEPT !.ripples = @ + 1] IN
                  f.ripples = e.ripples + 1 /\ f.turns = e.turns /\ f.replies = e.replies
           /\ LET f == [e EXCEPT !.turns = @ + 1] IN
                  f.ripples = e.ripples /\ f.turns = e.turns + 1 /\ f.replies = e.replies
           /\ LET f == [e EXCEPT !.replies = @ + 1] IN
                  f.ripples = e.ripples /\ f.turns = e.turns /\ f.replies = e.replies + 1
    OBVIOUS

LEMMA StepTypes == TypeOK /\ [Next]_vars => TypeOK'
<1>. SUFFICES ASSUME TypeOK, [Next]_vars PROVE TypeOK'
    OBVIOUS
<1>. USE JobsAssumption
<1>1. ASSUME NEW j \in Job, Enqueue(j) PROVE TypeOK'
    <2>1. PICK a \in Actor, r \in Room :
              row' = [row EXCEPT ![j] = [Blank EXCEPT !.status = "pending",
                                                      !.actor = a, !.room = r]]
        BY <1>1 DEF Enqueue
    <2>2. [Blank EXCEPT !.status = "pending", !.actor = a, !.room = r] \in Row
        BY DEF Blank, Row
    <2>3. row' \in [Job -> Row]
        BY <2>1, <2>2 DEF TypeOK
    <2>4. \A k \in Job : row'[k].lease # "none" <=> row'[k].status = "running"
        BY <2>1 DEF TypeOK, Blank
    <2>. QED
        BY <1>1, <2>3, <2>4 DEF Enqueue, TypeOK
<1>2. ASSUME NEW j \in Job, Wake(j) PROVE TypeOK'
    <2>1. row' = [row EXCEPT ![j] = [row[j] EXCEPT !.ready = TRUE]]
        BY <1>2 DEF Wake
    <2>2. row' \in [Job -> Row]
        BY <2>1, ClockedRow DEF TypeOK
    <2>3. \A k \in Job : row'[k].lease # "none" <=> row'[k].status = "running"
        BY <2>1 DEF TypeOK, Row
    <2>. QED
        BY <1>2, <2>2, <2>3 DEF Wake, TypeOK
<1>3. ASSUME NEW j \in Job, Lapse(j) PROVE TypeOK'
    <2>1. row' = [row EXCEPT ![j] = [row[j] EXCEPT !.lease = "lapsed"]]
        BY <1>3 DEF Lapse
    <2>2. row' \in [Job -> Row]
        BY <2>1, ClockedRow DEF TypeOK
    <2>3. \A k \in Job : row'[k].lease # "none" <=> row'[k].status = "running"
        BY <1>3, <2>1 DEF Lapse, TypeOK, Row
    <2>. QED
        BY <1>3, <2>2, <2>3 DEF Lapse, TypeOK
<1>4. ASSUME NEW w \in Worker, Select(w) PROVE TypeOK'
    BY <1>4 DEF Select, TypeOK
<1>5. ASSUME NEW w \in Worker, Claim(w) PROVE TypeOK'
    <2>1. /\ chosen[w].job \in Job /\ chosen[w].row \in Row
          /\ row[chosen[w].job] = chosen[w].row
        BY <1>5 DEF Claim, Unchanged, TypeOK
    <2>2. chosen[w].row.attempts + 1 \in Nat
        BY <2>1 DEF Row
    <2>3. tasks' \subseteq Task
        <3>1. Attempt(chosen[w].job, chosen[w].row.attempts + 1, w) \in Task
            BY <2>1, <2>2 DEF Task, Attempt
        <3>. QED
            BY <1>5, <3>1 DEF Claim, TypeOK
    <2>7. /\ Claimed(row[chosen[w].job], chosen[w].row.attempts + 1) \in Row
          /\ Claimed(row[chosen[w].job], chosen[w].row.attempts + 1).status = "running"
          /\ Claimed(row[chosen[w].job], chosen[w].row.attempts + 1).lease = "live"
        <3>1. row[chosen[w].job] \in Row
            BY <2>1
        <3>. DEFINE n == chosen[w].row.attempts + 1
        <3>2. n \in Nat
            BY <2>2
        <3>. HIDE DEF n
        <3>3. /\ Claimed(row[chosen[w].job], n) \in Row
              /\ Claimed(row[chosen[w].job], n).status = "running"
              /\ Claimed(row[chosen[w].job], n).lease = "live"
            BY <3>1, <3>2, ClaimedRow
        <3>. QED
            BY <3>3 DEF n
    <2>4. row' \in [Job -> Row]
        BY <1>5, <2>7 DEF Claim, TypeOK
    <2>5. chosen' \in [Worker -> {Nothing} \cup [job : Job, row : Row]]
        BY <1>5 DEF Claim, TypeOK
    <2>6. \A j \in Job : row'[j].lease # "none" <=> row'[j].status = "running"
        BY <1>5, <2>1, <2>7 DEF Claim, TypeOK
    <2>. QED
        BY <1>5, <2>3, <2>4, <2>5, <2>6 DEF Claim, TypeOK
<1>6. ASSUME NEW w \in Worker, LoseClaim(w) PROVE TypeOK'
    BY <1>6 DEF LoseClaim, TypeOK, Fail
<1>7. ASSUME NEW w \in Worker, Crash(w) PROVE TypeOK'
    BY <1>7 DEF Crash, TypeOK, Fail
<1>8. ASSUME NEW t \in tasks, Observe(t) PROVE TypeOK'
    <2>1. tasks' \subseteq Task
        BY <1>8, TaskTypes DEF Observe, TypeOK
    <2>2. effects' \in [Job -> [ripples : Nat, turns : Nat, replies : Nat]]
        <3>1. t.job \in Job
            BY DEF TypeOK, Task
        <3>2. effects[t.job] \in [ripples : Nat, turns : Nat, replies : Nat]
            BY <3>1 DEF TypeOK
        <3>. QED
            BY <1>8, <3>1, <3>2, EffectMoves DEF Observe, TypeOK
    <2>. QED
        BY <1>8, <2>1, <2>2 DEF Observe, TypeOK
<1>9. ASSUME NEW t \in tasks, Act(t) PROVE TypeOK'
    <2>1. tasks' \subseteq Task
        BY <1>9, TaskTypes DEF Act, TypeOK
    <2>2. effects' \in [Job -> [ripples : Nat, turns : Nat, replies : Nat]]
        <3>1. t.job \in Job
            BY DEF TypeOK, Task
        <3>2. effects[t.job] \in [ripples : Nat, turns : Nat, replies : Nat]
            BY <3>1 DEF TypeOK
        <3>. QED
            BY <1>9, <3>1, <3>2, EffectMoves DEF Act, TypeOK
    <2>. QED
        BY <1>9, <2>1, <2>2 DEF Act, TypeOK
<1>10. ASSUME NEW t \in tasks, Reply(t) PROVE TypeOK'
    <2>1. tasks' \subseteq Task
        BY <1>10, TaskTypes DEF Reply, TypeOK
    <2>2. effects' \in [Job -> [ripples : Nat, turns : Nat, replies : Nat]]
        <3>1. t.job \in Job
            BY DEF TypeOK, Task
        <3>2. effects[t.job] \in [ripples : Nat, turns : Nat, replies : Nat]
            BY <3>1 DEF TypeOK
        <3>. QED
            BY <1>10, <3>1, <3>2, EffectMoves DEF Reply, TypeOK
    <2>. QED
        BY <1>10, <2>1, <2>2 DEF Reply, TypeOK
<1>11. ASSUME NEW t \in tasks, Settle(t) PROVE TypeOK'
    <2>1. t.job \in Job
        BY DEF TypeOK, Task
    <2>2. PICK r : /\ r \in {Ended(row[t.job], "completed"), Ended(row[t.job], "dead"),
                             Retried(row[t.job])}
                   /\ row' = [row EXCEPT ![t.job] = r]
        BY <1>11, <2>1 DEF Settle, TypeOK
    <2>3. r \in Row /\ r.lease = "none" /\ r.status # "running"
        <3>1. row[t.job] \in Row
            BY <2>1 DEF TypeOK
        <3>2. /\ \A s \in {"completed", "dead"} :
                     /\ Ended(row[t.job], s) \in Row
                     /\ Ended(row[t.job], s).lease = "none"
                     /\ Ended(row[t.job], s).status = s
              /\ Retried(row[t.job]) \in Row
              /\ Retried(row[t.job]).lease = "none"
              /\ Retried(row[t.job]).status = "pending"
            BY <3>1, EndedRow, RetriedRow
        <3>. QED
            BY <2>2, <3>2
    <2>4. row' \in [Job -> Row]
        BY <2>2, <2>3 DEF TypeOK
    <2>5. \A k \in Job : row'[k].lease # "none" <=> row'[k].status = "running"
        BY <2>1, <2>2, <2>3 DEF TypeOK
    <2>. QED
        BY <1>11, <2>4, <2>5 DEF Settle, TypeOK
<1>12. ASSUME NEW t \in tasks, SettleFails(t) PROVE TypeOK'
    BY <1>12 DEF SettleFails, TypeOK, Fail
<1>13. CASE UNCHANGED vars
    BY <1>13 DEF vars, TypeOK
<1>. QED
    BY <1>1, <1>2, <1>3, <1>4, <1>5, <1>6, <1>7, <1>8, <1>9, <1>10, <1>11, <1>12, <1>13
       DEF Next, Work

\* Every variable keeps its type, and a lease belongs to a running row (the
\* statements of actor_jobs.rs and complete_actor_job set both together).
THEOREM JobTypes == Spec => []TypeOK
<1>1. TypeOK /\ [Next]_vars => TypeOK'
    BY StepTypes
<1>. QED
    BY InitTypes, <1>1, PTL DEF Spec

-----------------------------------------------------------------------------
(* Claims.                                                                 *)

LEMMA InitClaims == Init => ClaimInv
    BY DEF Init, ClaimInv, ClaimsAreExclusive, AttemptsHoldTheirRows, ChosenWereFree

\* A step of one attempt that is not its end.
LEMMA ContinuedClaims ==
    ASSUME TypeOK, ClaimInv, NEW t \in tasks, NEW s, NEW b \in BOOLEAN,
           s \in {"observe", "act", "say", "narrate", "done", "failed"},
           Continue(t, s, b), UNCHANGED <<row, chosen>>
    PROVE  ClaimInv'
<1>1. \A u \in tasks' : \/ u \in tasks \ {t}
                        \/ /\ u.job = t.job /\ u.n = t.n /\ u.at = t.at
                           /\ u.stage = s /\ u.inline = b
    BY TaskTypes DEF TypeOK
<1>2. tasks' = (tasks \ {t}) \cup {[t EXCEPT !.stage = s, !.inline = b]}
    BY DEF Continue
<1>3. ClaimsAreExclusive'
    <2>. SUFFICES ASSUME NEW u \in tasks', NEW v \in tasks', u.job = v.job PROVE u = v
        BY DEF ClaimsAreExclusive
    <2>1. CASE u \in tasks \ {t} /\ v \in tasks \ {t}
        BY <2>1 DEF ClaimInv, ClaimsAreExclusive
    <2>2. CASE u \notin tasks \ {t} /\ v \notin tasks \ {t}
        BY <2>2, <1>2
    <2>3. CASE u \in tasks \ {t} /\ v \notin tasks \ {t}
        BY <2>3, <1>1 DEF ClaimInv, ClaimsAreExclusive
    <2>4. CASE u \notin tasks \ {t} /\ v \in tasks \ {t}
        BY <2>4, <1>1 DEF ClaimInv, ClaimsAreExclusive
    <2>. QED
        BY <2>1, <2>2, <2>3, <2>4
<1>4. AttemptsHoldTheirRows'
    BY <1>1 DEF ClaimInv, AttemptsHoldTheirRows
<1>5. ChosenWereFree'
    BY DEF ClaimInv, ChosenWereFree
<1>. QED
    BY <1>3, <1>4, <1>5 DEF ClaimInv

LEMMA StepClaims ==
    ASSUME Prompt, TypeOK, ClaimInv, [Next]_vars
    PROVE  ClaimInv'
<1>. USE DEF ClaimInv
<1>1. ASSUME NEW j \in Job, Enqueue(j) PROVE ClaimInv'
    <2>1. row[j].status = "absent" /\ \A k \in Job \ {j} : row'[k] = row[k]
        BY <1>1 DEF Enqueue, TypeOK
    <2>2. \A t \in tasks : t.job \in Job \ {j}
        BY <2>1 DEF AttemptsHoldTheirRows, TypeOK, Task
    <2>. QED
        BY <1>1, <2>1, <2>2
           DEF Enqueue, ClaimsAreExclusive, AttemptsHoldTheirRows, ChosenWereFree
<1>2. ASSUME NEW j \in Job, Wake(j) PROVE ClaimInv'
    <2>1. row[j].status = "pending" /\ \A k \in Job \ {j} : row'[k] = row[k]
        BY <1>2 DEF Wake, TypeOK
    <2>2. \A t \in tasks : t.job \in Job \ {j}
        BY <2>1 DEF AttemptsHoldTheirRows, TypeOK, Task
    <2>. QED
        BY <1>2, <2>1, <2>2
           DEF Wake, ClaimsAreExclusive, AttemptsHoldTheirRows, ChosenWereFree
<1>3. ASSUME NEW j \in Job, Lapse(j) PROVE ClaimInv'
    <2>1. /\ \A t \in tasks : t.job = j => t.n # row[j].attempts
          /\ \A k \in Job \ {j} : row'[k] = row[k]
        BY <1>3 DEF Lapse, TypeOK
    <2>2. \A t \in tasks : t.job \in Job \ {j}
        BY <2>1 DEF AttemptsHoldTheirRows, TypeOK, Task
    <2>. QED
        BY <1>3, <2>1, <2>2
           DEF Lapse, ClaimsAreExclusive, AttemptsHoldTheirRows, ChosenWereFree
<1>4. ASSUME NEW w \in Worker, Select(w) PROVE ClaimInv'
    <2>1. PICK j \in Job : /\ Claimable(j)
                           /\ chosen' = [chosen EXCEPT ![w] = [job |-> j, row |-> row[j]]]
        BY <1>4 DEF Select, Eligible
    <2>2. ChosenWereFree'
        BY <2>1 DEF ChosenWereFree, Claimable, TypeOK
    <2>. QED
        BY <1>4, <2>2 DEF Select, ClaimsAreExclusive, AttemptsHoldTheirRows
<1>5. ASSUME NEW w \in Worker, Claim(w) PROVE ClaimInv'
    <2>. DEFINE j == chosen[w].job
                n == chosen[w].row.attempts + 1
    <2>1. /\ j \in Job /\ chosen[w] # Nothing /\ chosen[w].row \in Row
          /\ row[j] = chosen[w].row /\ row[j] \in Row
        BY <1>5 DEF Claim, Unchanged, TypeOK
    <2>2. n \in Nat
        BY <2>1 DEF Row
    <2>3. ~(row[j].status = "running" /\ row[j].lease = "live")
        BY <2>1 DEF ChosenWereFree
    <2>4. \A t \in tasks : t.job # j
        BY <2>3 DEF AttemptsHoldTheirRows
    <2>5. /\ row' = [row EXCEPT ![j] = Claimed(row[j], n)]
          /\ tasks' = tasks \cup {Attempt(j, n, w)}
          /\ chosen' = [chosen EXCEPT ![w] = Nothing]
        BY <1>5 DEF Claim
    <2>. HIDE DEF j, n
    <2>6. Attempt(j, n, w).job = j /\ Attempt(j, n, w).n = n
        BY DEF Attempt
    <2>7. ClaimsAreExclusive'
        BY <2>4, <2>5, <2>6 DEF ClaimsAreExclusive
    <2>8. /\ Claimed(row[j], n).status = "running" /\ Claimed(row[j], n).lease = "live"
          /\ Claimed(row[j], n).attempts = n
        BY <2>1, <2>2, ClaimedRow
    <2>9. AttemptsHoldTheirRows'
        BY <2>1, <2>4, <2>5, <2>6, <2>8 DEF AttemptsHoldTheirRows, TypeOK, Task
    <2>10. ChosenWereFree'
        BY <2>5 DEF ChosenWereFree, TypeOK
    <2>. QED
        BY <2>7, <2>9, <2>10
<1>6. ASSUME NEW w \in Worker, LoseClaim(w) PROVE ClaimInv'
    BY <1>6 DEF LoseClaim, ClaimsAreExclusive, AttemptsHoldTheirRows, ChosenWereFree, TypeOK
<1>7. ASSUME NEW w \in Worker, Crash(w) PROVE ClaimInv'
    BY <1>7 DEF Crash, ClaimsAreExclusive, AttemptsHoldTheirRows, ChosenWereFree, TypeOK
<1>8. ASSUME NEW t \in tasks, Observe(t) PROVE ClaimInv'
    BY <1>8, ContinuedClaims DEF Observe
<1>9. ASSUME NEW t \in tasks, Act(t) PROVE ClaimInv'
    BY <1>9, ContinuedClaims DEF Act
<1>10. ASSUME NEW t \in tasks, Reply(t) PROVE ClaimInv'
    BY <1>10, ContinuedClaims DEF Reply
<1>11. ASSUME NEW t \in tasks, Settle(t) PROVE ClaimInv'
    <2>1. \A k \in Job \ {t.job} : row'[k] = row[k]
        BY <1>11 DEF Settle, TypeOK
    <2>2. \A u \in tasks \ {t} : u.job \in Job \ {t.job}
        BY DEF ClaimsAreExclusive, TypeOK, Task
    <2>. QED
        BY <1>11, <2>1, <2>2
           DEF Settle, ClaimsAreExclusive, AttemptsHoldTheirRows, ChosenWereFree
<1>12. ASSUME NEW t \in tasks, SettleFails(t) PROVE ClaimInv'
    BY <1>12 DEF SettleFails, ClaimsAreExclusive, AttemptsHoldTheirRows, ChosenWereFree
<1>13. CASE UNCHANGED vars
    BY <1>13 DEF vars, ClaimsAreExclusive, AttemptsHoldTheirRows, ChosenWereFree
<1>. QED
    BY <1>1, <1>2, <1>3, <1>4, <1>5, <1>6, <1>7, <1>8, <1>9, <1>10, <1>11, <1>12, <1>13
       DEF Next, Work

\* Two attempts never work on one job: the compare-and-set claims only what
\* no attempt holds (claim_next_actor_job_filtered).
THEOREM ExclusiveClaims ==
    ASSUME Prompt
    PROVE  Spec => []ClaimsAreExclusive
<1>1. TypeOK /\ ClaimInv /\ [Next]_vars => ClaimInv'
    BY StepClaims
<1>2. ClaimInv => ClaimsAreExclusive
    BY DEF ClaimInv
<1>. QED
    BY InitClaims, JobTypes, <1>1, <1>2, PTL DEF Spec

-----------------------------------------------------------------------------
(* Rooms and settled jobs.                                                 *)

\* Only a commit arms a heartbeat; every other step keeps or shrinks Active.
LEMMA ActiveMoves ==
    ASSUME TypeOK, ClaimInv, [Next]_vars, \A j \in Job : ~Enqueue(j)
    PROVE  /\ Active' \subseteq Active
           /\ \A j \in Active : row'[j].room = row[j].room
           /\ \A j \in Job : row[j].status \in {"completed", "dead"} => row'[j] = row[j]
<1>. DEFINE Goal == /\ Active' \subseteq Active
                    /\ \A j \in Active : row'[j].room = row[j].room
                    /\ \A j \in Job : row[j].status \in {"completed", "dead"}
                                      => row'[j] = row[j]
<1>0. ASSUME NEW k \in Active, NEW r \in Row, r.room = row[k].room,
             row' = [row EXCEPT ![k] = r]
      PROVE  Goal
    BY <1>0 DEF Active, TypeOK
<1>1. ASSUME NEW j \in Job, Wake(j) PROVE Goal
    <2>1. j \in Active /\ row[j] \in Row
        BY <1>1 DEF Wake, Active, TypeOK
    <2>2. [row[j] EXCEPT !.ready = TRUE] \in Row
        BY <2>1, ClockedRow
    <2>3. [row[j] EXCEPT !.ready = TRUE].room = row[j].room
        BY <2>1 DEF Row
    <2>4. row' = [row EXCEPT ![j] = [row[j] EXCEPT !.ready = TRUE]]
        BY <1>1 DEF Wake
    <2>. QED
        BY <1>0, <2>1, <2>2, <2>3, <2>4
<1>2. ASSUME NEW j \in Job, Lapse(j) PROVE Goal
    <2>1. j \in Active /\ row[j] \in Row
        BY <1>2 DEF Lapse, Active, TypeOK
    <2>2. [row[j] EXCEPT !.lease = "lapsed"] \in Row
        BY <2>1, ClockedRow
    <2>3. [row[j] EXCEPT !.lease = "lapsed"].room = row[j].room
        BY <2>1 DEF Row
    <2>4. row' = [row EXCEPT ![j] = [row[j] EXCEPT !.lease = "lapsed"]]
        BY <1>2 DEF Lapse
    <2>. QED
        BY <1>0, <2>1, <2>2, <2>3, <2>4
<1>3. ASSUME NEW w \in Worker, Claim(w) PROVE Goal
    <2>. DEFINE j == chosen[w].job
                n == chosen[w].row.attempts + 1
    <2>1. /\ j \in Job /\ chosen[w] # Nothing /\ chosen[w].row \in Row
          /\ row[j] = chosen[w].row /\ row[j] \in Row
        BY <1>3 DEF Claim, Unchanged, TypeOK
    <2>2. n \in Nat
        BY <2>1 DEF Row
    <2>3. j \in Active
        BY <2>1 DEF ClaimInv, ChosenWereFree, Active
    <2>4. row' = [row EXCEPT ![j] = Claimed(row[j], n)]
        BY <1>3 DEF Claim
    <2>. HIDE DEF j, n
    <2>5. Claimed(row[j], n) \in Row /\ Claimed(row[j], n).room = row[j].room
        BY <2>1, <2>2, ClaimedRow
    <2>. QED
        BY <1>0, <2>3, <2>4, <2>5
<1>4. ASSUME NEW t \in tasks, Settle(t) PROVE Goal
    <2>1. t.job \in Active /\ row[t.job] \in Row
        BY DEF ClaimInv, AttemptsHoldTheirRows, Active, TypeOK, Task
    <2>2. PICK r : /\ r \in {Ended(row[t.job], "completed"), Ended(row[t.job], "dead"),
                             Retried(row[t.job])}
                   /\ row' = [row EXCEPT ![t.job] = r]
        BY <1>4, <2>1 DEF Settle
    <2>3. r \in Row /\ r.room = row[t.job].room
        <3>1. /\ \A s \in {"completed", "dead"} :
                     /\ Ended(row[t.job], s) \in Row
                     /\ Ended(row[t.job], s).room = row[t.job].room
              /\ Retried(row[t.job]) \in Row
              /\ Retried(row[t.job]).room = row[t.job].room
            BY <2>1, EndedRow, RetriedRow
        <3>. QED
            BY <2>2, <3>1
    <2>. QED
        BY <1>0, <2>1, <2>2, <2>3
<1>5. CASE UNCHANGED row
    BY <1>5 DEF Active
<1>. QED
    BY <1>1, <1>2, <1>3, <1>4, <1>5
       DEF Next, Work, vars, Select, LoseClaim, Crash, Observe, Act, Reply, SettleFails

LEMMA StepRooms ==
    ASSUME TypeOK, ClaimInv, OneHeartbeatPerRoom, [Next]_vars
    PROVE  OneHeartbeatPerRoom'
<1>1. ASSUME NEW j \in Job, Enqueue(j) PROVE OneHeartbeatPerRoom'
    <2>1. PICK a \in Actor, r \in Room :
              /\ ~Armed(r)
              /\ row' = [row EXCEPT ![j] = [Blank EXCEPT !.status = "pending",
                                                         !.actor = a, !.room = r]]
        BY <1>1 DEF Enqueue
    <2>2. /\ row'[j].room = r
          /\ \A k \in Job \ {j} : row'[k] = row[k]
        BY <2>1 DEF TypeOK, Blank
    <2>3. \A k \in Active' \ {j} : k \in Active /\ row'[k].room # r
        BY <2>1, <2>2 DEF Active, Armed
    <2>. QED
        BY <2>2, <2>3 DEF OneHeartbeatPerRoom, Active
<1>2. ASSUME \A j \in Job : ~Enqueue(j) PROVE OneHeartbeatPerRoom'
    BY <1>2, ActiveMoves DEF OneHeartbeatPerRoom
<1>. QED
    BY <1>1, <1>2

LEMMA StepRests ==
    ASSUME TypeOK, ClaimInv, [Next]_vars
    PROVE  \A j \in Job : row[j].status \in {"completed", "dead"} => row'[j] = row[j]
<1>1. ASSUME NEW j \in Job, Enqueue(j)
      PROVE  \A k \in Job : row[k].status \in {"completed", "dead"} => row'[k] = row[k]
    BY <1>1 DEF Enqueue, TypeOK
<1>2. ASSUME \A j \in Job : ~Enqueue(j)
      PROVE  \A k \in Job : row[k].status \in {"completed", "dead"} => row'[k] = row[k]
    BY <1>2, ActiveMoves
<1>. QED
    BY <1>1, <1>2

\* A room has one pending or running heartbeat: a claim, a lapse and a retry
\* concern a job that is still its room's own (insert_actor_job).
THEOREM OneHeartbeat ==
    ASSUME Prompt
    PROVE  Spec => []OneHeartbeatPerRoom
<1>1. Init => OneHeartbeatPerRoom
    BY DEF Init, OneHeartbeatPerRoom, Active, Blank
<1>2. TypeOK /\ ClaimInv /\ [Next]_vars => ClaimInv'
    BY StepClaims
<1>3. TypeOK /\ ClaimInv /\ OneHeartbeatPerRoom /\ [Next]_vars => OneHeartbeatPerRoom'
    BY StepRooms
<1>. QED
    BY InitClaims, JobTypes, <1>1, <1>2, <1>3, PTL DEF Spec

\* A completed or dead job is never taken up again: whoever settles a job is
\* the attempt that its row was last claimed by (complete_actor_job and
\* fail_or_retry_actor_job name the job alone).
THEOREM SettledRest ==
    ASSUME Prompt
    PROVE  Spec => SettledJobsRest
<1>1. TypeOK /\ ClaimInv /\ [Next]_vars => ClaimInv'
    BY StepClaims
<1>2. TypeOK /\ ClaimInv /\ [Next]_vars =>
          [\A j \in Job : row[j].status \in {"completed", "dead"} => row'[j] = row[j]]_vars
    BY StepRests
<1>. QED
    BY InitClaims, JobTypes, <1>1, <1>2, PTL DEF Spec, SettledJobsRest

-----------------------------------------------------------------------------
(* Answers.                                                                *)

AnswerInv == AnsweredOnce /\ EffectsFollowStages

\* A step of one attempt may add to its job's effects and to no other's.
LEMMA ContinuedAnswers ==
    ASSUME TypeOK, TypeOK', ClaimInv, AnswerInv, NEW t \in tasks, NEW s,
           NEW b \in BOOLEAN, Continue(t, s, b),
           s \in {"observe", "act", "say", "narrate", "done", "failed"},
           \A j \in Job \ {t.job} : effects'[j] = effects[j],
           /\ effects'[t.job].ripples <= 1
           /\ effects'[t.job].turns <= 1
           /\ effects'[t.job].replies <= 1,
           s \in {"act", "say"} => effects'[t.job].turns = 0,
           s \in {"act", "say", "narrate"} => effects'[t.job].replies = 0
    PROVE  AnswerInv'
<1>1. \A u \in tasks' : \/ u \in tasks \ {t}
                        \/ u.job = t.job /\ u.stage = s
    BY TaskTypes DEF TypeOK
<1>2. \A u \in tasks \ {t} : u.job \in Job \ {t.job}
    BY DEF ClaimInv, ClaimsAreExclusive, TypeOK, Task
<1>3. EffectsFollowStages'
    BY <1>1, <1>2 DEF AnswerInv, EffectsFollowStages
<1>4. AnsweredOnce'
    BY DEF AnswerInv, AnsweredOnce
<1>. QED
    BY <1>3, <1>4 DEF AnswerInv

LEMMA StepAnswers ==
    ASSUME TypeOK, TypeOK', ClaimInv, AnswerInv, [Next]_vars
    PROVE  AnswerInv'
<1>0. ASSUME NEW t \in tasks
      PROVE  /\ t.job \in Job
             /\ effects[t.job] \in [ripples : Nat, turns : Nat, replies : Nat]
             /\ effects[t.job].ripples <= 1
             /\ effects[t.job].turns <= 1 /\ effects[t.job].replies <= 1
    BY DEF TypeOK, Task, AnswerInv, AnsweredOnce
<1>1. ASSUME NEW t \in tasks, Observe(t) PROVE AnswerInv'
    <2>1. CASE Answered(t.job)
        BY <1>0, <1>1, <2>1, ContinuedAnswers DEF Observe
    <2>2. CASE ~Answered(t.job)
        <3>1. effects[t.job].ripples = 0 /\ effects[t.job].turns = 0
              /\ effects[t.job].replies = 0
            BY <1>0, <2>2 DEF Answered
        <3>2. PICK s \in {"act", "done", "failed"}, b \in BOOLEAN : Continue(t, s, b)
            BY <1>1, <2>2 DEF Observe
        <3>3. /\ \A j \in Job \ {t.job} : effects'[j] = effects[j]
              /\ effects'[t.job].ripples <= 1
              /\ effects'[t.job].turns = 0 /\ effects'[t.job].replies = 0
            <4>1. CASE UNCHANGED effects
                BY <1>0, <3>1, <4>1
            <4>2. CASE effects' = [effects EXCEPT ![t.job].ripples = @ + 1]
                <5>1. effects'[t.job] = [effects[t.job] EXCEPT !.ripples = @ + 1]
                    BY <1>0, <4>2 DEF TypeOK
                <5>2. /\ effects'[t.job].ripples = effects[t.job].ripples + 1
                      /\ effects'[t.job].turns = effects[t.job].turns
                      /\ effects'[t.job].replies = effects[t.job].replies
                    BY <1>0, <5>1, EffectCounts
                <5>3. \A j \in Job \ {t.job} : effects'[j] = effects[j]
                    BY <4>2 DEF TypeOK
                <5>. QED
                    BY <3>1, <5>2, <5>3
            <4>. QED
                BY <1>1, <2>2, <4>1, <4>2 DEF Observe
        <3>. QED
            BY <3>2, <3>3, ContinuedAnswers
    <2>. QED
        BY <2>1, <2>2
<1>2. ASSUME NEW t \in tasks, Act(t) PROVE AnswerInv'
    <2>1. effects[t.job].turns = 0 /\ effects[t.job].replies = 0
        BY <1>2 DEF Act, AnswerInv, EffectsFollowStages
    <2>2. CASE UNCHANGED effects /\ (Continue(t, "say", FALSE) \/ Continue(t, "failed", FALSE))
        BY <1>0, <2>1, <2>2, ContinuedAnswers
    <2>3. CASE /\ effects' = [effects EXCEPT ![t.job].turns = @ + 1]
               /\ Continue(t, "narrate", FALSE) \/ Continue(t, "failed", FALSE)
        <3>1. /\ \A j \in Job \ {t.job} : effects'[j] = effects[j]
              /\ effects'[t.job].ripples <= 1
              /\ effects'[t.job].turns <= 1 /\ effects'[t.job].replies <= 1
              /\ effects'[t.job].replies = 0
            <4>1. effects'[t.job] = [effects[t.job] EXCEPT !.turns = @ + 1]
                BY <1>0, <2>3 DEF TypeOK
            <4>2. /\ effects'[t.job].ripples = effects[t.job].ripples
                  /\ effects'[t.job].replies = effects[t.job].replies
                  /\ effects'[t.job].turns = effects[t.job].turns + 1
                BY <1>0, <4>1, EffectCounts
            <4>3. \A j \in Job \ {t.job} : effects'[j] = effects[j]
                BY <2>3 DEF TypeOK
            <4>. QED
                BY <1>0, <2>1, <4>2, <4>3
        <3>2. PICK s \in {"narrate", "failed"} : Continue(t, s, FALSE)
            BY <2>3
        <3>. QED
            BY <3>1, <3>2, ContinuedAnswers
    <2>. QED
        BY <1>2, <2>2, <2>3 DEF Act
<1>3. ASSUME NEW t \in tasks, Reply(t) PROVE AnswerInv'
    <2>1. effects[t.job].replies = 0
        BY <1>3 DEF Reply, AnswerInv, EffectsFollowStages
    <2>2. CASE UNCHANGED effects /\ (Continue(t, "done", FALSE) \/ Continue(t, "failed", FALSE))
        BY <1>0, <2>2, ContinuedAnswers
    <2>3. CASE /\ effects' = [effects EXCEPT ![t.job].replies = @ + 1]
               /\ Continue(t, "done", FALSE)
        <3>1. /\ \A j \in Job \ {t.job} : effects'[j] = effects[j]
              /\ effects'[t.job].ripples <= 1
              /\ effects'[t.job].turns <= 1 /\ effects'[t.job].replies <= 1
            <4>1. effects'[t.job] = [effects[t.job] EXCEPT !.replies = @ + 1]
                BY <1>0, <2>3 DEF TypeOK
            <4>2. /\ effects'[t.job].ripples = effects[t.job].ripples
                  /\ effects'[t.job].turns = effects[t.job].turns
                  /\ effects'[t.job].replies = effects[t.job].replies + 1
                BY <1>0, <4>1, EffectCounts
            <4>3. \A j \in Job \ {t.job} : effects'[j] = effects[j]
                BY <2>3 DEF TypeOK
            <4>. QED
                BY <1>0, <2>1, <4>2, <4>3
        <3>2. Continue(t, "done", FALSE)
            BY <2>3
        <3>. QED
            BY <3>1, <3>2, ContinuedAnswers
    <2>. QED
        BY <1>3, <2>2, <2>3 DEF Reply
<1>4. ASSUME NEW w \in Worker, Claim(w) PROVE AnswerInv'
    <2>1. /\ UNCHANGED effects
          /\ \A u \in tasks' : u \in tasks \/ u.stage = "observe"
        BY <1>4 DEF Claim, Attempt
    <2>. QED
        BY <2>1 DEF AnswerInv, AnsweredOnce, EffectsFollowStages
<1>5. ASSUME UNCHANGED effects, tasks' \subseteq tasks PROVE AnswerInv'
    BY <1>5 DEF AnswerInv, AnsweredOnce, EffectsFollowStages
<1>. QED
    BY <1>1, <1>2, <1>3, <1>4, <1>5
       DEF Next, Work, vars, Enqueue, Wake, Lapse, Select, LoseClaim, Crash, Settle,
           SettleFails

\* A card leads to one consequence, one turn and one line at most: only an
\* attempt that found the card unanswered goes on, and no other is at work.
THEOREM AnswersOnce ==
    ASSUME Prompt
    PROVE  Spec => []AnsweredOnce
<1>1. Init => AnswerInv
    BY DEF Init, AnswerInv, AnsweredOnce, EffectsFollowStages, None
<1>2. TypeOK /\ ClaimInv /\ [Next]_vars => ClaimInv'
    BY StepClaims
<1>3. TypeOK /\ TypeOK' /\ ClaimInv /\ AnswerInv /\ [Next]_vars => AnswerInv'
    BY StepAnswers
<1>4. AnswerInv => AnsweredOnce
    BY DEF AnswerInv
<1>. QED
    BY InitClaims, JobTypes, <1>1, <1>2, <1>3, <1>4, PTL DEF Spec

-----------------------------------------------------------------------------
(* Attempts that outlive their leases.                                     *)

\* The count of a job's claims tells its attempts apart, those too that work
\* on after their lease, so that one of them at most is the attempt its row
\* counted last: a settlement that compared the count would be that one's.
AttemptsIdentify == \A t, u \in tasks : t.job = u.job /\ t.n = u.n => t = u

NumberInv ==
    /\ \A j \in Job : row[j].status = "absent" => row[j].attempts = 0
    /\ \A t \in tasks : t.n \in 1..row[t.job].attempts
    /\ AttemptsIdentify

LEMMA CountsOfRows ==
    ASSUME NEW r \in Row
    PROVE  /\ Retried(r).attempts = r.attempts
           /\ \A s \in {"completed", "dead"} : Ended(r, s).attempts = r.attempts
           /\ [r EXCEPT !.ready = TRUE].attempts = r.attempts
           /\ [r EXCEPT !.lease = "lapsed"].attempts = r.attempts
           /\ [r EXCEPT !.ready = TRUE].status = r.status
           /\ [r EXCEPT !.lease = "lapsed"].status = r.status
<1>1. ASSUME NEW d \in Nat
      PROVE  [r EXCEPT !.status = "pending", !.lease = "none", !.due = d,
                       !.ready = FALSE].attempts = r.attempts
    BY DEF Row
<1>2. r.due + 1 \in Nat
    BY DEF Row
<1>3. Retried(r).attempts = r.attempts
    BY <1>1, <1>2 DEF Retried
<1>. QED
    BY <1>3 DEF Row, Ended

\* No statement lowers a job's count, and a claim raises it.
LEMMA CountsGrow ==
    ASSUME TypeOK, \A j \in Job : row[j].status = "absent" => row[j].attempts = 0,
           [Next]_vars, NEW j \in Job
    PROVE  /\ row'[j].attempts >= row[j].attempts
           /\ row'[j].status = "absent" => row'[j] = row[j]
<1>0. row[j] \in Row /\ row[j].attempts \in Nat
    BY DEF TypeOK, Row
<1>1. CASE row'[j] = row[j]
    BY <1>0, <1>1
<1>2. ASSUME Enqueue(j)
      PROVE  row'[j].attempts >= row[j].attempts /\ row'[j].status # "absent"
    BY <1>0, <1>2 DEF Enqueue, TypeOK, Blank
<1>3. ASSUME Wake(j) \/ Lapse(j)
      PROVE  row'[j].attempts >= row[j].attempts /\ row'[j].status # "absent"
    <2>1. row'[j] \in {[row[j] EXCEPT !.ready = TRUE], [row[j] EXCEPT !.lease = "lapsed"]}
        BY <1>3 DEF Wake, Lapse, TypeOK
    <2>2. row[j].status # "absent"
        BY <1>3 DEF Wake, Lapse
    <2>3. ASSUME NEW r, r \in {[row[j] EXCEPT !.ready = TRUE],
                               [row[j] EXCEPT !.lease = "lapsed"]}
          PROVE  r.attempts = row[j].attempts /\ r.status = row[j].status
        BY <1>0, <2>3, CountsOfRows
    <2>. QED
        BY <1>0, <2>1, <2>2, <2>3
<1>4. ASSUME NEW w \in Worker, Claim(w), chosen[w].job = j
      PROVE  row'[j].attempts >= row[j].attempts /\ row'[j].status # "absent"
    <2>. DEFINE n == row[j].attempts + 1
    <2>1. n \in Nat /\ n >= row[j].attempts
        BY <1>0
    <2>2. row'[j] = Claimed(row[j], n)
        BY <1>4 DEF Claim, Unchanged, TypeOK
    <2>. HIDE DEF n
    <2>3. Claimed(row[j], n).attempts = n /\ Claimed(row[j], n).status = "running"
        BY <1>0, <2>1, ClaimedRow
    <2>. QED
        BY <2>1, <2>2, <2>3
<1>5. ASSUME NEW t \in tasks, Settle(t), t.job = j
      PROVE  row'[j].attempts >= row[j].attempts /\ row'[j].status # "absent"
    <2>1. row'[j] \in {Retried(row[j]), Ended(row[j], "completed"), Ended(row[j], "dead")}
        BY <1>5 DEF Settle, TypeOK
    <2>2. ASSUME NEW r, r \in {Retried(row[j]), Ended(row[j], "completed"),
                               Ended(row[j], "dead")}
          PROVE  r.attempts = row[j].attempts /\ r.status # "absent"
        <3>1. Retried(row[j]).attempts = row[j].attempts /\ Retried(row[j]).status = "pending"
            BY <1>0, CountsOfRows, RetriedRow
        <3>2. \A s \in {"completed", "dead"} : /\ Ended(row[j], s).attempts = row[j].attempts
                                               /\ Ended(row[j], s).status = s
            BY <1>0, CountsOfRows, EndedRow
        <3>. QED
            BY <2>2, <3>1, <3>2
    <2>. QED
        BY <1>0, <2>1, <2>2
<1>6. ASSUME NEW k \in Job, Enqueue(k) \/ Wake(k) \/ Lapse(k), k # j PROVE row'[j] = row[j]
    BY <1>6 DEF Enqueue, Wake, Lapse, TypeOK
<1>7. ASSUME NEW w \in Worker, Claim(w), chosen[w].job # j PROVE row'[j] = row[j]
    BY <1>7 DEF Claim, TypeOK
<1>8. ASSUME NEW t \in tasks, Settle(t), t.job # j PROVE row'[j] = row[j]
    BY <1>8 DEF Settle, TypeOK
<1>9. CASE UNCHANGED row
    BY <1>1, <1>9
<1>. QED
    BY <1>1, <1>2, <1>3, <1>4, <1>5, <1>6, <1>7, <1>8, <1>9
       DEF Next, Work, vars, Select, LoseClaim, Crash, Observe, Act, Reply, SettleFails

LEMMA StepNumbers == ASSUME TypeOK, NumberInv, [Next]_vars PROVE NumberInv'
<1>0. ASSUME NEW j \in Job
      PROVE  /\ row'[j].attempts >= row[j].attempts
             /\ row'[j].status = "absent" => row'[j] = row[j]
    BY CountsGrow DEF NumberInv
<1>1. \A j \in Job : row'[j].status = "absent" => row'[j].attempts = 0
    BY <1>0 DEF NumberInv
<1>2. \A t \in tasks : t.job \in Job /\ t.n \in Nat /\ t.n >= 1 /\ t.n <= row[t.job].attempts
    BY DEF NumberInv, TypeOK, Task, Row
<1>3. TypeOK'
    BY StepTypes
<1>4. \A j \in Job : row[j].attempts \in Nat /\ row'[j].attempts \in Nat
    BY <1>3 DEF TypeOK, Row
<1>5. \A t \in tasks : t.n \in 1..row'[t.job].attempts
    BY <1>0, <1>2, <1>4
<1>6. ASSUME NEW w \in Worker, Claim(w)
      PROVE  /\ \A t \in tasks' : t.n \in 1..row'[t.job].attempts
             /\ AttemptsIdentify'
    <2>. DEFINE j == chosen[w].job
                n == row[j].attempts + 1
    <2>1. j \in Job /\ row[j] \in Row /\ row[j].attempts \in Nat /\ n \in Nat
        BY <1>6 DEF Claim, Unchanged, TypeOK, Row
    <2>2. tasks' = tasks \cup {Attempt(j, n, w)} /\ row'[j] = Claimed(row[j], n)
        BY <1>6 DEF Claim, Unchanged, TypeOK
    <2>3. Attempt(j, n, w).job = j /\ Attempt(j, n, w).n = n
        BY DEF Attempt
    <2>4. n \in 1..n /\ \A t \in tasks : t.job = j => t.n # n
        BY <1>2, <2>1
    <2>. HIDE DEF j, n
    <2>5. row'[j].attempts = n
        BY <2>1, <2>2, ClaimedRow
    <2>. QED
        BY <1>5, <2>2, <2>3, <2>4, <2>5 DEF NumberInv, AttemptsIdentify
<1>7. ASSUME NEW t \in tasks, NEW s, NEW b \in BOOLEAN, Continue(t, s, b),
             s \in {"observe", "act", "say", "narrate", "done", "failed"}
      PROVE  /\ \A u \in tasks' : u.n \in 1..row'[u.job].attempts
             /\ AttemptsIdentify'
    <2>1. tasks' = (tasks \ {t}) \cup {[t EXCEPT !.stage = s, !.inline = b]}
        BY <1>7 DEF Continue
    <2>2. \A u \in tasks' : u \in tasks \ {t} \/ (u.job = t.job /\ u.n = t.n)
        BY <1>7, TaskTypes DEF TypeOK
    <2>3. \A u \in tasks' : u.n \in 1..row'[u.job].attempts
        BY <1>5, <2>2
    <2>4. ASSUME NEW u \in tasks', NEW v \in tasks', u.job = v.job, u.n = v.n PROVE u = v
        <3>1. CASE u \in tasks \ {t} /\ v \in tasks \ {t}
            BY <2>4, <3>1 DEF NumberInv, AttemptsIdentify
        <3>2. CASE u \notin tasks \ {t} /\ v \notin tasks \ {t}
            BY <2>1, <3>2
        <3>3. CASE u \in tasks \ {t} /\ v \notin tasks \ {t}
            BY <2>2, <2>4, <3>3 DEF NumberInv, AttemptsIdentify
        <3>4. CASE u \notin tasks \ {t} /\ v \in tasks \ {t}
            BY <2>2, <2>4, <3>4 DEF NumberInv, AttemptsIdentify
        <3>. QED
            BY <3>1, <3>2, <3>3, <3>4
    <2>. QED
        BY <2>3, <2>4 DEF AttemptsIdentify
<1>8. ASSUME tasks' \subseteq tasks
      PROVE  /\ \A t \in tasks' : t.n \in 1..row'[t.job].attempts
             /\ AttemptsIdentify'
    BY <1>5, <1>8 DEF NumberInv, AttemptsIdentify
<1>9. ASSUME NEW t \in tasks, Observe(t) \/ Act(t) \/ Reply(t)
      PROVE  /\ \A u \in tasks' : u.n \in 1..row'[u.job].attempts
             /\ AttemptsIdentify'
    <2>1. \E s \in {"act", "say", "narrate", "done", "failed"}, b \in BOOLEAN :
              Continue(t, s, b)
        BY <1>9 DEF Observe, Act, Reply
    <2>. QED
        BY <1>7, <2>1
<1>. QED
    BY <1>1, <1>6, <1>8, <1>9
       DEF NumberInv, Next, Work, vars, Enqueue, Wake, Lapse, Select, LoseClaim, Crash,
           Settle, SettleFails

\* Whatever outlives its lease, no two attempts carry the same number: the
\* attempts column that claim_next_actor_job_filtered counts up.
THEOREM NumbersTellAttempts == Spec => []AttemptsIdentify
<1>1. Init => NumberInv
    BY DEF Init, NumberInv, AttemptsIdentify, Blank
<1>2. TypeOK /\ NumberInv /\ [Next]_vars => NumberInv'
    BY StepNumbers
<1>3. NumberInv => AttemptsIdentify
    BY DEF NumberInv
<1>. QED
    BY JobTypes, <1>1, <1>2, <1>3, PTL DEF Spec
=============================================================================
