------------------------------ MODULE CombatScene ------------------------------
(***************************************************************************)
(* One ordered combat scene (src/v2/core-c/src/cosy_kernel.c,              *)
(* src/v2/orchestrator-rust/src/combat.rs, turns.rs): players and a        *)
(* resident take turns.  Every request holds the runtime lock, may commit  *)
(* one automated beat before its own action and one after it; a scheduler  *)
(* sweeps the scenes every second, passes for a player whose controller    *)
(* is away, and closes a scene that keeps refusing.                        *)
(*                                                                         *)
(* Initiative is drawn, so that a participant may stand anywhere in the    *)
(* order.  Rounds, hit points and places are left out: an attack may knock *)
(* its target out, and an actor that fled may be back for the next scene.  *)
(***************************************************************************)
EXTENDS Integers, Sequences, FiniteSets

CONSTANTS
    Human,       \* directly controlled participants, side 1
    Resident,    \* inference-controlled participants of the job, side 2
    Watched,     \* the participant whose place in the order is kept in a history
    Settles,     \* whether the victory of side 1 completes the job
    Stalls,      \* whether an able resident may find no offer it can play
    Refusals, Failures,  \* limits of the recovery: 3 and 20 in the code
    MaxMishaps           \* bound of the model: I/O failures and restarts

ASSUME CombatAssumption ==
    /\ Human \cap Resident = {} /\ IsFiniteSet(Human \cup Resident)
    /\ Watched \in Human \cup Resident
    /\ Settles \in BOOLEAN /\ Stalls \in BOOLEAN
    /\ {Refusals, Failures} \subseteq Nat \ {0} /\ MaxMishaps \in Nat

VARIABLES
    scene,       \* the kernel's encounter, its actors' status, its job, and
                 \* what the event log says of the turn: see Scene
    seen,        \* age of a player's last request: 0 up to 45 s, 1 up to 105 s, 2
    tracker,     \* FocusedRecoveryTracker: consecutive failures of the scene
    mishaps      \* number of I/O failures and restarts

combatVars == <<scene, seen, tracker, mishaps>>

Actor == Human \cup Resident
Side(a) == IF a \in Human THEN 1 ELSE 2

\* winner: the total of the encounter.resolved event; announced: the actor of
\* the last turn.started event, as a set; extended: whether need_time follows
\* it; struck (history): whether someone was knocked out from outside since;
\* passing (history): who began a turn while Watched could have acted and
\* waited; lost (history): whether one of them began a second.  The
\* participants of a resolved encounter, which nothing reads, are left out.
Scene == [status : {"none", "active", "resolved"}, job : {"active", "ended"},
          winner : 0..2, order : Seq(Actor), index : Nat,
          escaped : SUBSET Actor, fit : SUBSET Actor, announced : SUBSET Actor,
          extended : BOOLEAN, struck : BOOLEAN,
          passing : SUBSET Actor, lost : BOOLEAN]

Members(s) == {s.order[i] : i \in DOMAIN s.order}
Holder(s) == s.order[s.index]

CombatTypeOK ==
    /\ scene \in Scene
    /\ scene.status = "active" <=> scene.index \in DOMAIN scene.order
    /\ Cardinality(Members(scene)) = Len(scene.order)
    /\ seen \in [Human -> 0..2]
    /\ tracker \in Nat
    /\ mishaps \in 0..MaxMishaps
-----------------------------------------------------------------------------
(* The kernel, as functions of a scene.                                    *)

CanAct(s, a) == a \in (Members(s) \ s.escaped) \cap s.fit
HasTurn(s, a) == s.status = "active" /\ CanAct(s, a) /\ Holder(s) = a
SideCanAct(s, side) == \E a \in Members(s) : Side(a) = side /\ CanAct(s, a)

\* append_combat_turn_started, with the book of who waits.
Begun(s, i) ==
    LET a == s.order[i]
        waits == a # Watched /\ CanAct(s, Watched)
    IN [s EXCEPT !.index = i, !.announced = {a}, !.extended = FALSE, !.struck = FALSE,
                 !.passing = IF waits THEN @ \cup {a} ELSE {},
                 !.lost = @ \/ (waits /\ a \in s.passing)]

\* Mutant: the search for the next holder begins at the front of the order.
FirstIndex(s) ==
    LET able == {i \in DOMAIN s.order : CanAct(s, s.order[i])}
        others == IF able = {s.index} THEN able ELSE able \ {s.index}
    IN CHOOSE i \in others : \A j \in others : i <= j

\* The next participant in the order, around its end, who can act.
NextIndex(s) ==
    LET n == Len(s.order)
        at(k) == ((s.index - 1 + k) % n) + 1
    IN at(CHOOSE k \in 1..n : /\ CanAct(s, s.order[at(k)])
                              /\ \A j \in 1..k - 1 : ~CanAct(s, s.order[at(j)]))

Closed(s, winner) ==
    [s EXCEPT !.status = "resolved", !.winner = winner, !.order = <<>>, !.index = 0,
              !.escaped = {}, !.announced = {}, !.extended = FALSE, !.struck = FALSE,
              !.passing = {}]

\* The end of the job is the end of its fight.
Ended(s, winner) ==
    [IF s.status = "active" THEN Closed(s, winner) ELSE s EXCEPT !.job = "ended"]

\* finish_or_advance_combat_turn, and apply_combat_outcome_projection: the
\* victory of side 1 fills the clock of the job, which ends it.
Resolved(s) ==
    CASE SideCanAct(s, 1) -> [Closed(s, 1) EXCEPT !.job = IF Settles THEN "ended" ELSE @]
      [] SideCanAct(s, 2) -> Closed(s, 2)
      [] OTHER            -> Closed(s, 0)

\* Mutant: the fight goes on while one side is able.
AdvancedForOne(s) ==
    IF SideCanAct(s, 1) \/ SideCanAct(s, 2) THEN Begun(s, NextIndex(s)) ELSE Resolved(s)

Advanced(s) ==
    IF SideCanAct(s, 1) /\ SideCanAct(s, 2) THEN Begun(s, NextIndex(s)) ELSE Resolved(s)

Knocked(s, a) == [s EXCEPT !.fit = @ \ {a}, !.passing = IF a = Watched THEN {} ELSE @]

\* The scenes after a turn of its holder: a dodge, a pass or an attack that
\* leaves its target standing; a knockout; an escape.
Turns(s, a) ==
    LET hostile == {t \in Actor : Side(t) # Side(a) /\ CanAct(s, t)}
        after == {s, [s EXCEPT !.escaped = @ \cup {a}]} \cup {Knocked(s, t) : t \in hostile}
    IN IF HasTurn(s, a) THEN {Advanced(t) : t \in after} ELSE {}

Started(s, order) ==
    Begun([s EXCEPT !.status = "active", !.winner = 0, !.order = order], 1)

\* Mutant: the index of the turn stays although its holder moves up.
JoinedBefore(s, a) ==
    {[s EXCEPT !.order = SubSeq(@, 1, i - 1) \o <<a>> \o SubSeq(@, i, Len(@))]
        : i \in 1..Len(s.order) + 1}

\* apply_combat_join: a place by initiative; the turn stays where it is.
Joined(s, a) ==
    {[s EXCEPT !.order = SubSeq(@, 1, i - 1) \o <<a>> \o SubSeq(@, i, Len(@)),
               !.index = IF i <= @ THEN @ + 1 ELSE @] : i \in 1..Len(s.order) + 1}

CombatInit ==
    /\ scene = [status |-> "none", job |-> "active", winner |-> 0, order |-> <<>>, index |-> 0,
                escaped |-> {}, fit |-> Actor, announced |-> {}, extended |-> FALSE,
                struck |-> FALSE, passing |-> {}, lost |-> FALSE]
    /\ seen = [h \in Human |-> 0]
    /\ tracker = 0
    /\ mishaps = 0
-----------------------------------------------------------------------------
(* The automated beat.                                                     *)

Beat(result, s) == [result |-> result, scene |-> s]

\* Within the grace period, which need_time makes longer.
Near(s, h) == seen[h] <= IF s.extended THEN 1 ELSE 0

\* A resident decides for itself; one that cannot act decides nothing.
ResidentBeats(s) ==
    LET turns == Turns(s, Holder(s))
        idle == IF turns = {} \/ Stalls THEN {Beat("idle", s)} ELSE {}
    IN {Beat("committed", t) : t \in turns} \cup idle

PassBeat(s) ==
    IF HasTurn(s, Holder(s)) THEN Beat("committed", Advanced(s)) ELSE Beat("refused", s)

\* commit_next_automated_combat_beat: the possible outcomes; askers holds the
\* requesting actor, whose turn is never passed.
Beats(s, askers) ==
    CASE s.status # "active"      -> {Beat("idle", s)}
      [] s.status = "active" /\ Holder(s) \in Resident -> ResidentBeats(s)
      [] OTHER -> IF Holder(s) \in askers \/ Near(s, Holder(s))
                  THEN {Beat("idle", s)} ELSE {PassBeat(s)}
-----------------------------------------------------------------------------
(* Requests of players, each whole under the runtime lock.                 *)

InScene(a) == scene.status = "active" /\ a \in Members(scene) \ scene.escaped

\* An authorized request of an actor who can act, whose session it renews.
Asks(a) == a \in scene.fit /\ seen' = [seen EXCEPT ![a] = 0]

\* apply_combat_choice with no scene: the fight starts, and nobody acts yet.
DeclareCombat(a) ==
    /\ Asks(a)
    /\ scene.status # "active" /\ scene.job = "active"
    /\ \E t \in Resident \cap scene.fit, order \in {<<1, 2>>, <<2, 1>>} :
          scene' = Started(scene, [i \in 1..2 |-> <<a, t>>[order[i]]])
    /\ UNCHANGED <<tracker, mishaps>>

\* The same request with a scene: the actor joins and a beat is driven.  If
\* the turn then is the actor's own, the match on its choice has no arm and
\* the request panics, with the join and the beat committed.
DeclareJoins(a) ==
    /\ Asks(a)
    /\ scene.status = "active" /\ a \notin Members(scene)
    /\ Resident \cap scene.fit # {}
    /\ \E s \in Joined(scene, a) : \E b \in Beats(s, {a}) : scene' = b.scene
    /\ UNCHANGED <<tracker, mishaps>>

\* Attack, dodge, escape and pass of a participant: a beat, the turn itself
\* if it is the actor's, and a beat after it.
TakeTurn(a) ==
    /\ Asks(a) /\ InScene(a)
    /\ \E b \in Beats(scene, {a}) :
          IF HasTurn(b.scene, a)
          THEN \E t \in Turns(b.scene, a) : \E c \in Beats(t, {a}) : scene' = c.scene
          ELSE scene' = b.scene
    /\ UNCHANGED <<tracker, mishaps>>

\* need_time, once in a turn.
AskTime(a) ==
    /\ Asks(a) /\ InScene(a)
    /\ \E b \in Beats(scene, {a}) :
          scene' = IF HasTurn(b.scene, a) THEN [b.scene EXCEPT !.extended = TRUE] ELSE b.scene
    /\ UNCHANGED <<tracker, mishaps>>

\* request_turn_timeout: a waiting participant passes for the holder, who may
\* be near; a beat follows an accepted pass.
Nudge(a) ==
    /\ Asks(a) /\ InScene(a) /\ Holder(scene) # a
    /\ (Members(scene) \cap scene.fit) \ {a} # {}
    /\ LET pass == PassBeat(scene)
       IN IF pass.result = "committed"
          THEN \E b \in Beats(pass.scene, {Holder(scene)}) : scene' = b.scene
          ELSE UNCHANGED scene
    /\ UNCHANGED <<tracker, mishaps>>

\* Any other request or poll of a player, and the time without one.
Poll(h) ==
    /\ seen[h] > 0 /\ seen' = [seen EXCEPT ![h] = 0]
    /\ UNCHANGED <<scene, tracker, mishaps>>

TimePasses(h) ==
    /\ seen[h] < 2 /\ seen' = [seen EXCEPT ![h] = @ + 1]
    /\ UNCHANGED <<scene, tracker, mishaps>>
-----------------------------------------------------------------------------
(* The world outside the scene.                                            *)

\* resolve_encounter_by_feature: a room feature wins the fight by knocking its
\* target out.  That ends a job the victory settles; otherwise nobody tells the
\* kernel's encounter.
FeatureWins(r) ==
    /\ r \in scene.fit /\ scene.job = "active"
    /\ LET s == [Knocked(scene, r) EXCEPT !.struck = TRUE]
       IN scene' = IF Settles THEN Ended(s, 1) ELSE s
    /\ UNCHANGED <<seen, tracker, mishaps>>

\* A player can no longer act, as in the outage the recovery was written for.
Strand(h) ==
    /\ h \in scene.fit
    /\ scene' = [Knocked(scene, h) EXCEPT !.struck = TRUE]
    /\ UNCHANGED <<seen, tracker, mishaps>>

\* A potion, a rescue.
Revive(a) ==
    /\ a \notin scene.fit
    /\ scene' = [scene EXCEPT !.fit = @ \cup {a}]
    /\ UNCHANGED <<seen, tracker, mishaps>>

\* set_job_status, when the job is completed or fails by other means.
EndJob ==
    /\ scene.job = "active"
    /\ scene' = Ended(scene, 0)
    /\ UNCHANGED <<seen, tracker, mishaps>>

\* reset_frontier_job: the job is open again and its residents are well.
ResetJob ==
    /\ scene.job = "ended"
    /\ scene' = [scene EXCEPT !.job = "active", !.fit = @ \cup Resident]
    /\ UNCHANGED <<seen, tracker, mishaps>>
-----------------------------------------------------------------------------
(* recover_available_combat_turns.                                         *)

NeedsRecovery ==
    \/ Holder(scene) \in Resident
    \/ /\ ~Near(scene, Holder(scene))
       /\ \E a \in Members(scene) \ scene.escaped : a \in Resident \/ Near(scene, a)

Mishap == mishaps < MaxMishaps /\ mishaps' = mishaps + 1

\* Mutant: a spent budget is logged and the scene stays open.
RecordFailureOnly(limit) ==
    /\ tracker' = IF tracker < limit THEN tracker + 1 ELSE tracker
    /\ UNCHANGED scene

\* record_failure, and abandon_stuck_encounter when the budget is spent.  The
\* backoff after a refusal is a sweep that does not come yet.
RecordFailure(limit) ==
    IF tracker + 1 >= limit
    THEN scene' = Closed(scene, 0) /\ tracker' = 0
    ELSE tracker' = tracker + 1 /\ UNCHANGED scene

\* Mutant: every sweep spends the budget, whatever its beat did.
RecoverEverySweep ==
    \E b \in Beats(scene, {}) :
       IF b.result = "committed" /\ tracker = 0
       THEN scene' = b.scene /\ tracker' = 1
       ELSE RecordFailure(Refusals)

\* The closing fails as well: the budget stays spent for the next failure.
CloseFails == tracker' = tracker + 1 /\ UNCHANGED scene

Recover ==
    \E b \in Beats(scene, {}) :
       IF b.result = "refused"
       THEN RecordFailure(Refusals)
       ELSE scene' = b.scene /\ tracker' = 0

Sweep ==
    /\ UNCHANGED seen
    /\ IF scene.status = "active" /\ NeedsRecovery
       THEN \/ UNCHANGED mishaps /\ Recover
            \/ Mishap /\ (RecordFailure(Failures) \/ CloseFails)
       ELSE tracker' = 0 /\ UNCHANGED <<scene, mishaps>>

\* The tracker is the scheduler's own and starts anew, and every session comes
\* back as one that was not seen; the scene is durable.
RestartProcess ==
    /\ Mishap
    /\ tracker' = 0 /\ seen' = [h \in Human |-> 2]
    /\ UNCHANGED scene

CombatNext ==
    \/ \E a \in Human : \/ DeclareCombat(a) \/ DeclareJoins(a) \/ TakeTurn(a)
                        \/ AskTime(a) \/ Nudge(a) \/ Poll(a) \/ TimePasses(a)
    \/ \E r \in Resident : FeatureWins(r)
    \/ \E h \in Human : Strand(h)
    \/ \E a \in Actor : Revive(a)
    \/ EndJob \/ ResetJob
    \/ Sweep \/ RestartProcess

CombatSpec == CombatInit /\ [][CombatNext]_combatVars
-----------------------------------------------------------------------------
(* Properties.                                                             *)

\* A turn begins with a holder who can act and a fight both sides can go on
\* with; only a knockout from outside changes that before the turn ends.
TurnsBeginAble ==
    scene.status = "active" /\ ~scene.struck =>
        HasTurn(scene, Holder(scene)) /\ \A side \in 1..2 : SideCanAct(scene, side)

\* The turn that is held is the one that was announced, whoever joined since:
\* combat_need_time_used and every client read it from the announcement.
AnnouncedTurnIsHeld == scene.status = "active" => scene.announced = {Holder(scene)}

\* An actor who can act the whole time has a turn before anyone has two,
\* through joins, escapes and knockouts.
NobodyIsPassedOver == ~scene.lost

\* A scene ends without a winner only with its job, when its holder or a side
\* cannot act, or by an I/O failure: the recovery closes none that could go on.
OnlyStuckScenesClose ==
    [][scene.status = "active" /\ scene'.status = "resolved" /\ scene'.winner = 0 =>
          \/ scene'.job = "ended"
          \/ ~CanAct(scene, Holder(scene))
          \/ \E side \in 1..2 : ~SideCanAct(scene, side)
          \/ mishaps' > mishaps]_combatVars

Overdue(a) ==
    /\ scene.status = "active" /\ Holder(scene) = a
    /\ IF a \in Human THEN ~Near(scene, a) /\ Members(scene) \cap Resident # {}
                      ELSE a \in scene.fit

\* "a hidden or disconnected client cannot pause the encounter"
\* (combat.rs:862): the turn of a player who is away ends, also when the
\* kernel refuses every pass, and so does the turn of a resident who can act.
OverdueTurnsEnd == \A a \in Actor : Overdue(a) ~> ~Overdue(a)
=============================================================================
