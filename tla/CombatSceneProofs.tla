--------------------------- MODULE CombatSceneProofs ---------------------------
(***************************************************************************)
(* Proofs about CombatScene: types, turns begin able, the announced turn   *)
(* is the held one, nobody able is passed over, only a scene that cannot   *)
(* go on is closed without a winner, and an overdue turn runs out.         *)
(***************************************************************************)
EXTENDS CombatScene, TLAPS, SequenceTheorems, FiniteSetTheorems, WellFoundedInduction

Distinct(order) == \A m, n \in DOMAIN order : order[m] = order[n] => m = n

Able(s) == HasTurn(s, Holder(s)) /\ \A side \in 1..2 : SideCanAct(s, side)

\* Walking through the order from place x to place y, around its end, one comes
\* past place w strictly between them.
Between(x, w, y) ==
    \/ x < w /\ w < y
    \/ w < y /\ y <= x
    \/ y <= x /\ x < w

\* Place k lies behind place w, at y or before it.
Behind(w, k, y) ==
    \/ w < k /\ k <= y
    \/ k <= y /\ y < w
    \/ y < w /\ w < k

\* Who had a turn while Watched waited stands between Watched and the holder.
PassingInv(s) ==
    \/ s.passing = {}
    \/ /\ s.status = "active"
       /\ \E w \in DOMAIN s.order :
              /\ s.order[w] = Watched
              /\ \A a \in s.passing : \E k \in DOMAIN s.order :
                     s.order[k] = a /\ Behind(w, k, s.index)

SceneBase(s) ==
    /\ s \in Scene /\ Distinct(s.order)
    /\ s.status = "active" <=> s.index \in DOMAIN s.order
    /\ s.status # "active" => s.escaped = {}
    /\ PassingInv(s) /\ s.lost = FALSE

\* Whoever holds the turn has not fled, and there is a resident who has not:
\* what a knockout from outside does not change.
Remain(s) ==
    /\ Holder(s) \notin s.escaped
    /\ \E a \in Members(s) \ s.escaped : a \in Resident

SceneInv(s) ==
    /\ SceneBase(s)
    /\ s.status = "active" => s.announced = {Holder(s)}
    /\ s.status = "active" => Remain(s)
    /\ s.status = "active" /\ ~s.struck => Able(s)

\* A fight that goes on, or one that somebody won.
Fine(s) == Able(s) \/ (s.status = "resolved" /\ s.winner # 0)

-----------------------------------------------------------------------------
(* The next holder.                                                        *)

Below == {ss \in Nat \X Nat : ss[1] < ss[2]}

LEMMA Least ==
    ASSUME NEW T \in SUBSET Nat, T # {}
    PROVE  \E m \in T : \A k \in T : m <= k
<1>1. IsWellFoundedOn(Below, Nat)
    BY NatLessThanWellFounded, Zenon DEF OpToRel, Below
<1>2. PICK m \in T : \A k \in T : ~(<<k, m>> \in Below)
    BY <1>1, WFMin, Zenon
<1>3. ASSUME NEW k \in T, k < m PROVE FALSE
    <2>1. <<k, m>> \in Below
        BY <1>3 DEF Below
    <2>. QED
        BY <1>2, <2>1
<1>. QED
    BY <1>3

At(s, k) == ((s.index - 1 + k) % Len(s.order)) + 1
Steps(s, m) == IF m > s.index THEN m - s.index ELSE Len(s.order) + m - s.index

LEMMA Wrap ==
    ASSUME NEW n \in Nat, NEW b \in Nat, b < n
    PROVE  b % n = b /\ (n + b) % n = b
OBVIOUS

LEMMA AtPlace ==
    ASSUME NEW s \in Scene, s.index \in DOMAIN s.order
    PROVE  /\ Len(s.order) \in Nat /\ DOMAIN s.order = 1 .. Len(s.order)
           /\ \A k \in 1 .. Len(s.order) :
                  /\ At(s, k) = IF s.index + k <= Len(s.order) THEN s.index + k
                                ELSE s.index + k - Len(s.order)
                  /\ At(s, k) \in DOMAIN s.order
           /\ \A m \in DOMAIN s.order :
                  Steps(s, m) \in 1 .. Len(s.order) /\ At(s, Steps(s, m)) = m
<1>. DEFINE n == Len(s.order)
            x == s.index
<1>1. n \in Nat /\ DOMAIN s.order = 1 .. n
    BY DEF Scene
<1>2. x \in 1 .. n
    BY <1>1
<1>3. \A b \in Nat : b < n => b % n = b /\ (n + b) % n = b
    BY <1>1, Wrap
<1>4. ASSUME NEW k \in 1 .. n
      PROVE  At(s, k) = IF x + k <= n THEN x + k ELSE x + k - n
    <2>1. CASE x + k <= n
        <3>1. x - 1 + k \in Nat /\ x - 1 + k < n
            BY <1>1, <1>2, <2>1
        <3>2. (x - 1 + k) % n = x - 1 + k
            BY <1>3, <3>1
        <3>. QED
            BY <1>1, <1>2, <2>1, <3>2 DEF At
    <2>2. CASE x + k > n
        <3>1. x - 1 + k - n \in Nat /\ x - 1 + k - n < n
              /\ n + (x - 1 + k - n) = x - 1 + k
            BY <1>1, <1>2, <2>2
        <3>2. (n + (x - 1 + k - n)) % n = x - 1 + k - n
            BY <1>3, <3>1
        <3>3. (x - 1 + k) % n = x - 1 + k - n
            BY <3>1, <3>2
        <3>. QED
            BY <1>1, <1>2, <2>2, <3>3 DEF At
    <2>. QED
        BY <1>1, <1>2, <2>1, <2>2
<1>5. ASSUME NEW m \in 1 .. n
      PROVE  Steps(s, m) \in 1 .. n /\ At(s, Steps(s, m)) = m
    <2>1. Steps(s, m) \in 1 .. n
        BY <1>1, <1>2 DEF Steps
    <2>2. At(s, Steps(s, m)) = IF x + Steps(s, m) <= n THEN x + Steps(s, m)
                               ELSE x + Steps(s, m) - n
        BY <1>4, <2>1
    <2>. QED
        BY <1>1, <1>2, <2>1, <2>2 DEF Steps
<1>6. \A k \in 1 .. n : At(s, k) \in 1 .. n
    BY <1>1, <1>2, <1>4
<1>. QED
    BY <1>1, <1>4, <1>5, <1>6

\* The next holder can act, and nobody between the two can.
LEMMA NextHolder ==
    ASSUME NEW s \in Scene, s.index \in DOMAIN s.order,
           NEW m \in DOMAIN s.order, CanAct(s, s.order[m])
    PROVE  /\ NextIndex(s) \in DOMAIN s.order
           /\ CanAct(s, s.order[NextIndex(s)])
           /\ \A w \in DOMAIN s.order :
                  CanAct(s, s.order[w]) => ~Between(s.index, w, NextIndex(s))
<1>. DEFINE n == Len(s.order)
            x == s.index
            able(k) == CanAct(s, s.order[At(s, k)])
            first(k) == able(k) /\ \A j \in 1 .. k - 1 : ~able(j)
            T == {k \in 1 .. n : able(k)}
<1>1. /\ n \in Nat /\ DOMAIN s.order = 1 .. n /\ x \in 1 .. n
      /\ \A k \in 1 .. n : /\ At(s, k) = IF x + k <= n THEN x + k ELSE x + k - n
                           /\ At(s, k) \in DOMAIN s.order
      /\ \A w \in 1 .. n : Steps(s, w) \in 1 .. n /\ At(s, Steps(s, w)) = w
    BY AtPlace
<1>2. NextIndex(s) = At(s, CHOOSE k \in 1 .. n : first(k))
    BY DEF NextIndex, At
<1>3. \E k \in 1 .. n : first(k)
    <2>1. Steps(s, m) \in T
        BY <1>1
    <2>2. T \in SUBSET Nat
        OBVIOUS
    <2>3. PICK k \in T : \A j \in T : k <= j
        BY <2>1, <2>2, Least
    <2>4. \A j \in 1 .. k - 1 : j \in 1 .. n /\ ~(k <= j)
        BY <1>1
    <2>. QED
        BY <2>3, <2>4
<1>4. PICK k \in 1 .. n : first(k) /\ NextIndex(s) = At(s, k)
    <2>. HIDE DEF first
    <2>. QED
        BY <1>2, <1>3
<1>5. ASSUME NEW w \in 1 .. n, CanAct(s, s.order[w]), Between(x, w, NextIndex(s))
      PROVE  FALSE
    <2>1. able(Steps(s, w)) /\ Steps(s, w) \in 1 .. n
        BY <1>1, <1>5
    <2>2. ~(Steps(s, w) \in 1 .. k - 1)
        BY <1>4, <2>1
    <2>3. ~(Steps(s, w) < k)
        BY <1>1, <2>1, <2>2
    <2>4. NextIndex(s) = IF x + k <= n THEN x + k ELSE x + k - n
        BY <1>1, <1>4
    <2>5. Steps(s, w) = IF w > x THEN w - x ELSE n + w - x
        BY DEF Steps
    <2>. HIDE DEF n, x
    <2>6. n \in Nat /\ x \in 1 .. n
        BY <1>1
    <2>. QED
        BY <1>5, <2>3, <2>4, <2>5, <2>6 DEF Between
<1>. QED
    BY <1>1, <1>4, <1>5

-----------------------------------------------------------------------------
(* The functions of the kernel.                                            *)

LEMMA SceneFields ==
    ASSUME NEW s \in Scene
    PROVE  /\ s.status \in {"none", "active", "resolved"} /\ s.job \in {"active", "ended"}
           /\ s.winner \in 0..2 /\ s.order \in Seq(Actor) /\ s.index \in Nat
           /\ s.escaped \in SUBSET Actor /\ s.fit \in SUBSET Actor
           /\ s.announced \in SUBSET Actor /\ s.extended \in BOOLEAN
           /\ s.struck \in BOOLEAN /\ s.passing \in SUBSET Actor /\ s.lost \in BOOLEAN
           /\ Members(s) \in SUBSET Actor
<1>1. s.order \in Seq(Actor)
    BY DEF Scene
<1>2. \A i \in DOMAIN s.order : s.order[i] \in Actor
    BY <1>1
<1>. QED
    BY <1>2 DEF Scene, Members

\* Whoever can act is told by the order, the escaped and the fit.
LEMMA SameActors ==
    ASSUME NEW s, NEW t, t.order = s.order, t.escaped = s.escaped, t.fit = s.fit
    PROVE  /\ Members(t) = Members(s)
           /\ \A a : CanAct(t, a) <=> CanAct(s, a)
           /\ \A side : SideCanAct(t, side) <=> SideCanAct(s, side)
BY DEF Members, CanAct, SideCanAct

LEMMA AbleRemain == ASSUME NEW s \in Scene, Able(s) PROVE Remain(s)
<1>1. CanAct(s, Holder(s)) /\ SideCanAct(s, 2)
    BY DEF Able, HasTurn
<1>2. Members(s) \in SUBSET Actor
    BY SceneFields
<1>3. \A a \in Actor : Side(a) = 2 => a \in Resident
    BY DEF Side, Actor
<1>. QED
    BY <1>1, <1>2, <1>3 DEF Remain, CanAct, SideCanAct

Waits(s, i) == s.order[i] # Watched /\ CanAct(s, Watched)

LEMMA BegunFields ==
    ASSUME NEW s \in Scene, NEW i \in DOMAIN s.order
    PROVE  /\ Begun(s, i) \in Scene
           /\ Begun(s, i).status = s.status /\ Begun(s, i).order = s.order
           /\ Begun(s, i).index = i
           /\ Begun(s, i).escaped = s.escaped /\ Begun(s, i).fit = s.fit
           /\ Begun(s, i).announced = {s.order[i]}
           /\ Waits(s, i) => Begun(s, i).passing = s.passing \cup {s.order[i]}
           /\ ~Waits(s, i) => Begun(s, i).passing = {}
           /\ s.lost = FALSE /\ ~(Waits(s, i) /\ s.order[i] \in s.passing) =>
                  Begun(s, i).lost = FALSE
<1>. DEFINE a == s.order[i]
            waits == Waits(s, i)
            t == [s EXCEPT !.index = i, !.announced = {a}, !.extended = FALSE,
                           !.struck = FALSE,
                           !.passing = IF waits THEN @ \cup {a} ELSE {},
                           !.lost = @ \/ (waits /\ a \in s.passing)]
<1>1. Begun(s, i) = t
    BY DEF Begun, Waits
<1>2. a \in Actor /\ i \in Nat
    BY SceneFields
<1>. HIDE DEF a, waits
<1>3. t \in Scene
    BY <1>2 DEF Scene
<1>4. /\ t.status = s.status /\ t.order = s.order /\ t.index = i
      /\ t.escaped = s.escaped /\ t.fit = s.fit /\ t.announced = {a}
      /\ t.passing = IF waits THEN s.passing \cup {a} ELSE {}
      /\ t.lost = (s.lost \/ (waits /\ a \in s.passing))
    BY DEF Scene
<1>. QED
    BY <1>1, <1>3, <1>4 DEF a, waits

\* A turn begins: the fight goes on, and nobody has a second turn while Watched
\* waits.
LEMMA BegunInv ==
    ASSUME NEW s \in Scene, Distinct(s.order), s.status = "active",
           PassingInv(s), s.lost = FALSE,
           NEW i \in DOMAIN s.order, CanAct(s, s.order[i]),
           \A side \in 1..2 : SideCanAct(s, side),
           s.passing # {} => \A w \in DOMAIN s.order :
               CanAct(s, s.order[w]) => ~Between(s.index, w, i)
    PROVE  SceneInv(Begun(s, i)) /\ Able(Begun(s, i))
<1>. DEFINE t == Begun(s, i)
            a == s.order[i]
            waits == Waits(s, i)
<1>1. /\ t \in Scene
      /\ t.status = s.status /\ t.order = s.order /\ t.index = i
      /\ t.escaped = s.escaped /\ t.fit = s.fit /\ t.announced = {a}
      /\ waits => t.passing = s.passing \cup {a}
      /\ ~waits => t.passing = {}
      /\ ~(waits /\ a \in s.passing) => t.lost = FALSE
    BY BegunFields
<1>2. DOMAIN s.order \subseteq Nat /\ s.index \in Nat
    BY SceneFields
<1>. HIDE DEF t
<1>3. ASSUME waits
      PROVE  /\ a \notin s.passing
             /\ \E w \in DOMAIN s.order :
                    /\ s.order[w] = Watched
                    /\ \A b \in s.passing \cup {a} : \E k \in DOMAIN s.order :
                           s.order[k] = b /\ Behind(w, k, i)
    <2>1. PICK w \in DOMAIN s.order : s.order[w] = Watched
        BY <1>3 DEF Waits, CanAct, Members
    <2>2. w # i /\ (s.passing # {} => ~Between(s.index, w, i))
        BY <1>3, <2>1 DEF Waits
    <2>3. Behind(w, i, i)
        BY <1>2, <2>2 DEF Behind
    <2>4. ASSUME NEW b \in s.passing
          PROVE  b # a /\ \E k \in DOMAIN s.order : s.order[k] = b /\ Behind(w, k, i)
        <3>1. PICK v \in DOMAIN s.order, k \in DOMAIN s.order :
                  s.order[v] = Watched /\ s.order[k] = b /\ Behind(v, k, s.index)
            BY <2>4 DEF PassingInv
        <3>2. v = w
            BY <2>1, <3>1 DEF Distinct
        <3>3. k # i /\ Behind(w, k, i)
            BY <1>2, <2>2, <3>1, <3>2 DEF Behind, Between
        <3>. QED
            BY <3>1, <3>3 DEF Distinct
    <2>. QED
        BY <2>1, <2>3, <2>4
<1>4. PassingInv(t) /\ t.lost = FALSE
    BY <1>1, <1>3 DEF PassingInv
<1>5. Able(t)
    BY <1>1, SameActors DEF Able, HasTurn, Holder
<1>6. Remain(t)
    BY <1>1, <1>5, AbleRemain
<1>. QED
    BY <1>1, <1>4, <1>5, <1>6 DEF t, SceneInv, SceneBase, Holder

LEMMA ClosedInv ==
    ASSUME NEW s \in Scene, s.lost = FALSE, NEW v \in 0..2
    PROVE  /\ SceneInv(Closed(s, v))
           /\ Closed(s, v).status = "resolved" /\ Closed(s, v).winner = v
<1>. DEFINE t == Closed(s, v)
<1>1. /\ t.status = "resolved" /\ t.winner = v /\ t.order = <<>> /\ t.index = 0
      /\ t.passing = {} /\ t.lost = s.lost /\ t.escaped = {}
    BY DEF Closed, Scene
<1>2. t \in Scene
    <2>1. <<>> \in Seq(Actor) /\ 0 \in Nat /\ v \in 0..2
        OBVIOUS
    <2>. QED
        BY <2>1 DEF Closed, Scene
<1>. QED
    BY <1>1, <1>2 DEF SceneInv, SceneBase, Distinct, PassingInv

\* A change of the job alone.
LEMMA JobInv ==
    ASSUME NEW s, SceneInv(s), NEW j \in {"active", "ended"}
    PROVE  /\ SceneInv([s EXCEPT !.job = j])
           /\ [s EXCEPT !.job = j].status = s.status
           /\ [s EXCEPT !.job = j].winner = s.winner
           /\ [s EXCEPT !.job = j].job = j
<1>. DEFINE t == [s EXCEPT !.job = j]
<1>1. s \in Scene
    BY DEF SceneInv, SceneBase
<1>2. /\ t \in Scene
      /\ t.status = s.status /\ t.winner = s.winner /\ t.order = s.order
      /\ t.index = s.index /\ t.escaped = s.escaped /\ t.fit = s.fit
      /\ t.announced = s.announced /\ t.struck = s.struck /\ t.passing = s.passing
      /\ t.lost = s.lost /\ t.job = j
    BY <1>1 DEF Scene
<1>. HIDE DEF t
<1>3. (Able(t) <=> Able(s)) /\ (Remain(t) <=> Remain(s))
    BY <1>2, SameActors DEF Able, Remain, HasTurn, Holder
<1>. QED
    BY <1>1, <1>2, <1>3 DEF t, SceneInv, SceneBase, PassingInv, Holder

LEMMA EndedInv ==
    ASSUME NEW s, SceneInv(s), NEW v \in 0..2
    PROVE  SceneInv(Ended(s, v)) /\ Ended(s, v).job = "ended"
<1>1. CASE s.status = "active"
    <2>1. SceneInv(Closed(s, v))
        BY ClosedInv DEF SceneInv, SceneBase
    <2>2. Ended(s, v) = [Closed(s, v) EXCEPT !.job = "ended"]
        BY <1>1 DEF Ended
    <2>. QED
        BY <2>1, <2>2, JobInv
<1>2. CASE s.status # "active"
    <2>1. Ended(s, v) = [s EXCEPT !.job = "ended"]
        BY <1>2 DEF Ended
    <2>. QED
        BY <2>1, JobInv
<1>. QED
    BY <1>1, <1>2

LEMMA ResolvedInv ==
    ASSUME NEW s \in Scene, s.lost = FALSE, ~(SideCanAct(s, 1) /\ SideCanAct(s, 2))
    PROVE  /\ SceneInv(Resolved(s)) /\ Resolved(s).status = "resolved"
           /\ SideCanAct(s, 1) \/ SideCanAct(s, 2) => Resolved(s).winner # 0
<1>. 0 \in 0..2 /\ 1 \in 0..2 /\ 2 \in 0..2
    OBVIOUS
<1>1. CASE SideCanAct(s, 1)
    <2>1. PICK c : c = Closed(s, 1)
        OBVIOUS
    <2>2. PICK j \in {"active", "ended"} : j = IF Settles THEN "ended" ELSE c.job
        <3>1. SceneInv(c)
            BY <2>1, ClosedInv
        <3>2. c.job \in {"active", "ended"}
            BY <3>1, SceneFields DEF SceneInv, SceneBase
        <3>. QED
            BY <3>2
    <2>3. SceneInv(c) /\ c.status = "resolved" /\ c.winner = 1
        BY <2>1, ClosedInv
    <2>4. Resolved(s) = [c EXCEPT !.job = j]
        BY <1>1, <2>1, <2>2 DEF Resolved
    <2>. DEFINE t == [c EXCEPT !.job = j]
    <2>5. SceneInv(t) /\ t.status = c.status /\ t.winner = c.winner
        BY <2>3, JobInv
    <2>. HIDE DEF t
    <2>. QED
        BY <2>3, <2>4, <2>5 DEF t
<1>2. CASE SideCanAct(s, 2)
    <2>1. Resolved(s) = Closed(s, 2)
        BY <1>2 DEF Resolved
    <2>2. PICK t : t = Closed(s, 2)
        OBVIOUS
    <2>3. SceneInv(t) /\ t.status = "resolved" /\ t.winner = 2
        BY <2>2, ClosedInv
    <2>. QED
        BY <2>1, <2>2, <2>3
<1>3. CASE ~SideCanAct(s, 1) /\ ~SideCanAct(s, 2)
    <2>1. Resolved(s) = Closed(s, 0)
        BY <1>3 DEF Resolved
    <2>. QED
        BY <1>3, <2>1, ClosedInv
<1>. QED
    BY <1>1, <1>2, <1>3

LEMMA AdvancedInv ==
    ASSUME NEW s, SceneBase(s), s.status = "active"
    PROVE  /\ SceneInv(Advanced(s))
           /\ SideCanAct(s, 1) \/ SideCanAct(s, 2) => Fine(Advanced(s))
<1>1. CASE SideCanAct(s, 1) /\ SideCanAct(s, 2)
    <2>1. PICK m \in DOMAIN s.order : CanAct(s, s.order[m])
        BY <1>1 DEF SideCanAct, Members
    <2>2. /\ NextIndex(s) \in DOMAIN s.order
          /\ CanAct(s, s.order[NextIndex(s)])
          /\ \A w \in DOMAIN s.order :
                 CanAct(s, s.order[w]) => ~Between(s.index, w, NextIndex(s))
        BY <2>1, NextHolder DEF SceneBase
    <2>3. Advanced(s) = Begun(s, NextIndex(s))
        BY <1>1 DEF Advanced
    <2>4. \A side \in 1..2 : SideCanAct(s, side)
        BY <1>1
    <2>. QED
        BY <2>2, <2>3, <2>4, BegunInv DEF SceneBase, Fine
<1>2. CASE ~(SideCanAct(s, 1) /\ SideCanAct(s, 2))
    BY <1>2, ResolvedInv DEF Advanced, SceneBase, Fine
<1>. QED
    BY <1>1, <1>2

\* A turn that ends is somebody else's next: the other side can act.
LEMMA AdvancedHolder ==
    ASSUME NEW s, SceneBase(s), s.status = "active", Advanced(s).status = "active"
    PROVE  Holder(Advanced(s)) # Holder(s)
<1>1. s \in Scene /\ s.lost = FALSE /\ s.index \in DOMAIN s.order /\ s.index \in Nat
    BY SceneFields DEF SceneBase
<1>2. SideCanAct(s, 1) /\ SideCanAct(s, 2)
    BY <1>1, ResolvedInv DEF Advanced
<1>3. PICK w \in DOMAIN s.order : CanAct(s, s.order[w]) /\ s.order[w] # Holder(s)
    <2>1. PICK a \in Members(s) : CanAct(s, a) /\ Side(a) # Side(Holder(s))
        BY <1>2 DEF SideCanAct
    <2>. QED
        BY <2>1 DEF Members
<1>4. /\ NextIndex(s) \in DOMAIN s.order
      /\ \A v \in DOMAIN s.order :
             CanAct(s, s.order[v]) => ~Between(s.index, v, NextIndex(s))
    BY <1>1, <1>3, NextHolder
<1>5. NextIndex(s) # s.index
    <2>1. w # s.index /\ w \in Nat
        BY <1>1, <1>3, LenProperties, SceneFields DEF Holder
    <2>2. Between(s.index, w, s.index)
        BY <1>1, <2>1 DEF Between
    <2>. QED
        BY <1>3, <1>4, <2>2
<1>6. Advanced(s) = Begun(s, NextIndex(s))
    BY <1>2 DEF Advanced
<1>7. Holder(Advanced(s)) = s.order[NextIndex(s)]
    <2>1. PICK i \in DOMAIN s.order : i = NextIndex(s)
        BY <1>4
    <2>2. Begun(s, i).order = s.order /\ Begun(s, i).index = i
        BY <1>1, BegunFields
    <2>. QED
        BY <1>6, <2>1, <2>2 DEF Holder
<1>. QED
    BY <1>1, <1>4, <1>5, <1>7 DEF Holder, SceneBase, Distinct

LEMMA KnockedBase ==
    ASSUME NEW s, SceneBase(s), NEW a
    PROVE  /\ SceneBase(Knocked(s, a))
           /\ Knocked(s, a).status = s.status /\ Knocked(s, a).order = s.order
           /\ Knocked(s, a).index = s.index /\ Knocked(s, a).escaped = s.escaped
           /\ Knocked(s, a).announced = s.announced
           /\ Knocked(s, a).fit = s.fit \ {a}
<1>. DEFINE t == [s EXCEPT !.fit = @ \ {a}, !.passing = IF a = Watched THEN {} ELSE @]
<1>1. s \in Scene
    BY DEF SceneBase
<1>2. /\ t \in Scene
      /\ t.status = s.status /\ t.order = s.order /\ t.index = s.index
      /\ t.escaped = s.escaped /\ t.announced = s.announced /\ t.fit = s.fit \ {a}
      /\ t.lost = s.lost /\ t.passing \subseteq s.passing
    BY <1>1 DEF Scene
<1>3. Knocked(s, a) = t
    BY DEF Knocked
<1>. HIDE DEF t
<1>4. SceneBase(t)
    BY <1>2 DEF SceneBase, PassingInv
<1>. QED
    BY <1>2, <1>3, <1>4

LEMMA EscapedBase ==
    ASSUME NEW s, SceneBase(s), s.status = "active", NEW a \in Actor
    PROVE  LET t == [s EXCEPT !.escaped = @ \cup {a}] IN
           /\ SceneBase(t) /\ t.status = s.status /\ t.order = s.order
           /\ t.index = s.index /\ t.escaped = s.escaped \cup {a} /\ t.fit = s.fit
<1>. DEFINE t == [s EXCEPT !.escaped = @ \cup {a}]
<1>1. s \in Scene
    BY DEF SceneBase
<1>2. /\ t \in Scene
      /\ t.status = s.status /\ t.order = s.order /\ t.index = s.index
      /\ t.escaped = s.escaped \cup {a} /\ t.fit = s.fit
      /\ t.lost = s.lost /\ t.passing = s.passing
    BY <1>1 DEF Scene
<1>. HIDE DEF t
<1>3. SceneBase(t)
    BY <1>2 DEF SceneBase, PassingInv
<1>. QED
    BY <1>2, <1>3 DEF t

\* The scenes a turn may leave before it is passed on.
LEMMA TurnOutcomes ==
    ASSUME NEW s, SceneBase(s), NEW a, NEW t \in Turns(s, a)
    PROVE  /\ HasTurn(s, a) /\ a \in Members(s) /\ a \in Actor
           /\ \E u : /\ t = Advanced(u) /\ SceneBase(u) /\ u.status = "active"
                     /\ u.order = s.order /\ u.index = s.index
                     /\ \/ u = s
                        \/ u = [s EXCEPT !.escaped = @ \cup {a}]
                        \/ \E k \in Actor : Side(k) # Side(a) /\ u = Knocked(s, k)
<1>1. /\ HasTurn(s, a) /\ s.status = "active" /\ a \in Members(s) /\ a \in Actor
    BY SceneFields DEF Turns, HasTurn, CanAct, SceneBase
<1>2. PICK u : /\ t = Advanced(u)
               /\ \/ u = s
                  \/ u = [s EXCEPT !.escaped = @ \cup {a}]
                  \/ \E k \in Actor : Side(k) # Side(a) /\ u = Knocked(s, k)
    <2>. DEFINE hostile == {k \in Actor : Side(k) # Side(a) /\ CanAct(s, k)}
                after == {s, [s EXCEPT !.escaped = @ \cup {a}]}
                             \cup {Knocked(s, k) : k \in hostile}
    <2>1. Turns(s, a) = {Advanced(v) : v \in after}
        BY <1>1 DEF Turns
    <2>. QED
        BY <2>1
<1>3. SceneBase(u) /\ u.status = "active" /\ u.order = s.order /\ u.index = s.index
    <2>1. CASE u = [s EXCEPT !.escaped = @ \cup {a}]
        BY <1>1, <2>1, EscapedBase
    <2>2. ASSUME NEW k, u = Knocked(s, k)
          PROVE  SceneBase(u) /\ u.status = "active" /\ u.order = s.order /\ u.index = s.index
        BY <1>1, <2>2, KnockedBase
    <2>. QED
        BY <1>1, <1>2, <2>1, <2>2
<1>. QED
    BY <1>1, <1>2, <1>3

\* A turn that is taken or passed is over.
LEMMA TurnsPass ==
    ASSUME NEW s, SceneBase(s), NEW a, NEW t \in Turns(s, a), t.status = "active"
    PROVE  Holder(t) # a
BY TurnOutcomes, AdvancedHolder DEF HasTurn, Holder

\* A turn costs at most one side its last able actor.
LEMMA TurnsInv ==
    ASSUME NEW s, SceneInv(s), NEW a, NEW t \in Turns(s, a)
    PROVE  SceneInv(t) /\ (Able(s) => Fine(t))
<1>1. /\ HasTurn(s, a) /\ s.status = "active" /\ SceneBase(s) /\ a = Holder(s)
      /\ a \in Members(s) /\ a \in Actor /\ CanAct(s, a)
    BY TurnOutcomes DEF HasTurn, SceneInv
<1>2. PICK u : /\ t = Advanced(u) /\ SceneBase(u) /\ u.status = "active"
               /\ \/ u = s
                  \/ u = [s EXCEPT !.escaped = @ \cup {a}]
                  \/ \E k \in Actor : Side(k) # Side(a) /\ u = Knocked(s, k)
    BY <1>1, TurnOutcomes
<1>3. ASSUME Able(s) PROVE SideCanAct(u, 1) \/ SideCanAct(u, 2)
    <2>1. PICK b \in Members(s) : Side(b) # Side(a) /\ CanAct(s, b)
        <3>1. SideCanAct(s, 1) /\ SideCanAct(s, 2)
            BY <1>3 DEF Able
        <3>. QED
            BY <3>1 DEF SideCanAct
    <2>2. \A k \in Members(s) : Side(k) = 1 \/ Side(k) = 2
        BY DEF Side
    <2>3. CASE u = s
        BY <1>1, <2>2, <2>3 DEF SideCanAct
    <2>4. CASE u = [s EXCEPT !.escaped = @ \cup {a}]
        <3>1. u.order = s.order /\ u.fit = s.fit /\ u.escaped = s.escaped \cup {a}
            BY <1>1, <2>4, EscapedBase
        <3>2. CanAct(u, b) /\ b \in Members(u) /\ b # a
            BY <2>1, <3>1 DEF CanAct, Members
        <3>. QED
            BY <2>2, <2>1, <3>2 DEF SideCanAct
    <2>5. ASSUME NEW k \in Actor, Side(k) # Side(a), u = Knocked(s, k)
          PROVE  SideCanAct(u, 1) \/ SideCanAct(u, 2)
        <3>1. u.order = s.order /\ u.escaped = s.escaped /\ u.fit = s.fit \ {k} /\ k # a
            BY <1>1, <2>5, KnockedBase
        <3>2. CanAct(u, a) /\ a \in Members(u)
            BY <1>1, <3>1 DEF CanAct, Members
        <3>. QED
            BY <1>1, <2>2, <3>2 DEF SideCanAct
    <2>. QED
        BY <1>2, <2>3, <2>4, <2>5
<1>. QED
    BY <1>2, <1>3, AdvancedInv

\* An automated beat; the kernel refuses only a holder who cannot act.
LEMMA BeatsInv ==
    ASSUME NEW s, SceneInv(s), NEW askers, NEW b \in Beats(s, askers)
    PROVE  /\ SceneInv(b.scene) /\ (Fine(s) => Fine(b.scene))
           /\ b.result = "refused" => s.status = "active" /\ ~CanAct(s, Holder(s))
<1>1. \A r, t : Beat(r, t).result = r /\ Beat(r, t).scene = t
    BY DEF Beat
<1>2. CASE s.status # "active"
    <2>1. b = Beat("idle", s)
        BY <1>2 DEF Beats
    <2>. QED
        BY <1>1, <2>1
<1>3. CASE s.status = "active" /\ Holder(s) \in Resident
    <2>1. b = Beat("idle", s) \/ \E t \in Turns(s, Holder(s)) : b = Beat("committed", t)
        BY <1>3 DEF Beats, ResidentBeats
    <2>2. Fine(s) => Able(s)
        BY <1>3 DEF Fine
    <2>. QED
        BY <1>1, <2>1, <2>2, TurnsInv
<1>4. CASE s.status = "active" /\ Holder(s) \notin Resident
    <2>1. b = Beat("idle", s) \/ b = PassBeat(s)
        BY <1>4 DEF Beats
    <2>2. CASE HasTurn(s, Holder(s))
        <3>1. b = Beat("idle", s) \/ b = Beat("committed", Advanced(s))
            BY <2>1, <2>2 DEF PassBeat
        <3>2. Advanced(s) \in Turns(s, Holder(s))
            BY <2>2 DEF Turns
        <3>3. Fine(s) => Able(s)
            BY <1>4 DEF Fine
        <3>. QED
            BY <1>1, <3>1, <3>2, <3>3, TurnsInv
    <2>3. CASE ~HasTurn(s, Holder(s))
        <3>1. b = Beat("idle", s) \/ b = Beat("refused", s)
            BY <2>1, <2>3 DEF PassBeat
        <3>. QED
            BY <1>1, <1>4, <2>3, <3>1 DEF HasTurn
    <2>. QED
        BY <2>2, <2>3
<1>. QED
    BY <1>2, <1>3, <1>4

-----------------------------------------------------------------------------
(* Joining and starting.                                                   *)

LEMMA Cut ==
    ASSUME NEW q \in Seq(Actor), NEW m \in Nat, NEW n \in Nat,
           1 <= m, m <= n + 1, n <= Len(q)
    PROVE  /\ SubSeq(q, m, n) \in Seq(Actor) /\ Len(SubSeq(q, m, n)) = n - m + 1
           /\ \A k \in 1 .. n - m + 1 : SubSeq(q, m, n)[k] = q[m + k - 1]
<1>1. \A k \in m .. n : q[k] \in Actor
    <2>1. Len(q) \in Nat /\ \A k \in 1 .. Len(q) : q[k] \in Actor
        BY LenProperties, ElementOfSeq
    <2>. QED
        BY <2>1
<1>2. m \in Int /\ n \in Int
    OBVIOUS
<1>. DEFINE r == SubSeq(q, m, n)
<1>3. /\ r \in Seq(Actor) /\ Len(r) = IF m <= n THEN n - m + 1 ELSE 0
      /\ \A k \in 1 .. n - m + 1 : r[k] = q[m + k - 1]
    BY <1>1, <1>2, SubSeqProperties
<1>. HIDE DEF r
<1>4. Len(r) = n - m + 1
    BY <1>3
<1>. QED
    BY <1>3, <1>4 DEF r

Inserted(q, a, i) == SubSeq(q, 1, i - 1) \o <<a>> \o SubSeq(q, i, Len(q))

LEMMA InsertedFields ==
    ASSUME NEW q \in Seq(Actor), NEW a \in Actor, NEW i \in 1 .. Len(q) + 1
    PROVE  /\ Inserted(q, a, i) \in Seq(Actor)
           /\ DOMAIN Inserted(q, a, i) = 1 .. Len(q) + 1
           /\ Inserted(q, a, i)[i] = a
           /\ \A k \in 1 .. i - 1 : Inserted(q, a, i)[k] = q[k]
           /\ \A k \in i .. Len(q) : Inserted(q, a, i)[k + 1] = q[k]
<1>. DEFINE n == Len(q)
            front == SubSeq(q, 1, i - 1)
            back == SubSeq(q, i, n)
            left == front \o <<a>>
            r == left \o back
<1>1. n \in Nat /\ i \in Nat /\ i - 1 \in Nat /\ 1 <= i /\ i <= n + 1
    BY LenProperties
<1>2. /\ front \in Seq(Actor) /\ Len(front) = i - 1
      /\ \A k \in 1 .. i - 1 : front[k] = q[k]
    <2>1. /\ front \in Seq(Actor) /\ Len(front) = (i - 1) - 1 + 1
          /\ \A k \in 1 .. (i - 1) - 1 + 1 : front[k] = q[1 + k - 1]
        BY <1>1, Cut
    <2>. HIDE DEF front
    <2>. QED
        BY <1>1, <2>1
<1>3. /\ back \in Seq(Actor) /\ Len(back) = n - i + 1
      /\ \A k \in 1 .. n - i + 1 : back[k] = q[i + k - 1]
    BY <1>1, Cut
<1>4. <<a>> \in Seq(Actor) /\ Len(<<a>>) = 1 /\ <<a>>[1] = a
    OBVIOUS
<1>. HIDE DEF front, back, n
<1>5. /\ left \in Seq(Actor) /\ Len(left) = i /\ left[i] = a
      /\ \A k \in 1 .. i - 1 : left[k] = q[k]
    <2>1. /\ left \in Seq(Actor) /\ Len(left) = Len(front) + Len(<<a>>)
          /\ \A k \in 1 .. Len(front) + Len(<<a>>) : left[k] =
                 IF k <= Len(front) THEN front[k] ELSE <<a>>[k - Len(front)]
        BY <1>2, <1>4, ConcatProperties
    <2>. HIDE DEF left
    <2>2. Len(left) = i
        BY <1>1, <1>2, <2>1
    <2>3. left[i] = a
        BY <1>1, <1>2, <2>1
    <2>4. \A k \in 1 .. i - 1 : left[k] = q[k]
        BY <1>1, <1>2, <2>1
    <2>. QED
        BY <2>1, <2>2, <2>3, <2>4
<1>. HIDE DEF left
<1>6. /\ r \in Seq(Actor) /\ Len(r) = n + 1
      /\ \A k \in 1 .. n + 1 : r[k] = IF k <= i THEN left[k] ELSE back[k - i]
    <2>1. /\ r \in Seq(Actor) /\ Len(r) = Len(left) + Len(back)
          /\ \A k \in 1 .. Len(left) + Len(back) : r[k] =
                 IF k <= Len(left) THEN left[k] ELSE back[k - Len(left)]
        BY <1>3, <1>5, ConcatProperties
    <2>. HIDE DEF r
    <2>2. Len(left) + Len(back) = n + 1 /\ Len(left) = i
        BY <1>1, <1>3, <1>5
    <2>. QED
        BY <2>1, <2>2
<1>. HIDE DEF r
<1>7. r = Inserted(q, a, i)
    BY DEF r, left, front, back, n, Inserted
<1>8. DOMAIN r = 1 .. n + 1
    BY <1>1, <1>6, LenProperties
<1>9. r[i] = a /\ \A k \in 1 .. i - 1 : r[k] = q[k]
    BY <1>1, <1>5, <1>6
<1>10. ASSUME NEW k \in i .. n PROVE r[k + 1] = q[k]
    <2>1. k + 1 \in 1 .. n + 1 /\ ~(k + 1 <= i) /\ k + 1 - i \in 1 .. n - i + 1
          /\ i + (k + 1 - i) - 1 = k
        BY <1>1
    <2>. QED
        BY <1>3, <1>6, <2>1
<1>. QED
    BY <1>6, <1>7, <1>8, <1>9, <1>10 DEF n

Shift(i, k) == IF i <= k THEN k + 1 ELSE k

\* The turn moves with its holder when somebody joins before it.
LEMMA JoinedInv ==
    ASSUME NEW s, SceneInv(s), s.status = "active",
           NEW a \in Actor, a \notin Members(s), NEW t \in Joined(s, a)
    PROVE  SceneInv(t) /\ t.status = "active" /\ (Able(s) => Able(t))
<1>. DEFINE q == s.order
            n == Len(q)
<1>1. /\ s \in Scene /\ q \in Seq(Actor) /\ n \in Nat /\ DOMAIN q = 1 .. n
      /\ s.index \in 1 .. n
    <2>1. s \in Scene /\ q \in Seq(Actor) /\ s.index \in DOMAIN q
        BY SceneFields DEF SceneInv, SceneBase
    <2>. QED
        BY <2>1, LenProperties
<1>2. PICK i \in 1 .. n + 1 :
          t = [s EXCEPT !.order = Inserted(q, a, i), !.index = Shift(i, s.index)]
    BY DEF Joined, Inserted, Shift
<1>. DEFINE r == Inserted(q, a, i)
<1>3. /\ r \in Seq(Actor) /\ DOMAIN r = 1 .. n + 1 /\ r[i] = a
      /\ \A k \in 1 .. i - 1 : r[k] = q[k]
      /\ \A k \in i .. n : r[k + 1] = q[k]
    <2>1. i \in 1 .. Len(q) + 1
        OBVIOUS
    <2>2. /\ r \in Seq(Actor) /\ DOMAIN r = 1 .. Len(q) + 1 /\ r[i] = a
          /\ \A k \in 1 .. i - 1 : r[k] = q[k]
          /\ \A k \in i .. Len(q) : r[k + 1] = q[k]
        BY <1>1, <2>1, InsertedFields
    <2>. HIDE DEF r
    <2>. QED
        BY <2>2
<1>4. \A k \in 1 .. n : Shift(i, k) \in 1 .. n + 1 /\ r[Shift(i, k)] = q[k] /\ Shift(i, k) # i
    BY <1>1, <1>3 DEF Shift
<1>. HIDE DEF r
<1>5. \A m \in 1 .. n + 1 : m = i \/ \E k \in 1 .. n : m = Shift(i, k)
    <2>1. ASSUME NEW m \in 1 .. n + 1, m < i PROVE m \in 1 .. n /\ m = Shift(i, m)
        BY <1>1, <2>1 DEF Shift
    <2>2. ASSUME NEW m \in 1 .. n + 1, m > i
          PROVE  m - 1 \in 1 .. n /\ m = Shift(i, m - 1)
        BY <1>1, <2>2 DEF Shift
    <2>. QED
        BY <1>1, <2>1, <2>2
<1>6. /\ t \in Scene /\ t.order = r /\ t.index = Shift(i, s.index)
      /\ t.status = s.status /\ t.escaped = s.escaped /\ t.fit = s.fit
      /\ t.announced = s.announced /\ t.struck = s.struck /\ t.passing = s.passing
      /\ t.lost = s.lost
    <2>1. Shift(i, s.index) \in Nat
        BY <1>1 DEF Shift
    <2>. QED
        BY <1>1, <1>2, <1>3, <2>1 DEF r, Scene
<1>7. Distinct(r)
    <2>. SUFFICES ASSUME NEW m \in 1 .. n + 1, NEW k \in 1 .. n + 1, r[m] = r[k]
                  PROVE  m = k
        BY <1>3 DEF Distinct
    <2>1. \A j \in 1 .. n : q[j] # a
        BY <1>1 DEF Members
    <2>2. \A j, l \in 1 .. n : q[j] = q[l] => j = l
        BY <1>1 DEF SceneInv, SceneBase, Distinct
    <2>3. CASE m = i \/ k = i
        <3>1. \A j \in 1 .. n : r[Shift(i, j)] # a
            BY <1>4, <2>1
        <3>. QED
            BY <1>3, <1>5, <2>3, <3>1
    <2>4. CASE m # i /\ k # i
        <3>1. PICK j \in 1 .. n, l \in 1 .. n : m = Shift(i, j) /\ k = Shift(i, l)
            BY <1>5, <2>4
        <3>2. q[j] = q[l]
            BY <1>4, <3>1
        <3>. QED
            BY <2>2, <3>1, <3>2
    <2>. QED
        BY <2>3, <2>4
<1>8. t.order[t.index] = Holder(s) /\ t.index \in DOMAIN t.order
    BY <1>1, <1>3, <1>4, <1>6 DEF Holder
<1>9. /\ Members(s) \subseteq Members(t)
      /\ \A b : CanAct(s, b) => CanAct(t, b)
    <2>1. Members(s) \subseteq Members(t)
        BY <1>1, <1>3, <1>4, <1>6 DEF Members
    <2>. QED
        BY <1>6, <2>1 DEF CanAct
<1>10. Able(s) => Able(t)
    BY <1>6, <1>8, <1>9 DEF Able, HasTurn, SideCanAct, Holder
<1>11. Remain(s) => Remain(t)
    BY <1>6, <1>8, <1>9 DEF Remain, Holder
<1>12. PassingInv(t)
    <2>1. CASE s.passing = {}
        BY <1>6, <2>1 DEF PassingInv
    <2>2. CASE s.passing # {}
        <3>1. PICK w \in 1 .. n :
                  /\ q[w] = Watched
                  /\ \A b \in s.passing : \E k \in 1 .. n : q[k] = b /\ Behind(w, k, s.index)
            BY <1>1, <2>2 DEF SceneInv, SceneBase, PassingInv
        <3>2. \A k \in 1 .. n : Behind(w, k, s.index) =>
                  Behind(Shift(i, w), Shift(i, k), Shift(i, s.index))
            BY <1>1 DEF Behind, Shift
        <3>3. Shift(i, w) \in DOMAIN t.order /\ t.order[Shift(i, w)] = Watched
            BY <1>3, <1>4, <1>6, <3>1
        <3>4. \A b \in t.passing : \E k \in DOMAIN t.order :
                  t.order[k] = b /\ Behind(Shift(i, w), k, t.index)
            BY <1>3, <1>4, <1>6, <3>1, <3>2
        <3>. QED
            BY <1>6, <3>3, <3>4 DEF PassingInv
    <2>. QED
        BY <2>1, <2>2
<1>. QED
    BY <1>6, <1>7, <1>8, <1>10, <1>11, <1>12 DEF SceneInv, SceneBase, Holder

LEMMA StartedInv ==
    ASSUME NEW s, SceneInv(s), s.status # "active",
           NEW q \in Seq(Actor), DOMAIN q = 1..2, q[1] # q[2],
           Side(q[1]) # Side(q[2]), q[1] \in s.fit, q[2] \in s.fit
    PROVE  SceneInv(Started(s, q))
<1>. DEFINE u == [s EXCEPT !.status = "active", !.winner = 0, !.order = q]
<1>1. s \in Scene /\ s.passing = {} /\ s.lost = FALSE /\ s.escaped = {}
    BY DEF SceneInv, SceneBase, PassingInv
<1>2. /\ u \in Scene /\ u.status = "active" /\ u.order = q /\ u.passing = {}
      /\ u.lost = FALSE /\ u.escaped = {} /\ u.fit = s.fit /\ u.index = s.index
    <2>1. 0 \in 0..2
        OBVIOUS
    <2>. QED
        BY <1>1, <2>1 DEF Scene
<1>3. Started(s, q) = Begun(u, 1)
    BY DEF Started
<1>. HIDE DEF u
<1>4. 1 \in DOMAIN q /\ 2 \in DOMAIN q /\ DOMAIN u.order = 1..2
    BY <1>2
<1>5. q[1] \in Members(u) /\ q[2] \in Members(u)
    BY <1>2, <1>4 DEF Members
<1>6. CanAct(u, q[1]) /\ CanAct(u, q[2])
    BY <1>2, <1>5 DEF CanAct
<1>7. \A side \in 1..2 : SideCanAct(u, side)
    <2>1. \A k : Side(k) = 1 \/ Side(k) = 2
        BY DEF Side
    <2>. QED
        BY <1>5, <1>6, <2>1 DEF SideCanAct
<1>8. Distinct(u.order) /\ PassingInv(u)
    BY <1>2 DEF Distinct, PassingInv
<1>. QED
    BY <1>2, <1>3, <1>4, <1>6, <1>7, <1>8, BegunInv

-----------------------------------------------------------------------------
(* The world outside the scene.                                            *)

\* What only makes actors fit, or touches neither the turn nor its actors.
LEMMA KeptInv ==
    ASSUME NEW s, SceneInv(s), NEW t \in Scene,
           t.status = s.status, t.order = s.order, t.index = s.index,
           t.escaped = s.escaped, t.announced = s.announced, t.struck = s.struck,
           t.passing = s.passing, t.lost = s.lost, s.fit \subseteq t.fit
    PROVE  SceneInv(t) /\ (Able(s) => Able(t))
<1>1. Holder(t) = Holder(s) /\ Members(t) = Members(s)
    BY DEF Holder, Members
<1>2. \A a : CanAct(s, a) => CanAct(t, a)
    BY <1>1 DEF CanAct
<1>3. (Able(s) => Able(t)) /\ (Remain(s) => Remain(t))
    BY <1>1, <1>2 DEF Able, Remain, HasTurn, SideCanAct
<1>. QED
    BY <1>1, <1>3 DEF SceneInv, SceneBase, PassingInv

LEMMA StruckInv ==
    ASSUME NEW s, SceneInv(s), NEW a
    PROVE  LET t == [Knocked(s, a) EXCEPT !.struck = TRUE] IN
           SceneInv(t) /\ t.status = s.status
<1>. DEFINE u == Knocked(s, a)
            t == [u EXCEPT !.struck = TRUE]
<1>1. /\ SceneBase(u) /\ u.status = s.status /\ u.order = s.order /\ u.index = s.index
      /\ u.announced = s.announced /\ u.escaped = s.escaped /\ u \in Scene
    BY KnockedBase DEF SceneInv, SceneBase
<1>. HIDE DEF u
<1>2. /\ t \in Scene /\ t.status = u.status /\ t.order = u.order /\ t.index = u.index
      /\ t.escaped = u.escaped /\ t.announced = u.announced /\ t.passing = u.passing
      /\ t.lost = u.lost /\ t.struck = TRUE
    BY <1>1 DEF Scene
<1>. HIDE DEF t
<1>3. SceneInv(t)
    <2>1. Holder(t) = Holder(s) /\ Members(t) = Members(s) /\ t.escaped = s.escaped
        BY <1>1, <1>2 DEF Holder, Members
    <2>2. Remain(s) => Remain(t)
        BY <2>1 DEF Remain
    <2>3. PassingInv(u) => PassingInv(t)
        BY <1>2 DEF PassingInv
    <2>4. SceneBase(t)
        BY <1>1, <1>2, <2>3 DEF SceneBase
    <2>. QED
        BY <1>1, <1>2, <2>1, <2>2, <2>4 DEF SceneInv
<1>. QED
    BY <1>1, <1>2, <1>3 DEF t, u

LEMMA ExtendedInv ==
    ASSUME NEW s, SceneInv(s)
    PROVE  LET t == [s EXCEPT !.extended = TRUE] IN
           SceneInv(t) /\ t.status = s.status
<1>. DEFINE t == [s EXCEPT !.extended = TRUE]
<1>1. s \in Scene
    BY DEF SceneInv, SceneBase
<1>2. /\ t \in Scene /\ t.status = s.status /\ t.order = s.order /\ t.index = s.index
      /\ t.escaped = s.escaped /\ t.announced = s.announced /\ t.struck = s.struck
      /\ t.passing = s.passing /\ t.lost = s.lost /\ t.fit = s.fit
    BY <1>1 DEF Scene
<1>. HIDE DEF t
<1>3. SceneInv(t)
    BY <1>2, KeptInv
<1>. QED
    BY <1>2, <1>3 DEF t

LEMMA FitInv ==
    ASSUME NEW s, SceneInv(s), NEW F \in SUBSET Actor
    PROVE  LET t == [s EXCEPT !.fit = @ \cup F] IN
           SceneInv(t) /\ t.status = s.status
<1>. DEFINE t == [s EXCEPT !.fit = @ \cup F]
<1>1. s \in Scene
    BY DEF SceneInv, SceneBase
<1>2. /\ t \in Scene /\ t.status = s.status /\ t.order = s.order /\ t.index = s.index
      /\ t.escaped = s.escaped /\ t.announced = s.announced /\ t.struck = s.struck
      /\ t.passing = s.passing /\ t.lost = s.lost /\ t.fit = s.fit \cup F
    BY <1>1 DEF Scene
<1>. HIDE DEF t
<1>3. SceneInv(t)
    BY <1>2, KeptInv
<1>. QED
    BY <1>2, <1>3 DEF t
-----------------------------------------------------------------------------
(* The steps.                                                              *)

CombatInv ==
    /\ SceneInv(scene)
    /\ seen \in [Human -> 0..2] /\ tracker \in Nat /\ mishaps \in 0..MaxMishaps

\* A step leaves a scene as the invariant wants it; if it ends one without a
\* winner, there is a reason.
SceneKept == SceneInv(scene')
Excused ==
    Able(scene) => \/ Fine(scene')
                   \/ scene'.status = "active"
                   \/ scene'.job = "ended"
                   \/ mishaps' > mishaps

LEMMA DeclareStep ==
    ASSUME CombatInv, NEW a \in Human, DeclareCombat(a)
    PROVE  SceneKept /\ Excused
<1>1. PICK t \in Resident \cap scene.fit, order \in {<<1, 2>>, <<2, 1>>} :
          scene' = Started(scene, [i \in 1..2 |-> <<a, t>>[order[i]]])
    BY DEF DeclareCombat
<1>. DEFINE q == [i \in 1..2 |-> <<a, t>>[order[i]]]
<1>2. a # t /\ a \in Actor /\ t \in Actor /\ Side(a) = 1 /\ Side(t) = 2
    BY CombatAssumption DEF Actor, Side
<1>3. q = <<a, t>> \/ q = <<t, a>>
    <2>1. CASE order = <<1, 2>>
        BY <2>1
    <2>2. CASE order = <<2, 1>>
        BY <2>2
    <2>. QED
        BY <2>1, <2>2
<1>4. q \in Seq(Actor) /\ DOMAIN q = 1..2 /\ {q[1], q[2]} = {a, t} /\ q[1] # q[2]
    BY <1>2, <1>3
<1>. HIDE DEF q
<1>5. SceneInv(Started(scene, q))
    <2>1. Side(q[1]) # Side(q[2])
        BY <1>2, <1>4
    <2>2. a \in scene.fit /\ scene.status # "active"
        BY DEF DeclareCombat, Asks
    <2>3. q[1] \in scene.fit /\ q[2] \in scene.fit
        BY <1>4, <2>2
    <2>. QED
        BY <1>4, <2>1, <2>2, <2>3, StartedInv DEF CombatInv
<1>6. ~Able(scene)
    BY DEF DeclareCombat, Able, HasTurn
<1>. QED
    BY <1>1, <1>5, <1>6 DEF q, SceneKept, Excused

LEMMA JoinStep ==
    ASSUME CombatInv, NEW a \in Human, DeclareJoins(a)
    PROVE  SceneKept /\ Excused
<1>1. PICK s \in Joined(scene, a) : \E b \in Beats(s, {a}) : scene' = b.scene
    BY DEF DeclareJoins
<1>2. SceneInv(s) /\ (Able(scene) => Able(s))
    BY JoinedInv DEF DeclareJoins, CombatInv, Actor
<1>. QED
    BY <1>1, <1>2, BeatsInv DEF SceneKept, Excused, Fine

LEMMA TurnStep ==
    ASSUME CombatInv, NEW a \in Human, TakeTurn(a)
    PROVE  SceneKept /\ Excused
<1>1. PICK b \in Beats(scene, {a}) :
          IF HasTurn(b.scene, a)
          THEN \E t \in Turns(b.scene, a) : \E c \in Beats(t, {a}) : scene' = c.scene
          ELSE scene' = b.scene
    BY DEF TakeTurn
<1>2. SceneInv(b.scene) /\ (Able(scene) => Fine(b.scene))
    BY BeatsInv DEF CombatInv, Fine
<1>3. CASE HasTurn(b.scene, a)
    <2>1. PICK t \in Turns(b.scene, a) : \E c \in Beats(t, {a}) : scene' = c.scene
        BY <1>1, <1>3
    <2>2. Fine(b.scene) => Able(b.scene)
        BY <1>3 DEF HasTurn, Fine
    <2>3. SceneInv(t) /\ (Able(scene) => Fine(t))
        BY <1>2, <2>2, TurnsInv
    <2>. QED
        BY <2>1, <2>3, BeatsInv DEF SceneKept, Excused
<1>4. CASE ~HasTurn(b.scene, a)
    BY <1>1, <1>2, <1>4 DEF SceneKept, Excused
<1>. QED
    BY <1>3, <1>4

LEMMA TimeStep ==
    ASSUME CombatInv, NEW a \in Human, AskTime(a)
    PROVE  SceneKept /\ Excused
<1>1. PICK b \in Beats(scene, {a}) :
          scene' = IF HasTurn(b.scene, a) THEN [b.scene EXCEPT !.extended = TRUE] ELSE b.scene
    BY DEF AskTime
<1>2. SceneInv(b.scene) /\ (Able(scene) => Fine(b.scene))
    BY BeatsInv DEF CombatInv, Fine
<1>3. CASE HasTurn(b.scene, a)
    BY <1>1, <1>2, <1>3, ExtendedInv DEF SceneKept, Excused, HasTurn
<1>4. CASE ~HasTurn(b.scene, a)
    BY <1>1, <1>2, <1>4 DEF SceneKept, Excused
<1>. QED
    BY <1>3, <1>4

LEMMA NudgeStep ==
    ASSUME CombatInv, NEW a \in Human, Nudge(a)
    PROVE  SceneKept /\ Excused
<1>. DEFINE pass == PassBeat(scene)
<1>1. CASE pass.result = "committed"
    <2>1. HasTurn(scene, Holder(scene)) /\ pass.scene = Advanced(scene)
        BY <1>1 DEF PassBeat, Beat
    <2>2. Advanced(scene) \in Turns(scene, Holder(scene))
        BY <2>1 DEF Turns
    <2>3. SceneInv(pass.scene) /\ (Able(scene) => Fine(pass.scene))
        BY <2>1, <2>2, TurnsInv DEF CombatInv
    <2>4. \E b \in Beats(pass.scene, {Holder(scene)}) : scene' = b.scene
        BY <1>1 DEF Nudge
    <2>. QED
        BY <2>3, <2>4, BeatsInv DEF SceneKept, Excused
<1>2. CASE pass.result # "committed"
    BY <1>2 DEF Nudge, CombatInv, SceneKept, Excused, Able, HasTurn
<1>. QED
    BY <1>1, <1>2

LEMMA SweepStep ==
    ASSUME CombatInv, Sweep
    PROVE  /\ SceneKept /\ Excused
           /\ tracker' \in Nat /\ mishaps' \in 0..MaxMishaps
<1>1. /\ SceneInv(scene) /\ scene \in Scene /\ scene.lost = FALSE
      /\ tracker \in Nat /\ mishaps \in 0..MaxMishaps /\ MaxMishaps \in Nat
    BY CombatAssumption DEF CombatInv, SceneInv, SceneBase
<1>2. SceneInv(Closed(scene, 0))
    <2>1. 0 \in 0..2
        OBVIOUS
    <2>. QED
        BY <1>1, <2>1, ClosedInv
<1>3. ASSUME NEW limit, RecordFailure(limit)
      PROVE  tracker' \in Nat /\ SceneKept
    BY <1>1, <1>2, <1>3 DEF RecordFailure, SceneKept
<1>4. CASE UNCHANGED mishaps /\ Recover
    <2>1. PICK b \in Beats(scene, {}) :
              IF b.result = "refused" THEN RecordFailure(Refusals)
              ELSE scene' = b.scene /\ tracker' = 0
        BY <1>4 DEF Recover
    <2>2. /\ SceneInv(b.scene) /\ (Fine(scene) => Fine(b.scene))
          /\ b.result = "refused" => ~CanAct(scene, Holder(scene))
        BY <1>1, BeatsInv
    <2>3. CASE b.result = "refused"
        <3>1. ~Able(scene)
            BY <2>2, <2>3 DEF Able, HasTurn
        <3>. QED
            BY <1>1, <1>3, <1>4, <2>1, <2>3, <3>1 DEF Excused
    <2>4. CASE b.result # "refused"
        BY <1>1, <1>4, <2>1, <2>2, <2>4 DEF SceneKept, Excused, Fine
    <2>. QED
        BY <2>3, <2>4
<1>5. CASE Mishap /\ (RecordFailure(Failures) \/ CloseFails)
    <2>1. mishaps' > mishaps /\ mishaps' \in 0..MaxMishaps
        BY <1>1, <1>5 DEF Mishap
    <2>2. tracker' \in Nat /\ SceneKept
        BY <1>1, <1>3, <1>5 DEF CloseFails, SceneKept
    <2>. QED
        BY <2>1, <2>2 DEF Excused
<1>6. CASE tracker' = 0 /\ UNCHANGED <<scene, mishaps>>
    BY <1>1, <1>6 DEF SceneKept, Excused, Fine
<1>. QED
    BY <1>4, <1>5, <1>6 DEF Sweep

LEMMA OutsideStep ==
    ASSUME CombatInv,
           \/ \E r \in Resident : FeatureWins(r)
           \/ \E h \in Human : Strand(h)
           \/ \E a \in Actor : Revive(a)
           \/ EndJob \/ ResetJob
    PROVE  SceneKept /\ Excused /\ UNCHANGED <<seen, tracker, mishaps>>
<1>1. SceneInv(scene) /\ (Able(scene) => scene.status = "active")
    BY DEF CombatInv, Able, HasTurn
<1>2. ASSUME NEW r \in Resident, FeatureWins(r) PROVE SceneKept /\ Excused
    <2>. DEFINE t == [Knocked(scene, r) EXCEPT !.struck = TRUE]
    <2>1. SceneInv(t) /\ t.status = scene.status
        BY <1>1, StruckInv
    <2>2. scene' = IF Settles THEN Ended(t, 1) ELSE t
        BY <1>2 DEF FeatureWins
    <2>. HIDE DEF t
    <2>3. 1 \in 0..2
        OBVIOUS
    <2>. QED
        BY <1>1, <2>1, <2>2, <2>3, EndedInv DEF SceneKept, Excused
<1>3. ASSUME NEW h \in Human, Strand(h) PROVE SceneKept /\ Excused
    BY <1>1, <1>3, StruckInv DEF Strand, SceneKept, Excused
<1>4. ASSUME NEW a \in Actor, Revive(a) PROVE SceneKept /\ Excused
    <2>1. {a} \in SUBSET Actor
        OBVIOUS
    <2>. QED
        BY <1>1, <1>4, <2>1, FitInv DEF Revive, SceneKept, Excused
<1>5. ASSUME EndJob PROVE SceneKept /\ Excused
    <2>1. 0 \in 0..2
        OBVIOUS
    <2>. QED
        BY <1>1, <1>5, <2>1, EndedInv DEF EndJob, SceneKept, Excused
<1>6. ASSUME ResetJob PROVE SceneKept /\ Excused
    <2>. DEFINE t == [scene EXCEPT !.job = "active"]
                u == [t EXCEPT !.fit = @ \cup Resident]
    <2>1. SceneInv(t) /\ t.status = scene.status
        BY <1>1, JobInv
    <2>2. scene' = u
        BY <1>1, <1>6 DEF ResetJob, SceneInv, SceneBase, Scene
    <2>. HIDE DEF t
    <2>3. Resident \in SUBSET Actor
        BY DEF Actor
    <2>4. SceneInv(u) /\ u.status = t.status
        BY <2>1, <2>3, FitInv
    <2>. HIDE DEF u
    <2>. QED
        BY <1>1, <2>1, <2>2, <2>4 DEF SceneKept, Excused
<1>7. UNCHANGED <<seen, tracker, mishaps>>
    BY DEF FeatureWins, Strand, Revive, EndJob, ResetJob
<1>. QED
    BY <1>2, <1>3, <1>4, <1>5, <1>6, <1>7

LEMMA CombatStep ==
    ASSUME CombatInv, [CombatNext]_combatVars
    PROVE  CombatInv' /\ Excused
<1>1. CASE UNCHANGED combatVars
    BY <1>1 DEF combatVars, CombatInv, Excused, Able, HasTurn
<1>2. ASSUME NEW a \in Human,
             \/ DeclareCombat(a) \/ DeclareJoins(a) \/ TakeTurn(a)
             \/ AskTime(a) \/ Nudge(a)
      PROVE  CombatInv' /\ Excused
    <2>1. SceneKept /\ Excused
        BY <1>2, DeclareStep, JoinStep, TurnStep, TimeStep, NudgeStep
    <2>2. seen' = [seen EXCEPT ![a] = 0] /\ UNCHANGED <<tracker, mishaps>>
        BY <1>2 DEF DeclareCombat, DeclareJoins, TakeTurn, AskTime, Nudge, Asks
    <2>3. 0 \in 0..2
        OBVIOUS
    <2>. QED
        BY <2>1, <2>2, <2>3 DEF SceneKept, CombatInv
<1>3. ASSUME NEW a \in Human, Poll(a) \/ TimePasses(a)
      PROVE  CombatInv' /\ Excused
    <2>1. UNCHANGED <<scene, tracker, mishaps>> /\ seen' \in [Human -> 0..2]
        BY <1>3 DEF Poll, TimePasses, CombatInv
    <2>. QED
        BY <2>1 DEF CombatInv, Excused, Able, HasTurn
<1>4. CASE \/ \E r \in Resident : FeatureWins(r)
           \/ \E h \in Human : Strand(h)
           \/ \E a \in Actor : Revive(a)
           \/ EndJob \/ ResetJob
    <2>1. SceneKept /\ Excused /\ UNCHANGED <<seen, tracker, mishaps>>
        BY <1>4, OutsideStep
    <2>. QED
        BY <2>1 DEF SceneKept, CombatInv
<1>5. CASE Sweep
    <2>1. seen' = seen
        BY <1>5 DEF Sweep
    <2>. QED
        BY <1>5, <2>1, SweepStep DEF SceneKept, CombatInv
<1>6. CASE RestartProcess
    <2>1. /\ scene' = scene /\ tracker' = 0 /\ seen' \in [Human -> 0..2]
          /\ mishaps' = mishaps + 1 /\ mishaps < MaxMishaps /\ mishaps \in 0..MaxMishaps
        BY <1>6 DEF RestartProcess, Mishap, CombatInv
    <2>2. mishaps' \in 0..MaxMishaps
        BY <2>1, CombatAssumption
    <2>. QED
        BY <2>1, <2>2 DEF CombatInv, Excused, Able, HasTurn
<1>. QED
    BY <1>1, <1>2, <1>3, <1>4, <1>5, <1>6 DEF CombatNext

LEMMA CombatInvariant == CombatSpec => []CombatInv
<1>1. CombatInit => CombatInv
    <2>. SUFFICES ASSUME CombatInit PROVE CombatInv
        OBVIOUS
    <2>1. /\ scene.status = "none" /\ scene.order = <<>> /\ scene.index = 0
          /\ scene.escaped = {} /\ scene.passing = {} /\ scene.lost = FALSE
        BY DEF CombatInit
    <2>2. scene \in Scene
        <3>1. <<>> \in Seq(Actor) /\ 0 \in Nat /\ 0 \in 0..2
            OBVIOUS
        <3>. QED
            BY <3>1 DEF CombatInit, Scene
    <2>3. SceneInv(scene)
        BY <2>1, <2>2 DEF SceneInv, SceneBase, Distinct, PassingInv
    <2>4. seen \in [Human -> 0..2] /\ tracker \in Nat /\ mishaps \in 0..MaxMishaps
        BY CombatAssumption DEF CombatInit
    <2>. QED
        BY <2>3, <2>4 DEF CombatInv
<1>2. CombatInv /\ [CombatNext]_combatVars => CombatInv'
    BY CombatStep
<1>. QED
    BY <1>1, <1>2, PTL DEF CombatSpec

-----------------------------------------------------------------------------
(* The theorems.                                                           *)

\* Every variable keeps its type; nobody stands in the order twice, and a scene
\* has a turn exactly while it is active.
THEOREM CombatTypes == CombatSpec => []CombatTypeOK
<1>1. ASSUME NEW s \in Scene, Distinct(s.order)
      PROVE  Cardinality(Members(s)) = Len(s.order)
    <2>. DEFINE n == Len(s.order)
    <2>1. s.order \in Seq(Actor) /\ n \in Nat /\ DOMAIN s.order = 1..n
        BY SceneFields, LenProperties
    <2>2. s.order \in Bijection(1..n, Members(s))
        <3>1. s.order \in [1..n -> Members(s)]
            BY <2>1 DEF Members
        <3>2. \A m, k \in 1..n : s.order[m] = s.order[k] => m = k
            BY <1>1, <2>1 DEF Distinct
        <3>3. \A a \in Members(s) : \E m \in 1..n : s.order[m] = a
            BY <2>1 DEF Members
        <3>. QED
            BY <3>1, <3>2, <3>3 DEF Bijection, Injection, Surjection, IsInjective
    <2>3. ExistsBijection(1..n, Members(s))
        BY <2>2 DEF ExistsBijection
    <2>. QED
        BY <2>1, <2>3, FS_CountingElements
<1>2. CombatInv => CombatTypeOK
    BY <1>1 DEF CombatInv, SceneInv, SceneBase, CombatTypeOK
<1>. QED
    BY <1>2, CombatInvariant, PTL

\* A turn begins with a holder who can act, in a fight both sides can go on
\* with, whoever fled, fell or joined before.
THEOREM TurnsBegin == CombatSpec => []TurnsBeginAble
<1>1. CombatInv => TurnsBeginAble
    BY DEF CombatInv, SceneInv, Able, TurnsBeginAble
<1>. QED
    BY <1>1, CombatInvariant, PTL

\* The turn that is held is the one that was announced.
THEOREM AnnouncedHolds == CombatSpec => []AnnouncedTurnIsHeld
<1>1. CombatInv => AnnouncedTurnIsHeld
    BY DEF CombatInv, SceneInv, AnnouncedTurnIsHeld
<1>. QED
    BY <1>1, CombatInvariant, PTL

\* Nobody has two turns while an actor who can act waits for one.
THEOREM NobodyPassedOver == CombatSpec => []NobodyIsPassedOver
<1>1. CombatInv => NobodyIsPassedOver
    BY DEF CombatInv, SceneInv, SceneBase, NobodyIsPassedOver
<1>. QED
    BY <1>1, CombatInvariant, PTL

\* A scene that could go on is not closed without a winner, unless its job ends
\* or the recovery meets an I/O failure.
THEOREM StuckScenesClose == CombatSpec => OnlyStuckScenesClose
<1>1. CombatInv /\ [CombatNext]_combatVars =>
          [scene.status = "active" /\ scene'.status = "resolved" /\ scene'.winner = 0 =>
              \/ scene'.job = "ended"
              \/ ~CanAct(scene, Holder(scene))
              \/ \E side \in 1..2 : ~SideCanAct(scene, side)
              \/ mishaps' > mishaps]_combatVars
    <2>. SUFFICES ASSUME CombatInv, [CombatNext]_combatVars,
                         scene.status = "active", scene'.status = "resolved",
                         scene'.winner = 0, CanAct(scene, Holder(scene)),
                         \A side \in 1..2 : SideCanAct(scene, side)
                  PROVE  scene'.job = "ended" \/ mishaps' > mishaps
        OBVIOUS
    <2>1. Able(scene)
        BY DEF Able, HasTurn
    <2>2. ~Fine(scene')
        BY DEF Fine, Able, HasTurn
    <2>. QED
        BY <2>1, <2>2, CombatStep DEF Excused
<1>. QED
    BY <1>1, CombatInvariant, PTL DEF CombatSpec, OnlyStuckScenesClose

-----------------------------------------------------------------------------
(* Overdue turns.                                                          *)

\* While a turn stays overdue, with no I/O failure and no restart, only a sweep
\* changes the tracker, and every sweep spends a part of a budget that is never
\* spent: there are fewer than Refusals of them.
OverdueTurnsRunOut ==
    [][\A a \in Actor : Overdue(a) /\ Overdue(a)' /\ mishaps' = mishaps =>
          /\ tracker' \in {tracker, tracker + 1}
          /\ Sweep => tracker' = tracker + 1 /\ tracker' < Refusals]_combatVars

LEMMA OverdueSweep ==
    ASSUME CombatInv, ~Stalls, Sweep, NEW a \in Actor, Overdue(a), Overdue(a)',
           mishaps' = mishaps
    PROVE  tracker' = tracker + 1 /\ tracker' < Refusals
<1>1. /\ scene.status = "active" /\ Holder(scene) = a
      /\ scene'.status = "active" /\ Holder(scene') = a
    BY DEF Overdue
<1>2. /\ SceneBase(scene) /\ Remain(scene) /\ scene \in Scene /\ a \in Members(scene)
      /\ mishaps \in Nat /\ MaxMishaps \in Nat
    <2>1. SceneBase(scene) /\ Remain(scene) /\ scene \in Scene
        BY <1>1 DEF CombatInv, SceneInv, SceneBase
    <2>2. a \in Members(scene)
        BY <1>1, <2>1 DEF SceneBase, Members, Holder
    <2>. QED
        BY <2>1, <2>2, CombatAssumption DEF CombatInv
<1>3. NeedsRecovery
    BY <1>1, <1>2 DEF Overdue, Remain, NeedsRecovery, Actor
<1>4. Recover
    BY <1>1, <1>2, <1>3 DEF Sweep, Mishap
<1>5. PICK b \in Beats(scene, {}) :
          IF b.result = "refused" THEN RecordFailure(Refusals)
          ELSE scene' = b.scene /\ tracker' = 0
    BY <1>4 DEF Recover
<1>6. b.result = "refused" \/ b.scene \in Turns(scene, a)
    <2>1. \A r, t : Beat(r, t).result = r /\ Beat(r, t).scene = t
        BY DEF Beat
    <2>2. HasTurn(scene, a) => Advanced(scene) \in Turns(scene, a)
        BY DEF Turns
    <2>3. CASE a \in Resident
        <3>1. HasTurn(scene, a)
            BY <1>1, <1>2, <2>3, CombatAssumption DEF Overdue, Remain, HasTurn, CanAct
        <3>2. Beats(scene, {}) = ResidentBeats(scene)
            BY <1>1, <2>3 DEF Beats
        <3>3. \E t \in Turns(scene, a) : b = Beat("committed", t)
            BY <1>1, <2>2, <3>1, <3>2 DEF ResidentBeats
        <3>. QED
            BY <2>1, <3>3
    <2>4. CASE a \notin Resident
        <3>1. ~Near(scene, a)
            BY <2>4 DEF Overdue, Actor
        <3>2. Beats(scene, {}) = {PassBeat(scene)}
            BY <1>1, <2>4, <3>1 DEF Beats
        <3>. QED
            BY <1>1, <2>1, <2>2, <3>2 DEF PassBeat
    <2>. QED
        BY <2>3, <2>4
<1>7. b.result = "refused"
    BY <1>1, <1>2, <1>5, <1>6, TurnsPass
<1>8. Closed(scene, 0).status = "resolved"
    BY <1>2 DEF Closed, Scene
<1>. QED
    BY <1>1, <1>5, <1>7, <1>8, CombatAssumption DEF RecordFailure, CombatInv

\* If a resident that can act always finds an offer it can play, the turn of a
\* player who is away and of a resident who can act lasts for fewer sweeps than
\* the recovery's budget, whatever the requests in between do.
THEOREM OverdueRunOut ==
    ASSUME ~Stalls
    PROVE  CombatSpec => OverdueTurnsRunOut
<1>1. CombatInv /\ [CombatNext]_combatVars =>
          [\A a \in Actor : Overdue(a) /\ Overdue(a)' /\ mishaps' = mishaps =>
              /\ tracker' \in {tracker, tracker + 1}
              /\ Sweep => tracker' = tracker + 1 /\ tracker' < Refusals]_combatVars
    <2>. SUFFICES ASSUME CombatInv, CombatNext, NEW a \in Actor, Overdue(a), Overdue(a)',
                         mishaps' = mishaps
                  PROVE  /\ tracker' \in {tracker, tracker + 1}
                         /\ Sweep => tracker' = tracker + 1 /\ tracker' < Refusals
        OBVIOUS
    <2>1. CASE Sweep
        BY <2>1, OverdueSweep
    <2>2. CASE ~Sweep
        <3>1. ~RestartProcess
            BY CombatAssumption DEF RestartProcess, Mishap, CombatInv
        <3>2. tracker' = tracker
            BY <2>2, <3>1 DEF CombatNext, DeclareCombat, DeclareJoins, TakeTurn, AskTime,
               Nudge, Poll, TimePasses, FeatureWins, Strand, Revive, EndJob, ResetJob
        <3>. QED
            BY <2>2, <3>2
    <2>. QED
        BY <2>1, <2>2
<1>. QED
    BY <1>1, CombatInvariant, PTL DEF CombatSpec, OverdueTurnsRunOut
=============================================================================
