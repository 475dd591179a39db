------------------------------ MODULE DecideProofs -----------------------------
(***************************************************************************)
(* Proofs about Decide and the poll underneath it.                         *)
(*                                                                         *)
(* First what the solver computes, for any number of slots and people:     *)
(* that bounding each slot between everybody's worst and best answer is    *)
(* exact although the answers to come are never enumerated, and that the   *)
(* sort ranks every slot in order.  Then the poll over time, and what the  *)
(* veto check of a decide request is good for although it looks at         *)
(* participants and answers of two moments.                                *)
(*                                                                         *)
(* What is defined by recursion over the slots is reasoned about by the    *)
(* least number for which it would go wrong (LeastNat).                    *)
(***************************************************************************)
EXTENDS Decide, TLAPS, FiniteSetTheorems, SequenceTheorems, WellFoundedInduction

-----------------------------------------------------------------------------
(* Numbers. *)

LEMMA LeastNat ==
    ASSUME NEW T, T \subseteq Nat, T # {}
    PROVE  \E x \in T : \A y \in T : x <= y
<1> DEFINE R == OpToRel(<, Nat)
<1>1. IsWellFoundedOn(R, Nat)
  BY NatLessThanWellFounded
<1>2. \A m, n \in Nat : m < n => <<m, n>> \in R
  BY DEF OpToRel
<1> HIDE DEF R
<1>3. PICK x \in T : \A y \in T : ~(<<y, x>> \in R)
  BY <1>1, WFMin
<1>4. \A y \in T : ~(y < x)
  BY <1>2, <1>3
<1> QED BY <1>4

LEMMA GreatestNat ==
    ASSUME NEW n \in Nat, NEW T, T \subseteq 0 .. n, T # {}
    PROVE  Max(T) \in T /\ \A x \in T : x <= Max(T)
<1> DEFINE U == {n - x : x \in T}
<1>1. U \subseteq Nat /\ U # {}
  <2>1. \A x \in T : n - x \in Nat
    OBVIOUS
  <2>2. PICK x \in T : TRUE
    OBVIOUS
  <2>3. n - x \in U
    OBVIOUS
  <2> QED BY <2>1, <2>3
<1> HIDE DEF U
<1>2. PICK u \in U : \A y \in U : u <= y
  BY <1>1, LeastNat
<1>3. PICK x \in T : u = n - x
  BY DEF U
<1>4. \A y \in T : n - y \in U
  BY DEF U
<1>5. \A y \in T : x >= y
  BY <1>2, <1>3, <1>4
<1> QED BY <1>5 DEF Max

LEMMA MinIsLeast ==
    ASSUME NEW T, T \subseteq Nat, T # {}
    PROVE  Min(T) \in T /\ \A x \in T : Min(T) <= x
BY LeastNat DEF Min

-----------------------------------------------------------------------------
(* Scores of views in which everybody has answered. *)

\* Nobody is asked to meet outside their working hours.
Sociable == \A p \in People : Unsociable[p] = {}

\* A view of some participants, without and with gaps.
Total(g) == DOMAIN g \subseteq People /\ \A p \in DOMAIN g : g[p] \in [Slots -> Tiers]
IsView(g) == /\ DOMAIN g \subseteq People
             /\ \A p \in DOMAIN g : g[p] \in [Slots -> Tiers \cup {Unknown}]

Refused(s, g) == \E p \in DOMAIN g \cap Required : g[p][s] = TierNo
Coming(s, g) == {p \in DOMAIN g : g[p][s] \notin {TierNo, Unknown}}

\* What is left of a score when nobody has rules the slot out.
FloorOf(s, g) == Min({10} \cup {Value(g[p][s]) : p \in Coming(s, g) \cap Required})
BaseOf(s, g) ==
    IF DOMAIN g \cap Required # {}
    THEN Alpha * PointsOf(s, g, Coming(s, g))
         + ((10 - Alpha) * FloorOf(s, g)) * WeightOf(DOMAIN g)
    ELSE 10 * PointsOf(s, g, Coming(s, g))

LEMMA Weights ==
    ASSUME NEW S \in SUBSET People
    PROVE  WeightOf(S) \in Nat /\ (WeightOf(S) = 0 <=> S = {})
<1>1. IsFiniteSet(S) /\ IsFiniteSet(S \cap Required)
  BY PeopleAssumption, FS_Subset
<1>2. Cardinality(S) \in Nat /\ Cardinality(S \cap Required) \in Nat
  BY <1>1, FS_CardinalityType
<1>3. Cardinality(S) = 0 <=> S = {}
  BY <1>1, FS_EmptySet
<1>4. S = {} => Cardinality(S \cap Required) = 0
  BY <1>1, FS_EmptySet
<1> QED BY <1>2, <1>3, <1>4 DEF WeightOf

LEMMA MoreWeigh ==
    ASSUME NEW S \in SUBSET People, NEW T \in SUBSET S
    PROVE  WeightOf(T) <= WeightOf(S)
<1>1. IsFiniteSet(S) /\ IsFiniteSet(S \cap Required)
  BY PeopleAssumption, FS_Subset
<1>2. Cardinality(T) <= Cardinality(S)
  BY <1>1, FS_Subset
<1>3. Cardinality(T \cap Required) <= Cardinality(S \cap Required)
  BY <1>1, FS_Subset
<1>4. /\ Cardinality(S) \in Nat /\ Cardinality(S \cap Required) \in Nat
      /\ Cardinality(T) \in Nat /\ Cardinality(T \cap Required) \in Nat
  BY <1>1, FS_Subset, FS_CardinalityType
<1> QED BY <1>2, <1>3, <1>4 DEF WeightOf

LEMMA ApartWeigh ==
    ASSUME NEW S \in SUBSET People, NEW T \in SUBSET People, S \cap T = {}
    PROVE  WeightOf(S \cup T) = WeightOf(S) + WeightOf(T)
<1>1. IsFiniteSet(S) /\ IsFiniteSet(T)
      /\ IsFiniteSet(S \cap Required) /\ IsFiniteSet(T \cap Required)
  BY PeopleAssumption, FS_Subset
<1>2. Cardinality(S \cup T) = Cardinality(S) + Cardinality(T)
  <2>1. Cardinality(S \cap T) = 0
    BY FS_EmptySet
  <2>2. Cardinality(S) \in Nat /\ Cardinality(T) \in Nat
    BY <1>1, FS_CardinalityType
  <2>3. Cardinality(S \cup T) = Cardinality(S) + Cardinality(T) - Cardinality(S \cap T)
    BY <1>1, FS_Union
  <2> QED BY <2>1, <2>2, <2>3
<1>3. Cardinality((S \cup T) \cap Required)
        = Cardinality(S \cap Required) + Cardinality(T \cap Required)
  <2> DEFINE A == S \cap Required
             B == T \cap Required
  <2>1. Cardinality(A \cap B) = 0 /\ (S \cup T) \cap Required = A \cup B
    <3>1. A \cap B = {}
      OBVIOUS
    <3> QED BY <3>1, FS_EmptySet
  <2>2. Cardinality(A) \in Nat /\ Cardinality(B) \in Nat
    BY <1>1, FS_CardinalityType
  <2>3. Cardinality(A \cup B) = Cardinality(A) + Cardinality(B) - Cardinality(A \cap B)
    BY <1>1, FS_Union
  <2> QED BY <2>1, <2>2, <2>3
<1>4. /\ Cardinality(S) \in Nat /\ Cardinality(S \cap Required) \in Nat
      /\ Cardinality(T) \in Nat /\ Cardinality(T \cap Required) \in Nat
  BY <1>1, FS_CardinalityType
<1> QED BY <1>2, <1>3, <1>4 DEF WeightOf

\* Points, counted by who has at least a tier.
AtLeastTier(s, g, tier) == {p \in DOMAIN g : g[p][s] \in Tiers /\ g[p][s] >= tier}

LEMMA PointsByThreshold ==
    ASSUME NEW g, Total(g), NEW s \in Slots
    PROVE  /\ PointsOf(s, g, Coming(s, g)) =
                3 * WeightOf(AtLeastTier(s, g, TierIfNeeded))
                + 4 * WeightOf(AtLeastTier(s, g, TierOK))
                + 3 * WeightOf(AtLeastTier(s, g, TierPreferred))
           /\ PointsOf(s, g, Coming(s, g)) \in Nat
<1> DEFINE E(t) == {p \in Coming(s, g) : g[p][s] = t}
           U(t) == AtLeastTier(s, g, t)
<1>1. \A p \in DOMAIN g : p \in People /\ g[p][s] \in {0, 1, 2, 3}
  BY DEF Total, Tiers, TierNo, TierIfNeeded, TierOK, TierPreferred
<1>2. /\ U(3) = E(3) /\ U(2) = E(2) \cup E(3) /\ U(1) = E(1) \cup U(2)
      /\ E(2) \cap E(3) = {} /\ E(1) \cap U(2) = {}
  BY <1>1 DEF AtLeastTier, Coming, Tiers, TierNo, TierIfNeeded, TierOK, TierPreferred,
     Unknown
<1>3. E(1) \in SUBSET People /\ E(2) \in SUBSET People /\ E(3) \in SUBSET People
      /\ U(2) \in SUBSET People
  BY <1>1 DEF AtLeastTier, Coming
<1>4. PointsOf(s, g, Coming(s, g)) = 10 * WeightOf(E(3)) + 7 * WeightOf(E(2)) + 3 * WeightOf(E(1))
  BY DEF PointsOf, Value, TierIfNeeded, TierOK, TierPreferred
<1> HIDE DEF E, U
<1>5. WeightOf(E(1)) \in Nat /\ WeightOf(E(2)) \in Nat /\ WeightOf(E(3)) \in Nat
  BY <1>3, Weights
<1>6. WeightOf(E(2) \cup E(3)) = WeightOf(E(2)) + WeightOf(E(3))
  BY <1>2, <1>3, ApartWeigh
<1>7. WeightOf(E(1) \cup U(2)) = WeightOf(E(1)) + WeightOf(U(2))
  BY <1>2, <1>3, ApartWeigh
<1>8. /\ WeightOf(U(3)) = WeightOf(E(3))
      /\ WeightOf(U(2)) = WeightOf(E(2)) + WeightOf(E(3))
      /\ WeightOf(U(1)) = WeightOf(E(1)) + (WeightOf(E(2)) + WeightOf(E(3)))
  BY <1>2, <1>6, <1>7
<1>9. PointsOf(s, g, Coming(s, g)) = 3 * WeightOf(U(1)) + 4 * WeightOf(U(2)) + 3 * WeightOf(U(3))
  BY <1>4, <1>5, <1>8
<1> QED BY <1>4, <1>5, <1>9 DEF U, TierIfNeeded, TierOK, TierPreferred

LEMMA FloorType ==
    ASSUME NEW g, Total(g), NEW s \in Slots
    PROVE  FloorOf(s, g) \in 0 .. 10
<1> DEFINE T == {10} \cup {Value(g[p][s]) : p \in Coming(s, g) \cap Required}
<1>1. T \subseteq 0 .. 10 /\ T # {}
  BY DEF Value
<1> HIDE DEF T
<1>2. T \subseteq Nat
  BY <1>1
<1>3. Min(T) \in T
  BY <1>1, <1>2, MinIsLeast
<1>4. FloorOf(s, g) = Min(T)
  BY DEF FloorOf, T
<1> QED BY <1>1, <1>3, <1>4

LEMMA FloorBounds ==
    ASSUME NEW g, Total(g), NEW s \in Slots
    PROVE  /\ FloorOf(s, g) \in {10} \cup {Value(g[p][s]) : p \in Coming(s, g) \cap Required}
           /\ FloorOf(s, g) <= 10
           /\ \A p \in Coming(s, g) \cap Required : FloorOf(s, g) <= Value(g[p][s])
<1> DEFINE T == {10} \cup {Value(g[p][s]) : p \in Coming(s, g) \cap Required}
<1>1. T \subseteq Nat
  BY DEF Value
<1>2. Min(T) \in T /\ \A x \in T : Min(T) <= x
  BY <1>1, MinIsLeast
<1>3. \A p \in Coming(s, g) \cap Required : Value(g[p][s]) \in T
  OBVIOUS
<1> QED BY <1>2, <1>3 DEF FloorOf

LEMMA BaseType ==
    ASSUME NEW g, Total(g), NEW s \in Slots
    PROVE  BaseOf(s, g) \in Nat
<1>1. PointsOf(s, g, Coming(s, g)) \in Nat
  BY PointsByThreshold
<1>2. FloorOf(s, g) \in Nat /\ WeightOf(DOMAIN g) \in Nat
  BY FloorType, Weights DEF Total
<1>3. \A m, n \in Nat : m * n \in Nat
  OBVIOUS
<1>4. ((10 - Alpha) * FloorOf(s, g)) * WeightOf(DOMAIN g) \in Nat
  BY <1>2, <1>3 DEF Alpha
<1> QED BY <1>1, <1>4 DEF BaseOf, Alpha

LEMMA ScoreOf ==
    ASSUME Sociable, NEW g, Total(g), NEW s \in Slots
    PROVE  /\ ScoreSlot(s, g).eliminated <=> Refused(s, g)
           /\ ~Refused(s, g) =>
                /\ ScoreSlot(s, g).num = IF DOMAIN g = {} THEN 0 ELSE BaseOf(s, g)
                /\ ScoreSlot(s, g).den = IF DOMAIN g = {} THEN 1 ELSE WeightOf(DOMAIN g)
<1> DEFINE answered == Answered(s, g)
           coming   == {p \in answered : g[p][s] \notin {TierNo, Unknown}}
           refusing == answered \ coming
           weights  == WeightOf(Weighed(coming, refusing))
           weighted == PointsOf(s, g, coming)
           floor    == Min({10} \cup {Value(g[p][s]) : p \in coming \cap Required})
           late     == Cardinality({p \in coming : s \in Unsociable[p]})
           penalty  == Min({late * UnsociablePenalty, UnsociableCap})
           base     == IF coming \cap Required # {}
                       THEN Alpha * weighted + (10 - Alpha) * floor * weights
                       ELSE 10 * weighted
<1>1. \A p \in DOMAIN g : p \in People /\ g[p][s] \in Tiers /\ g[p][s] # Unknown
  BY DEF Total, Tiers, TierNo, TierIfNeeded, TierOK, TierPreferred, Unknown
<1>2. answered = DOMAIN g /\ coming = Coming(s, g)
      /\ (refusing \cap Required # {} <=> Refused(s, g))
  BY <1>1 DEF Answered, Coming, Refused
<1>3. ScoreSlot(s, g).eliminated <=> Refused(s, g)
  BY <1>2 DEF ScoreSlot
<1>4. ASSUME ~Refused(s, g)
      PROVE  /\ ScoreSlot(s, g).num = IF DOMAIN g = {} THEN 0 ELSE BaseOf(s, g)
             /\ ScoreSlot(s, g).den = IF DOMAIN g = {} THEN 1 ELSE WeightOf(DOMAIN g)
  <2>1. Weighed(coming, refusing) = DOMAIN g
    BY <1>2, <1>4 DEF Weighed
  <2>2. weights = WeightOf(DOMAIN g) /\ (weights = 0 <=> DOMAIN g = {})
    BY <2>1, Weights DEF Total
  <2>3. coming \cap Required = DOMAIN g \cap Required
    BY <1>1, <1>2, <1>4 DEF Refused, Coming
  <2>4. floor = FloorOf(s, g) /\ weighted = PointsOf(s, g, Coming(s, g))
    BY <1>2 DEF FloorOf
  <2>5. base = BaseOf(s, g)
    BY <2>2, <2>3, <2>4 DEF BaseOf
  <2>6. penalty = 0
    <3>1. {p \in coming : s \in Unsociable[p]} = {}
      BY <1>1, <1>2 DEF Sociable
    <3>2. late = 0
      BY <3>1, FS_EmptySet
    <3>3. {late * UnsociablePenalty, UnsociableCap} = {0, 45}
      <4> HIDE DEF late
      <4>1. late * UnsociablePenalty = 0
        BY <3>2 DEF UnsociablePenalty
      <4> QED BY <4>1 DEF UnsociableCap
    <3>4. Min({0, 45}) = 0
      BY DEF Min
    <3> QED BY <3>3, <3>4
  <2>7. base \in Nat /\ weights \in Nat
    BY <2>2, <2>5, BaseType, Weights DEF Total
  <2>8. ScoreSlot(s, g).den = IF weights # 0 THEN weights ELSE 1
    BY <1>2, <1>4 DEF ScoreSlot
  <2>9. ScoreSlot(s, g).num = IF weights # 0 THEN Max({0, base - penalty * weights}) ELSE 0
    BY <1>2, <1>4 DEF ScoreSlot
  <2> HIDE DEF base, penalty, weights
  <2>10. base - penalty * weights = base
    BY <2>6, <2>7
  <2>11. Max({0, base}) = base
    BY <2>7 DEF Max
  <2> QED BY <2>2, <2>5, <2>8, <2>9, <2>10, <2>11
<1> QED BY <1>3, <1>4

\* x answers nothing better than y does.
Below(x, y) ==
    /\ DOMAIN x = DOMAIN y
    /\ \A p \in DOMAIN x : \A s \in Slots : x[p][s] <= y[p][s]

\* A score is a natural number over a denominator that all survivors share.
Whole(g) == IF DOMAIN g = {} THEN 1 ELSE WeightOf(DOMAIN g)

LEMMA ScoreType ==
    ASSUME Sociable, NEW g, Total(g), NEW s \in Slots, ~ScoreSlot(s, g).eliminated
    PROVE  /\ ScoreSlot(s, g).num \in Nat
           /\ ScoreSlot(s, g).den = Whole(g) /\ Whole(g) \in Nat \ {0}
<1>1. BaseOf(s, g) \in Nat /\ WeightOf(DOMAIN g) \in Nat
      /\ (WeightOf(DOMAIN g) = 0 <=> DOMAIN g = {})
  BY BaseType, Weights DEF Total
<1> QED BY <1>1, ScoreOf DEF Whole

LEMMA BelowPoints ==
    ASSUME NEW x, NEW y, Total(x), Total(y), Below(x, y), NEW s \in Slots
    PROVE  PointsOf(s, x, Coming(s, x)) <= PointsOf(s, y, Coming(s, y))
<1>1. ASSUME NEW t \in {1, 2, 3}
      PROVE  /\ WeightOf(AtLeastTier(s, x, t)) <= WeightOf(AtLeastTier(s, y, t))
             /\ WeightOf(AtLeastTier(s, x, t)) \in Nat /\ WeightOf(AtLeastTier(s, y, t)) \in Nat
  <2>1. AtLeastTier(s, y, t) \in SUBSET People
    BY DEF Total, AtLeastTier
  <2>2. AtLeastTier(s, x, t) \in SUBSET AtLeastTier(s, y, t)
    <3>1. \A p \in DOMAIN x : x[p][s] \in 0 .. 3 /\ y[p][s] \in 0 .. 3 /\ x[p][s] <= y[p][s]
                              /\ y[p][s] \in Tiers
      BY DEF Total, Below, Tiers, TierNo, TierIfNeeded, TierOK, TierPreferred
    <3> QED BY <3>1 DEF AtLeastTier, Below
  <2>3. AtLeastTier(s, x, t) \in SUBSET People
    BY <2>1, <2>2
  <2> QED BY <2>1, <2>2, <2>3, MoreWeigh, Weights
<1> DEFINE a(t) == WeightOf(AtLeastTier(s, x, t))
           b(t) == WeightOf(AtLeastTier(s, y, t))
<1>2. /\ a(1) <= b(1) /\ a(2) <= b(2) /\ a(3) <= b(3)
      /\ a(1) \in Nat /\ a(2) \in Nat /\ a(3) \in Nat
      /\ b(1) \in Nat /\ b(2) \in Nat /\ b(3) \in Nat
  BY <1>1
<1>3. /\ PointsOf(s, x, Coming(s, x)) = 3 * a(1) + 4 * a(2) + 3 * a(3)
      /\ PointsOf(s, y, Coming(s, y)) = 3 * b(1) + 4 * b(2) + 3 * b(3)
  BY PointsByThreshold DEF TierIfNeeded, TierOK, TierPreferred
<1> HIDE DEF a, b
<1> QED BY <1>2, <1>3

LEMMA BelowFloor ==
    ASSUME NEW x, NEW y, Total(x), Total(y), Below(x, y), NEW s \in Slots, ~Refused(s, x)
    PROVE  FloorOf(s, x) <= FloorOf(s, y)
<1>1. CASE FloorOf(s, y) = 10
  BY <1>1, FloorBounds
<1>2. CASE FloorOf(s, y) # 10
  <2>1. PICK p \in Coming(s, y) \cap Required : FloorOf(s, y) = Value(y[p][s])
    BY <1>2, FloorBounds
  <2>2. p \in DOMAIN x /\ x[p][s] \in Tiers /\ y[p][s] \in Tiers /\ x[p][s] <= y[p][s]
    BY <2>1 DEF Coming, Below, Total
  <2>3. p \in Coming(s, x) \cap Required
    BY <2>1, <2>2 DEF Coming, Refused, Tiers, TierNo, TierIfNeeded, TierOK, TierPreferred,
       Unknown
  <2>4. FloorOf(s, x) <= Value(x[p][s])
    BY <2>3, FloorBounds
  <2>5. Value(x[p][s]) <= Value(y[p][s]) /\ Value(x[p][s]) \in Nat /\ Value(y[p][s]) \in Nat
    BY <2>2 DEF Value, Tiers, TierNo, TierIfNeeded, TierOK, TierPreferred
  <2>6. FloorOf(s, x) \in Nat
    BY FloorType
  <2> QED BY <2>1, <2>4, <2>5, <2>6
<1> QED BY <1>1, <1>2

\* The better everybody answers, the better a slot fares.
LEMMA ScoreGrows ==
    ASSUME Sociable, NEW x, NEW y, Total(x), Total(y), Below(x, y), NEW s \in Slots,
           ~ScoreSlot(s, x).eliminated
    PROVE  ~ScoreSlot(s, y).eliminated /\ ScoreSlot(s, x).num <= ScoreSlot(s, y).num
<1>1. ~Refused(s, x)
  BY ScoreOf
<1>2. ~Refused(s, y)
  BY <1>1 DEF Refused, Below, Total, Tiers, TierNo, TierIfNeeded, TierOK, TierPreferred
<1>3. BaseOf(s, x) <= BaseOf(s, y)
  <2> DEFINE W  == WeightOf(DOMAIN x)
             fx == FloorOf(s, x)
             fy == FloorOf(s, y)
             px == PointsOf(s, x, Coming(s, x))
             py == PointsOf(s, y, Coming(s, y))
  <2>1. W \in Nat /\ fx \in Nat /\ fy \in Nat /\ px \in Nat /\ py \in Nat
    <3>1. DOMAIN x \in SUBSET People
      BY DEF Total
    <3>2. W \in Nat
      BY <3>1, Weights
    <3>3. fx \in 0 .. 10 /\ fy \in 0 .. 10
      BY FloorType
    <3>4. px \in Nat /\ py \in Nat
      BY PointsByThreshold
    <3> HIDE DEF W, fx, fy, px, py
    <3> QED BY <3>2, <3>3, <3>4
  <2>2. fx <= fy /\ px <= py
    BY <1>1, BelowFloor, BelowPoints
  <2>3. /\ BaseOf(s, x) = IF DOMAIN x \cap Required # {} THEN 7 * px + (3 * fx) * W ELSE 10 * px
        /\ BaseOf(s, y) = IF DOMAIN x \cap Required # {} THEN 7 * py + (3 * fy) * W ELSE 10 * py
    BY DEF BaseOf, Alpha, Below
  <2> HIDE DEF W, fx, fy, px, py
  <2>4. (3 * fx) * W <= (3 * fy) * W
    <3>1. \A a, b, c \in Nat : a <= b => a * c <= b * c
      OBVIOUS
    <3>2. 3 * fx \in Nat /\ 3 * fy \in Nat /\ 3 * fx <= 3 * fy
      BY <2>1, <2>2
    <3> QED BY <2>1, <3>1, <3>2
  <2>5. (3 * fx) * W \in Nat /\ (3 * fy) * W \in Nat
    <3>1. \A m, n \in Nat : m * n \in Nat
      OBVIOUS
    <3> QED BY <2>1, <3>1
  <2> QED BY <2>1, <2>2, <2>3, <2>4, <2>5
<1>4. BaseOf(s, x) \in Nat /\ BaseOf(s, y) \in Nat
  BY BaseType
<1> QED BY <1>1, <1>2, <1>3, <1>4, ScoreOf DEF Below

-----------------------------------------------------------------------------
(* Views of a poll, and the ways it may still go on. *)

\* Whoever has not answered is unknown for every slot.
AllOrNothing(g) ==
    \A p \in DOMAIN g : \/ \A s \in Slots : g[p][s] \in Tiers
                        \/ \A s \in Slots : g[p][s] = Unknown

\* The view with every gap filled, and with one slot's gaps filled otherwise.
Fill(g, tier) ==
    [p \in DOMAIN g |-> [s \in Slots |-> IF g[p][s] = Unknown THEN tier ELSE g[p][s]]]
Mixed(g, s, tier, others) ==
    [p \in DOMAIN g |-> [o \in Slots |->
        IF g[p][o] # Unknown THEN g[p][o] ELSE IF o = s THEN tier ELSE others]]

\* A slot's score depends on the answers for that slot alone.
LEMMA SameColumn ==
    ASSUME NEW x, NEW y, DOMAIN x = DOMAIN y, NEW s,
           \A p \in DOMAIN x : x[p][s] = y[p][s]
    PROVE  ScoreSlot(s, x) = ScoreSlot(s, y)
<1>1. Answered(s, x) = Answered(s, y)
  BY DEF Answered
<1>2. {p \in Answered(s, x) : x[p][s] \notin {TierNo, Unknown}}
        = {p \in Answered(s, y) : y[p][s] \notin {TierNo, Unknown}}
  BY <1>1 DEF Answered
<1>3. \A ps \in SUBSET DOMAIN x : PointsOf(s, x, ps) = PointsOf(s, y, ps)
  <2> SUFFICES ASSUME NEW ps \in SUBSET DOMAIN x
               PROVE  PointsOf(s, x, ps) = PointsOf(s, y, ps)
    OBVIOUS
  <2>1. \A t : {p \in ps : x[p][s] = t} = {p \in ps : y[p][s] = t}
    OBVIOUS
  <2> QED BY <2>1 DEF PointsOf
<1>4. \A ps \in SUBSET DOMAIN x :
        {Value(x[p][s]) : p \in ps} = {Value(y[p][s]) : p \in ps}
  OBVIOUS
<1> DEFINE coming == {p \in Answered(s, x) : x[p][s] \notin {TierNo, Unknown}}
<1>5. coming \in SUBSET DOMAIN x /\ coming \cap Required \in SUBSET DOMAIN x
  BY DEF Answered
<1>6. /\ PointsOf(s, x, coming) = PointsOf(s, y, coming)
      /\ {Value(x[p][s]) : p \in coming \cap Required}
           = {Value(y[p][s]) : p \in coming \cap Required}
  BY <1>3, <1>4, <1>5
<1> QED BY <1>1, <1>2, <1>6 DEF ScoreSlot

\* The scorer rules a slot out exactly when a required participant refuses it.
LEMMA EliminatedIsRefused ==
    ASSUME NEW g, NEW s
    PROVE  ScoreSlot(s, g).eliminated <=> Refused(s, g)
<1> DEFINE coming == {p \in Answered(s, g) : g[p][s] \notin {TierNo, Unknown}}
<1>1. (Answered(s, g) \ coming) \cap Required = {p \in DOMAIN g \cap Required : g[p][s] = TierNo}
  BY DEF Answered, TierNo, Unknown
<1>2. ScoreSlot(s, g).eliminated <=> (Answered(s, g) \ coming) \cap Required # {}
  BY DEF ScoreSlot
<1> QED BY <1>1, <1>2 DEF Refused

LEMMA FilledIsBound ==
    ASSUME NEW g, NEW tier, NEW s \in Slots
    PROVE  Bound(g, tier)[s] = ScoreSlot(s, Fill(g, tier))
BY DEF Bound, Scores, Fill

LEMMA FilledIsTotal ==
    ASSUME NEW g, IsView(g), NEW tier \in Tiers
    PROVE  Total(Fill(g, tier)) /\ DOMAIN Fill(g, tier) = DOMAIN g
BY DEF IsView, Total, Fill

\* Filling one slot's gaps otherwise is filling them all, for that slot, and
\* changes nothing for the others.
LEMMA MixedColumns ==
    ASSUME NEW g, IsView(g), NEW s \in Slots, NEW tier \in Tiers, NEW others \in Tiers
    PROVE  /\ ScoreSlot(s, Mixed(g, s, tier, others)) = ScoreSlot(s, Fill(g, tier))
           /\ \A o \in Slots \ {s} :
                ScoreSlot(o, Mixed(g, s, tier, others)) = ScoreSlot(o, Fill(g, others))
<1>1. DOMAIN Mixed(g, s, tier, others) = DOMAIN Fill(g, tier)
      /\ DOMAIN Mixed(g, s, tier, others) = DOMAIN Fill(g, others)
  BY DEF Mixed, Fill
<1>2. \A p \in DOMAIN Mixed(g, s, tier, others) :
         /\ Mixed(g, s, tier, others)[p][s] = Fill(g, tier)[p][s]
         /\ \A o \in Slots \ {s} : Mixed(g, s, tier, others)[p][o] = Fill(g, others)[p][o]
  BY DEF Mixed, Fill
<1> QED BY <1>1, <1>2, SameColumn

\* Completions are the views without gaps that agree with the answers given.
LEMMA CompletionsMeans ==
    ASSUME NEW g, IsView(g), NEW c
    PROVE  c \in Completions(g) <=>
               /\ c \in [DOMAIN g -> [Slots -> Tiers]]
               /\ \A p \in DOMAIN g : p \notin Missing(g) => c[p] = g[p]
<1> DEFINE With(late) == [p \in DOMAIN g |-> IF p \in Missing(g) THEN late[p] ELSE g[p]]
<1>1. \A p \in DOMAIN g : p \notin Missing(g) => g[p] \in [Slots -> Tiers]
  BY DEF IsView, Missing
<1>2. ASSUME c \in Completions(g)
      PROVE  /\ c \in [DOMAIN g -> [Slots -> Tiers]]
             /\ \A p \in DOMAIN g : p \notin Missing(g) => c[p] = g[p]
  <2>1. PICK late \in [Missing(g) -> [Slots -> Tiers]] : c = With(late)
    BY <1>2 DEF Completions
  <2> QED BY <1>1, <2>1
<1>3. ASSUME c \in [DOMAIN g -> [Slots -> Tiers]],
             \A p \in DOMAIN g : p \notin Missing(g) => c[p] = g[p]
      PROVE  c \in Completions(g)
  <2> DEFINE late == [p \in Missing(g) |-> c[p]]
  <2>1. late \in [Missing(g) -> [Slots -> Tiers]]
    BY <1>3 DEF Missing
  <2>2. c = With(late)
    BY <1>3
  <2> QED BY <2>1, <2>2 DEF Completions
<1> QED BY <1>2, <1>3

LEMMA MixedIsCompletion ==
    ASSUME NEW g, IsView(g), NEW s \in Slots, NEW tier \in Tiers, NEW others \in Tiers
    PROVE  Mixed(g, s, tier, others) \in Completions(g)
<1>1. Mixed(g, s, tier, others) \in [DOMAIN g -> [Slots -> Tiers]]
  BY DEF IsView, Mixed
<1>2. ASSUME NEW p \in DOMAIN g, p \notin Missing(g)
      PROVE  Mixed(g, s, tier, others)[p] = g[p]
  <2>1. \A o \in Slots : g[p][o] # Unknown
    BY <1>2 DEF Missing
  <2>2. g[p] \in [Slots -> Tiers \cup {Unknown}]
    BY DEF IsView
  <2>3. Mixed(g, s, tier, others)[p] = [o \in Slots |-> g[p][o]]
    BY <2>1 DEF Mixed
  <2> QED BY <2>2, <2>3
<1> QED BY <1>1, <1>2, CompletionsMeans

\* A completion lies between the two ways to fill all gaps.
LEMMA CompletionsBetween ==
    ASSUME NEW g, IsView(g), AllOrNothing(g), NEW c \in Completions(g)
    PROVE  /\ Total(c) /\ DOMAIN c = DOMAIN g
           /\ Below(Fill(g, TierNo), c) /\ Below(c, Fill(g, TierPreferred))
<1>1. Total(c) /\ DOMAIN c = DOMAIN g
  BY CompletionsMeans DEF Total, IsView
<1>2. ASSUME NEW p \in DOMAIN g, NEW s \in Slots
      PROVE  Fill(g, TierNo)[p][s] <= c[p][s] /\ c[p][s] <= Fill(g, TierPreferred)[p][s]
  <2>1. c[p][s] \in 0 .. 3
    BY <1>1 DEF Total, Tiers, TierNo, TierIfNeeded, TierOK, TierPreferred
  <2>2. CASE g[p][s] = Unknown
    <3>1. Fill(g, TierNo)[p][s] = 0 /\ Fill(g, TierPreferred)[p][s] = 3
      BY <2>2 DEF Fill, TierNo, TierPreferred
    <3> QED BY <2>1, <3>1
  <2>3. CASE g[p][s] # Unknown
    <3>1. \A o \in Slots : g[p][o] \in Tiers
      BY <2>3 DEF AllOrNothing
    <3>2. p \notin Missing(g)
      BY <3>1 DEF Missing, Tiers, TierNo, TierIfNeeded, TierOK, TierPreferred, Unknown
    <3>3. c[p] = g[p]
      BY <3>2, CompletionsMeans
    <3>4. Fill(g, TierNo)[p][s] = c[p][s] /\ Fill(g, TierPreferred)[p][s] = c[p][s]
      BY <2>3, <3>3 DEF Fill
    <3> QED BY <2>1, <3>4
  <2> QED BY <2>2, <2>3
<1>3. DOMAIN Fill(g, TierNo) = DOMAIN g /\ DOMAIN Fill(g, TierPreferred) = DOMAIN g
  BY DEF Fill
<1> QED BY <1>1, <1>2, <1>3 DEF Below

\* Among survivors of views of the same people, scores compare by numerator.
LEMMA HigherScore ==
    ASSUME Sociable, NEW x, NEW y, Total(x), Total(y), DOMAIN x = DOMAIN y,
           NEW s \in Slots, NEW o \in Slots,
           ~ScoreSlot(s, x).eliminated, ~ScoreSlot(o, y).eliminated
    PROVE  /\ ScoreSlot(s, x).num \in Nat /\ ScoreSlot(o, y).num \in Nat
           /\ Above(ScoreSlot(s, x), ScoreSlot(o, y))
                <=> ScoreSlot(s, x).num > ScoreSlot(o, y).num
<1>1. /\ ScoreSlot(s, x).num \in Nat /\ ScoreSlot(s, x).den = Whole(x)
      /\ ScoreSlot(o, y).num \in Nat /\ ScoreSlot(o, y).den = Whole(x)
      /\ Whole(x) \in Nat \ {0}
  BY ScoreType DEF Whole
<1>2. \A m, n \in Nat : \A w \in Nat \ {0} : m * w > n * w <=> m > n
  OBVIOUS
<1> QED BY <1>1, <1>2 DEF Above

LEMMA StandsMeans ==
    ASSUME Sociable, NEW c, Total(c), NEW s \in Slots
    PROVE  Stands(s, c) <=>
             /\ ~ScoreSlot(s, c).eliminated
             /\ \A o \in Slots : \/ ScoreSlot(o, c).eliminated
                                 \/ ScoreSlot(o, c).num <= ScoreSlot(s, c).num
<1>1. \A o \in Slots : Scores(c)[o] = ScoreSlot(o, c)
  BY DEF Scores
<1>2. ASSUME ~ScoreSlot(s, c).eliminated, NEW o \in Slots, ~ScoreSlot(o, c).eliminated
      PROVE  ~Above(ScoreSlot(o, c), ScoreSlot(s, c))
               <=> ScoreSlot(o, c).num <= ScoreSlot(s, c).num
  BY <1>2, HigherScore
<1> QED BY <1>1, <1>2 DEF Stands

\* Bounding one slot at a time is exact: the slots nobody can beat are those
\* that stand in every completion.
LEMMA BeatsAllIsExact ==
    ASSUME Sociable, NEW g, IsView(g), AllOrNothing(g), NEW s \in Slots
    PROVE  s \in BeatsAll(g) <=> \A c \in Completions(g) : Stands(s, c)
<1> DEFINE low(o)  == ScoreSlot(o, Fill(g, TierNo))
           high(o) == ScoreSlot(o, Fill(g, TierPreferred))
<1>0. TierNo \in Tiers /\ TierPreferred \in Tiers
  BY DEF Tiers
<1>1. Total(Fill(g, TierNo)) /\ Total(Fill(g, TierPreferred))
      /\ DOMAIN Fill(g, TierNo) = DOMAIN g /\ DOMAIN Fill(g, TierPreferred) = DOMAIN g
  BY <1>0, FilledIsTotal
<1>2. s \in BeatsAll(g) <=>
        /\ ~low(s).eliminated
        /\ \A o \in Slots \ {s} : high(o).eliminated \/ ~Above(high(o), low(s))
  BY FilledIsBound DEF BeatsAll
<1>3. ASSUME s \in BeatsAll(g), NEW c \in Completions(g)
      PROVE  Stands(s, c)
  <2>1. Total(c) /\ Below(Fill(g, TierNo), c) /\ Below(c, Fill(g, TierPreferred))
    BY CompletionsBetween
  <2>2. ~ScoreSlot(s, c).eliminated /\ low(s).num <= ScoreSlot(s, c).num
    BY <1>1, <1>2, <1>3, <2>1, ScoreGrows
  <2>3. ASSUME NEW o \in Slots, ~ScoreSlot(o, c).eliminated
        PROVE  ScoreSlot(o, c).num <= ScoreSlot(s, c).num
    <3>1. CASE o = s
      <4>1. ScoreSlot(s, c).num \in Nat
        BY <2>1, <2>2, ScoreType
      <4> QED BY <3>1, <4>1
    <3>2. CASE o # s
      <4>1. ~high(o).eliminated /\ ScoreSlot(o, c).num <= high(o).num
        BY <1>1, <2>1, <2>3, ScoreGrows
      <4>2. ~Above(high(o), low(s)) /\ ~low(s).eliminated
        BY <1>2, <1>3, <3>2, <4>1
      <4>3. /\ high(o).num \in Nat /\ low(s).num \in Nat
            /\ Above(high(o), low(s)) <=> high(o).num > low(s).num
        BY <1>1, <4>1, <4>2, HigherScore
      <4>4. ScoreSlot(s, c).num \in Nat /\ ScoreSlot(o, c).num \in Nat
        BY <2>1, <2>2, <2>3, ScoreType
      <4> HIDE DEF low, high
      <4> QED BY <2>2, <4>1, <4>2, <4>3, <4>4
    <3> QED BY <3>1, <3>2
  <2> QED BY <2>1, <2>2, <2>3, StandsMeans
<1>4. ASSUME \A c \in Completions(g) : Stands(s, c)
      PROVE  s \in BeatsAll(g)
  <2>1. ~low(s).eliminated
    <3> DEFINE c == Mixed(g, s, TierNo, TierNo)
    <3>1. c \in Completions(g) /\ ScoreSlot(s, c) = low(s)
      BY <1>0, MixedIsCompletion, MixedColumns
    <3> HIDE DEF c
    <3>2. Total(c)
      BY <3>1, CompletionsBetween
    <3> QED BY <1>4, <3>1, <3>2, StandsMeans
  <2>2. ASSUME NEW o \in Slots \ {s}, ~high(o).eliminated
        PROVE  ~Above(high(o), low(s))
    <3> DEFINE c == Mixed(g, o, TierPreferred, TierNo)
    <3>1. c \in Completions(g) /\ ScoreSlot(o, c) = high(o) /\ ScoreSlot(s, c) = low(s)
      BY <1>0, MixedIsCompletion, MixedColumns
    <3> HIDE DEF c
    <3>2. Total(c)
      BY <3>1, CompletionsBetween
    <3>3. ScoreSlot(o, c).num <= ScoreSlot(s, c).num
      BY <1>4, <2>2, <3>1, <3>2, StandsMeans
    <3>4. /\ high(o).num \in Nat /\ low(s).num \in Nat
          /\ Above(high(o), low(s)) <=> high(o).num > low(s).num
      BY <1>1, <2>1, <2>2, HigherScore
    <3> HIDE DEF low, high
    <3> QED BY <3>1, <3>3, <3>4
  <2> QED BY <1>2, <2>1, <2>2
<1> QED BY <1>3, <1>4

\* ... and the slots nobody surely beats are those that stand in some
\* completion.
LEMMA PossibleWinnersAreExact ==
    ASSUME Sociable, NEW g, IsView(g), AllOrNothing(g), NEW s \in Slots
    PROVE  s \in PossibleWinners(g) <=> \E c \in Completions(g) : Stands(s, c)
<1> DEFINE low(o)  == ScoreSlot(o, Fill(g, TierNo))
           high(o) == ScoreSlot(o, Fill(g, TierPreferred))
<1>0. TierNo \in Tiers /\ TierPreferred \in Tiers
  BY DEF Tiers
<1>1. Total(Fill(g, TierNo)) /\ Total(Fill(g, TierPreferred))
      /\ DOMAIN Fill(g, TierNo) = DOMAIN g /\ DOMAIN Fill(g, TierPreferred) = DOMAIN g
  BY <1>0, FilledIsTotal
<1>2. s \in PossibleWinners(g) <=>
        /\ ~high(s).eliminated
        /\ \A o \in Slots \ {s} : low(o).eliminated \/ ~Above(low(o), high(s))
  BY FilledIsBound DEF PossibleWinners
<1>3. ASSUME s \in PossibleWinners(g)
      PROVE  \E c \in Completions(g) : Stands(s, c)
  <2> DEFINE c == Mixed(g, s, TierPreferred, TierNo)
  <2>1. /\ c \in Completions(g) /\ ScoreSlot(s, c) = high(s)
        /\ \A o \in Slots \ {s} : ScoreSlot(o, c) = low(o)
    BY <1>0, MixedIsCompletion, MixedColumns
  <2> HIDE DEF c
  <2>2. Total(c)
    BY <2>1, CompletionsBetween
  <2>3. ASSUME NEW o \in Slots, ~ScoreSlot(o, c).eliminated
        PROVE  ScoreSlot(o, c).num <= ScoreSlot(s, c).num
    <3>1. CASE o = s
      <4>1. ScoreSlot(s, c).num \in Nat
        BY <2>2, <2>3, <3>1, ScoreType
      <4> QED BY <3>1, <4>1
    <3>2. CASE o # s
      <4>1. ScoreSlot(o, c) = low(o) /\ ~low(o).eliminated /\ ~high(s).eliminated
        BY <1>2, <1>3, <2>1, <2>3, <3>2
      <4>2. ~Above(low(o), high(s))
        BY <1>2, <1>3, <3>2, <4>1
      <4>3. /\ low(o).num \in Nat /\ high(s).num \in Nat
            /\ Above(low(o), high(s)) <=> low(o).num > high(s).num
        BY <1>1, <4>1, HigherScore
      <4> HIDE DEF low, high
      <4> QED BY <2>1, <4>1, <4>2, <4>3
    <3> QED BY <3>1, <3>2
  <2>4. ~ScoreSlot(s, c).eliminated
    BY <1>2, <1>3, <2>1
  <2> QED BY <2>1, <2>2, <2>3, <2>4, StandsMeans
<1>4. ASSUME NEW c \in Completions(g), Stands(s, c)
      PROVE  s \in PossibleWinners(g)
  <2>1. Total(c) /\ Below(Fill(g, TierNo), c) /\ Below(c, Fill(g, TierPreferred))
    BY CompletionsBetween
  <2>2. ~ScoreSlot(s, c).eliminated
    BY <1>4, <2>1, StandsMeans
  <2>3. ~high(s).eliminated /\ ScoreSlot(s, c).num <= high(s).num
    BY <1>1, <2>1, <2>2, ScoreGrows
  <2>4. ASSUME NEW o \in Slots \ {s}, ~low(o).eliminated
        PROVE  ~Above(low(o), high(s))
    <3>1. ~ScoreSlot(o, c).eliminated /\ low(o).num <= ScoreSlot(o, c).num
      BY <1>1, <2>1, <2>4, ScoreGrows
    <3>2. ScoreSlot(o, c).num <= ScoreSlot(s, c).num
      BY <1>4, <2>1, <3>1, StandsMeans
    <3>3. /\ low(o).num \in Nat /\ high(s).num \in Nat
          /\ Above(low(o), high(s)) <=> low(o).num > high(s).num
      BY <1>1, <2>3, <2>4, HigherScore
    <3>4. ScoreSlot(s, c).num \in Nat /\ ScoreSlot(o, c).num \in Nat
      BY <2>1, <2>2, <3>1, ScoreType
    <3> HIDE DEF low, high
    <3> QED BY <2>3, <3>1, <3>2, <3>3, <3>4
  <2> QED BY <1>2, <2>3, <2>4
<1> QED BY <1>3, <1>4

-----------------------------------------------------------------------------
(* The ranking. *)

\* A score is a fraction, whatever has been answered.
LEMMA ScoreIsFraction ==
    ASSUME NEW g, IsView(g), NEW s \in Slots
    PROVE  /\ ScoreSlot(s, g).num \in Nat /\ ScoreSlot(s, g).den \in Nat \ {0}
           /\ ScoreSlot(s, g).eliminated \in BOOLEAN
<1> DEFINE answered == Answered(s, g)
           coming   == {p \in answered : g[p][s] \notin {TierNo, Unknown}}
           refusing == answered \ coming
           vetoed   == refusing \cap Required # {}
           weights  == WeightOf(Weighed(coming, refusing))
           weighted == PointsOf(s, g, coming)
           worst    == {10} \cup {Value(g[p][s]) : p \in coming \cap Required}
           late     == Cardinality({p \in coming : s \in Unsociable[p]})
           penalty  == Min({late * UnsociablePenalty, UnsociableCap})
           base     == IF coming \cap Required # {}
                       THEN Alpha * weighted + (10 - Alpha) * Min(worst) * weights
                       ELSE 10 * weighted
           scored   == ~vetoed /\ weights # 0
<1>1. coming \in SUBSET People /\ Weighed(coming, refusing) \in SUBSET People
  BY DEF IsView, Answered, Weighed
<1>2. weights \in Nat
  BY <1>1, Weights
<1>3. weighted \in Nat
  <2>1. \A t : {p \in coming : g[p][s] = t} \in SUBSET People
    BY <1>1
  <2> HIDE DEF coming
  <2>2. \A t : WeightOf({p \in coming : g[p][s] = t}) \in Nat
    BY <2>1, Weights
  <2>3. /\ Value(TierPreferred) = 10 /\ Value(TierOK) = 7 /\ Value(TierIfNeeded) = 3
    BY DEF Value, TierPreferred, TierOK, TierIfNeeded
  <2> DEFINE a(t) == WeightOf({p \in coming : g[p][s] = t})
  <2>4. weighted = 10 * a(TierPreferred) + 7 * a(TierOK) + 3 * a(TierIfNeeded)
    BY <2>3 DEF PointsOf
  <2>5. a(TierPreferred) \in Nat /\ a(TierOK) \in Nat /\ a(TierIfNeeded) \in Nat
    BY <2>2
  <2> HIDE DEF a, weighted
  <2> QED BY <2>4, <2>5
<1>4. Min(worst) \in Nat
  <2>1. worst \subseteq Nat /\ worst # {}
    BY DEF Value
  <2> HIDE DEF worst
  <2> QED BY <2>1, MinIsLeast
<1>5. late \in Nat
  <2>1. IsFiniteSet({p \in coming : s \in Unsociable[p]})
    BY <1>1, PeopleAssumption, FS_Subset
  <2> QED BY <2>1, FS_CardinalityType
<1>6. penalty \in Nat
  <2> HIDE DEF late
  <2>1. {late * UnsociablePenalty, UnsociableCap} \subseteq Nat
    BY <1>5 DEF UnsociablePenalty, UnsociableCap
  <2> QED BY <2>1, MinIsLeast
<1>7. base \in Nat
  <2> HIDE DEF coming, weights, weighted, worst
  <2>1. \A m, n \in Nat : m * n \in Nat
    OBVIOUS
  <2>2. (3 * Min(worst)) * weights \in Nat /\ 3 * Min(worst) \in Nat
    BY <1>2, <1>4, <2>1
  <2> QED BY <1>3, <2>2 DEF Alpha
<1>8. /\ ScoreSlot(s, g).num = IF scored THEN Max({0, base - penalty * weights}) ELSE 0
      /\ ScoreSlot(s, g).den = IF scored THEN weights ELSE 1
      /\ ScoreSlot(s, g).eliminated = vetoed
  BY DEF ScoreSlot
<1>9. Max({0, base - penalty * weights}) \in Nat
  <2> HIDE DEF base, penalty, weights
  <2>1. \A m, n \in Nat : m * n \in Nat
    OBVIOUS
  <2>2. penalty * weights \in Nat
    BY <1>2, <1>6, <2>1
  <2>3. base - penalty * weights \in Int
    BY <1>7, <2>2
  <2>4. \A x \in Int : Max({0, x}) \in Nat
    BY DEF Max
  <2> QED BY <2>3, <2>4
<1> HIDE DEF base, penalty, weights
<1> QED BY <1>2, <1>8, <1>9

\* What the ranking is made of.
Score(e) == e.num \in Nat /\ e.den \in Nat \ {0} /\ e.eliminated \in BOOLEAN

\* Ruled out slots last, and nobody directly behind one it clearly beats.
Ordered(q) ==
    /\ \A k, l \in DOMAIN q : k < l /\ q[k].eliminated => q[l].eliminated
    /\ \A k \in DOMAIN q : k > 1 /\ ~q[k].eliminated => ~FarAbove(q[k], q[k - 1])

LEMMA FarIsAbove ==
    ASSUME NEW a, NEW b, Score(a), Score(b), FarAbove(a, b)
    PROVE  Above(a, b) /\ ~Above(b, a)
<1> DEFINE l == a.num * b.den
           r == b.num * a.den
           d == HistoryEpsilon * a.den * b.den
<1>1. \A m, n \in Nat : m * n \in Nat
  OBVIOUS
<1>2. l \in Nat /\ r \in Nat
  BY <1>1 DEF Score
<1>3. d \in Nat
  BY <1>1 DEF Score, HistoryEpsilon
<1>4. l - r > d
  BY DEF FarAbove
<1> HIDE DEF l, r, d
<1>5. l > r /\ ~(r > l)
  BY <1>2, <1>3, <1>4
<1> QED BY <1>5 DEF l, r, Above

\* Where a slot stops it is not clearly better than the one before it, nor
\* clearly worse than one it passed.
LEMMA PrecedesFits ==
    ASSUME NEW a, NEW b, Score(a), Score(b), NEW habit
    PROVE  /\ Precedes(a, b, habit) /\ a.eliminated => b.eliminated
           /\ ~Precedes(a, b, habit) /\ b.eliminated => a.eliminated
           /\ ~Precedes(a, b, habit) /\ ~a.eliminated => ~FarAbove(a, b)
           /\ Precedes(a, b, habit) /\ ~b.eliminated => ~FarAbove(b, a)
<1>1. a.eliminated # b.eliminated => (Precedes(a, b, habit) <=> ~a.eliminated)
  BY DEF Precedes
<1>2. a.eliminated = b.eliminated /\ (FarAbove(a, b) \/ FarAbove(b, a))
        => (Precedes(a, b, habit) <=> Above(a, b))
  BY DEF Precedes
<1>3. FarAbove(a, b) => Above(a, b)
  BY FarIsAbove
<1>4. FarAbove(b, a) => ~Above(a, b)
  BY FarIsAbove
<1>5. a.eliminated \in BOOLEAN /\ b.eliminated \in BOOLEAN
  BY DEF Score
<1> QED BY <1>1, <1>2, <1>3, <1>4, <1>5

\* Inserting a slot keeps the ranking in order, and everything in it.
LEMMA InsertKeepsOrder ==
    ASSUME NEW S, \A e \in S : Score(e), NEW q \in Seq(S), Ordered(q), NEW x \in S, NEW habit
    PROVE  /\ Insert(q, x, habit) \in Seq(S)
           /\ Len(Insert(q, x, habit)) = Len(q) + 1
           /\ {Insert(q, x, habit)[k] : k \in 1 .. Len(q) + 1}
                = {q[k] : k \in 1 .. Len(q)} \cup {x}
           /\ Ordered(Insert(q, x, habit))
<1> DEFINE n     == Len(q)
           stops == {k \in DOMAIN q : ~Precedes(x, q[k], habit)}
           at    == Max({0} \cup stops)
           r     == SubSeq(q, 1, at) \o <<x>> \o SubSeq(q, at + 1, Len(q))
<1>1. n \in Nat /\ DOMAIN q = 1 .. n /\ \A k \in 1 .. n : q[k] \in S
  OBVIOUS
<1>2. /\ at \in 0 .. n /\ (at = 0 \/ at \in stops)
      /\ \A k \in stops : k <= at
  <2>1. {0} \cup stops \subseteq 0 .. n
    BY <1>1
  <2> HIDE DEF stops, n
  <2>2. Max({0} \cup stops) \in {0} \cup stops /\ \A k \in {0} \cup stops : k <= at
    BY <1>1, <2>1, GreatestNat
  <2> QED BY <2>1, <2>2
<1>3. /\ \A k \in 1 .. n : k > at => Precedes(x, q[k], habit)
      /\ at # 0 => ~Precedes(x, q[at], habit)
  <2>1. \A k \in 1 .. n : k \notin stops => Precedes(x, q[k], habit)
    BY <1>1
  <2>2. at \in stops => ~Precedes(x, q[at], habit)
    BY <1>1
  <2> HIDE DEF stops, at
  <2> QED BY <1>1, <1>2, <2>1, <2>2
<1>4. r = Insert(q, x, habit)
  BY DEF Insert
<1> HIDE DEF stops
<1>5. /\ r \in Seq(S) /\ Len(r) = n + 1
      /\ \A k \in 1 .. n + 1 :
            r[k] = IF k <= at THEN q[k] ELSE IF k = at + 1 THEN x ELSE q[k - 1]
  <2> DEFINE left  == SubSeq(q, 1, at)
             right == SubSeq(q, at + 1, Len(q))
  <2> HIDE DEF at
  <2>1. left \in Seq(S) /\ Len(left) = at /\ \A k \in 1 .. at : left[k] = q[k]
    BY <1>1, <1>2
  <2>2. right \in Seq(S) /\ Len(right) = n - at /\ \A k \in 1 .. n - at : right[k] = q[k + at]
    <3>1. \A i \in at + 1 .. n : q[i] \in S
      BY <1>1, <1>2
    <3>2. at + 1 \in Int /\ n \in Int
      BY <1>1, <1>2
    <3>3. /\ right \in Seq(S) /\ Len(right) = IF at + 1 <= n THEN n - (at + 1) + 1 ELSE 0
          /\ \A i \in 1 .. n - (at + 1) + 1 : right[i] = q[(at + 1) + i - 1]
      BY <3>1, <3>2, SubSeqProperties
    <3> HIDE DEF right, n
    <3>4. /\ (IF at + 1 <= n THEN n - (at + 1) + 1 ELSE 0) = n - at
          /\ n - (at + 1) + 1 = n - at
          /\ \A i \in 1 .. n - at : (at + 1) + i - 1 = i + at
      BY <1>1, <1>2
    <3> QED BY <3>3, <3>4
  <2> HIDE DEF left, right
  <2>3. <<x>> \in Seq(S) /\ Len(<<x>>) = 1 /\ <<x>>[1] = x
    OBVIOUS
  <2> DEFINE most == left \o <<x>>
  <2>4. /\ most \in Seq(S) /\ Len(most) = at + 1
        /\ \A k \in 1 .. at + 1 : most[k] = IF k <= at THEN q[k] ELSE x
    BY <1>2, <2>1, <2>3
  <2>5. r = most \o right
    BY DEF left, right
  <2> HIDE DEF most, r
  <2>6. r \in Seq(S) /\ Len(r) = n + 1
    <3>1. r \in Seq(S) /\ Len(r) = Len(most) + Len(right)
      BY <2>2, <2>4, <2>5, ConcatProperties
    <3>2. Len(most) = at + 1 /\ Len(right) = n - at
      BY <2>2, <2>4
    <3> QED BY <1>1, <1>2, <3>1, <3>2
  <2>7. ASSUME NEW k \in 1 .. n + 1
        PROVE  r[k] = IF k <= at THEN q[k] ELSE IF k = at + 1 THEN x ELSE q[k - 1]
    <3>1. CASE k <= at + 1
      <4>1. k \in 1 .. at + 1
        BY <1>2, <3>1
      <4>2. k \in 1 .. Len(most) + Len(right) /\ k <= Len(most)
        BY <1>1, <1>2, <2>2, <2>4, <4>1
      <4>3. r[k] = most[k]
        BY <2>2, <2>4, <2>5, <4>2, ConcatProperties
      <4> QED BY <1>2, <2>4, <4>1, <4>3
    <3>2. CASE k > at + 1
      <4>0. k \in 1 .. Len(most) + Len(right) /\ ~(k <= Len(most)) /\ Len(most) = at + 1
        BY <1>1, <1>2, <2>2, <2>4, <3>2
      <4>1. r[k] = right[k - (at + 1)]
        BY <2>2, <2>4, <2>5, <4>0, ConcatProperties
      <4>2. k - (at + 1) \in 1 .. n - at /\ k - (at + 1) + at = k - 1
        BY <1>1, <1>2, <3>2
      <4> QED BY <1>2, <2>2, <3>2, <4>1, <4>2
    <3> QED BY <1>2, <3>1, <3>2
  <2> QED BY <2>6, <2>7
<1> HIDE DEF at, r
<1>6. {r[k] : k \in 1 .. n + 1} = {q[k] : k \in 1 .. n} \cup {x}
  <2>1. ASSUME NEW k \in 1 .. n + 1 PROVE r[k] \in {q[l] : l \in 1 .. n} \cup {x}
    BY <1>1, <1>2, <1>5
  <2>2. ASSUME NEW k \in 1 .. n PROVE q[k] \in {r[l] : l \in 1 .. n + 1}
    <3>1. CASE k <= at
      <4>1. k \in 1 .. n + 1 /\ r[k] = q[k]
        BY <1>1, <1>2, <1>5, <3>1
      <4> QED BY <4>1
    <3>2. CASE k > at
      <4>1. k + 1 \in 1 .. n + 1 /\ r[k + 1] = q[k]
        BY <1>1, <1>2, <1>5, <3>2
      <4> QED BY <4>1
    <3> QED BY <1>1, <1>2, <3>1, <3>2
  <2>3. at + 1 \in 1 .. n + 1 /\ r[at + 1] = x
    BY <1>1, <1>2, <1>5
  <2> HIDE DEF n
  <2> QED BY <2>1, <2>2, <2>3
<1>7. Score(x) /\ \A k \in 1 .. n : Score(q[k])
  BY <1>1
<1>8. /\ \A k \in 1 .. n : k <= at /\ q[k].eliminated => x.eliminated
      /\ \A k \in 1 .. n : k > at /\ x.eliminated => q[k].eliminated
  <2>1. ASSUME at # 0, q[at].eliminated PROVE x.eliminated
    <3>1. at \in 1 .. n
      BY <1>1, <1>2, <2>1
    <3>2. Score(x) /\ Score(q[at]) /\ ~Precedes(x, q[at], habit)
      BY <1>3, <1>7, <2>1, <3>1
    <3> QED BY <2>1, <3>2, PrecedesFits
  <2>2. \A k \in 1 .. n : k <= at /\ q[k].eliminated => at # 0 /\ q[at].eliminated
    BY <1>1, <1>2 DEF Ordered
  <2>3. ASSUME NEW k \in 1 .. n, k > at, x.eliminated PROVE q[k].eliminated
    BY <1>3, <1>7, <2>3, PrecedesFits
  <2> QED BY <2>1, <2>2, <2>3
<1>9. /\ at # 0 /\ ~x.eliminated => ~FarAbove(x, q[at])
      /\ \A k \in 1 .. n : k > at /\ ~q[k].eliminated => ~FarAbove(q[k], x)
  <2>1. ASSUME at # 0, ~x.eliminated PROVE ~FarAbove(x, q[at])
    <3>1. at \in 1 .. n
      BY <1>1, <1>2, <2>1
    <3>2. Score(x) /\ Score(q[at]) /\ ~Precedes(x, q[at], habit)
      BY <1>3, <1>7, <2>1, <3>1
    <3> QED BY <2>1, <3>2, PrecedesFits
  <2>2. ASSUME NEW k \in 1 .. n, k > at, ~q[k].eliminated PROVE ~FarAbove(q[k], x)
    BY <1>3, <1>7, <2>2, PrecedesFits
  <2> QED BY <2>1, <2>2
<1>10. DOMAIN r = 1 .. n + 1
  BY <1>1, <1>5
<1>11. ASSUME NEW k \in 1 .. n + 1, NEW l \in 1 .. n + 1, k < l, r[k].eliminated
       PROVE  r[l].eliminated
  <2> HIDE DEF n
  <2>1. CASE l <= at
    <3>1. q[k].eliminated /\ k \in 1 .. n /\ l \in 1 .. n /\ r[l] = q[l]
      BY <1>1, <1>2, <1>5, <1>11, <2>1
    <3> QED BY <1>1, <1>11, <3>1 DEF Ordered
  <2>2. CASE l = at + 1
    BY <1>1, <1>2, <1>5, <1>8, <1>11, <2>2
  <2>3. CASE l > at + 1 /\ k <= at
    <3>1. q[k].eliminated /\ k \in 1 .. n /\ l - 1 \in 1 .. n /\ k < l - 1 /\ r[l] = q[l - 1]
      BY <1>1, <1>2, <1>5, <1>11, <2>3
    <3> QED BY <1>1, <3>1 DEF Ordered
  <2>4. CASE l > at + 1 /\ k = at + 1
    <3>1. x.eliminated /\ l - 1 \in 1 .. n /\ l - 1 > at /\ r[l] = q[l - 1]
      BY <1>1, <1>2, <1>5, <1>11, <2>4
    <3> QED BY <1>8, <3>1
  <2>5. CASE l > at + 1 /\ k > at + 1
    <3>1. /\ q[k - 1].eliminated /\ k - 1 \in 1 .. n /\ l - 1 \in 1 .. n /\ k - 1 < l - 1
          /\ r[l] = q[l - 1]
      BY <1>1, <1>2, <1>5, <1>11, <2>5
    <3> QED BY <1>1, <3>1 DEF Ordered
  <2> QED BY <1>1, <1>2, <2>1, <2>2, <2>3, <2>4, <2>5
<1>12. ASSUME NEW k \in 1 .. n + 1, k > 1, ~r[k].eliminated
       PROVE  ~FarAbove(r[k], r[k - 1])
  <2> HIDE DEF n
  <2>1. CASE k <= at
    <3>1. r[k] = q[k] /\ r[k - 1] = q[k - 1] /\ k \in 1 .. n
      BY <1>1, <1>2, <1>5, <1>12, <2>1
    <3> QED BY <1>1, <1>12, <3>1 DEF Ordered
  <2>2. CASE k = at + 1
    <3>1. r[k] = x /\ r[k - 1] = q[at] /\ at # 0
      BY <1>1, <1>2, <1>5, <1>12, <2>2
    <3> QED BY <1>9, <1>12, <3>1
  <2>3. CASE k = at + 2
    <3>1. r[k] = q[k - 1] /\ r[k - 1] = x /\ k - 1 \in 1 .. n /\ k - 1 > at
      BY <1>1, <1>2, <1>5, <1>12, <2>3
    <3> QED BY <1>9, <1>12, <3>1
  <2>4. CASE k > at + 2
    <3>1. /\ r[k] = q[k - 1] /\ r[k - 1] = q[(k - 1) - 1]
          /\ k - 1 \in 1 .. n /\ k - 1 > 1
      BY <1>1, <1>2, <1>5, <1>12, <2>4
    <3> QED BY <1>1, <1>12, <3>1 DEF Ordered
  <2> QED BY <1>1, <1>2, <2>1, <2>2, <2>3, <2>4
<1>13. Ordered(r)
  BY <1>10, <1>11, <1>12 DEF Ordered
<1> QED BY <1>4, <1>5, <1>6, <1>13

\* The sort, slot by slot: the recursion of RankWithHistory has a solution.
Step(f, n, g, habit) ==
    IF n = 0 THEN <<>> ELSE Insert(f[n - 1], ScoreSlot(n, g), habit)

LEMMA SortExists ==
    ASSUME NEW g, NEW habit, NEW m \in Nat
    PROVE  \E f : f = [n \in 0 .. m |-> Step(f, n, g, habit)]
<1> DEFINE Solved(i) == \E f : f = [n \in 0 .. i |-> Step(f, n, g, habit)]
           T == {i \in Nat : ~Solved(i)}
<1>1. Solved(0)
  <2> DEFINE f == [n \in 0 .. 0 |-> <<>>]
  <2>1. f = [n \in 0 .. 0 |-> Step(f, n, g, habit)]
    BY DEF Step
  <2> QED BY <2>1
<1>2. ASSUME NEW i \in Nat, Solved(i)
      PROVE  Solved(i + 1)
  <2>1. PICK f : f = [n \in 0 .. i |-> Step(f, n, g, habit)]
    BY <1>2
  <2> DEFINE h == [n \in 0 .. i + 1 |->
                     IF n = i + 1 THEN Insert(f[i], ScoreSlot(i + 1, g), habit) ELSE f[n]]
  <2>2. \A n \in 0 .. i : h[n] = f[n]
    OBVIOUS
  <2>3. ASSUME NEW n \in 0 .. i + 1
        PROVE  h[n] = Step(h, n, g, habit)
    <3>1. CASE n = 0
      <4>1. h[n] = f[0] /\ f[0] = <<>>
        BY <2>1, <3>1 DEF Step
      <4> QED BY <3>1, <4>1 DEF Step
    <3>2. CASE n \in 1 .. i
      <4>1. h[n] = f[n] /\ h[n - 1] = f[n - 1]
        BY <2>2, <3>2
      <4>2. f[n] = Insert(f[n - 1], ScoreSlot(n, g), habit)
        BY <2>1, <3>2 DEF Step
      <4> HIDE DEF h
      <4> QED BY <3>2, <4>1, <4>2 DEF Step
    <3>3. CASE n = i + 1
      <4>1. h[n] = Insert(f[i], ScoreSlot(i + 1, g), habit) /\ h[i] = f[i] /\ n - 1 = i
        BY <2>2, <3>3
      <4> HIDE DEF h
      <4> QED BY <3>3, <4>1 DEF Step
    <3> QED BY <3>1, <3>2, <3>3
  <2>4. h = [n \in 0 .. i + 1 |-> Step(h, n, g, habit)]
    <3>1. DOMAIN h = 0 .. i + 1 /\ h = [n \in DOMAIN h |-> h[n]]
      OBVIOUS
    <3> HIDE DEF h
    <3> QED BY <2>3, <3>1
  <2> QED BY <2>4
<1> HIDE DEF Solved
<1>3. T = {}
  <2> SUFFICES ASSUME T # {} PROVE FALSE
    OBVIOUS
  <2>1. PICK i \in T : \A j \in T : i <= j
    BY LeastNat
  <2>2. i \in Nat /\ i # 0 /\ ~Solved(i)
    BY <1>1
  <2>3. i - 1 \in Nat /\ (i - 1) + 1 = i
    BY <2>2
  <2>4. Solved(i - 1)
    BY <2>1, <2>3
  <2>5. Solved((i - 1) + 1)
    BY <1>2, <2>3, <2>4
  <2> QED BY <2>2, <2>3, <2>5
<1> QED BY <1>3 DEF Solved

\* Every slot is ranked, in order, however many there are.
LEMMA RankingOrdered ==
    ASSUME NEW g, IsView(g), NEW habit
    PROVE  LET q == RankWithHistory(g, habit)
           IN  /\ DOMAIN q = Slots
               /\ {q[k] : k \in Slots} = {ScoreSlot(s, g) : s \in Slots}
               /\ Ordered(q)
<1> DEFINE S == {ScoreSlot(s, g) : s \in Slots}
           sorted == CHOOSE f : f = [n \in 0 .. NumSlots |-> Step(f, n, g, habit)]
           Good(n) == /\ sorted[n] \in Seq(S) /\ Len(sorted[n]) = n
                      /\ {sorted[n][k] : k \in 1 .. n} = {ScoreSlot(s, g) : s \in 1 .. n}
                      /\ Ordered(sorted[n])
           T == {n \in 0 .. NumSlots : ~Good(n)}
<1>0. NumSlots \in Nat /\ Slots = 1 .. NumSlots
  BY NumSlotsAssumption DEF Slots
<1>1. sorted = [n \in 0 .. NumSlots |-> Step(sorted, n, g, habit)]
  BY <1>0, SortExists
<1>2. RankWithHistory(g, habit) = sorted[NumSlots]
  BY DEF RankWithHistory, Step
<1> HIDE DEF sorted
<1>3. \A e \in S : Score(e)
  BY ScoreIsFraction DEF Score
<1>4. Good(0)
  <2>1. sorted[0] = <<>>
    BY <1>0, <1>1 DEF Step
  <2> QED BY <2>1 DEF Ordered
<1>5. ASSUME NEW n \in 1 .. NumSlots, Good(n - 1)
      PROVE  Good(n)
  <2> DEFINE q == sorted[n - 1]
             x == ScoreSlot(n, g)
  <2>1. sorted[n] = Insert(q, x, habit)
    BY <1>0, <1>1 DEF Step
  <2>2. q \in Seq(S) /\ Len(q) = n - 1 /\ Ordered(q) /\ x \in S
    BY <1>0, <1>5
  <2>3. {q[k] : k \in 1 .. n - 1} = {ScoreSlot(s, g) : s \in 1 .. n - 1}
    BY <1>5
  <2> HIDE DEF S, q, x
  <2>4. /\ Insert(q, x, habit) \in Seq(S)
        /\ Len(Insert(q, x, habit)) = Len(q) + 1
        /\ {Insert(q, x, habit)[k] : k \in 1 .. Len(q) + 1}
             = {q[k] : k \in 1 .. Len(q)} \cup {x}
        /\ Ordered(Insert(q, x, habit))
    BY <1>3, <2>2, InsertKeepsOrder
  <2>5. Len(q) + 1 = n
    BY <2>2
  <2>6. {ScoreSlot(s, g) : s \in 1 .. n} = {ScoreSlot(s, g) : s \in 1 .. n - 1} \cup {x}
    <3>1. 1 .. n = (1 .. n - 1) \cup {n}
      OBVIOUS
    <3> QED BY <3>1 DEF x
  <2>7. sorted[n] \in Seq(S) /\ Len(sorted[n]) = n /\ Ordered(sorted[n])
    BY <2>1, <2>4, <2>5
  <2>8. {sorted[n][k] : k \in 1 .. n} = {ScoreSlot(s, g) : s \in 1 .. n}
    <3>1. 1 .. Len(q) = 1 .. n - 1 /\ 1 .. Len(q) + 1 = 1 .. n
      BY <2>2, <2>5
    <3>2. {sorted[n][k] : k \in 1 .. n} = {q[k] : k \in 1 .. n - 1} \cup {x}
      BY <2>1, <2>4, <3>1
    <3>3. {q[k] : k \in 1 .. n - 1} = {ScoreSlot(s, g) : s \in 1 .. n - 1}
      BY <2>3
    <3> QED BY <2>6, <3>2, <3>3
  <2> QED BY <2>7, <2>8
<1> HIDE DEF Good
<1>6. T = {}
  <2> SUFFICES ASSUME T # {} PROVE FALSE
    OBVIOUS
  <2>0. T \subseteq Nat
    BY <1>0
  <2>1. PICK i \in T : \A j \in T : i <= j
    <3> HIDE DEF T
    <3> QED BY <2>0, LeastNat
  <2>2. i \in 1 .. NumSlots /\ ~Good(i)
    BY <1>0, <1>4
  <2>3. i - 1 \in 0 .. NumSlots /\ ~(i <= i - 1)
    BY <1>0, <2>2
  <2>4. Good(i - 1)
    BY <2>1, <2>3
  <2> QED BY <1>5, <2>2, <2>4
<1>7. Good(NumSlots)
  BY <1>0, <1>6
<1>8. sorted[NumSlots] \in Seq(S) /\ Len(sorted[NumSlots]) = NumSlots
      /\ {sorted[NumSlots][k] : k \in 1 .. NumSlots} = {ScoreSlot(s, g) : s \in 1 .. NumSlots}
      /\ Ordered(sorted[NumSlots])
  BY <1>7 DEF Good
<1>9. DOMAIN sorted[NumSlots] = Slots
  <2> HIDE DEF S
  <2> QED BY <1>0, <1>8
<1> QED BY <1>0, <1>2, <1>8, <1>9

-----------------------------------------------------------------------------
(* The poll over time. *)

\* A poll that nobody has joined has the types.
LEMMA PollInit == Init => TypeOK
BY DEF Init, TypeOK

\* Joins and submissions keep the poll's types.
LEMMA PollStep == ASSUME TypeOK, Next PROVE TypeOK'
<1>1. ASSUME NEW p \in People, Join(p) PROVE TypeOK'
  BY <1>1 DEF Join, TypeOK
<1>2. ASSUME NEW p \in People, Submit(p) PROVE TypeOK'
  BY <1>2 DEF Submit, TypeOK
<1> QED BY <1>1, <1>2 DEF Next

LEMMA ViewIsView == TypeOK => IsView(View) /\ AllOrNothing(View)
<1> SUFFICES ASSUME TypeOK PROVE IsView(View) /\ AllOrNothing(View)
  OBVIOUS
<1>1. DOMAIN View = joined /\ joined \subseteq People
  BY DEF View, Build, TypeOK
<1>2. ASSUME NEW p \in joined
      PROVE  /\ View[p] \in [Slots -> Tiers \cup {Unknown}]
             /\ \/ \A s \in Slots : View[p][s] \in Tiers
                \/ \A s \in Slots : View[p][s] = Unknown
  <2>1. View[p] = [s \in Slots |->
          IF p \notin responded THEN Unknown
          ELSE IF s \in DOMAIN rows[p] THEN rows[p][s] ELSE TierNo]
    BY DEF View, Build
  <2>2. rows[p] \in Submissions \cup {NoRows}
    BY <1>1 DEF TypeOK
  <2>3. ASSUME NEW s \in DOMAIN rows[p] PROVE rows[p][s] \in Tiers
    <3>1. rows[p] \in Submissions
      BY <2>2, <2>3 DEF NoRows
    <3>2. PICK S \in SUBSET Slots : rows[p] \in [S -> Tiers]
      BY <3>1, SubmissionsAssumption
    <3> QED BY <2>3, <3>2
  <2>4. TierNo \in Tiers
    BY DEF Tiers
  <2> QED BY <2>1, <2>3, <2>4
<1> QED BY <1>1, <1>2 DEF IsView, AllOrNothing

\* With a slot ruled out on the data so far, no completion lets it stand.
LEMMA RuledOutStaysOut ==
    ASSUME NEW g, IsView(g), NEW s \in Slots, ScoreSlot(s, g).eliminated,
           NEW c \in Completions(g), AllOrNothing(g)
    PROVE  ~Stands(s, c)
<1>1. PICK p \in DOMAIN g \cap Required : g[p][s] = TierNo
  BY EliminatedIsRefused DEF Refused
<1>2. \A o \in Slots : g[p][o] \in Tiers
  BY <1>1 DEF AllOrNothing, TierNo, Unknown
<1>3. p \notin Missing(g)
  BY <1>2 DEF Missing, Tiers, TierNo, TierIfNeeded, TierOK, TierPreferred, Unknown
<1>4. p \in DOMAIN c /\ c[p][s] = TierNo
  BY <1>1, <1>3, CompletionsMeans
<1>5. ScoreSlot(s, c).eliminated
  BY <1>1, <1>4, EliminatedIsRefused DEF Refused
<1> QED BY <1>5 DEF Stands, Scores

LEMMA ExactVerdict ==
    ASSUME Sociable, TypeOK
    PROVE  DecidableIsExact
<1> DEFINE g == View
           d == Analyze(g)
           q == RankWithHistory(g, Affinity)
<1>1. IsView(g) /\ AllOrNothing(g)
  BY ViewIsView
<1>2. /\ d.decidable = (BeatsAll(g) # {})
      /\ BeatsAll(g) # {} => d.leader = Min(BeatsAll(g))
  BY DEF Analyze
<1>3. BeatsAll(g) \subseteq Slots /\ Slots \subseteq Nat
  BY DEF BeatsAll, Slots
<1>4. Verdict(d, q) = "decidable" =>
        d.decidable /\ ~(\A k \in DOMAIN q : q[k].eliminated)
  BY DEF Verdict
<1>5. Verdict(d, q) # "decidable" =>
        ~d.decidable \/ \A k \in DOMAIN q : q[k].eliminated
  BY DEF Verdict
<1> HIDE DEF d
<1>6. DOMAIN q = Slots /\ {q[k] : k \in Slots} = {ScoreSlot(s, g) : s \in Slots}
  BY <1>1, RankingOrdered
<1> HIDE DEF g, q
<1>7. ASSUME Verdict(d, q) = "decidable"
      PROVE  \E s \in Slots : s = d.leader /\ \A c \in Completions(g) : Stands(s, c)
  <2>1. d.leader \in BeatsAll(g)
    BY <1>2, <1>3, <1>4, <1>7, MinIsLeast
  <2> QED BY <1>1, <1>3, <2>1, BeatsAllIsExact
<1>8. ASSUME Verdict(d, q) # "decidable", NEW s \in Slots
      PROVE  \E c \in Completions(g) : ~Stands(s, c)
  <2>1. CASE ~d.decidable
    BY <1>1, <1>2, <2>1, BeatsAllIsExact
  <2>2. CASE \A k \in DOMAIN q : q[k].eliminated
    <3>1. ScoreSlot(s, g) \in {q[k] : k \in Slots}
      BY <1>6
    <3>2. ScoreSlot(s, g).eliminated
      BY <1>6, <2>2, <3>1
    <3>3. Mixed(g, s, TierNo, TierNo) \in Completions(g)
      BY <1>1, MixedIsCompletion DEF Tiers
    <3> QED BY <1>1, <3>2, <3>3, RuledOutStaysOut
  <2> QED BY <1>5, <1>8, <2>1, <2>2
<1> QED BY <1>7, <1>8 DEF DecidableIsExact, g, d, q

LEMMA ExactWinners ==
    ASSUME Sociable, TypeOK
    PROVE  WinnersArePossible
<1>1. IsView(View) /\ AllOrNothing(View)
  BY ViewIsView
<1>2. \A s \in Slots : s \in PossibleWinners(View)
        <=> \E c \in Completions(View) : Stands(s, c)
  BY <1>1, PossibleWinnersAreExact
<1>3. PossibleWinners(View) \subseteq Slots
  BY DEF PossibleWinners
<1> QED BY <1>2, <1>3 DEF WinnersArePossible

LEMMA OrderedRanking == TypeOK => RankingIsOrdered
<1> SUFFICES ASSUME TypeOK PROVE RankingIsOrdered
  OBVIOUS
<1> DEFINE q == RankWithHistory(View, Affinity)
<1>1. /\ DOMAIN q = Slots /\ Ordered(q)
      /\ {q[k] : k \in Slots} = {ScoreSlot(s, View) : s \in Slots}
  BY ViewIsView, RankingOrdered
<1>2. \A k \in Slots \ {1} : k > 1
  BY DEF Slots
<1> HIDE DEF q
<1>3. /\ {q[k] : k \in Slots} = {ScoreSlot(s, View) : s \in Slots}
      /\ \A k, l \in Slots : k < l /\ q[k].eliminated => q[l].eliminated
      /\ \A k \in Slots \ {1} : ~q[k].eliminated => ~FarAbove(q[k], q[k - 1])
  BY <1>1, <1>2 DEF Ordered
<1> QED BY <1>3 DEF RankingIsOrdered, q

\* Tolerances add up along a chain of scores n1/d1, n/d, m/e.
LEMMA TolerancesAddUp ==
    ASSUME NEW n1 \in Nat, NEW d1 \in Nat \ {0}, NEW n \in Nat, NEW d \in Nat \ {0},
           NEW m \in Nat, NEW e \in Nat \ {0}, NEW k \in Nat,
           n * d1 - n1 * d <= k * (5 * (d * d1)),
           m * d - n * e <= 5 * (e * d)
    PROVE  m * d1 - n1 * e <= (k + 1) * (5 * (e * d1))
<1> DEFINE x == m * d1 - n1 * e
           y == (k + 1) * (5 * (e * d1))
<1>1. \A a, b \in Int, c \in Nat : a <= b => a * c <= b * c
  OBVIOUS
<1>2. (n * d1 - n1 * d) * e <= (k * (5 * (d * d1))) * e
  BY <1>1
<1>3. (m * d - n * e) * d1 <= (5 * (e * d)) * d1
  BY <1>1
<1>4. x * d = (n * d1 - n1 * d) * e + (m * d - n * e) * d1
  OBVIOUS
<1>5. y * d = (k * (5 * (d * d1))) * e + (5 * (e * d)) * d1
  OBVIOUS
<1>6. x \in Int /\ y \in Int
  OBVIOUS
<1>7. x * d <= y * d
  BY <1>2, <1>3, <1>4, <1>5
<1>8. \A a, b \in Int, c \in Nat \ {0} : a * c <= b * c => a <= b
  OBVIOUS
<1> HIDE DEF x, y
<1>9. x <= y
  BY <1>6, <1>7, <1>8
<1> QED BY <1>9 DEF x, y

\* In an ordered ranking no surviving slot is ahead of the first by more than a
\* tolerance per place.
LEMMA FirstIsClose ==
    ASSUME NEW q, DOMAIN q = Slots, Ordered(q), \A k \in Slots : Score(q[k]),
           NEW l \in Slots, ~q[l].eliminated
    PROVE  Within(q[l], q[1], l - 1)
<1> DEFINE T == {k \in Slots : ~q[k].eliminated /\ ~Within(q[k], q[1], k - 1)}
<1> SUFFICES ASSUME T # {} PROVE FALSE
  OBVIOUS
<1>1. Slots \subseteq Nat \ {0} /\ \A k \in Slots : k = 1 \/ k - 1 \in Slots
  BY NumSlotsAssumption DEF Slots
<1>2. PICK k \in T : \A j \in T : k <= j
  BY <1>1, LeastNat
<1>3. k # 1
  <2> SUFFICES ASSUME k = 1 PROVE FALSE
    OBVIOUS
  <2>1. q[1].num * q[1].den \in Nat /\ q[1].den * q[1].den \in Nat
    BY <1>2 DEF Score
  <2>2. q[1].num * q[1].den - q[1].num * q[1].den <= 0 * (HistoryEpsilon * (q[1].den * q[1].den))
    BY <2>1 DEF HistoryEpsilon
  <2> QED BY <1>2, <2>2 DEF Within
<1>4. k \in Slots /\ k - 1 \in Slots /\ 1 \in Slots /\ k > 1 /\ k - 1 < k
  <2>1. k \in Slots
    BY <1>2
  <2>2. k \in Nat \ {0} /\ k - 1 \in Slots
    BY <1>1, <1>3, <2>1
  <2>3. 1 \in Slots
    BY NumSlotsAssumption DEF Slots
  <2> QED BY <1>3, <2>1, <2>2, <2>3
<1>5. ~q[k - 1].eliminated
  BY <1>2, <1>4 DEF Ordered, Score
<1>6. Within(q[k - 1], q[1], k - 2)
  <2>1. k - 1 \notin T
    BY <1>1, <1>2, <1>4
  <2>2. (k - 1) - 1 = k - 2
    BY <1>1, <1>4
  <2> QED BY <1>4, <1>5, <2>1, <2>2
<1>7. ~FarAbove(q[k], q[k - 1])
  BY <1>2, <1>4 DEF Ordered
<1> DEFINE a == q[k]
           b == q[k - 1]
           c == q[1]
<1>8. Score(a) /\ Score(b) /\ Score(c)
  BY <1>4
<1>9. b.num * c.den - c.num * b.den <= (k - 2) * (5 * (b.den * c.den))
  BY <1>6 DEF Within, HistoryEpsilon
<1>10. a.num * b.den - b.num * a.den <= 5 * (a.den * b.den)
  <2>1. /\ a.num * b.den - b.num * a.den \in Int
        /\ 5 * a.den * b.den \in Int
        /\ 5 * a.den * b.den = 5 * (a.den * b.den)
    BY <1>8 DEF Score
  <2> QED BY <1>7, <2>1 DEF FarAbove, HistoryEpsilon
<1>11. k - 2 \in Nat /\ (k - 2) + 1 = k - 1
  BY <1>1, <1>4
<1> HIDE DEF a, b, c
<1>12. a.num * c.den - c.num * a.den <= ((k - 2) + 1) * (5 * (a.den * c.den))
  BY <1>8, <1>9, <1>10, <1>11, TolerancesAddUp DEF Score
<1>13. Within(a, c, k - 1)
  BY <1>11, <1>12 DEF Within, HistoryEpsilon
<1> QED BY <1>2, <1>13 DEF a, c

\* The leader survives and has a place in the ranking, so the first is close.
LEMMA FittingRanking == TypeOK => RankingFitsVerdict
<1> DEFINE g == View
           d == Analyze(g)
           q == RankWithHistory(g, Affinity)
<1> SUFFICES ASSUME TypeOK, Verdict(d, q) = "decidable", Missing(g) = {}
             PROVE  \E k \in Slots : /\ q[k] = ScoreSlot(d.leader, g)
                                    /\ Within(q[k], q[1], k - 1)
  BY DEF RankingFitsVerdict
<1>1. IsView(g)
  BY ViewIsView
<1>2. BeatsAll(g) # {} /\ d.leader = Min(BeatsAll(g))
  BY DEF Verdict, Analyze
<1>3. BeatsAll(g) \subseteq Slots /\ Slots \subseteq Nat
  BY DEF BeatsAll, Slots
<1> HIDE DEF d
<1>4. d.leader \in BeatsAll(g)
  BY <1>2, <1>3, MinIsLeast
<1>5. ~ScoreSlot(d.leader, Fill(g, TierNo)).eliminated
  BY <1>4, FilledIsBound DEF BeatsAll
<1>6. ~ScoreSlot(d.leader, g).eliminated
  <2>1. \A p \in DOMAIN g : g[p][d.leader] # Unknown
    BY <1>3, <1>4 DEF Missing
  <2>2. \A p \in DOMAIN g : Fill(g, TierNo)[p][d.leader] = g[p][d.leader]
    BY <1>3, <1>4, <2>1 DEF Fill
  <2>3. DOMAIN Fill(g, TierNo) = DOMAIN g
    BY DEF Fill
  <2> QED BY <1>5, <2>2, <2>3, SameColumn
<1>7. /\ DOMAIN q = Slots /\ Ordered(q)
      /\ {q[k] : k \in Slots} = {ScoreSlot(s, g) : s \in Slots}
  BY <1>1, RankingOrdered
<1>8. \A k \in Slots : Score(q[k])
  <2>1. \A s \in Slots : Score(ScoreSlot(s, g))
    BY <1>1, ScoreIsFraction DEF Score
  <2>2. \A k \in Slots : q[k] \in {ScoreSlot(s, g) : s \in Slots}
    BY <1>7
  <2> QED BY <2>1, <2>2
<1> HIDE DEF g, q
<1>9. PICK k \in Slots : q[k] = ScoreSlot(d.leader, g)
  <2>1. ScoreSlot(d.leader, g) \in {q[k] : k \in Slots}
    BY <1>3, <1>4, <1>7
  <2> QED BY <2>1
<1>10. Within(q[k], q[1], k - 1)
  BY <1>6, <1>7, <1>8, <1>9, FirstIsClose
<1> QED BY <1>9, <1>10

-----------------------------------------------------------------------------
(* What a decide request sees. *)

\* The scorer rules out a slot that a required participant refuses.
LEMMA RefusalEliminates ==
    ASSUME NEW g, NEW s, NEW p \in DOMAIN g, p \in Required, g[p][s] = TierNo
    PROVE  ScoreSlot(s, g).eliminated
<1> DEFINE answered == Answered(s, g)
           coming   == {q \in answered : g[q][s] \notin {TierNo, Unknown}}
<1>1. p \in (answered \ coming) \cap Required
  BY DEF Answered, TierNo, Unknown
<1> QED BY <1>1 DEF ScoreSlot

\* A tab sees a person who had responded when it read the participants with
\* whatever of theirs is stored when it reads the responses.
LEMMA SeenVeto ==
    ASSUME NEW d \in Tabs, NEW p \in People, NEW s \in Slots, Vetoes(p, s),
           p \in people[d].joined, p \in people[d].responded
    PROVE  p \in DOMAIN Seen(d) /\ Seen(d)[p][s] = TierNo
BY DEF Seen, Build, Vetoes

-----------------------------------------------------------------------------
(* The inductive invariant. *)

\* A request under way names a slot.
Asks == \A d \in Tabs : pc[d] # "idle" => pick[d] \in Slots

\* A standing veto is stored now, and its owner had responded when the tab read
\* the participants.
StandingIsStored ==
    \A d \in Tabs : \A v \in standing[d] :
        Vetoes(v[1], v[2]) /\ v[1] \in people[d].responded

\* Whoever had responded had joined.
RespondedHadJoined == \A d \in Tabs : people[d].responded \subseteq people[d].joined

Inv == DTypeOK /\ Asks /\ StandingIsStored /\ RespondedHadJoined
       /\ StandingVetoRespected

LEMMA InvInit == DInit => Inv
BY PollInit DEF DInit, Inv, DTypeOK, Nobody, Asks, StandingIsStored,
                RespondedHadJoined, StandingVetoRespected

\* Answers and joins: what still stands is stored after the step.
LEMMA AnswerStep == ASSUME Inv, Answer PROVE Inv'
<1>1. DTypeOK'
  BY PollStep DEF Answer, Inv, DTypeOK
<1>2. \A d \in Tabs : standing'[d] \subseteq standing[d] /\ standing'[d] \subseteq Vetoed'
  BY DEF Answer, Inv, DTypeOK
<1>3. StandingIsStored'
  BY <1>2 DEF StandingIsStored, Answer, Inv, Vetoed
<1> QED
  BY <1>1, <1>2, <1>3 DEF Answer, Inv, Asks, RespondedHadJoined, StandingVetoRespected

\* What the poll stores does not change, so what is vetoed does not.
LEMMA SameVetoes == ASSUME UNCHANGED vars, NEW p, NEW s PROVE Vetoes(p, s)' = Vetoes(p, s)
BY DEF vars, Vetoes

LEMMA ReadPeopleStep == ASSUME NEW d \in Tabs, Inv, ReadPeople(d) PROVE Inv'
<1>1. PICK s \in Slots, f \in BOOLEAN :
        pick' = [pick EXCEPT ![d] = s] /\ force' = [force EXCEPT ![d] = f]
  BY DEF ReadPeople
<1>2. DTypeOK'
  <2>1. TypeOK' /\ UNCHANGED <<status, decided>>
    BY DEF ReadPeople, vars, Inv, DTypeOK, TypeOK
  <2>2. pick' \in [Tabs -> Slots \cup {0}] /\ force' \in [Tabs -> BOOLEAN]
    BY <1>1 DEF Inv, DTypeOK
  <2>3. people' \in [Tabs -> [joined : SUBSET People, responded : SUBSET People]]
    BY DEF ReadPeople, Inv, DTypeOK, TypeOK
  <2>4. standing' \in [Tabs -> SUBSET (People \X Slots)]
    BY DEF ReadPeople, Inv, DTypeOK, Vetoed
  <2>5. pc' \in [Tabs -> {"idle", "responses", "lock"}]
    BY DEF ReadPeople, Inv, DTypeOK
  <2> QED BY <2>1, <2>2, <2>3, <2>4, <2>5 DEF Inv, DTypeOK
<1>3. Asks'
  BY <1>1 DEF ReadPeople, Inv, DTypeOK, Asks
<1>4. RespondedHadJoined'
  BY DEF ReadPeople, Inv, DTypeOK, TypeOK, RespondedHadJoined
<1>5. StandingIsStored'
  <2> SUFFICES ASSUME NEW t \in Tabs, NEW v \in standing'[t]
               PROVE  Vetoes(v[1], v[2])' /\ v[1] \in people'[t].responded
    BY DEF StandingIsStored
  <2>1. Vetoes(v[1], v[2])' = Vetoes(v[1], v[2])
    BY SameVetoes DEF ReadPeople
  <2>2. CASE t = d
    <3>1. v \in Vetoed /\ people'[d].responded = responded
      BY <2>2 DEF ReadPeople, Inv, DTypeOK
    <3> QED BY <2>1, <2>2, <3>1 DEF Vetoed, Vetoes
  <2>3. CASE t # d
    <3>1. v \in standing[t] /\ people'[t] = people[t]
      BY <2>3 DEF ReadPeople, Inv, DTypeOK
    <3> QED BY <2>1, <3>1 DEF Inv, StandingIsStored
  <2> QED BY <2>2, <2>3
<1>6. StandingVetoRespected'
  BY <1>1 DEF ReadPeople, Inv, DTypeOK, StandingVetoRespected
<1> QED BY <1>2, <1>3, <1>4, <1>5, <1>6 DEF Inv

\* The check: a standing veto of the pick is among what the tab sees, so that
\* without force the tab does not get to the lock.
LEMMA CheckStep == ASSUME NEW d \in Tabs, Inv, Check(d) PROVE Inv'
<1>1. DTypeOK' /\ Asks' /\ RespondedHadJoined'
  BY DEF Check, vars, Inv, DTypeOK, TypeOK, Asks, RespondedHadJoined
<1>2. StandingIsStored'
  BY SameVetoes DEF Check, Inv, StandingIsStored
<1>3. ASSUME NEW p \in People, <<p, pick[d]>> \in standing[d], pc'[d] = "lock", ~force[d]
      PROVE  FALSE
  <2>1. Vetoes(p, pick[d]) /\ p \in people[d].responded /\ p \in people[d].joined
    BY <1>3 DEF Inv, StandingIsStored, RespondedHadJoined
  <2>2. pick[d] \in Slots
    BY DEF Check, Inv, Asks
  <2>3. p \in DOMAIN Seen(d) /\ Seen(d)[p][pick[d]] = TierNo
    BY <2>1, <2>2, SeenVeto
  <2>4. RuledOut(d)
    BY <2>1, <2>3, RefusalEliminates DEF RuledOut, Vetoes
  <2> QED BY <1>3, <2>4 DEF Check, Inv, DTypeOK
<1>4. StandingVetoRespected'
  BY <1>3 DEF Check, Inv, DTypeOK, StandingVetoRespected
<1> QED BY <1>1, <1>2, <1>4 DEF Inv

LEMMA LockStep == ASSUME NEW d \in Tabs, Inv, Lock(d) PROVE Inv'
<1>1. DTypeOK'
  BY DEF Lock, vars, Inv, DTypeOK, TypeOK, Asks, Slots
<1>2. StandingIsStored'
  BY SameVetoes DEF Lock, Inv, StandingIsStored
<1> QED
  BY <1>1, <1>2 DEF Lock, Inv, DTypeOK, Asks, RespondedHadJoined, StandingVetoRespected

LEMMA FailStep == ASSUME NEW d \in Tabs, Inv, FailDecide(d) PROVE Inv'
<1>1. StandingIsStored'
  BY SameVetoes DEF FailDecide, Inv, StandingIsStored
<1> QED
  BY <1>1 DEF FailDecide, vars, Inv, DTypeOK, TypeOK, Asks, RespondedHadJoined,
              StandingVetoRespected

LEMMA ReopenStep == ASSUME Inv, Reopen PROVE Inv'
<1>1. StandingIsStored'
  BY SameVetoes DEF Reopen, requests, Inv, StandingIsStored
<1> QED
  BY <1>1 DEF Reopen, vars, requests, Inv, DTypeOK, TypeOK, Asks, RespondedHadJoined,
              StandingVetoRespected

\* The sweep: nothing stands any more.
LEMMA ExpireStep == ASSUME Inv, Expire PROVE Inv'
BY DEF Expire, Inv, DTypeOK, TypeOK, Asks, StandingIsStored, RespondedHadJoined,
       StandingVetoRespected

\* Every step keeps the invariant.
LEMMA InvStep == Inv /\ [DNext]_decideVars => Inv'
<1> SUFFICES ASSUME Inv, [DNext]_decideVars PROVE Inv'
  OBVIOUS
<1>1. CASE DNext
  BY <1>1, AnswerStep, ReopenStep, ExpireStep, ReadPeopleStep, CheckStep, LockStep,
     FailStep DEF DNext
<1>2. CASE UNCHANGED decideVars
  <2>1. StandingIsStored'
    BY <1>2, SameVetoes DEF decideVars, requests, Inv, StandingIsStored
  <2> QED
    BY <1>2, <2>1 DEF decideVars, vars, requests, Inv, DTypeOK, TypeOK, Asks,
                      RespondedHadJoined, StandingVetoRespected
<1> QED BY <1>1, <1>2

-----------------------------------------------------------------------------
(* The theorems. *)

\* Inv holds throughout.
LEMMA Invariance == DSpec => []Inv
BY InvInit, InvStep, PTL DEF DSpec

\* The types, with the events table's constraint: whatever the tabs, the
\* participants and the sweep do in between, exactly a decided event names a slot.
THEOREM DecideTypes == DSpec => []DTypeOK
<1>1. Inv => DTypeOK
  BY DEF Inv
<1> QED BY <1>1, Invariance, PTL

\* handleDecide reads participants and responses apart and updates the event
\* with no condition: still a request without force never gets to lock a slot
\* that one required participant has ruled out ever since it started.
THEOREM VetoIsRespected == DSpec => []StandingVetoRespected
<1>1. Inv => StandingVetoRespected
  BY DEF Inv
<1> QED BY <1>1, Invariance, PTL

\* Of people who are asked within their working hours, the page calls a poll
\* decidable exactly when some slot stands whatever the others answer, and
\* names such a slot: Analyze bounds slots one by one instead of enumerating
\* answers, and loses nothing by it.
THEOREM VerdictIsExact == ASSUME Sociable PROVE DSpec => []DecidableIsExact
<1>1. Inv => DecidableIsExact
  BY ExactVerdict DEF Inv, DTypeOK
<1> QED BY <1>1, Invariance, PTL

\* ... and PossibleWinners, which decides whose answer is still worth asking
\* for, is exactly the slots that some way to answer lets stand.
THEOREM WinnersAreExact == ASSUME Sociable PROVE DSpec => []WinnersArePossible
<1>1. Inv => WinnersArePossible
  BY ExactWinners DEF Inv, DTypeOK
<1> QED BY <1>1, Invariance, PTL

\* RankWithHistory ranks every slot, the ruled out ones last, and none directly
\* behind one it beats by more than HistoryEpsilon, although its comparison is
\* not transitive.
THEOREM RankingHolds == DSpec => []RankingIsOrdered
<1>1. Inv => RankingIsOrdered
  BY OrderedRanking DEF Inv, DTypeOK
<1> QED BY <1>1, Invariance, PTL

\* Once all have answered, the slot that RankWithHistory puts first with history
\* and tolerance is as good as the leader of Analyze, which knows neither, up to
\* one tolerance for each place the leader is behind.
THEOREM RankingFits == DSpec => []RankingFitsVerdict
<1>1. Inv => RankingFitsVerdict
  BY FittingRanking DEF Inv, DTypeOK
<1> QED BY <1>1, Invariance, PTL
================================================================================
