--------------------------------- MODULE Solver --------------------------------
(***************************************************************************)
(* The ranking and the dominance analysis of package solver, over one      *)
(* event's slots and participants.                                         *)
(*                                                                         *)
(* A score is an exact fraction num/den in hundredths: the code's 0.7, 0.3 *)
(* and 0.15 are 70, 30 and 15, and a weight is counted in halves (required *)
(* 2, optional 1).  The code computes the same expression in float64, so   *)
(* an exact tie here may be separated there by rounding.                   *)
(***************************************************************************)
EXTENDS Integers, FiniteSets, FiniteSetsExt, Sequences

CONSTANTS
    People,      \* everybody who may join the event
    Required,    \* those whose role is "required"
    NumSlots,    \* the event's slots are 1 .. NumSlots, chronologically
    Unsociable,  \* per person, the slots outside 8:00-21:00 in their zone
    Affinity     \* per slot, the group's habit; constant when there is none

ASSUME PeopleAssumption == IsFiniteSet(People) /\ Required \subseteq People
ASSUME NumSlotsAssumption == NumSlots \in Nat \ {0}
ASSUME UnsociableAssumption == Unsociable \in [People -> SUBSET (1 .. NumSlots)]
ASSUME AffinityAssumption == Affinity \in [1 .. NumSlots -> Nat]

Slots == 1 .. NumSlots

TierNo == 0
TierIfNeeded == 1
TierOK == 2
TierPreferred == 3
Tiers == {TierNo, TierIfNeeded, TierOK, TierPreferred}
Unknown == 4                   \* no answer from this person for this slot

\* Tier.Value, in tenths.
Value(tier) == CASE tier = TierPreferred -> 10 [] tier = TierOK -> 7
                 [] tier = TierIfNeeded -> 3 [] OTHER -> 0

\* DefaultConfig.
Alpha == 7                     \* tenths
UnsociablePenalty == 15
UnsociableCap == 45
HistoryEpsilon == 5

-----------------------------------------------------------------------------
(* Scoring.  A view g gives each participant in its domain a tier or Unknown
   for every slot. *)

AtLeast(a, b) == a.num * b.den >= b.num * a.den
Above(a, b) == a.num * b.den > b.num * a.den
\* Mutant: the tolerance in tenths.
FarAboveByTenths(a, b) ==
    (a.num * b.den - b.num * a.den) > 10 * HistoryEpsilon * a.den * b.den

\* a leads b by more than HistoryEpsilon.
FarAbove(a, b) == (a.num * b.den - b.num * a.den) > HistoryEpsilon * a.den * b.den

\* Mutant: an optional refusal drops out of the mean.
WeighedWithoutRefusals(coming, refusing) == coming

\* The people a slot's mean is taken over: an optional refusal weighs zero.
Weighed(coming, refusing) == coming \cup (refusing \ Required)

Answered(s, g) == {p \in DOMAIN g : g[p][s] # Unknown}

\* An optional answer counts once, a required one twice.
WeightOf(ps) == Cardinality(ps) + Cardinality(ps \cap Required)

\* Everybody's tier times their weight, added up tier by tier.
PointsOf(s, g, ps) ==
    LET Points(tier) == Value(tier) * WeightOf({p \in ps : g[p][s] = tier})
    IN  Points(TierPreferred) + Points(TierOK) + Points(TierIfNeeded)

ScoreSlot(s, g) ==
    LET answered == Answered(s, g)
        coming   == {p \in answered : g[p][s] \notin {TierNo, Unknown}}
        refusing == answered \ coming
        vetoed   == refusing \cap Required # {}
        weights  == WeightOf(Weighed(coming, refusing))
        weighted == PointsOf(s, g, coming)
        floor    == Min({10} \cup {Value(g[p][s]) : p \in coming \cap Required})
        late     == Cardinality({p \in coming : s \in Unsociable[p]})
        penalty  == Min({late * UnsociablePenalty, UnsociableCap})
        base     == IF coming \cap Required # {}
                    THEN Alpha * weighted + (10 - Alpha) * floor * weights
                    ELSE 10 * weighted
        scored   == ~vetoed /\ weights # 0
    IN  [start |-> s, eliminated |-> vetoed, coverage |-> Cardinality(coming),
         num |-> IF scored THEN Max({0, base - penalty * weights}) ELSE 0,
         den |-> IF scored THEN weights ELSE 1]

Scores(g) == [s \in Slots |-> ScoreSlot(s, g)]

-----------------------------------------------------------------------------
(* RankWithHistory. *)

\* The comparison of the stable sort.
Precedes(a, b, habit) ==
    IF a.eliminated # b.eliminated THEN ~a.eliminated
    ELSE IF FarAbove(a, b) \/ FarAbove(b, a) THEN Above(a, b)
    ELSE IF a.coverage # b.coverage THEN a.coverage > b.coverage
    ELSE IF habit[a.start] # habit[b.start] THEN habit[a.start] > habit[b.start]
    ELSE IF ~AtLeast(b, a) \/ ~AtLeast(a, b) THEN Above(a, b)
    ELSE a.start < b.start

\* sort.SliceStable sorts up to twenty elements by insertion: each one moves
\* left past the elements it precedes, and stops at the first it does not.
Insert(sorted, x, habit) ==
    LET stops == {k \in DOMAIN sorted : ~Precedes(x, sorted[k], habit)}
        at    == Max({0} \cup stops)
    IN  SubSeq(sorted, 1, at) \o <<x>> \o SubSeq(sorted, at + 1, Len(sorted))

RankWithHistory(g, habit) ==
    LET sorted[n \in 0 .. NumSlots] ==
            IF n = 0 THEN <<>> ELSE Insert(sorted[n - 1], ScoreSlot(n, g), habit)
    IN  sorted[NumSlots]

-----------------------------------------------------------------------------
(* Analyze. *)

\* leaderOf: the earliest of the best surviving slots; 0 when none survives.
LeaderOf(g) ==
    LET score == Scores(g)
        alive == {s \in Slots : ~score[s].eliminated}
        best  == {s \in alive : \A o \in alive : AtLeast(score[s], score[o])}
    IN  Min({NumSlots + 1} \cup best) % (NumSlots + 1)

\* boundAll: every unknown answer is fill.
Bound(g, fill) ==
    Scores([p \in DOMAIN g |-> [s \in Slots |->
                IF g[p][s] = Unknown THEN fill ELSE g[p][s]]])

\* The view with one person's unknown answers settled one way.
Pin(g, q, pin) ==
    [g EXCEPT ![q] = [s \in Slots |-> IF g[q][s] = Unknown THEN pin ELSE g[q][s]]]

Missing(g) == {p \in DOMAIN g : \E s \in Slots : g[p][s] = Unknown}

\* Mutant: a tie between bounds excludes the slot.
PossibleWinnersStrict(g) ==
    LET lo == Bound(g, TierNo)
        hi == Bound(g, TierPreferred)
    IN  {s \in Slots :
            /\ ~hi[s].eliminated
            /\ \A o \in Slots \ {s} : lo[o].eliminated \/ ~AtLeast(lo[o], hi[s])}

\* winnersFrom: slots no rival's worst case beats at their best.
PossibleWinners(g) ==
    LET lo == Bound(g, TierNo)
        hi == Bound(g, TierPreferred)
    IN  {s \in Slots :
            /\ ~hi[s].eliminated
            /\ \A o \in Slots \ {s} : lo[o].eliminated \/ ~Above(lo[o], hi[s])}

\* Settling p one way or the other narrows the field.
Widens(g, p) ==
    \/ PossibleWinners(Pin(g, p, TierNo)) # PossibleWinners(Pin(g, p, TierPreferred))
    \/ PossibleWinners(g) # PossibleWinners(Pin(g, p, TierNo))

RelevantNonResponders(g) == {p \in Missing(g) : Widens(g, p)}

\* Slots whose worst case no rival's best case beats.
BeatsAll(g) ==
    LET lo == Bound(g, TierNo)
        hi == Bound(g, TierPreferred)
    IN  {s \in Slots :
            /\ ~lo[s].eliminated
            /\ \A o \in Slots \ {s} : hi[o].eliminated \/ ~Above(hi[o], lo[s])}

Analyze(g) ==
    LET winners == BeatsAll(g)
    IN  [decidable        |-> winners # {},
         leader           |-> IF winners # {} THEN Min(winners) ELSE LeaderOf(g),
         blockingRequired |-> Missing(g) \cap Required,
         relevant         |-> IF winners # {} THEN {} ELSE RelevantNonResponders(g)]

\* toDominanceView, for an event that is still open.
Verdict(d, ranked) ==
    IF \A k \in DOMAIN ranked : ranked[k].eliminated THEN "no_slots"
    ELSE IF d.decidable THEN "decidable"
    ELSE IF d.blockingRequired # {} THEN "waiting_on_required"
    ELSE IF d.relevant # {} THEN "waiting_on_relevant"
    ELSE "tied"
=============================================================================
