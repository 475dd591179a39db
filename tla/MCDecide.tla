-------------------------------- MODULE MCDecide -------------------------------
(* Instances of Decide for TLC. *)
EXTENDS Decide, TLC

CONSTANTS r, q, o, t1

\* The first slot preferred, the first slot only if needed, the first slot left
\* out.  Two optional people who take the first two average 65 and 70: within
\* the tolerance, with the group's habit against the leader.
NearTies ==
    {[s \in Slots |-> IF s = 1 THEN TierPreferred ELSE TierOK],
     [s \in Slots |-> IF s = 1 THEN TierIfNeeded ELSE TierOK],
     [s \in Slots \ {1} |-> TierPreferred]}

AlwaysSociable == [p \in People |-> {}]
\* The group usually meets at the earlier slots.
EarlyAffinity == [s \in Slots |-> NumSlots - s]
\* The optional people are interchangeable.
Symmetry == Permutations({q, o})
=============================================================================
