--------------------------------- MODULE MCPoll --------------------------------
(* Instances of Poll for TLC. *)
EXTENDS Poll, TLC

CONSTANTS r, o, q, u   \* u only where four are asked

\* The optional people are interchangeable.
SymmetryOfFour == Permutations({o, q, u})

\* Answers that name every slot.
FullSubmissions == [Slots -> Tiers]
\* Everything is fine, and the later slots are better.
LaterIsBetter == {[s \in Slots |-> IF s > n THEN TierPreferred ELSE TierOK] : n \in 1 .. 3}

AlwaysSociable == [p \in People |-> {}]
\* The first slot is late in the evening for everybody.
FirstUnsociable == [p \in People |-> {1}]
NoAffinity == [s \in Slots |-> 0]
\* The group usually meets at the earlier slots.
EarlyAffinity == [s \in Slots |-> NumSlots - s]
=============================================================================
