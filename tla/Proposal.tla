-------------------------------- MODULE Proposal --------------------------------
(***************************************************************************)
(* proposal.Best: the earliest candidate at which nobody whose calendar    *)
(* was read is busy.                                                       *)
(***************************************************************************)
EXTENDS Calendars

NoSlot == [found |-> FALSE, slot |-> 0]

\* Mutant: only the beginning of the meeting has to be free.
FreeAtStart(slot, duration, members) ==
    \A m \in DOMAIN members : \A i \in DOMAIN members[m] :
        ~Overlaps([start |-> slot, end |-> slot + 1], members[m][i])

\* The whole meeting is clear of every connected member's intervals.
FreeForAll(slot, duration, members) ==
    \A m \in DOMAIN members : \A i \in DOMAIN members[m] :
        ~Overlaps([start |-> slot, end |-> slot + duration], members[m][i])

\* members: the intervals of those whose calendars were read.  Without any,
\* nothing is proposed.
Best(candidates, duration, members) ==
    LET free == {s \in candidates : FreeForAll(s, duration, members)}
    IN  [slot |-> IF DOMAIN members = {} \/ free = {} THEN NoSlot
                  ELSE [found |-> TRUE, slot |-> Min(free)],
         considered |-> DOMAIN members]
=============================================================================
