------------------------------- MODULE MCAnswering ------------------------------
(* Instances of Answering for TLC: an organizer whose clock jumps forward or
   back by an hour at two in the night of the second day, a half-hour jump,
   and a person who lives three zones further or where the organizer does. *)
EXTENDS Answering

\* The transition of the second day, at 02:00 of the clock before it.
Jumping(shift, late) == [base |-> 0, at |-> 2 * Day + 2 * Hour, shift |-> shift, late |-> late]
East == [base |-> 3 * Hour, at |-> 0, shift |-> 0, late |-> FALSE]

Asked(first, last, start, end, size, loc) ==
    [first |-> first, last |-> last, start |-> start, end |-> end, size |-> size, loc |-> loc]

MCWindows ==
    \* A day across the boundaries of the day parts, with a remainder.
    {Asked(2, 2, 9 * Hour, 22 * Hour, 3 * Hour, Jumping(Hour, FALSE))}
    \* The night itself, half hour by half hour, for every kind of jump.
    \cup {Asked(2, 2, Hour, Hour + n, 1, Jumping(shift, late)) :
            n \in {6, 7}, shift \in {Hour, -Hour, 1, -1, 2 * Hour, -2 * Hour}, late \in BOOLEAN}
    \* Bands and dates that yield nothing or are refused.
    \cup {Asked(2, 2, 9 * Hour, 10 * Hour, 2 * Hour, East), Asked(2, 1, 0, 2, 1, East),
          Asked(1, 2, 0, 24 * Hour, 4 * Hour, East)}
\* Busy in the morning of the second day, and in the middle of a slot.
MCFeeds == {{[start |-> 2 * Day + 8 * Hour, end |-> 2 * Day + 9 * Hour]}}
MCZones == {Jumping(Hour, FALSE), East}
MCDetected == East
=============================================================================
