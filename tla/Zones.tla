---------------------------------- MODULE Zones ---------------------------------
(***************************************************************************)
(* Go's time package, as far as the program's arithmetic on wall clocks    *)
(* depends on it: a zone with one transition, in half hours.  External to  *)
(* the repository.                                                         *)
(***************************************************************************)
EXTENDS Integers, FiniteSetsExt

Hour == 2
Day == 24 * Hour

\* A zone is base ahead of UTC, and shift more from the instant at on.  late
\* says which of two offsets time.Date takes for a clock that was read twice
\* or never; its documentation leaves that open.
Zone == [base : Int, at : Int, shift : Int, late : BOOLEAN]

Offset(z, t) == IF t >= z.at THEN z.base + z.shift ELSE z.base

\* What the clock on the wall reads at t: half hours since the first midnight.
Wall(z, t) == t + Offset(z, t)

\* The two instants that may have read w, and those that did.
Candidates(z, w) == {w - z.base, w - z.base - z.shift}
Readings(z, w) == {t \in Candidates(z, w) : Wall(z, t) = w}

\* time.Date
DateIn(z, w) ==
    LET found == IF Readings(z, w) = {} THEN Candidates(z, w) ELSE Readings(z, w)
    IN  IF z.late THEN Max(found) ELSE Min(found)

\* time.Time.AddDate(0, 0, n): the same clock n days on.
AddDays(z, t, n) == DateIn(z, Wall(z, t) + n * Day)
=============================================================================
