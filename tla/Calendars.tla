-------------------------------- MODULE Calendars -------------------------------
(***************************************************************************)
(* icsparse: a feed's events expanded into the busy intervals that touch a *)
(* window, and merged.  Daily and weekly rules step on the clock of the    *)
(* event's own zone; monthly and yearly ones are left out, and so is the   *)
(* syntax of a feed.                                                       *)
(***************************************************************************)
EXTENDS Zones, Sequences, SequencesExt

CONSTANTS
    MaxOccurrences,  \* maxOccurrences
    Never            \* no UNTIL; no DTEND, no DURATION

ASSUME MaxOccurrencesAssumption == MaxOccurrences \in Nat \ {0}

\* An event of a feed: loc is the zone of its DTSTART, rule the RRULE, and
\* free says that it was cancelled or is transparent.
None == [freq |-> "", interval |-> 1, count |-> 0, until |-> Never, byDay |-> <<>>]
Recurrence == [freq : {"DAILY", "WEEKLY"}, interval : Nat \ {0}, count : Nat,
               until : Int \cup {Never}, byDay : Seq(0 .. 6)]
VEvent == [start : Int, dtend : Int \cup {Never}, duration : Int \cup {Never},
           allDay : BOOLEAN, free : BOOLEAN, loc : Zone, rule : Recurrence \cup {None},
           exdates : SUBSET Int]

\* Overlaps: half-open spans share an instant.
Overlaps(i, o) == i.start < o.end /\ o.start < i.end

\* The order Merge sorts in, and what comes first in it.
Before(a, b) == a.start < b.start \/ (a.start = b.start /\ a.end < b.end)
Earliest(spans) == CHOOSE a \in spans : \A b \in spans : ~Before(b, a)

\* One turn of the loop: cur begins after the last interval ends, or extends it.
Join(out, cur) ==
    IF out = <<>> \/ cur.start > Last(out).end THEN Append(out, cur)
    ELSE IF cur.end > Last(out).end THEN [out EXCEPT ![Len(out)].end = cur.end]
    ELSE out

\* Merge: sorted, with overlaps and abutments joined.
Merge(spans) ==
    LET turn[n \in 0 .. Cardinality(spans)] ==
            IF n = 0 THEN [out |-> <<>>, rest |-> spans]
            ELSE LET prior == turn[n - 1]
                     cur == Earliest(prior.rest)
                 IN  [out |-> Join(prior.out, cur), rest |-> prior.rest \ {cur}]
    IN  turn[Cardinality(spans)].out

\* duration: DTEND, else DURATION, else a whole day for a date, else nothing.
Duration(e) ==
    IF e.dtend # Never /\ e.dtend > e.start THEN e.dtend - e.start
    ELSE IF e.duration # Never /\ e.duration > 0 THEN e.duration
    ELSE IF e.allDay THEN Day
    ELSE 0

-----------------------------------------------------------------------------
(* expand *)

\* Days in a period: advance and advanceBy.
Period(r) == r.interval * (IF r.freq = "DAILY" THEN 1 ELSE 7)

\* Mutant: the jump lands on the window instead of a few periods before it.
JumpedToWindow(e, from) ==
    LET n == (from - e.start) \div (Period(e.rule) * Day) + 1
    IN  IF e.rule.count = 0 /\ e.rule.byDay = <<>> /\ n > 0
        THEN AddDays(e.loc, e.start, n * Period(e.rule)) ELSE e.start

\* The fast-forward of a series that is neither counted nor by weekday.
Jumped(e, from) ==
    LET n == (from - e.start) \div (Period(e.rule) * Day) - 3
    IN  IF e.rule.count = 0 /\ e.rule.byDay = <<>> /\ n > 0
        THEN AddDays(e.loc, e.start, n * Period(e.rule)) ELSE e.start

\* Where the loop stands at each step: a period further on the clock, and off
\* for good by what the clock skipped at the one step it skipped, if any.
Cursor(e, from) ==
    LET on(t, n) == AddDays(e.loc, t, n * Period(e.rule))
        first == Jumped(e, from)
        skipped == {step \in 1 .. MaxOccurrences - 1 :
                      Readings(e.loc, Wall(e.loc, first) + step * Period(e.rule) * Day) = {}}
        gap == IF skipped = {} THEN MaxOccurrences ELSE Min(skipped)
    IN  [step \in 0 .. MaxOccurrences - 1 |->
            IF step <= gap THEN on(first, step) ELSE on(on(first, gap), step - gap)]

\* The steps made before the series or the window is over.
StepsOf(e, from, to) ==
    {step \in 0 .. MaxOccurrences - 1 :
        /\ Cursor(e, from)[step] <= to
        /\ e.rule.until # Never => Cursor(e, from)[step] <= e.rule.until}

\* A plain rule: every step is an occurrence, as many as COUNT allows.
PlainStarts(e, from, to) ==
    {Cursor(e, from)[step] : step \in
        {step \in StepsOf(e, from, to) : e.rule.count # 0 => step < e.rule.count}}

DayOf(z, t) == Wall(z, t) \div Day

\* weekStart: back to the Sunday on the clock that t reads.
WeekStart(z, t) == AddDays(z, t, -(DayOf(z, t) % 7))

\* The i-th named weekday of the week a step stands in, at the series' clock.
Named(e, cur, i) ==
    LET d == AddDays(e.loc, WeekStart(e.loc, cur), e.rule.byDay[i])
    IN  DateIn(e.loc, DayOf(e.loc, d) * Day + (Wall(e.loc, e.start) % Day))

\* A BYDAY rule: each step emits its week's named days, in the rule's order.
NamedStarts(e, from, to) ==
    LET at(c) == Named(e, Cursor(e, from)[c[1]], c[2])
        all == {c \in StepsOf(e, from, to) \X DOMAIN e.rule.byDay :
                    /\ at(c) >= e.start
                    /\ e.rule.until # Never => at(c) <= e.rule.until}
        before(c) == {d \in all : d[1] < c[1] \/ (d[1] = c[1] /\ d[2] < c[2])}
    IN  {at(c) : c \in {c \in all : e.rule.count # 0 => Cardinality(before(c)) < e.rule.count}}

\* EXDATEs are left out, but count.
Starts(e, from, to) ==
    (CASE e.rule.freq = "" -> {e.start}
       [] e.rule.freq # "" /\ e.rule.byDay = <<>> -> PlainStarts(e, from, to)
       [] OTHER -> NamedStarts(e, from, to)) \ (IF e.rule.freq = "" THEN {} ELSE e.exdates)

\* vevent.intervals
Intervals(e, from, to) ==
    IF e.free \/ Duration(e) = 0 THEN {}
    ELSE {i \in {[start |-> s, end |-> s + Duration(e)] : s \in Starts(e, from, to)} :
            Overlaps(i, [start |-> from, end |-> to])}

\* Parse
Parse(feed, from, to) == Merge(UNION {Intervals(e, from, to) : e \in feed})
=============================================================================
