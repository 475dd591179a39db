------------------------------ MODULE MCScheduling ------------------------------
(* Instances of Scheduling for TLC: an event from Monday to Thursday of the
   sixth week, and feeds of one or two events that began weeks or days before,
   in zones that jumped on the way. *)
EXTENDS Scheduling

CONSTANTS ana, ben

Still == [base |-> 0, at |-> 0, shift |-> 0, late |-> FALSE]
Jumped20(shift) == [base |-> 0, at |-> 20 * Day + 2 * Hour, shift |-> shift, late |-> FALSE]
Jumped37 == [base |-> Hour, at |-> 37 * Day, shift |-> -Hour, late |-> FALSE]
\* Midnight of that day is skipped.
Midnight(day) == [base |-> 0, at |-> day * Day, shift |-> Hour, late |-> FALSE]
Zones == {Still, Jumped20(Hour), Jumped20(-Hour), Jumped37}

MCWindows ==
    {[first |-> 36, last |-> 39, start |-> 11 * Hour, end |-> 15 * Hour,
      size |-> 2 * Hour, loc |-> Jumped37]}

AtClock(day, clock, loc, rule) ==
    [start |-> DateIn(loc, day * Day + clock), dtend |-> Never, duration |-> 2 * Hour,
     allDay |-> FALSE, free |-> FALSE, loc |-> loc, rule |-> rule, exdates |-> {}]
At(day, loc, rule) == AtClock(day, 9 * Hour, loc, rule)

Rule(freq, interval, count, until, byDay) ==
    [freq |-> freq, interval |-> interval, count |-> count, until |-> until, byDay |-> byDay]
Untils == {Never, 38 * Day + 9 * Hour}

Plain == {Rule(freq, interval, count, until, <<>>) :
            freq \in {"DAILY", "WEEKLY"}, interval \in {1, 2}, count \in {0, 3, 36}, until \in Untils}
ByDay(byDay) == {Rule("WEEKLY", interval, count, until, byDay) :
                   interval \in {1, 2}, count \in {0, 4, 10}, until \in Untils}

\* Days 1 and 36 are Mondays, 30 and 37 Tuesdays, 26 is a Friday.
Series == {At(day, loc, rule) : day \in {1, 30}, loc \in Zones, rule \in Plain}
       \cup {At(1, loc, rule) : loc \in Zones, rule \in ByDay(<<1, 3>>)}
       \cup {At(26, loc, rule) : loc \in Zones, rule \in ByDay(<<1, 5>>)}
       \cup {At(30, loc, rule) : loc \in Zones, rule \in ByDay(<<0, 2, 4>>)}
       \cup {At(37, Still, rule) : rule \in Plain}
       \* Shortly after midnight, with the midnight of a Sunday skipped.
       \cup {AtClock(30, Hour, Midnight(35), rule) : rule \in ByDay(<<0, 2, 4>>)}
       \cup {AtClock(36, 1, Midnight(28), rule) : rule \in ByDay(<<1, 3>>)}

\* Single events in every form, and exceptions of a series.
Once == At(37, Still, None)
Odd == {[Once EXCEPT !.dtend = 37 * Day + 8 * Hour], [Once EXCEPT !.dtend = 37 * Day + 10 * Hour],
        [Once EXCEPT !.duration = Never], [Once EXCEPT !.duration = Never, !.allDay = TRUE],
        [Once EXCEPT !.free = TRUE], [Once EXCEPT !.duration = 3 * Day],
        [At(1, Still, Rule("DAILY", 1, 0, Never, <<>>))
            EXCEPT !.exdates = {37 * Day + 9 * Hour, 38 * Day + 9 * Hour}],
        [At(35, Still, Rule("DAILY", 1, 3, Never, <<>>)) EXCEPT !.exdates = {36 * Day + 9 * Hour}]}

Short == [Once EXCEPT !.start = 36 * Day + 11 * Hour, !.duration = 1]
After == [Once EXCEPT !.start = 37 * Day + 11 * Hour, !.duration = 1]
Long == [Once EXCEPT !.start = 37 * Day + 8 * Hour, !.duration = 4 * Hour]
MCFeedsOf ==
    (ana :> {{e} : e \in Series \cup Odd} \cup {{}, {Short}, {Once, Long}, {After, Long, Once}, {After, Once}})
    @@ (ben :> {{}, {At(30, Still, Rule("DAILY", 2, 0, Never, <<>>))}})

\* The theorems' hypotheses hold here.
ASSUME MCFeedsAreRegular ==
    RegularFeeds /\ \A w \in MCWindows : w.loc.shift \in ProbeDeltas \cup {0}
=============================================================================
