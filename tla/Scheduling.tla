-------------------------------- MODULE Scheduling ------------------------------
(***************************************************************************)
(* A group's event and the time proposed for it: the event's window is     *)
(* expanded, every connected member's feed is read again and expanded over *)
(* the window, and the earliest slot clear of all that could be read is    *)
(* proposed.  ProposalCache has the concurrency of this and leaves out     *)
(* what is computed; here it is one step.                                  *)
(***************************************************************************)
EXTENDS Events, Proposal

CONSTANTS
    Members,   \* the group's members
    FeedsOf    \* by member: the calendars they may connect

ASSUME FeedsAssumption ==
    \A m \in Members : \A feed \in FeedsOf[m] : feed \subseteq VEvent /\ IsFiniteSet(feed)

VARIABLES
    roster,    \* the calendars of the members that have connected one
    reached,   \* the last proposal: the members whose calendar host answered
    busy,      \* the last proposal: the intervals of the members that were read
    proposal   \* the last proposal: its slot and whose calendars it considered

svars == <<event, roster, reached, busy, proposal>>

Nothing == [x \in {} |-> <<>>]
NoProposal == [slot |-> NoSlot, considered |-> {}]

SInit ==
    /\ NoEvent
    /\ roster = Nothing /\ reached = {} /\ busy = Nothing /\ proposal = NoProposal

Unasked == reached' = {} /\ busy' = Nothing /\ proposal' = NoProposal

CreateGroupEvent(w) ==
    /\ Created(w)
    /\ UNCHANGED <<roster, reached, busy, proposal>>

\* POST and DELETE on the member's calendar; or the feed itself changes.
ConnectGroup(m, feed) ==
    /\ roster' = [n \in DOMAIN roster \cup {m} |-> IF n = m THEN feed ELSE roster[n]]
    /\ Unasked
    /\ UNCHANGED event

DisconnectGroup(m) ==
    /\ m \in DOMAIN roster
    /\ roster' = [n \in DOMAIN roster \ {m} |-> roster[n]]
    /\ Unasked
    /\ UNCHANGED event

From == Head(grid)
To == Last(grid) + window.size

\* Mutant: a calendar with nothing in it counts as absent.
ReadUnlessClear(ms) ==
    LET found == [m \in ms |-> Parse(roster[m], From, To)]
    IN  [m \in {m \in ms : found[m] # <<>>} |-> found[m]]

\* What the refreshes that succeeded return; a clear calendar is known too.
ReadAll(ms) == [m \in ms |-> Parse(roster[m], From, To)]

\* computeGroupProposal: members that cannot be reached are left out.
Propose(unreachable) ==
    /\ grid # <<>>
    /\ reached' = DOMAIN roster \ unreachable
    /\ busy' = ReadAll(reached')
    /\ proposal' = Best(SlotSet, window.size, busy')
    /\ UNCHANGED <<event, roster>>

SNext ==
    \/ \E w \in Windows : CreateGroupEvent(w)
    \/ \E m \in Members : \E feed \in FeedsOf[m] : ConnectGroup(m, feed)
    \/ \E m \in Members : DisconnectGroup(m)
    \/ \E unreachable \in SUBSET DOMAIN roster : Propose(unreachable)

SSpec == SInit /\ [][SNext]_svars

-----------------------------------------------------------------------------
(* What a calendar means. *)

SundayOf(z, t) == DayOf(z, t) - (DayOf(z, t) % 7)

\* The clocks the rule of e names, up to the day of to: a period apart, or the
\* named days of every interval-th week.
RuleClocks(e, to) ==
    LET first == Wall(e.loc, e.start)
        days == DayOf(e.loc, e.start) .. DayOf(e.loc, to) + 1
        named == {e.rule.byDay[i] : i \in DOMAIN e.rule.byDay}
        on(d) ==
            IF named = {} THEN (d - first \div Day) % Period(e.rule) = 0
            ELSE /\ d % 7 \in named
                 /\ ((d - SundayOf(e.loc, e.start)) \div 7) % e.rule.interval = 0
    IN  IF e.rule.freq = "" THEN {first}
        ELSE {c \in {d * Day + (first % Day) : d \in {d \in days : on(d)}} : c >= first}

\* The occurrences: the first COUNT of them, until UNTIL, without EXDATEs.
Occurrences(e, to) ==
    LET clocks == RuleClocks(e, to)
        counted == {c \in clocks : e.rule.count # 0 =>
                        Cardinality({b \in clocks : b < c}) < e.rule.count}
        starts == {DateIn(e.loc, c) : c \in counted}
    IN  IF e.rule.freq = "" THEN starts
        ELSE {s \in starts : e.rule.until # Never => s <= e.rule.until} \ e.exdates

\* The instant of the series' own weekday in the week of s.
SeriesDay(e, s) ==
    DateIn(e.loc, (SundayOf(e.loc, s) + (DayOf(e.loc, e.start) % 7)) * Day
                    + (Wall(e.loc, e.start) % Day))

\* A BYDAY rule loses the days of its last week that come before the series'
\* own weekday, when that one is after the window or after UNTIL.
Lost(e, s, to) ==
    /\ e.rule.byDay # <<>>
    /\ SeriesDay(e, s) > to \/ (e.rule.until # Never /\ SeriesDay(e, s) > e.rule.until)

\* The half hours of the window that occurrences of a calendar's events take,
\* when some are known to be lost.
TakenBut(feed, lost(_, _)) ==
    {t \in From .. To - 1 : \E e \in feed :
        ~e.free /\ \E s \in Occurrences(e, To) :
            ~lost(e, s) /\ s <= t /\ t < s + Duration(e)}

Taken(feed) == TakenBut(feed, LAMBDA e, s : Lost(e, s, To))

\* The half hours of the window that the stored intervals of m take.
Stored(m) ==
    {t \in From .. To - 1 :
        \E i \in DOMAIN busy[m] : busy[m][i].start <= t /\ t < busy[m][i].end}

-----------------------------------------------------------------------------
(* Regular events: what a calendar has to be like for its expansion to be the
   calendar's meaning, apart from the lost days. *)

First(e) == Wall(e.loc, e.start)

\* The clocks a zone jumped over.
Gap(z) == z.at + z.base .. z.at + z.base + z.shift - 1

\* The earliest clock the expansion of e goes by: its start, or the Sunday of
\* that week at the same time of day, from which named days are counted.
Since(e) ==
    IF e.rule.byDay = <<>> THEN First(e) ELSE First(e) - (DayOf(e.loc, e.start) % 7) * Day

\* A series that can stand at such a clock is off for good once it did, and
\* days counted from such a Sunday are all off by one.
Unskipped(e) ==
    \A c \in Gap(e.loc) :
        ~ /\ c >= Since(e) /\ (c - First(e)) % Day = 0
          /\ e.rule.byDay = <<>> => (c - First(e)) % (Period(e.rule) * Day) = 0

\* The loop stops before its limit, or has counted out by then.
EndsByItself(e, from, to) ==
    \/ MaxOccurrences - 1 \notin StepsOf(e, from, to)
    \/ e.rule.count \in 1 .. (IF e.rule.byDay = <<>> THEN MaxOccurrences ELSE MaxOccurrences - 1)

\* COUNT is counted in the order the days are named in.
InOrder(q) == \A i, j \in DOMAIN q : i < j => q[i] < q[j]

Regular(e, from, to) ==
    /\ e \in VEvent
    /\ e.start = DateIn(e.loc, First(e))
    /\ e.rule # None =>
        /\ -Day < e.loc.shift /\ e.loc.shift < Day
        /\ Unskipped(e)
        /\ EndsByItself(e, from, to)
        /\ e.rule.byDay = <<>> /\ e.rule.count = 0 => Duration(e) <= 3 * (Period(e.rule) * Day)
        /\ e.rule.byDay # <<>> =>
              e.rule.freq = "WEEKLY" /\ (e.rule.count = 0 \/ InOrder(e.rule.byDay))

\* So are all events of all feeds, over every window an event may have.
RegularFeeds ==
    \A w \in Windows : ~Rejected(w) /\ Expand(w).starts # <<>> =>
        \A m \in Members : \A feed \in FeedsOf[m] : \A e \in feed :
            Regular(e, Head(Expand(w).starts), Last(Expand(w).starts) + w.size)

-----------------------------------------------------------------------------
(* Properties. *)

\* The values the variables take; and whoever's host answered is considered, a
\* clear calendar like a full one (not "dropped from its own proposal").
STypeOK ==
    /\ window \in Windows \cup {<<>>}
    /\ DOMAIN roster \subseteq Members
    /\ reached \subseteq DOMAIN roster
    /\ DOMAIN busy = reached /\ proposal.considered = reached
    /\ proposal.slot.found => proposal.slot.slot \in SlotSet

\* What is stored of a feed is exactly the time it says is taken, however old
\* the series is and wherever the clock jumped on the way, except for the days
\* a BYDAY rule loses at its end: the intervals are in order and apart, miss
\* nothing and invent nothing.  ("a weekly 9am meeting stays at 9am local across
\* a DST transition"; Merge "coalesces every overlap or abutment".)
FeedIsCovered ==
    \A m \in reached :
        /\ \A i \in 1 .. Len(busy[m]) - 1 : busy[m][i].end < busy[m][i + 1].start
        /\ Stored(m) = Taken(roster[m])

\* No occurrence is lost.  ("Everything from here on starts after the window, so
\* there is nothing left to find", says the code that ends a series.)
NothingIsLost ==
    \A m \in reached : TakenBut(roster[m], LAMBDA e, s : FALSE) \subseteq Stored(m)

\* The proposed slot is the earliest during which nobody whose calendar could be
\* read is taken, over the whole meeting and not only when it begins; nothing is
\* proposed only if every slot collides.  ("A slot that starts clear but runs
\* into a meeting ten minutes later is not free".)
ProposalIsEarliest ==
    reached # {} =>
        LET clear(s) == \A m \in reached :
                            Taken(roster[m]) \cap (s .. s + window.size - 1) = {}
        IN  IF proposal.slot.found
            THEN /\ clear(proposal.slot.slot)
                 /\ \A s \in SlotSet : s < proposal.slot.slot => ~clear(s)
            ELSE \A s \in SlotSet : ~clear(s)
=============================================================================
