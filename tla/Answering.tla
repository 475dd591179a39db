-------------------------------- MODULE Answering -------------------------------
(***************************************************************************)
(* An event from its creation to one person's answer: the organizer's      *)
(* window expanded into slots, the page's two editors (a coarse grid of    *)
(* day parts and fine corrections of single slots), what a submission      *)
(* sends, what the server stores of it, and how reopening the link         *)
(* rebuilds the editors from the stored rows.                              *)
(*                                                                         *)
(* Days and day parts are those of a clock on a wall, and three zones are  *)
(* involved: the organizer's, the one the person joined with, and the one  *)
(* the page shows.  The stages of the page only choose which editor is on  *)
(* the screen and are left out; a request is one step, and one person      *)
(* answers from one page (ResponseStore interleaves their requests).       *)
(***************************************************************************)
EXTENDS Events, Dayparts

CONSTANTS
    Zones,     \* the zones a page may show
    Detected,  \* the zone the person's browser reports
    NoZone,    \* the zone of somebody who has not joined
    Feeds,     \* calendars a person may connect: sets of busy blocks
    MaxTaps    \* bound: taps and changes of zone

ASSUME TapsAssumption == MaxTaps \in Nat
ASSUME ZonesAssumption == Detected \in Zones /\ NoZone \notin Zones

VARIABLES
    tz,        \* participants.tz, or NoZone before joining
    stored,    \* responses: by slot, its tier and source
    linked,    \* a calendar is connected
    timezone,  \* the page: the zone it shows
    coarse,    \* the page: tiers of day parts
    fine,      \* the page: tiers of slots
    busySlots, \* the page: slots the calendar rules out
    editors,   \* history: "saved" by a submission, "opened" from the stored
               \* rows, or "edited" since
    saidIn,    \* history: the zone of the last submission
    taps       \* history: taps and changes of zone so far

answers == <<tz, stored, linked>>
page == <<timezone, coarse, fine, busySlots>>
history == <<editors, saidIn, taps>>
vars == <<event, answers, page, history>>

Unmarked == "unmarked"
Empty == [x \in {} |-> Unmarked]
CoarseTiers == {"ok", "if_needed"}
Tiers == {"preferred", "ok", "if_needed", "no"}
At(f, x, default) == IF x \in DOMAIN f THEN f[x] ELSE default
Assign(f, x, v) == [y \in DOMAIN f \cup {x} |-> IF y = x THEN v ELSE f[y]]
Keep(f, S) == [x \in S |-> f[x]]

Init ==
    /\ NoEvent
    /\ tz = NoZone /\ stored = Empty /\ linked = FALSE
    /\ timezone = Detected /\ coarse = Empty /\ fine = Empty /\ busySlots = {}
    /\ editors = "edited" /\ saidIn = NoZone /\ taps = 0

-----------------------------------------------------------------------------
(* The server. *)

CreateEvent(w) ==
    /\ Created(w)
    /\ UNCHANGED <<answers, page, history>>

\* Mutant: the zone of the request is ignored.
ZoneStored(joined, requested) == joined

\* The zone a submission is read in; it is not stored.
ZoneOfRequest(joined, requested) == requested

\* buildResponses: day parts first, single slots overlaid.
BuildResponses(z, body) ==
    LET tiers == Spread(SlotSet, z, body.coarse)
    IN  [s \in DOMAIN tiers \cup DOMAIN body.slots |->
            IF s \in DOMAIN body.slots
            THEN [tier |-> body.slots[s], source |-> "manual"]
            ELSE [tier |-> tiers[s], source |-> "coarse"]]

OfCalendar(rows) == {s \in DOMAIN rows : rows[s].source = "calendar"}

\* Mutant: a tier the calendar implied counts as stated.
StatedAll(rows) == rows

Stated(rows) == Keep(rows, DOMAIN rows \ OfCalendar(rows))

\* mergeCalendarRows
MergeCalendarRows(rows, prior) ==
    [s \in DOMAIN rows \cup OfCalendar(prior) |->
        IF s \in DOMAIN rows THEN rows[s] ELSE prior[s]]

\* coveredBy: the slots that share a moment with a busy block.
CoveredBy(blocks) ==
    {s \in SlotSet : \E b \in blocks : b.start < s + window.size /\ s < b.end}

\* applyCalendarToResponses
ApplyCalendar(rows, covered) ==
    [s \in DOMAIN Stated(rows) \cup covered |->
        IF s \in DOMAIN Stated(rows) THEN rows[s]
        ELSE [tier |-> "no", source |-> "calendar"]]

-----------------------------------------------------------------------------
(* The page. *)

\* The value a slot has in the editors: tierFor.
TierFor(s) == At(fine, s, At(coarse, CellFor(s, timezone), "no"))

\* Only overrides that differ from the inherited value are sent.
Overrides ==
    Keep(fine, {s \in DOMAIN fine : At(coarse, CellFor(s, timezone), "no") # fine[s]})

\* Mutant: one slot that was not refused makes its day part "ok".
RestoredByFine(rows, z, c) ==
    LET here == {s \in DOMAIN Stated(rows) : CellFor(s, z) = c}
        said == {s \in here : rows[s].source = "coarse"}
    IN  IF \E s \in here \ said : rows[s].tier # "no" THEN "ok"
        ELSE IF said # {} THEN rows[Max(said)].tier ELSE Unmarked

\* The tier hydrate gives a day part: that of the last coarse row in it, or
\* "ok" when single slots of it were not refused.
Restored(rows, z, c) ==
    LET here == {s \in DOMAIN Stated(rows) : CellFor(s, z) = c}
        said == {s \in here : rows[s].source = "coarse"}
    IN  IF said # {} THEN rows[Max(said)].tier
        ELSE IF \E s \in here : rows[s].tier # "no" THEN "ok" ELSE Unmarked

\* hydrate: the editors from the stored rows, read in the joined zone.
Hydrate(rows, z) ==
    LET cells == {CellFor(s, z) : s \in DOMAIN Stated(rows)}
    IN  /\ coarse' = Keep([c \in cells |-> Restored(rows, z, c)],
                          {c \in cells : Restored(rows, z, c) # Unmarked})
        /\ fine' = [s \in {s \in DOMAIN rows : rows[s].source = "manual"} |-> rows[s].tier]
        /\ busySlots' = OfCalendar(rows)

Edited == editors' = "edited" /\ taps' = taps + 1 /\ UNCHANGED saidIn

NextCoarse(tier) ==
    CASE tier = Unmarked -> "ok" [] tier = "ok" -> "if_needed" [] OTHER -> Unmarked

\* tapCell: only day parts with slots can be tapped.
TapCell(c) ==
    /\ taps < MaxTaps
    /\ c \in {CellFor(s, timezone) : s \in SlotSet}
    /\ LET next == NextCoarse(At(coarse, c, Unmarked))
       IN  coarse' = IF next = Unmarked THEN Keep(coarse, DOMAIN coarse \ {c})
                     ELSE Assign(coarse, c, next)
    /\ Edited
    /\ UNCHANGED <<event, answers, timezone, fine, busySlots>>

NextFine(tier) ==
    CASE tier = "preferred" -> "ok" [] tier = "ok" -> "if_needed"
      [] tier = "if_needed" -> "no" [] OTHER -> "preferred"

\* tapSlot: the fine editor shows the slots of the marked day parts only.
TapSlot(s) ==
    /\ taps < MaxTaps
    /\ s \in SlotSet /\ CellFor(s, timezone) \in DOMAIN coarse
    /\ fine' = Assign(fine, s, NextFine(TierFor(s)))
    /\ Edited
    /\ UNCHANGED <<event, answers, timezone, coarse, busySlots>>

\* The picker above the editors: nothing that was tapped moves.
ChooseTimezone(z) ==
    /\ taps < MaxTaps /\ window # <<>> /\ z # timezone
    /\ timezone' = z
    /\ Edited
    /\ UNCHANGED <<event, answers, coarse, fine, busySlots>>

\* ensureJoined: the first request of a device joins in the zone shown.
Joined == IF tz = NoZone THEN timezone ELSE tz

\* The request that follows the joining fails.
EnsureJoined ==
    /\ window # <<>> /\ tz = NoZone
    /\ tz' = Joined
    /\ UNCHANGED <<event, stored, linked, page, history>>

\* submit and handlePutResponses; the page keeps its editors.
Submit ==
    /\ window # <<>>
    /\ tz' = Joined
    /\ stored' = MergeCalendarRows(
            BuildResponses(ZoneOfRequest(Joined, timezone),
                           [coarse |-> coarse, slots |-> Overrides]), stored)
    /\ editors' = "saved" /\ saidIn' = timezone
    /\ UNCHANGED <<event, linked, page, taps>>

\* load: the link is opened, or opened again.
Open ==
    /\ window # <<>>
    /\ IF tz = NoZone
       THEN timezone' = Detected /\ coarse' = Empty /\ fine' = Empty /\ busySlots' = {}
       ELSE timezone' = tz /\ Hydrate(stored, tz)
    /\ editors' = "opened"
    /\ UNCHANGED <<event, answers, saidIn, taps>>

\* load, on the device of a member of the event's group that has no token of the
\* event: the member's seat is claimed, in the zone of the membership.
ClaimSeat(z) ==
    /\ window # <<>> /\ tz = NoZone
    /\ tz' = z /\ timezone' = z /\ Hydrate(stored, z)
    /\ editors' = "opened"
    /\ UNCHANGED <<event, stored, linked, saidIn, taps>>

\* linkCalendar and handleConnectICS: the editors are rebuilt, whatever was
\* tapped and not submitted.  Without slots the server refuses.
LinkCalendar(blocks) ==
    /\ grid # <<>>
    /\ tz' = Joined /\ linked' = TRUE
    /\ stored' = ApplyCalendar(stored, CoveredBy(blocks))
    /\ Hydrate(stored', Joined)
    /\ editors' = "opened"
    /\ UNCHANGED <<event, timezone, saidIn, taps>>

\* unlinkCalendar and handleDisconnectCalendar
UnlinkCalendar ==
    /\ linked
    /\ linked' = FALSE
    /\ stored' = Stated(stored)
    /\ Hydrate(stored', tz)
    /\ editors' = "opened"
    /\ UNCHANGED <<event, tz, timezone, saidIn, taps>>

Next ==
    \/ \E w \in Windows : CreateEvent(w)
    \/ \E s \in SlotSet : TapCell(CellFor(s, timezone))
    \/ \E s \in SlotSet : TapSlot(s)
    \/ \E z \in Zones : ChooseTimezone(z) \/ ClaimSeat(z)
    \/ \E blocks \in Feeds : LinkCalendar(blocks)
    \/ EnsureJoined \/ Submit \/ Open \/ UnlinkCalendar

Spec == Init /\ [][Next]_vars

-----------------------------------------------------------------------------
(* Properties. *)

TypeOK ==
    /\ window \in Windows \cup {<<>>}
    /\ tz \in Zones \cup {NoZone} /\ timezone \in Zones /\ saidIn \in Zones \cup {NoZone}
    /\ DOMAIN stored \subseteq SlotSet
    /\ \A s \in DOMAIN stored :
          stored[s] \in [tier : Tiers, source : {"coarse", "manual", "calendar"}]
    /\ OfCalendar(stored) # {} => linked
    /\ \A c \in DOMAIN coarse : coarse[c] \in CoarseTiers
    /\ DOMAIN fine \subseteq SlotSet /\ \A s \in DOMAIN fine : fine[s] \in Tiers
    /\ busySlots \subseteq SlotSet
    /\ editors \in {"saved", "opened", "edited"} /\ taps \in 0 .. MaxTaps

\* An event's slots are exactly the first readings of its daily grid, in order
\* and each once, also when the organizer's clock skips or repeats some of it;
\* and no more of them than the limit.  ("Starts holds every slot's absolute
\* instant, ascending, deduplicated.")
GridIsExact ==
    window # <<>> => ExactGrid(window, grid) /\ Len(grid) <= MaxSlots

StoredTier(s) == IF s \in DOMAIN stored THEN stored[s].tier ELSE "no"

\* A submission stores for every slot the tier the editors had for it, although
\* page and server each sort the slots into day parts and the page leaves out
\* what it thinks is implied.  ("If the client draws a slot under Afternoon
\* while the server files it under Morning, the tap lands on a different set of
\* slots than the one the responder saw.")
SavedAsEdited ==
    editors = "saved" => \A s \in SlotSet : StoredTier(s) = TierFor(s)

\* What a day part alone says of a slot nobody named in it: nothing, when only
\* single slots of the part were stated.
Implied(s) ==
    LET here == {u \in DOMAIN Stated(stored) : CellFor(u, tz) = CellFor(s, tz)}
    IN  s \in here \/ \A u \in here : stored[u].source = "coarse" \/ stored[u].tier = "no"

\* Reopening the link shows the stored answers, as long as they were given in
\* the zone the person joined with: so submitting again changes nothing.
\* ("Rebuilds both editors from stored answers so reopening the link is an edit
\* rather than a fresh start.")
ReopenKeepsAnswers ==
    editors = "opened" /\ tz # NoZone /\ timezone = tz /\ saidIn \in {tz, NoZone} =>
        \A s \in SlotSet : Implied(s) => TierFor(s) = StoredTier(s)
=============================================================================
