------------------------------ MODULE GroupsProofs -----------------------------
(***************************************************************************)
(* Proofs about Groups: the types, one seat per member and event, the row  *)
(* handed to whoever graduates an event, and the blocks of a calendar.     *)
(***************************************************************************)
EXTENDS Groups, FiniteSetTheorems, TLAPS

-----------------------------------------------------------------------------
(* The inductive invariant. *)

\* A request names what it will make: until it has, that is not there.
Unmade ==
    \A r \in Requests :
        /\ pc[r] = "idle" => r \notin events
        /\ pc[r] \in {"idle", "roster"} => members[r] = <<>>

\* Requests past the check of a token work for a membership that exists.
Bound == {"linkSeat", "find", "rotate", "insert", "fetched", "disconnect",
          "lockFeed", "lockNone", "saveFeed", "saveNone"}
MemberKnown == \A r \in Requests : pc[r] \in Bound => member[r] \in Roster

\* Until it is linked, the creator's seat is the only one of its id.
OwnSeat ==
    \A r \in Requests : pc[r] = "linkSeat" =>
        \A k \in DOMAIN seats[r] : (seats[r][k].id = r) = (k = 1)

\* The organizer is the oldest participant of the first event, and of what a
\* graduation has read of it; its roster is not empty.
IsOrganizers(seat) == seat.id = Organizer /\ seat.who = Organizer
OldestRow ==
    /\ FirstEvent \in events => IsOrganizers(seats[FirstEvent][1])
    /\ \A r \in Requests : pc[r] \in {"roster", "linkEvent", "callersSeat"} =>
            listed[r] # <<>> /\ IsOrganizers(listed[r][1])
    /\ \A r \in Requests : pc[r] \in {"linkEvent", "callersSeat"} => members[r] # <<>>

\* No two seats of an event are linked to one membership: the unique index.
Unique ==
    \A e \in events : \A j, k \in DOMAIN seats[e] :
        seats[e][j].member = seats[e][k].member /\ seats[e][k].member # None => j = k

\* An event made from a group was made by the request it is named after, which
\* is done with it only when the creator's seat is linked.
Linking ==
    \A r \in Requests : r \in events =>
        /\ pc[r] \in {"linkSeat", "done", "unlinked", "failed"}
        /\ pc[r] = "done" => seats[r][1].member = member[r]

\* A transaction that no other save of its calendar overlaps has seen all that is
\* on file, and nobody else changes that.
Opened == {"lockFeed", "lockNone", "saveFeed", "saveNone"}
SavesAlone ==
    \A r \in Requests :
        pc[r] \in Opened /\ r \notin overlapped =>
            /\ cleared[r] = RowOf(member[r]).blocks
            /\ Saving(member[r]) = {r}

LEMMA SavingIsOpened == \A m : /\ Saving(m) = {r \in Requests : pc[r] \in Opened /\ member[r] = m}
                               /\ Saving(m)' = {r \in Requests : pc'[r] \in Opened /\ member'[r] = m}
BY DEF Saving, Locking, Locked, Opened

Inv == /\ TypeOK /\ Unmade /\ MemberKnown /\ OwnSeat /\ OldestRow /\ SavesAlone
       /\ Unique /\ Linking /\ BlocksMatchFeed
-----------------------------------------------------------------------------
(* The types in two halves, so that a step needs to look at one. *)

Labels == {"idle", "roster", "linkEvent", "callersSeat", "linkSeat", "find", "rotate",
           "insert", "seated", "conflict", "done", "unlinked", "failed", "fetched",
           "disconnect", "lockFeed", "lockNone", "saveFeed", "saveNone"}

RowTypes ==
    /\ events \subseteq Events
    /\ groupOf \in [Events -> Requests \cup {None}]
    /\ seats \in [Events -> Seq(Seat)]
    /\ \A e \in Events \ events : groupOf[e] = None /\ seats[e] = <<>>
    /\ \A e \in events :
        seats[e] # <<>> /\ \A k \in DOMAIN seats[e] : seats[e][k].organizer = (k = 1)
    /\ members \in [Requests -> Seq(Member)]

HandlerTypes ==
    /\ wallet \in [Devices -> Roster \cup {None}]
    /\ device \in [Requests -> Devices] /\ event \in [Requests -> Events]
    /\ member \in [Requests -> Roster \cup {None}]
    /\ pc \in [Requests -> Labels]
    /\ listed \in [Requests -> Seq(Seat)]
    /\ cleared \in [Requests -> SUBSET Requests]
    /\ overlapped \subseteq Requests /\ mixed \subseteq Roster

LEMMA TypeSplit ==
    (TypeOK <=> RowTypes /\ HandlerTypes) /\ (TypeOK' <=> RowTypes' /\ HandlerTypes')
BY DEF TypeOK, RowTypes, HandlerTypes, Labels

\* A membership on the roster has a row.
LEMMA RowType == ASSUME RowTypes, NEW m \in Roster PROVE RowOf(m) \in Member
<1>1. members[m[1]] \in Seq(Member) /\ m[2] \in DOMAIN members[m[1]]
  BY DEF RowTypes, Roster
<1> QED BY <1>1 DEF RowOf

\* A token that is recognised is that of a membership on the roster.
LEMMA KnownIsOnRoster ==
    ASSUME HandlerTypes, NEW d \in Devices, NEW m \in KnownAs(d)
    PROVE  m \in Roster
BY DEF HandlerTypes, KnownAs

LEMMA SameRoster ==
    ASSUME UNCHANGED members
    PROVE  Roster' = Roster /\ Seat' = Seat /\ \A m : RowOf(m)' = RowOf(m)
BY DEF Roster, Seat, RowOf

\* A step that leaves the tables alone.
LEMMA QuietRows ==
    ASSUME Inv, UNCHANGED <<rows, mixed>>
    PROVE  RowTypes' /\ Unique' /\ BlocksMatchFeed'
<1>1. UNCHANGED <<events, groupOf, seats, members>>
  BY DEF rows
<1>2. RowTypes
  BY TypeSplit DEF Inv
<1>3. RowTypes'
  BY <1>1, <1>2, SameRoster DEF RowTypes
<1>4. Unique'
  BY <1>1 DEF Inv, Unique
<1>5. BlocksMatchFeed'
  BY <1>1 DEF Inv, BlocksMatchFeed
<1> QED BY <1>3, <1>4, <1>5

\* While its snapshot of a calendar holds, a save that is alone stays alone
\* until another begins.
LEMMA AloneStays ==
    ASSUME HandlerTypes, SavesAlone, NEW r \in Requests, NEW label, Goto(r, label),
           UNCHANGED <<cleared, overlapped>>,
           \A q \in Requests \ {r} : member'[q] = member[q],
           label \in Opened => pc[r] \in Opened /\ member'[r] = member[r],
           \A q \in Requests : pc'[q] \in Opened /\ q \notin overlapped =>
                RowOf(member[q])'.blocks = RowOf(member[q]).blocks
    PROVE  SavesAlone'
<1> USE DEF Goto
<1> SUFFICES ASSUME NEW q \in Requests, pc'[q] \in Opened, q \notin overlapped
             PROVE  cleared[q] = RowOf(member[q])'.blocks /\ Saving(member[q])' = {q}
  BY DEF SavesAlone
<1>1. /\ pc[q] \in Opened
      /\ \A p \in Requests : pc'[p] \in Opened => pc[p] \in Opened /\ member'[p] = member[p]
  BY DEF HandlerTypes
<1>2. cleared[q] = RowOf(member[q]).blocks /\ Saving(member[q]) = {q}
  BY <1>1 DEF SavesAlone
<1>3. member'[q] = member[q]
  BY <1>1
<1>4. Saving(member[q])' = {p \in Requests : pc'[p] \in Opened /\ member'[p] = member[q]}
  BY <1>3 DEF Saving, Locking, Locked, Opened
<1>5. Saving(member[q]) = {p \in Requests : pc[p] \in Opened /\ member[p] = member[q]}
  BY SavingIsOpened
<1>6. Saving(member[q])' \subseteq Saving(member[q]) /\ q \in Saving(member[q])'
  BY <1>1, <1>3, <1>4, <1>5
<1> QED BY <1>2, <1>6

\* The request that made an event is done with it once, and the seat it linked
\* keeps its place.
LEMMA LinkingStays ==
    ASSUME HandlerTypes, Linking, NEW r \in Requests, NEW label, Goto(r, label),
           UNCHANGED events, pc[r] \notin {"done", "unlinked", "failed"},
           pc[r] = "linkSeat" => label \in {"unlinked", "failed"},
           \A q \in Requests \ {r} : member'[q] = member[q],
           \A q \in Requests \cap events : seats'[q][1] = seats[q][1]
    PROVE  Linking'
BY DEF Goto, Linking, HandlerTypes

\* A request that moves on without touching a table, and does not begin to save.
LEMMA QuietStep ==
    ASSUME Inv, NEW r \in Requests, NEW label \in Labels, Goto(r, label),
           UNCHANGED <<rows, wallet, device, saves>>,
           HandlerTypes', MemberKnown', OldestRow',
           pc[r] \notin {"done", "unlinked", "failed"},
           pc[r] = "linkSeat" => label \in {"unlinked", "failed"},
           label \notin {"idle", "linkSeat"},
           label \in Opened => pc[r] \in Opened /\ member'[r] = member[r],
           label = "roster" => pc[r] = "idle",
           \A q \in Requests \ {r} : member'[q] = member[q]
    PROVE  Inv'
<1> USE DEF Goto
<1>1. RowTypes' /\ Unique' /\ BlocksMatchFeed'
  BY QuietRows DEF saves
<1>2. UNCHANGED <<events, groupOf, seats, members>> /\ HandlerTypes /\ RowTypes
  BY TypeSplit DEF rows, Inv
<1>3. Unmade'
  BY <1>2 DEF Inv, Unmade, HandlerTypes, Labels
<1>4. OwnSeat'
  BY <1>2 DEF Inv, OwnSeat, HandlerTypes, Labels
<1>5. SavesAlone'
  <2>1. \A q \in Requests : pc'[q] \in Opened => member'[q] = member[q]
    BY <1>2 DEF HandlerTypes
  <2>2. \A q \in Requests : pc'[q] \in Opened =>
            RowOf(member[q])'.blocks = RowOf(member[q]).blocks
    BY <1>2, <2>1 DEF RowOf
  <2> QED BY <1>2, <2>2, AloneStays DEF Inv, saves
<1>6. Linking'
  BY <1>2, LinkingStays DEF Inv
<1> QED BY <1>1, <1>3, <1>4, <1>5, <1>6, TypeSplit DEF Inv

-----------------------------------------------------------------------------
(* Steps that leave the tables alone. *)

LEMMA GraduateStep == ASSUME Inv, NEW r \in Requests, Graduate(r) PROVE Inv'
<1> USE DEF Graduate, Goto
<1>1. UNCHANGED <<events, groupOf, seats, members>> /\ HandlerTypes /\ RowTypes
  BY TypeSplit DEF rows, Inv
<1>2. seats[FirstEvent] \in Seq(Seat)
  BY <1>1 DEF RowTypes, Events
<1>3. HandlerTypes'
  BY <1>1, <1>2, SameRoster DEF HandlerTypes, Labels, saves
<1>4. MemberKnown'
  BY <1>1, SameRoster DEF Inv, MemberKnown, HandlerTypes, Bound
<1>5. seats[FirstEvent] # <<>> /\ IsOrganizers(seats[FirstEvent][1])
  BY <1>1 DEF RowTypes, Inv, OldestRow
<1>6. OldestRow'
  BY <1>1, <1>5 DEF Inv, OldestRow, IsOrganizers, HandlerTypes
<1> QED
  BY <1>1, <1>3, <1>4, <1>6, QuietStep DEF Labels, Opened, HandlerTypes

LEMMA ClaimEventSeatStep == ASSUME Inv, NEW r \in Requests, ClaimEventSeat(r) PROVE Inv'
<1> USE DEF ClaimEventSeat, Goto
<1>1. UNCHANGED <<events, groupOf, seats, members>> /\ HandlerTypes /\ RowTypes
  BY TypeSplit DEF rows, Inv
<1>2. wallet[device[r]] \in Roster
  BY <1>1 DEF HandlerTypes, Recognised
<1>3. HandlerTypes'
  BY <1>1, <1>2, SameRoster DEF HandlerTypes, RowTypes, Labels, saves
<1>4. MemberKnown'
  BY <1>1, <1>2, SameRoster DEF Inv, MemberKnown, HandlerTypes, Bound
<1>5. OldestRow'
  BY <1>1 DEF Inv, OldestRow, IsOrganizers, HandlerTypes
<1> QED
  BY <1>1, <1>3, <1>4, <1>5, QuietStep DEF Labels, Opened, HandlerTypes

\* FindSeat, RotateParticipantToken, InsertConflict, LinkRefused, LockBlocks and
\* Fail only move on.
LEMMA MoveStep ==
    ASSUME Inv, NEW r \in Requests, NEW label \in {"rotate", "insert", "seated", "conflict", "unlinked", "failed",
                                              "saveFeed", "saveNone"},
           Goto(r, label), UNCHANGED <<rows, wallet, device, event, member, listed, saves>>,
           pc[r] \notin {"idle", "done", "unlinked", "failed"},
           pc[r] = "linkSeat" => label \in {"unlinked", "failed"},
           label \in {"rotate", "insert"} => pc[r] = "find",
           label \in {"saveFeed", "saveNone"} => pc[r] \in {"lockFeed", "lockNone"}
    PROVE  Inv'
<1> USE DEF Goto
<1>1. UNCHANGED <<events, groupOf, seats, members>> /\ HandlerTypes /\ RowTypes
  BY TypeSplit DEF rows, Inv
<1>3. HandlerTypes'
  BY <1>1, SameRoster DEF HandlerTypes, Labels, saves
<1>4. MemberKnown'
  BY <1>1, SameRoster DEF Inv, MemberKnown, HandlerTypes, Bound
<1>5. OldestRow'
  BY <1>1 DEF Inv, OldestRow, IsOrganizers, HandlerTypes
<1> QED
  BY <1>1, <1>3, <1>4, <1>5, QuietStep DEF Labels, Opened, HandlerTypes

\* ConnectGroupICS and DisconnectGroupCalendar take on the membership of the token.
LEMMA CalendarStep ==
    ASSUME Inv, NEW r \in Requests, NEW label \in {"fetched", "disconnect"},
           pc[r] = "idle", Goto(r, label), NEW m \in KnownAs(device[r]), member' = [member EXCEPT ![r] = m],
           UNCHANGED <<rows, wallet, device, event, listed, saves>>
    PROVE  Inv'
<1> USE DEF Goto
<1>1. UNCHANGED <<events, groupOf, seats, members>> /\ HandlerTypes /\ RowTypes
  BY TypeSplit DEF rows, Inv
<1>2. m \in Roster
  BY <1>1, KnownIsOnRoster DEF HandlerTypes
<1>3. HandlerTypes'
  BY <1>1, <1>2, SameRoster DEF HandlerTypes, Labels, saves
<1>4. MemberKnown'
  BY <1>1, <1>2, SameRoster DEF Inv, MemberKnown, HandlerTypes, Bound
<1>5. OldestRow'
  BY <1>1 DEF Inv, OldestRow, IsOrganizers, HandlerTypes
<1> QED
  BY <1>1, <1>3, <1>4, <1>5, QuietStep DEF Labels, Opened, HandlerTypes

\* The delete: if nobody else is saving, what it takes is all there is.
LEMMA ClearBlocksStep == ASSUME Inv, NEW r \in Requests, ClearBlocks(r) PROVE Inv'
<1> USE DEF ClearBlocks, Goto
<1>1. UNCHANGED <<events, groupOf, seats, members>> /\ HandlerTypes /\ RowTypes
  BY TypeSplit DEF rows, Inv
<1>2. member[r] \in Roster
  BY DEF Inv, MemberKnown, Bound
<1>3. RowOf(member[r]).blocks \in SUBSET Requests
  BY <1>1, <1>2, RowType DEF Member
<1>4. HandlerTypes'
  <2>1. Saving(member[r]) \subseteq Requests
    BY SavingIsOpened
  <2> QED BY <1>1, <1>2, <1>3, <2>1, SameRoster DEF HandlerTypes, Labels, Cleared
<1>5. RowTypes' /\ Unique' /\ BlocksMatchFeed'
  BY QuietRows
<1>6. Unmade' /\ OwnSeat'
  BY <1>1 DEF Inv, Unmade, OwnSeat, HandlerTypes
<1>7. MemberKnown'
  BY <1>1, <1>2, SameRoster DEF Inv, MemberKnown, HandlerTypes, Bound
<1>8. OldestRow'
  BY <1>1 DEF Inv, OldestRow, IsOrganizers, HandlerTypes
<1>9. SavesAlone'
  <2> SUFFICES ASSUME NEW q \in Requests, pc'[q] \in Opened, q \notin overlapped'
               PROVE  cleared'[q] = RowOf(member[q]).blocks /\ Saving(member[q])' = {q}
    BY <1>1 DEF SavesAlone, RowOf, Saving, Locking, Locked
  <2>1. /\ \A p \in Requests \ {r} : pc'[p] = pc[p] /\ cleared'[p] = cleared[p]
        /\ pc'[r] \in Opened /\ pc[r] \notin Opened
    BY <1>1 DEF HandlerTypes, Opened
  <2>2. /\ Saving(member[q])' = {p \in Requests : pc'[p] \in Opened /\ member[p] = member[q]}
        /\ Saving(member[q]) = {p \in Requests : pc[p] \in Opened /\ member[p] = member[q]}
        /\ Saving(member[r]) = {p \in Requests : pc[p] \in Opened /\ member[p] = member[r]}
    BY DEF Saving, Locking, Locked, Opened
  <2>3. CASE q = r
    <3>1. Saving(member[r]) = {}
      BY <2>3
    <3>2. cleared'[r] = RowOf(member[r]).blocks
      BY <1>1 DEF HandlerTypes, Cleared
    <3> QED BY <2>1, <2>2, <2>3, <3>1, <3>2
  <2>4. CASE q # r
    <3>1. q \in Saving(member[q]) /\ q \notin overlapped
      BY <2>1, <2>2, <2>4
    <3>2. member[r] # member[q]
      BY <3>1
    <3>3. cleared[q] = RowOf(member[q]).blocks /\ Saving(member[q]) = {q}
      BY <2>2, <3>1 DEF Inv, SavesAlone
    <3> QED BY <2>1, <2>2, <2>4, <3>2, <3>3
  <2> QED BY <2>3, <2>4
<1>10. Linking'
  BY <1>1, LinkingStays DEF Inv
<1> QED BY <1>4, <1>5, <1>6, <1>7, <1>8, <1>9, <1>10, TypeSplit DEF Inv
-----------------------------------------------------------------------------
(* Steps that change seats. *)

\* Nothing but events, their groups and seats changes, and the request's state.
LEMMA QuietMembers ==
    ASSUME Inv, NEW r \in Requests, NEW label \in {"callersSeat", "linkSeat", "seated", "done"},
           Goto(r, label), UNCHANGED <<members, saves>>,
           \A q \in Requests \ {r} : member'[q] = member[q]
    PROVE  BlocksMatchFeed' /\ SavesAlone'
<1> USE DEF Goto
<1>1. HandlerTypes
  BY TypeSplit DEF Inv
<1>2. BlocksMatchFeed'
  BY DEF Inv, BlocksMatchFeed, saves
<1>3. \A q \in Requests : pc'[q] \in Opened => q # r
  BY <1>1 DEF HandlerTypes, Opened
<1>4. \A q \in Requests : pc'[q] \in Opened =>
            RowOf(member[q])'.blocks = RowOf(member[q]).blocks
  BY <1>3 DEF RowOf
<1> QED BY <1>1, <1>2, <1>4, AloneStays DEF Inv, saves, Opened

\* A row is appended to the seats of an event that exists: whoever was first
\* stays first, and what was seated stays seated.
LEMMA AppendSeat ==
    ASSUME RowTypes, NEW e \in events, NEW seat \in Seat, seats' = Seated(e, seat)
    PROVE  /\ seats' \in [Events -> Seq(Seat)]
           /\ \A f \in Events : f # e => seats'[f] = seats[f]
           /\ 1 \in DOMAIN seats[e] /\ seats'[e] # <<>>
           /\ \A k \in DOMAIN seats[e] : k \in DOMAIN seats'[e] /\ seats'[e][k] = seats[e][k]
           /\ \A k \in DOMAIN seats'[e] : k \in DOMAIN seats[e] \/ seats'[e][k] = seat
           /\ \A j, k \in DOMAIN seats'[e] :
                j \notin DOMAIN seats[e] /\ k \notin DOMAIN seats[e] => j = k
<1>1. e \in Events /\ seats[e] \in Seq(Seat) /\ seats[e] # <<>>
  BY DEF RowTypes
<1>2. seats'[e] = Append(seats[e], seat) /\ \A f \in Events : f # e => seats'[f] = seats[f]
  BY <1>1 DEF RowTypes, Seated
<1>3. Append(seats[e], seat) \in Seq(Seat)
  BY <1>1
<1>4. seats' \in [Events -> Seq(Seat)]
  BY <1>1, <1>3 DEF RowTypes, Seated
<1>5. Len(seats[e]) \in Nat \ {0}
  BY <1>1
<1>6. /\ DOMAIN Append(seats[e], seat) = 1 .. Len(seats[e]) + 1
      /\ DOMAIN seats[e] = 1 .. Len(seats[e])
      /\ \A k \in 1 .. Len(seats[e]) : Append(seats[e], seat)[k] = seats[e][k]
      /\ Append(seats[e], seat)[Len(seats[e]) + 1] = seat
  BY <1>1
<1>7. seats'[e] # <<>>
  BY <1>1, <1>2, <1>5, <1>6
<1> DEFINE n == Len(seats[e])
<1>8. 1 \in 1 .. n /\ \A k \in 1 .. n + 1 : k \in 1 .. n \/ k = n + 1
  BY <1>5
<1>9. \A k \in 1 .. n : k \in 1 .. n + 1
  BY <1>5
<1> QED BY <1>2, <1>4, <1>6, <1>7, <1>8, <1>9

\* A member who has no seat takes one, or somebody without a membership joins.
LEMMA SeatStep ==
    ASSUME Inv, NEW r \in Requests, NEW label \in {"seated", "done"}, NEW e \in events,
           NEW p \in People, NEW m \in Roster \cup {None}, m # None => ~Claimed(e, m),
           pc[r] \in {"idle", "insert"}, Goto(r, label),
           seats' = Seated(e, SeatOf(r, p, FALSE, m)),
           UNCHANGED <<events, groupOf, members, wallet, device, event, member, listed, saves>>
    PROVE  Inv'
<1> DEFINE seat == SeatOf(r, p, FALSE, m)
<1>1. HandlerTypes /\ RowTypes
  BY TypeSplit DEF Inv
<1>2. seat \in Seat
  BY DEF Seat, SeatOf
<1>2a. seats' \in [Events -> Seq(Seat)]
  BY <1>1, <1>2, AppendSeat
<1>2b. \A f \in Events : f # e => seats'[f] = seats[f]
  BY <1>1, <1>2, AppendSeat
<1>3. /\ 1 \in DOMAIN seats[e] /\ seats'[e] # <<>>
      /\ \A k \in DOMAIN seats[e] : k \in DOMAIN seats'[e] /\ seats'[e][k] = seats[e][k]
      /\ \A k \in DOMAIN seats'[e] : k \in DOMAIN seats[e] \/ seats'[e][k] = seat
      /\ \A j, k \in DOMAIN seats'[e] :
            j \notin DOMAIN seats[e] /\ k \notin DOMAIN seats[e] => j = k
  BY <1>1, <1>2, AppendSeat
<1>4. seat.id = r /\ seat.organizer = FALSE /\ seat.member = m
  BY DEF SeatOf
<1> HIDE DEF seat
<1>5. RowTypes'
  <2>1. \A f \in Events \ events : groupOf[f] = None /\ seats'[f] = <<>>
    BY <1>1, <1>2b DEF RowTypes
  <2>2. ASSUME NEW f \in events
        PROVE  seats'[f] # <<>> /\ \A k \in DOMAIN seats'[f] : seats'[f][k].organizer = (k = 1)
    <3>1. CASE f = e
      <4>1. \A k \in DOMAIN seats[e] : seats[e][k].organizer = (k = 1)
        BY <1>1 DEF RowTypes
      <4>2. ASSUME NEW k \in DOMAIN seats'[e] PROVE seats'[e][k].organizer = (k = 1)
        <5>1. CASE k \in DOMAIN seats[e]
          BY <1>3, <4>1, <5>1
        <5>2. CASE k \notin DOMAIN seats[e]
          BY <1>3, <1>4, <5>2
        <5> QED BY <5>1, <5>2
      <4> QED BY <1>3, <3>1, <4>2
    <3>2. CASE f # e
      <4>1. f \in Events
        BY <1>1 DEF RowTypes
      <4>2. seats'[f] = seats[f]
        BY <1>2b, <3>2, <4>1
      <4>3. seats[f] # <<>> /\ \A k \in DOMAIN seats[f] : seats[f][k].organizer = (k = 1)
        BY <1>1 DEF RowTypes
      <4> QED BY <4>2, <4>3
    <3> QED BY <3>1, <3>2
  <2> QED BY <1>1, <1>2a, <2>1, <2>2, SameRoster DEF RowTypes
<1>6. HandlerTypes'
  BY <1>1, SameRoster DEF HandlerTypes, Labels, Goto, saves
<1>7. Unmade' /\ MemberKnown'
  BY <1>1, SameRoster DEF Inv, Unmade, MemberKnown, Bound, HandlerTypes, Goto
<1>8. OwnSeat'
  <2> SUFFICES ASSUME NEW q \in Requests, pc'[q] = "linkSeat", NEW k \in DOMAIN seats'[q]
               PROVE  (seats'[q][k].id = q) = (k = 1)
    BY DEF OwnSeat
  <2>1. q # r /\ pc[q] = "linkSeat" /\ q \in Events
    BY <1>1 DEF Goto, HandlerTypes, Events
  <2>2. \A j \in DOMAIN seats[q] : (seats[q][j].id = q) = (j = 1)
    BY <2>1 DEF Inv, OwnSeat
  <2>3. CASE q = e
    <3>1. CASE k \in DOMAIN seats[e]
      <4>1. seats'[q][k] = seats[e][k]
        BY <1>3, <2>3, <3>1
      <4>2. (seats[e][k].id = q) = (k = 1)
        BY <2>2, <2>3, <3>1
      <4> QED BY <4>1, <4>2
    <3>2. CASE k \notin DOMAIN seats[e]
      <4>1. seats'[q][k].id = r /\ k # 1
        BY <1>3, <1>4, <2>3, <3>2
      <4> QED BY <2>1, <4>1
    <3> QED BY <3>1, <3>2
  <2>4. CASE q # e
    BY <1>2b, <2>1, <2>2, <2>4
  <2> QED BY <2>3, <2>4
<1>9. OldestRow'
  <2>1. FirstEvent \in events => seats'[FirstEvent][1] = seats[FirstEvent][1]
    BY <1>2b, <1>3 DEF Events
  <2> QED BY <1>1, <2>1 DEF Inv, OldestRow, IsOrganizers, HandlerTypes, Goto
<1>10. Unique'
  <2> SUFFICES ASSUME NEW f \in events, NEW j \in DOMAIN seats'[f], NEW k \in DOMAIN seats'[f],
                      seats'[f][j].member = seats'[f][k].member, seats'[f][k].member # None
               PROVE  j = k
    BY DEF Unique
  <2>0. f \in Events
    BY <1>1 DEF RowTypes
  <2>1. CASE f # e
    BY <1>2b, <2>0, <2>1 DEF Inv, Unique
  <2>2. CASE f = e
    <3>1. ASSUME NEW i \in DOMAIN seats[e], m # None PROVE seats[e][i].member # m
      BY <3>1 DEF Claimed
    <3>2. CASE j \in DOMAIN seats[e] /\ k \in DOMAIN seats[e]
      <4>1. seats[e][j].member = seats[e][k].member /\ seats[e][k].member # None
        BY <1>3, <2>2, <3>2
      <4> QED BY <3>2, <4>1 DEF Inv, Unique
    <3>3. CASE j \in DOMAIN seats[e] /\ k \notin DOMAIN seats[e]
      BY <1>3, <1>4, <2>2, <3>1, <3>3
    <3>4. CASE j \notin DOMAIN seats[e] /\ k \in DOMAIN seats[e]
      BY <1>3, <1>4, <2>2, <3>1, <3>4
    <3>5. CASE j \notin DOMAIN seats[e] /\ k \notin DOMAIN seats[e]
      BY <1>3, <2>2, <3>5
    <3> QED BY <3>2, <3>3, <3>4, <3>5
  <2> QED BY <2>1, <2>2
<1>11. BlocksMatchFeed' /\ SavesAlone'
  BY <1>1, QuietMembers DEF Inv, Unmade
<1>12. Linking'
  <2>1. \A q \in Requests : seats'[q][1] = seats[q][1]
    BY <1>2b, <1>3 DEF Events
  <2> QED BY <1>1, <2>1, LinkingStays DEF Inv
<1> QED BY <1>5, <1>6, <1>7, <1>8, <1>9, <1>10, <1>11, <1>12, TypeSplit DEF Inv

LEMMA JoinEventStep == ASSUME Inv, NEW r \in Requests, JoinEvent(r) PROVE Inv'
<1>1. Owner[device[r]] \in People
  BY OwnerAssumption, TypeSplit DEF Inv, HandlerTypes
<1> QED BY <1>1, SeatStep DEF JoinEvent

LEMMA InsertSeatStep == ASSUME Inv, NEW r \in Requests, InsertSeat(r) PROVE Inv'
<1>1. member[r] \in Roster /\ event[r] \in events /\ ~Claimed(event[r], member[r])
  BY DEF InsertSeat, Inv, MemberKnown, Bound, Exists, Taken
<1>2. RowOf(member[r]).who \in People
  BY <1>1, TypeSplit, RowType DEF Inv, Member
<1> QED BY <1>1, <1>2, SeatStep DEF InsertSeat
\* The event is there to be linked; whether it has a group is all that changes.
LEMMA LinkEventStep == ASSUME Inv, NEW r \in Requests, LinkEventToGroup(r) PROVE Inv'
<1> USE DEF LinkEventToGroup, Goto
<1>1. HandlerTypes /\ RowTypes
  BY TypeSplit DEF Inv
<1>2. RowTypes'
  <2>1. groupOf' \in [Events -> Requests \cup {None}]
    BY <1>1 DEF RowTypes
  <2>2. \A e \in Events \ events : groupOf'[e] = None
    BY <1>1 DEF RowTypes, Exists
  <2> QED BY <1>1, <2>1, <2>2, SameRoster DEF RowTypes
<1>3. HandlerTypes'
  BY <1>1, SameRoster DEF HandlerTypes, Labels, saves
<1>4. Unmade' /\ MemberKnown' /\ OwnSeat'
  BY <1>1, SameRoster DEF Inv, Unmade, MemberKnown, Bound, OwnSeat, HandlerTypes
<1>5. OldestRow'
  BY <1>1 DEF Inv, OldestRow, IsOrganizers, HandlerTypes
<1>6. Unique'
  BY DEF Inv, Unique
<1>7. BlocksMatchFeed' /\ SavesAlone'
  BY QuietMembers
<1>8. Linking'
  BY <1>1, LinkingStays DEF Inv
<1> QED BY <1>2, <1>3, <1>4, <1>5, <1>6, <1>7, <1>8, TypeSplit DEF Inv

\* The first row of a new event is its creator's.
LEMMA CreateGroupEventStep == ASSUME Inv, NEW r \in Requests, CreateGroupEvent(r) PROVE Inv'
<1> USE DEF CreateGroupEvent
<1>1. HandlerTypes /\ RowTypes
  BY TypeSplit DEF Inv
<1>2. PICK m \in KnownAs(device[r]) :
        groupOf' = [groupOf EXCEPT ![r] = m[1]] /\ member' = [member EXCEPT ![r] = m]
  OBVIOUS
<1>3. m \in Roster /\ m[1] \in Requests
  BY <1>1, KnownIsOnRoster DEF HandlerTypes, Roster
<1>4. r \in Events /\ r \notin events /\ seats[r] = <<>> /\ r # FirstEvent
  BY <1>1, FreshAssumption DEF RowTypes, Inv, Unmade, Events
<1> DEFINE seat == SeatOf(r, Owner[device[r]], TRUE, None)
<1>5. seat \in Seat
  BY <1>1, OwnerAssumption DEF Seat, SeatOf, HandlerTypes
<1>6. seat.id = r /\ seat.organizer = TRUE
  BY DEF SeatOf
<1> HIDE DEF seat
<1>7. seats' = [seats EXCEPT ![r] = <<seat>>]
  <2>1. seats' = [seats EXCEPT ![r] = Append(seats[r], seat)]
    BY DEF Seated, seat
  <2>2. Append(<<>>, seat) = <<seat>>
    OBVIOUS
  <2> QED BY <1>4, <2>1, <2>2
<1>8. seats' \in [Events -> Seq(Seat)]
  <2>1. <<seat>> \in Seq(Seat)
    BY <1>5
  <2> QED BY <1>1, <1>7, <2>1 DEF RowTypes
<1>9. \A e \in Events : e # r => seats'[e] = seats[e]
  BY <1>1, <1>7 DEF RowTypes
<1>10. /\ seats'[r] = <<seat>> /\ seats'[r] # <<>>
       /\ DOMAIN seats'[r] = {1} /\ seats'[r][1] = seat
  <2>1. seats'[r] = <<seat>>
    BY <1>1, <1>4, <1>7 DEF RowTypes
  <2>2. <<seat>> # <<>> /\ DOMAIN <<seat>> = {1} /\ <<seat>>[1] = seat
    OBVIOUS
  <2> QED BY <2>1, <2>2
<1>11. RowTypes'
  <2>1. events' \subseteq Events /\ groupOf' \in [Events -> Requests \cup {None}]
    BY <1>1, <1>2, <1>3, <1>4 DEF RowTypes
  <2>2. ASSUME NEW e \in Events \ events' PROVE groupOf'[e] = None /\ seats'[e] = <<>>
    BY <1>1, <1>2, <1>9 DEF RowTypes
  <2>3. ASSUME NEW e \in events'
        PROVE  seats'[e] # <<>> /\ \A k \in DOMAIN seats'[e] : seats'[e][k].organizer = (k = 1)
    <3>1. CASE e = r
      <4>1. ASSUME NEW k \in DOMAIN seats'[r] PROVE seats'[r][k].organizer = (k = 1)
        <5>1. k = 1 /\ seats'[r][k].organizer = TRUE
          BY <1>6, <1>10
        <5> QED BY <5>1
      <4> QED BY <1>10, <3>1, <4>1
    <3>2. CASE e # r
      <4>1. e \in Events /\ e \in events
        BY <1>1, <3>2 DEF RowTypes
      <4>2. seats'[e] = seats[e]
        BY <1>9, <3>2, <4>1
      <4>3. seats[e] # <<>> /\ \A k \in DOMAIN seats[e] : seats[e][k].organizer = (k = 1)
        BY <1>1, <4>1 DEF RowTypes
      <4> QED BY <4>2, <4>3
    <3> QED BY <3>1, <3>2
  <2> QED BY <1>1, <1>8, <2>1, <2>2, <2>3, SameRoster DEF RowTypes
<1>12. HandlerTypes'
  BY <1>1, <1>2, <1>3, <1>4, SameRoster DEF HandlerTypes, Labels, Goto, saves
<1>13. Unmade' /\ MemberKnown'
  BY <1>1, <1>2, <1>3, SameRoster DEF Inv, Unmade, MemberKnown, Bound, HandlerTypes, Goto
<1>14. OwnSeat'
  <2> SUFFICES ASSUME NEW q \in Requests, pc'[q] = "linkSeat", NEW k \in DOMAIN seats'[q]
               PROVE  (seats'[q][k].id = q) = (k = 1)
    BY DEF OwnSeat
  <2>1. CASE q = r
    BY <1>6, <1>10, <2>1
  <2>2. CASE q # r
    <3>1. pc[q] = "linkSeat" /\ seats'[q] = seats[q]
      BY <1>1, <1>9, <2>2 DEF Goto, HandlerTypes, Events
    <3>2. \A i \in DOMAIN seats[q] : (seats[q][i].id = q) = (i = 1)
      BY <3>1 DEF Inv, OwnSeat
    <3> QED BY <3>1, <3>2
  <2> QED BY <2>1, <2>2
<1>15. OldestRow'
  <2>1. seats'[FirstEvent] = seats[FirstEvent]
    BY <1>4, <1>9 DEF Events
  <2> QED BY <1>1, <1>4, <2>1 DEF Inv, OldestRow, IsOrganizers, HandlerTypes, Goto
<1>16. Unique'
  <2> SUFFICES ASSUME NEW e \in events', NEW j \in DOMAIN seats'[e], NEW k \in DOMAIN seats'[e],
                      seats'[e][j].member = seats'[e][k].member, seats'[e][k].member # None
               PROVE  j = k
    BY DEF Unique
  <2>1. CASE e = r
    <3>1. DOMAIN seats'[e] = {1}
      BY <1>10, <2>1
    <3> QED BY <3>1
  <2>2. CASE e # r
    <3>1. e \in events /\ seats'[e] = seats[e]
      BY <1>1, <1>9, <2>2 DEF RowTypes
    <3> QED BY <3>1 DEF Inv, Unique
  <2> QED BY <2>1, <2>2
<1>17. BlocksMatchFeed' /\ SavesAlone'
  BY <1>1, <1>2, QuietMembers DEF Inv, Unmade, HandlerTypes
<1>18. Linking'
  <2> SUFFICES ASSUME NEW q \in Requests, q \in events'
               PROVE  /\ pc'[q] \in {"linkSeat", "done", "unlinked", "failed"}
                      /\ pc'[q] = "done" => seats'[q][1].member = member'[q]
    BY DEF Linking
  <2>1. CASE q = r
    BY <1>1, <2>1 DEF Goto, HandlerTypes
  <2>2. CASE q # r
    <3>1. q \in events /\ pc'[q] = pc[q] /\ member'[q] = member[q] /\ seats'[q] = seats[q]
      BY <1>1, <1>2, <1>9, <2>2 DEF Goto, HandlerTypes, Events
    <3> QED BY <3>1 DEF Inv, Linking
  <2> QED BY <2>1, <2>2
<1> QED BY <1>11, <1>12, <1>13, <1>14, <1>15, <1>16, <1>17, <1>18, TypeSplit DEF Inv

\* The link changes the creator's seat alone, and only if the index admits it.
LEMMA LinkOrganizerStep == ASSUME Inv, NEW r \in Requests, LinkOrganizer(r) PROVE Inv'
<1> USE DEF LinkOrganizer
<1>1. HandlerTypes /\ RowTypes
  BY TypeSplit DEF Inv
<1>2. r \in Events /\ r # FirstEvent /\ member[r] \in Roster /\ seats[r] \in Seq(Seat)
  BY <1>1, FreshAssumption DEF RowTypes, Inv, MemberKnown, Bound, Events
<1>3. \A k \in DOMAIN seats[r] : seats[r][k] \in Seat /\ (seats[r][k].id = r) = (k = 1)
  BY <1>2 DEF Inv, OwnSeat
<1>4. \A seat \in Seat : /\ Linked(seat, member[r]) \in Seat
                         /\ Linked(seat, member[r]).id = seat.id
                         /\ Linked(seat, member[r]).organizer = seat.organizer
                         /\ Linked(seat, member[r]).member = member[r]
  BY <1>2 DEF Linked, Seat
<1> DEFINE new == [k \in DOMAIN seats[r] |->
                      IF seats[r][k].id = r THEN Linked(seats[r][k], member[r]) ELSE seats[r][k]]
<1>5. ~Claimed(r, member[r]) /\ seats' = [seats EXCEPT ![r] = new]
  BY DEF Taken
<1>6. new \in Seq(Seat) /\ DOMAIN new = DOMAIN seats[r]
      /\ (seats[r] # <<>> => new # <<>>) /\ (seats[r] = <<>> => new = <<>>)
  <2>1. DOMAIN seats[r] = 1 .. Len(seats[r]) /\ Len(seats[r]) \in Nat
    BY <1>2
  <2>2. \A k \in 1 .. Len(seats[r]) : new[k] \in Seat
    BY <1>3, <1>4, <2>1
  <2>3. new \in [1 .. Len(seats[r]) -> Seat]
    BY <2>1, <2>2
  <2>4. new \in Seq(Seat) /\ Len(new) = Len(seats[r])
    BY <2>1, <2>3
  <2> QED BY <1>2, <2>1, <2>4
<1>7. \A k \in DOMAIN seats[r] :
        /\ new[k].id = seats[r][k].id
        /\ new[k].organizer = seats[r][k].organizer
        /\ new[k].member = IF k = 1 THEN member[r] ELSE seats[r][k].member
  BY <1>3, <1>4
<1> HIDE DEF new
<1>8. /\ \A e \in Events : e # r => seats'[e] = seats[e]
      /\ seats' \in [Events -> Seq(Seat)]
      /\ \A e \in Events : /\ DOMAIN seats'[e] = DOMAIN seats[e]
                           /\ seats[e] # <<>> => seats'[e] # <<>>
                           /\ seats[e] = <<>> => seats'[e] = <<>>
      /\ \A e \in Events : \A k \in DOMAIN seats[e] :
            /\ seats'[e][k].id = seats[e][k].id
            /\ seats'[e][k].organizer = seats[e][k].organizer
  <2>1. seats'[r] = new /\ \A e \in Events : e # r => seats'[e] = seats[e]
    BY <1>1, <1>2, <1>5 DEF RowTypes
  <2>2. seats' \in [Events -> Seq(Seat)]
    BY <1>1, <1>5, <1>6 DEF RowTypes
  <2> QED BY <1>6, <1>7, <2>1, <2>2
<1>9. RowTypes'
  <2>1. ASSUME NEW e \in events
        PROVE  seats'[e] # <<>> /\ \A k \in DOMAIN seats'[e] : seats'[e][k].organizer = (k = 1)
    <3>1. e \in Events
      BY <1>1 DEF RowTypes
    <3>2. seats[e] # <<>> /\ \A k \in DOMAIN seats[e] : seats[e][k].organizer = (k = 1)
      BY <1>1 DEF RowTypes
    <3>3. seats'[e] # <<>> /\ DOMAIN seats'[e] = DOMAIN seats[e]
      BY <1>8, <3>1, <3>2
    <3>4. ASSUME NEW k \in DOMAIN seats[e] PROVE seats'[e][k].organizer = (k = 1)
      <4>1. seats'[e][k].organizer = seats[e][k].organizer
        BY <1>8, <3>1
      <4>2. seats[e][k].organizer = (k = 1)
        BY <3>2
      <4> QED BY <4>1, <4>2
    <3> QED BY <3>3, <3>4
  <2>2. \A e \in Events \ events : seats'[e] = <<>>
    BY <1>1, <1>8 DEF RowTypes
  <2> QED BY <1>1, <1>8, <2>1, <2>2, SameRoster DEF RowTypes
<1>10. HandlerTypes'
  BY <1>1, SameRoster DEF HandlerTypes, Labels, Goto, saves
<1>11. Unmade' /\ MemberKnown'
  BY <1>1, SameRoster DEF Inv, Unmade, MemberKnown, Bound, HandlerTypes, Goto
<1>12. OwnSeat'
  <2> SUFFICES ASSUME NEW q \in Requests, pc'[q] = "linkSeat", NEW k \in DOMAIN seats'[q]
               PROVE  (seats'[q][k].id = q) = (k = 1)
    BY DEF OwnSeat
  <2>1. q # r /\ pc[q] = "linkSeat" /\ q \in Events
    BY <1>1 DEF Goto, HandlerTypes, Events
  <2>2. seats'[q] = seats[q]
    BY <1>8, <2>1
  <2> QED BY <2>1, <2>2 DEF Inv, OwnSeat
<1>13. OldestRow'
  <2>1. seats'[FirstEvent] = seats[FirstEvent]
    BY <1>2, <1>8 DEF Events
  <2> QED BY <1>1, <2>1 DEF Inv, OldestRow, IsOrganizers, HandlerTypes, Goto
<1>14. Unique'
  <2> SUFFICES ASSUME NEW e \in events, NEW j \in DOMAIN seats'[e], NEW k \in DOMAIN seats'[e],
                      seats'[e][j].member = seats'[e][k].member, seats'[e][k].member # None
               PROVE  j = k
    BY DEF Unique
  <2>1. e \in Events
    BY <1>1 DEF RowTypes
  <2>2. CASE e # r
    <3>1. seats'[e] = seats[e]
      BY <1>8, <2>1, <2>2
    <3> QED BY <3>1 DEF Inv, Unique
  <2>3. CASE e = r
    <3>1. seats'[e] = new /\ j \in DOMAIN seats[r] /\ k \in DOMAIN seats[r]
      BY <1>1, <1>2, <1>5, <1>8, <2>3 DEF RowTypes
    <3>2. seats[r][j].member # member[r] /\ seats[r][k].member # member[r]
      BY <1>5, <3>1 DEF Claimed
    <3>3. new[j].member = new[k].member /\ new[k].member # None
      BY <3>1
    <3>4. CASE j # 1 /\ k # 1
      <4>1. seats[r][j].member = seats[r][k].member /\ seats[r][k].member # None
        BY <1>7, <3>1, <3>3, <3>4
      <4> QED BY <2>3, <3>1, <4>1 DEF Inv, Unique
    <3>5. CASE j = 1 \/ k = 1
      BY <1>7, <3>1, <3>2, <3>3, <3>5
    <3> QED BY <3>4, <3>5
  <2> QED BY <2>2, <2>3
<1>15. BlocksMatchFeed' /\ SavesAlone'
  BY <1>1, QuietMembers DEF Inv, HandlerTypes
<1>16. Linking'
  <2> SUFFICES ASSUME NEW q \in Requests, q \in events
               PROVE  /\ pc'[q] \in {"linkSeat", "done", "unlinked", "failed"}
                      /\ pc'[q] = "done" => seats'[q][1].member = member[q]
    BY DEF Linking
  <2>1. CASE q = r
    <3>1. seats[r] # <<>>
      BY <1>1, <2>1 DEF RowTypes
    <3>2. 1 \in DOMAIN seats[r]
      BY <1>2, <3>1
    <3>3. seats'[r][1] = new[1] /\ new[1].member = member[r]
      BY <1>1, <1>2, <1>5, <1>7, <3>2 DEF RowTypes
    <3> QED BY <1>1, <2>1, <3>3 DEF Goto, HandlerTypes
  <2>2. CASE q # r
    <3>1. pc'[q] = pc[q] /\ seats'[q] = seats[q]
      BY <1>1, <1>8, <2>2 DEF Goto, HandlerTypes, Events
    <3> QED BY <3>1 DEF Inv, Linking
  <2> QED BY <2>1, <2>2
<1> QED BY <1>9, <1>10, <1>11, <1>12, <1>13, <1>14, <1>15, <1>16, TypeSplit DEF Inv

\* The sweep takes the event's seats with it.
LEMMA PurgeStep == ASSUME Inv, NEW e \in events, Purge(e) PROVE Inv'
<1> USE DEF Purge
<1>1. HandlerTypes /\ RowTypes /\ UNCHANGED <<pc, device, event, member, listed, cleared, overlapped, mixed>>
  BY TypeSplit DEF Inv, handlers, saves
<1>2. e \in Events /\ seats'[e] = <<>> /\ \A f \in Events : f # e => seats'[f] = seats[f]
  BY <1>1 DEF RowTypes
<1>3. <<>> \in Seq(Seat)
  OBVIOUS
<1>4. RowTypes'
  <2>1. seats' \in [Events -> Seq(Seat)]
    BY <1>1, <1>3 DEF RowTypes
  <2>2. events' \subseteq Events /\ groupOf' \in [Events -> Requests \cup {None}]
    BY <1>1 DEF RowTypes
  <2>3. \A f \in Events \ events' : groupOf'[f] = None /\ seats'[f] = <<>>
    BY <1>1, <1>2 DEF RowTypes
  <2>4. ASSUME NEW f \in events'
        PROVE  seats'[f] # <<>> /\ \A k \in DOMAIN seats'[f] : seats'[f][k].organizer = (k = 1)
    <3>1. f \in events /\ seats'[f] = seats[f]
      BY <1>1, <1>2 DEF RowTypes
    <3>2. seats[f] # <<>> /\ \A k \in DOMAIN seats[f] : seats[f][k].organizer = (k = 1)
      BY <1>1, <3>1 DEF RowTypes
    <3> QED BY <3>1, <3>2
  <2> QED BY <1>1, <2>1, <2>2, <2>3, <2>4, SameRoster DEF RowTypes
<1>5. HandlerTypes'
  BY <1>1, SameRoster DEF HandlerTypes
<1>6. Unmade' /\ MemberKnown'
  BY <1>1, SameRoster DEF Inv, Unmade, MemberKnown
<1>7. OwnSeat'
  <2> SUFFICES ASSUME NEW q \in Requests, pc[q] = "linkSeat", NEW k \in DOMAIN seats'[q]
               PROVE  (seats'[q][k].id = q) = (k = 1)
    BY <1>1 DEF OwnSeat
  <2>1. CASE q = e
    BY <1>2, <2>1
  <2>2. CASE q # e
    <3>1. seats'[q] = seats[q]
      BY <1>2, <2>2 DEF Events
    <3> QED BY <3>1 DEF Inv, OwnSeat
  <2> QED BY <2>1, <2>2
<1>8. OldestRow'
  <2>1. FirstEvent \in events' => FirstEvent \in events /\ seats'[FirstEvent] = seats[FirstEvent]
    BY <1>2 DEF Events
  <2> QED BY <1>1, <2>1 DEF Inv, OldestRow, IsOrganizers
<1>9. Unique'
  <2> SUFFICES ASSUME NEW f \in events', NEW j \in DOMAIN seats'[f], NEW k \in DOMAIN seats'[f],
                      seats'[f][j].member = seats'[f][k].member, seats'[f][k].member # None
               PROVE  j = k
    BY DEF Unique
  <2>1. f \in events /\ seats'[f] = seats[f]
    BY <1>1, <1>2 DEF RowTypes
  <2> QED BY <2>1 DEF Inv, Unique
<1>10. BlocksMatchFeed'
  BY <1>1 DEF Inv, BlocksMatchFeed
<1>11. SavesAlone'
  BY <1>1 DEF Inv, SavesAlone, Saving, Locking, Locked, RowOf
<1>12. Linking'
  <2> SUFFICES ASSUME NEW q \in Requests, q \in events'
               PROVE  /\ pc[q] \in {"linkSeat", "done", "unlinked", "failed"}
                      /\ pc[q] = "done" => seats'[q][1].member = member[q]
    BY <1>1 DEF Linking
  <2>1. q \in events /\ seats'[q] = seats[q]
    BY <1>2 DEF Events
  <2> QED BY <2>1 DEF Inv, Linking
<1> QED BY <1>4, <1>5, <1>6, <1>7, <1>8, <1>9, <1>10, <1>11, <1>12, TypeSplit DEF Inv
-----------------------------------------------------------------------------
(* Steps that change memberships. *)

\* A roster that grows keeps what refers to it well typed.
LEMMA RosterGrows ==
    ASSUME RowTypes, Roster \subseteq Roster', members' \in [Requests -> Seq(Member)],
           UNCHANGED <<events, groupOf, seats>>
    PROVE  RowTypes' /\ Seq(Seat) \subseteq Seq(Seat')
<1>1. Seat \subseteq Seat'
  BY DEF Seat
<1>2. Seq(Seat) \subseteq Seq(Seat')
  BY <1>1
<1>3. Member' = Member /\ Events' = Events
  BY DEF Member, Events
<1>4. seats' \in [Events -> Seq(Seat')]
  BY <1>2 DEF RowTypes
<1> QED BY <1>2, <1>3, <1>4 DEF RowTypes

\* Rows are added to the roster, or get a token: no calendar changes.
LEMMA RosterStep ==
    ASSUME Inv, NEW r \in Requests, NEW label \in {"linkEvent", "done"}, Goto(r, label),
           pc[r] \in {"idle", "roster", "callersSeat"},
           UNCHANGED <<events, groupOf, seats, device, event, member, listed, saves>>,
           members' \in [Requests -> Seq(Member)],
           \A g \in Requests : \A k \in DOMAIN members[g] :
                /\ k \in DOMAIN members'[g]
                /\ members'[g][k].blocks = members[g][k].blocks
                /\ members'[g][k].url = members[g][k].url,
           \A g \in Requests : \A k \in DOMAIN members'[g] :
                \/ k \in DOMAIN members[g]
                \/ members'[g][k].blocks = {} /\ members'[g][k].url = None,
           wallet' \in [Devices -> Roster' \cup {None}],
           \A q \in Requests : members[q] = <<>> =>
                members'[q] = <<>> \/ (q = r /\ pc[r] = "roster"),
           label = "linkEvent" => pc[r] = "roster" /\ members'[r] # <<>>
    PROVE  Inv'
<1> USE DEF Goto
<1>1. HandlerTypes /\ RowTypes
  BY TypeSplit DEF Inv
<1>2. Roster \subseteq Roster'
  BY DEF Roster
<1>3. RowTypes' /\ Seq(Seat) \subseteq Seq(Seat')
  BY <1>1, <1>2, RosterGrows
<1>4. HandlerTypes'
  <2>1. /\ device' \in [Requests -> Devices] /\ event' \in [Requests -> Events]
        /\ pc' \in [Requests -> Labels]
        /\ cleared' \in [Requests -> SUBSET Requests]
    BY <1>1 DEF HandlerTypes, Labels, saves
  <2>2. member' \in [Requests -> Roster' \cup {None}] /\ mixed' \subseteq Roster'
    BY <1>1, <1>2 DEF HandlerTypes, saves
  <2>2a. overlapped' \subseteq Requests
    BY <1>1 DEF HandlerTypes, saves
  <2>3. listed' \in [Requests -> Seq(Seat')]
    BY <1>1, <1>3 DEF HandlerTypes
  <2> QED BY <2>1, <2>2, <2>2a, <2>3 DEF HandlerTypes, Events
<1>5. Unmade' /\ OwnSeat'
  BY <1>1 DEF Inv, Unmade, OwnSeat, HandlerTypes
<1>6. MemberKnown'
  BY <1>1, <1>2 DEF Inv, MemberKnown, Bound, HandlerTypes
<1>7. OldestRow'
  <2>1. \A q \in Requests : pc'[q] \in {"roster", "linkEvent", "callersSeat"} =>
            pc[q] \in {"roster", "linkEvent", "callersSeat"}
    BY <1>1 DEF HandlerTypes
  <2>2. ASSUME NEW q \in Requests, pc'[q] \in {"linkEvent", "callersSeat"}
        PROVE  members'[q] # <<>>
    <3>1. CASE q = r
      BY <1>1, <2>2, <3>1 DEF HandlerTypes
    <3>2. CASE q # r
      <4>1. members[q] # <<>> /\ members[q] \in Seq(Member)
        BY <1>1, <2>2, <3>2 DEF HandlerTypes, RowTypes, Inv, OldestRow
      <4>2. 1 \in DOMAIN members[q]
        BY <4>1
      <4>3. 1 \in DOMAIN members'[q]
        BY <4>2
      <4> QED BY <4>3
    <3> QED BY <3>1, <3>2
  <2> QED BY <2>1, <2>2 DEF Inv, OldestRow, IsOrganizers
<1>8. Unique'
  BY DEF Inv, Unique
<1>9. BlocksMatchFeed'
  <2> SUFFICES ASSUME NEW g \in Requests, NEW k \in DOMAIN members'[g], <<g, k>> \notin mixed
               PROVE  members'[g][k].blocks = {members'[g][k].url} \ {None}
    BY DEF BlocksMatchFeed, saves
  <2>1. CASE k \in DOMAIN members[g]
    <3>1. members[g][k].blocks = {members[g][k].url} \ {None}
      BY <2>1 DEF Inv, BlocksMatchFeed
    <3> QED BY <2>1, <3>1
  <2>2. CASE k \notin DOMAIN members[g]
    BY <2>2
  <2> QED BY <2>1, <2>2
<1>10. SavesAlone'
  <2>1. ASSUME NEW q \in Requests, pc'[q] \in Opened
        PROVE  RowOf(member[q])'.blocks = RowOf(member[q]).blocks
    <3>1. pc[q] \in Opened
      BY <1>1, <2>1 DEF HandlerTypes, Opened
    <3>2. member[q][1] \in Requests /\ member[q][2] \in DOMAIN members[member[q][1]]
      BY <3>1 DEF Inv, MemberKnown, Bound, Roster, Opened
    <3> QED BY <3>2 DEF RowOf
  <2> QED BY <1>1, <2>1, AloneStays DEF Inv, saves, Opened
<1>11. Linking'
  BY <1>1, LinkingStays DEF Inv
<1> QED BY <1>3, <1>4, <1>5, <1>6, <1>7, <1>8, <1>9, <1>10, <1>11, TypeSplit DEF Inv

\* One row is replaced.
LEMMA WithRow ==
    ASSUME RowTypes, NEW g \in Requests, NEW k \in DOMAIN members[g], NEW row \in Member,
           members' = With(<<g, k>>, row)
    PROVE  /\ members' \in [Requests -> Seq(Member)]
           /\ \A h \in Requests : DOMAIN members'[h] = DOMAIN members[h]
           /\ \A h \in Requests : h # g => members'[h] = members[h]
           /\ \A j \in DOMAIN members[g] : j # k => members'[g][j] = members[g][j]
           /\ members'[g][k] = row
           /\ members[g] # <<>>
<1>1. members[g] \in Seq(Member)
  BY DEF RowTypes
<1> DEFINE new == [members[g] EXCEPT ![k] = row]
<1>2. new \in Seq(Member) /\ DOMAIN new = DOMAIN members[g] /\ new[k] = row
      /\ \A j \in DOMAIN members[g] : j # k => new[j] = members[g][j]
  BY <1>1
<1>3. members' = [members EXCEPT ![g] = new]
  BY DEF With
<1> HIDE DEF new
<1>4. members' \in [Requests -> Seq(Member)] /\ members'[g] = new
      /\ \A h \in Requests : h # g => members'[h] = members[h]
  BY <1>2, <1>3 DEF RowTypes
<1>5. members[g] # <<>>
  BY <1>1
<1>6. \A h \in Requests : DOMAIN members'[h] = DOMAIN members[h]
  BY <1>2, <1>4
<1> QED BY <1>2, <1>4, <1>5, <1>6

\* A row gets the token of device d, and d may get to know it.
LEMMA HoldStep ==
    ASSUME Inv, NEW r \in Requests, NEW g \in Requests, NEW k \in DOMAIN members[g],
           NEW d \in Devices, pc[r] \in {"idle", "callersSeat"},
           members' = With(<<g, k>>, Held(members[g][k], d)), HandOver(<<g, k>>, d),
           Goto(r, "done"),
           UNCHANGED <<events, groupOf, seats, device, event, member, listed, saves>>
    PROVE  Inv'
<1> DEFINE row == Held(members[g][k], d)
<1>1. HandlerTypes /\ RowTypes
  BY TypeSplit DEF Inv
<1>2. members[g][k] \in Member
  <2>1. members[g] \in Seq(Member)
    BY <1>1 DEF RowTypes
  <2> QED BY <2>1
<1>3. row \in Member /\ row.blocks = members[g][k].blocks /\ row.url = members[g][k].url
  BY <1>2 DEF Held, Member
<1> HIDE DEF row
<1>4. /\ members' \in [Requests -> Seq(Member)]
      /\ \A h \in Requests : DOMAIN members'[h] = DOMAIN members[h]
      /\ \A h \in Requests : h # g => members'[h] = members[h]
      /\ \A j \in DOMAIN members[g] : j # k => members'[g][j] = members[g][j]
      /\ members'[g][k] = row
      /\ members[g] # <<>>
  BY <1>1, <1>3, WithRow DEF row
<1>5. ASSUME NEW h \in Requests, NEW j \in DOMAIN members[h]
      PROVE  /\ members'[h][j].blocks = members[h][j].blocks
             /\ members'[h][j].url = members[h][j].url
  <2>1. CASE h = g /\ j = k
    BY <1>3, <1>4, <2>1
  <2>2. CASE h # g \/ j # k
    <3>1. members'[h][j] = members[h][j]
      BY <1>4, <2>2
    <3> QED BY <3>1
  <2> QED BY <2>1, <2>2
<1>6. <<g, k>> \in Roster /\ Roster' = Roster
  <2>1. k \in Nat
    <3>1. members[g] \in Seq(Member)
      BY <1>1 DEF RowTypes
    <3> QED BY <3>1
  <2> QED BY <1>4, <2>1 DEF Roster
<1>7. wallet' \in [Devices -> Roster' \cup {None}]
  BY <1>1, <1>6 DEF HandOver, HandlerTypes
<1>8. \A q \in Requests : members[q] = <<>> => members'[q] = <<>>
  BY <1>4
<1> QED BY <1>4, <1>5, <1>7, <1>8, RosterStep

\* The graduating person's row is the first of the new roster, because theirs is
\* the first participant of that name.
LEMMA OwnSeatFound ==
    ASSUME Inv, NEW r \in Requests, pc[r] = "callersSeat"
    PROVE  CallersSeat(r) = <<r, 1>> /\ listed[r][1].id = Organizer
<1>1. listed[r] \in Seq(Seat) /\ listed[r] # <<>> /\ IsOrganizers(listed[r][1])
  BY TypeSplit DEF Inv, HandlerTypes, OldestRow
<1> DEFINE named == {k \in DOMAIN listed[r] : Name[listed[r][k].who] = Name[Organizer]}
<1>2. 1 \in named /\ \A j \in named : j \in Nat /\ 1 <= j
  BY <1>1 DEF IsOrganizers
<1>3. (CHOOSE k \in named : \A j \in named : k <= j) = 1
  BY <1>2
<1> QED BY <1>1, <1>3 DEF CallersSeat, IsOrganizers

LEMMA ClaimCallersSeatStep == ASSUME Inv, NEW r \in Requests, ClaimCallersSeat(r) PROVE Inv'
<1> USE DEF ClaimCallersSeat
<1>1. HandlerTypes /\ RowTypes
  BY TypeSplit DEF Inv
<1>2. members[r] \in Seq(Member) /\ members[r] # <<>>
  BY <1>1 DEF RowTypes, Inv, OldestRow
<1>3. 1 \in DOMAIN members[r]
  BY <1>2
<1>4. members' = With(<<r, 1>>, Held(members[r][1], device[r])) /\ HandOver(<<r, 1>>, device[r])
  BY OwnSeatFound DEF RowOf
<1>5. device[r] \in Devices
  BY <1>1 DEF HandlerTypes
<1> QED BY <1>3, <1>4, <1>5, HoldStep

LEMMA ClaimGroupMemberStep == ASSUME Inv, NEW r \in Requests, ClaimGroupMember(r) PROVE Inv'
<1>1. PICK g \in Requests : \E k \in DOMAIN members[g] :
        /\ members' = With(<<g, k>>, Held(members[g][k], device[r]))
        /\ HandOver(<<g, k>>, device[r])
  BY DEF ClaimGroupMember
<1>2. device[r] \in Devices
  BY TypeSplit DEF Inv, HandlerTypes
<1> QED BY <1>1, <1>2, HoldStep DEF ClaimGroupMember
\* A new row at the end of the roster.
LEMMA JoinGroupStep == ASSUME Inv, NEW r \in Requests, JoinGroup(r) PROVE Inv'
<1> USE DEF JoinGroup
<1>1. HandlerTypes /\ RowTypes
  BY TypeSplit DEF Inv
<1> DEFINE row == MemberOf(Owner[device[r]], device[r])
<1>2. PICK g \in Requests : /\ members[g] # <<>>
                            /\ members' = [members EXCEPT ![g] = Append(members[g], row)]
                            /\ HandOver(<<g, Len(members[g]) + 1>>, device[r])
  OBVIOUS
<1>3. row \in Member /\ row.blocks = {} /\ row.url = None
  BY <1>1, OwnerAssumption DEF HandlerTypes, MemberOf, Member
<1> HIDE DEF row
<1> DEFINE n == Len(members[g])
<1>4. members[g] \in Seq(Member) /\ n \in Nat /\ DOMAIN members[g] = 1 .. n
  BY <1>1 DEF RowTypes
<1>5. Append(members[g], row) \in Seq(Member)
  BY <1>3, <1>4
<1>6. /\ DOMAIN Append(members[g], row) = 1 .. n + 1
      /\ \A k \in 1 .. n : Append(members[g], row)[k] = members[g][k]
      /\ Append(members[g], row)[n + 1] = row
  BY <1>3, <1>4
<1>7. members' \in [Requests -> Seq(Member)]
  BY <1>1, <1>2, <1>5 DEF RowTypes
<1>8. members'[g] = Append(members[g], row) /\ \A h \in Requests : h # g => members'[h] = members[h]
  BY <1>1, <1>2 DEF RowTypes
<1> HIDE DEF n
<1>9. \A k \in 1 .. n : k \in 1 .. n + 1
  BY <1>4
<1>10. n + 1 \in 1 .. n + 1 /\ \A k \in 1 .. n + 1 : k \in 1 .. n \/ k = n + 1
  BY <1>4
<1>11. ASSUME NEW h \in Requests, NEW k \in DOMAIN members[h]
       PROVE  k \in DOMAIN members'[h] /\ members'[h][k] = members[h][k]
  <2>1. CASE h = g
    BY <1>4, <1>6, <1>8, <1>9, <2>1
  <2>2. CASE h # g
    BY <1>8, <2>2
  <2> QED BY <2>1, <2>2
<1>12. ASSUME NEW h \in Requests, NEW k \in DOMAIN members'[h]
       PROVE  k \in DOMAIN members[h] \/ members'[h][k] = row
  <2>1. CASE h = g
    BY <1>4, <1>6, <1>8, <1>10, <2>1
  <2>2. CASE h # g
    BY <1>8, <2>2
  <2> QED BY <2>1, <2>2
<1>13. wallet' \in [Devices -> Roster' \cup {None}]
  <2>1. Roster \subseteq Roster'
    BY <1>11 DEF Roster
  <2>2. n + 1 \in Nat /\ n + 1 \in DOMAIN members'[g]
    BY <1>4, <1>6, <1>8, <1>10
  <2>3. <<g, n + 1>> \in Roster'
    BY <2>2 DEF Roster
  <2>4. \E received \in BOOLEAN :
          wallet' = IF received THEN [wallet EXCEPT ![device[r]] = <<g, n + 1>>] ELSE wallet
    BY <1>2 DEF HandOver, n
  <2>5. wallet \in [Devices -> Roster' \cup {None}]
    BY <1>1, <2>1 DEF HandlerTypes
  <2> QED BY <2>3, <2>4, <2>5
<1>14. \A q \in Requests : members[q] = <<>> => members'[q] = <<>>
  BY <1>2, <1>8
<1>15. \A h \in Requests : \A k \in DOMAIN members[h] :
            /\ k \in DOMAIN members'[h]
            /\ members'[h][k].blocks = members[h][k].blocks
            /\ members'[h][k].url = members[h][k].url
  BY <1>11
<1>16. \A h \in Requests : \A k \in DOMAIN members'[h] :
            k \in DOMAIN members[h] \/ (members'[h][k].blocks = {} /\ members'[h][k].url = None)
  BY <1>3, <1>12
<1> QED BY <1>7, <1>13, <1>14, <1>15, <1>16, RosterStep

\* A new roster, one row per participant listed.
LEMMA CreateGroupStep == ASSUME Inv, NEW r \in Requests, CreateGroup(r) PROVE Inv'
<1> USE DEF CreateGroup
<1>1. HandlerTypes /\ RowTypes
  BY TypeSplit DEF Inv
<1>2. members[r] = <<>> /\ listed[r] \in Seq(Seat) /\ listed[r] # <<>>
  BY <1>1 DEF Inv, Unmade, OldestRow, HandlerTypes
<1> DEFINE roster == [k \in DOMAIN listed[r] |-> MemberOf(listed[r][k].who, None)]
<1>3. DOMAIN listed[r] = 1 .. Len(listed[r]) /\ Len(listed[r]) \in Nat \ {0}
      /\ \A k \in DOMAIN listed[r] : listed[r][k] \in Seat
  BY <1>2
<1>4. \A p \in People : /\ MemberOf(p, None) \in Member
                        /\ MemberOf(p, None).blocks = {} /\ MemberOf(p, None).url = None
  BY DEF MemberOf, Member
<1>5. \A k \in DOMAIN listed[r] : roster[k] \in Member /\ roster[k].blocks = {} /\ roster[k].url = None
  <2>1. \A k \in DOMAIN listed[r] : listed[r][k].who \in People
    BY <1>3 DEF Seat
  <2> QED BY <1>4, <2>1
<1>6. roster \in Seq(Member) /\ roster # <<>> /\ DOMAIN roster = DOMAIN listed[r]
  <2>1. roster \in [1 .. Len(listed[r]) -> Member]
    BY <1>3, <1>5
  <2>2. roster \in Seq(Member)
    BY <1>3, <2>1
  <2>3. 1 \in DOMAIN roster
    BY <1>3
  <2> QED BY <2>2, <2>3
<1>7. members' = [members EXCEPT ![r] = roster]
  OBVIOUS
<1> HIDE DEF roster
<1>8. /\ members' \in [Requests -> Seq(Member)] /\ members'[r] = roster
      /\ \A h \in Requests : h # r => members'[h] = members[h]
  BY <1>1, <1>6, <1>7 DEF RowTypes
<1>9. \A h \in Requests : \A k \in DOMAIN members[h] :
            k \in DOMAIN members'[h] /\ members'[h][k] = members[h][k]
  BY <1>2, <1>8
<1>10. \A h \in Requests : \A k \in DOMAIN members'[h] :
            k \in DOMAIN members[h] \/ (members'[h][k].blocks = {} /\ members'[h][k].url = None)
  <2> TAKE h \in Requests
  <2>1. CASE h = r
    BY <1>5, <1>6, <1>8, <2>1
  <2>2. CASE h # r
    BY <1>8, <2>2
  <2> QED BY <2>1, <2>2
<1>11. wallet' \in [Devices -> Roster' \cup {None}]
  <2>1. Roster \subseteq Roster'
    BY <1>9 DEF Roster
  <2> QED BY <1>1, <2>1 DEF HandlerTypes
<1>12. \A q \in Requests : members[q] = <<>> => members'[q] = <<>> \/ (q = r /\ pc[r] = "roster")
  BY <1>8
<1>13. members'[r] # <<>> /\ pc[r] = "roster"
  BY <1>6, <1>8
<1>14. \A h \in Requests : \A k \in DOMAIN members[h] :
            /\ k \in DOMAIN members'[h]
            /\ members'[h][k].blocks = members[h][k].blocks
            /\ members'[h][k].url = members[h][k].url
  BY <1>9
<1> QED BY <1>8, <1>10, <1>11, <1>12, <1>13, <1>14, RosterStep

\* The commit: a transaction that was alone leaves its own blocks only.
LEMMA CommitStep == ASSUME Inv, NEW r \in Requests, CommitCalendar(r) PROVE Inv'
<1> USE DEF CommitCalendar, Goto
<1>1. HandlerTypes /\ RowTypes
  BY TypeSplit DEF Inv
<1>2. PICK g \in Requests, k \in Nat : member[r] = <<g, k>> /\ k \in DOMAIN members[g]
  BY DEF Inv, MemberKnown, Bound, Roster
<1> DEFINE new == IF pc[r] = "saveFeed" THEN r ELSE None
           row == Saved(members[g][k], cleared[r], new)
<1>3. members' = With(<<g, k>>, row)
  BY <1>2 DEF RowOf
<1>4. members[g][k] \in Member
  <2>1. members[g] \in Seq(Member)
    BY <1>1 DEF RowTypes
  <2> QED BY <1>2, <2>1
<1>5. new \in Requests \cup {None}
  OBVIOUS
<1> HIDE DEF new
<1>6. /\ row \in Member /\ row.url = new
      /\ row.blocks = (members[g][k].blocks \ cleared[r]) \cup ({new} \ {None})
  BY <1>1, <1>4, <1>5 DEF Saved, Member
<1> HIDE DEF row
<1>7. /\ members' \in [Requests -> Seq(Member)]
      /\ \A h \in Requests : DOMAIN members'[h] = DOMAIN members[h]
      /\ \A h \in Requests : h # g => members'[h] = members[h]
      /\ \A j \in DOMAIN members[g] : j # k => members'[g][j] = members[g][j]
      /\ members'[g][k] = row
  <2> HIDE DEF CommitCalendar, Goto
  <2>1. RowTypes /\ k \in DOMAIN members[g] /\ row \in Member
    BY <1>1, <1>2, <1>6
  <2> QED BY <1>3, <2>1, WithRow
<1>8. Roster' = Roster
  BY <1>7 DEF Roster
<1>9. RowTypes'
  BY <1>1, <1>7, <1>8, RosterGrows
<1>10. Seat' = Seat
  BY <1>8 DEF Seat
<1>11. HandlerTypes'
  <2>1. mixed' \subseteq Roster'
    BY <1>1, <1>8 DEF Inv, MemberKnown, Bound, HandlerTypes
  <2> QED BY <1>1, <1>8, <1>10, <2>1 DEF HandlerTypes, Labels
<1>12. Unmade' /\ MemberKnown' /\ OwnSeat'
  <2>1. \A h \in Requests : members[h] = <<>> => members'[h] = <<>>
    <3>1. members[g] # <<>>
      BY <1>1, <1>2 DEF RowTypes
    <3> QED BY <1>7, <3>1
  <2> QED BY <1>1, <1>8, <2>1 DEF Inv, Unmade, MemberKnown, Bound, OwnSeat, HandlerTypes
<1>13. OldestRow'
  <2>1. ASSUME NEW h \in Requests, members[h] # <<>> PROVE members'[h] # <<>>
    <3>1. members[h] \in Seq(Member)
      BY <1>1 DEF RowTypes
    <3>2. 1 \in DOMAIN members[h]
      BY <2>1, <3>1
    <3>3. 1 \in DOMAIN members'[h]
      BY <1>7, <3>2
    <3> QED BY <3>3
  <2> QED BY <1>1, <2>1 DEF Inv, OldestRow, IsOrganizers, HandlerTypes
<1>14. Unique'
  BY DEF Inv, Unique
<1>15. BlocksMatchFeed'
  <2> SUFFICES ASSUME NEW h \in Requests, NEW j \in DOMAIN members'[h], <<h, j>> \notin mixed'
               PROVE  members'[h][j].blocks = {members'[h][j].url} \ {None}
    BY DEF BlocksMatchFeed
  <2>1. CASE h = g /\ j = k
    <3>1. cleared[r] = members[g][k].blocks
      BY <1>2, <2>1 DEF Inv, SavesAlone, RowOf, Opened
    <3>2. row.blocks = {new} \ {None}
      BY <1>6, <3>1
    <3> QED BY <1>6, <1>7, <2>1, <3>2
  <2>2. CASE ~(h = g /\ j = k)
    <3>1. j \in DOMAIN members[h] /\ members'[h][j] = members[h][j]
      BY <1>7, <2>2
    <3>2. <<h, j>> \notin mixed
      BY <1>2, <2>2
    <3>3. members[h][j].blocks = {members[h][j].url} \ {None}
      BY <3>1, <3>2 DEF Inv, BlocksMatchFeed
    <3> QED BY <3>1, <3>3
  <2> QED BY <2>1, <2>2
<1>16. SavesAlone'
  <2>1. ASSUME NEW q \in Requests, pc'[q] \in Opened, q \notin overlapped
        PROVE  RowOf(member[q])'.blocks = RowOf(member[q]).blocks
    <3>1. q # r /\ pc[q] \in Opened /\ pc[r] \in Opened
      BY <1>1, <2>1 DEF HandlerTypes, Opened
    <3>2. Saving(member[q]) = {q}
      BY <2>1, <3>1 DEF Inv, SavesAlone
    <3>3. member[q] # <<g, k>>
      BY <1>2, <3>1, <3>2, SavingIsOpened
    <3>4. PICK h \in Requests, j \in Nat : member[q] = <<h, j>> /\ j \in DOMAIN members[h]
      BY <3>1 DEF Inv, MemberKnown, Bound, Roster, Opened
    <3>5. members'[h][j] = members[h][j]
      BY <1>7, <3>3, <3>4
    <3> QED BY <3>4, <3>5 DEF RowOf
  <2> QED BY <1>1, <2>1, AloneStays DEF Inv, Opened
<1>17. Linking'
  BY <1>1, LinkingStays DEF Inv
<1> QED BY <1>9, <1>11, <1>12, <1>13, <1>14, <1>15, <1>16, <1>17, TypeSplit DEF Inv

-----------------------------------------------------------------------------
(* The initial states and the step. *)

LEMMA InvInit == Init => Inv
<1> SUFFICES ASSUME Init PROVE Inv
  OBVIOUS
<1> DEFINE n == Cardinality(People)
<1>1. n \in Nat /\ n # 0
  BY PeopleAssumption, FS_CardinalityType, FS_EmptySet
<1>2. PICK joined \in [1 .. n -> People] :
        /\ joined[1] = Organizer
        /\ seats = [e \in Events |-> IF e = FirstEvent
                       THEN [k \in DOMAIN joined |-> SeatOf(joined[k], joined[k], k = 1, None)]
                       ELSE <<>>]
  BY DEF Init
<1> DEFINE order == [k \in DOMAIN joined |-> SeatOf(joined[k], joined[k], k = 1, None)]
<1> HIDE DEF n
<1>3. \A k \in 1 .. n : /\ SeatOf(joined[k], joined[k], k = 1, None) \in Seat
                        /\ SeatOf(joined[k], joined[k], k = 1, None).organizer = (k = 1)
  BY <1>2 DEF SeatOf, Seat
<1>4. order \in Seq(Seat) /\ order # <<>> /\ 1 \in DOMAIN order /\ DOMAIN order = 1 .. n
  <2>1. order \in [1 .. n -> Seat]
    BY <1>2, <1>3
  <2>2. order \in Seq(Seat) /\ 1 \in 1 .. n
    BY <1>1, <2>1
  <2>3. DOMAIN order = 1 .. n
    BY <2>1
  <2>4. 1 \in DOMAIN order
    BY <2>2, <2>3
  <2> HIDE DEF order
  <2>5. order # <<>>
    BY <2>4
  <2> QED BY <2>2, <2>3, <2>4, <2>5
<1>5. IsOrganizers(order[1])
  BY <1>1, <1>2, <1>4 DEF IsOrganizers, SeatOf
<1>6. \A k \in DOMAIN order : order[k].organizer = (k = 1)
  BY <1>2, <1>3
<1>7. \A k \in DOMAIN order : order[k].member = None
  BY DEF SeatOf
<1> HIDE DEF order
<1>8. seats[FirstEvent] = order /\ \A e \in Events : e # FirstEvent => seats[e] = <<>>
  BY <1>2 DEF Events, order
<1>9. seats \in [Events -> Seq(Seat)]
  <2>1. seats = [e \in Events |-> IF e = FirstEvent THEN order ELSE <<>>]
    BY <1>2 DEF order
  <2>2. <<>> \in Seq(Seat)
    OBVIOUS
  <2>3. order \in Seq(Seat)
    BY <1>4
  <2> QED BY <2>1, <2>2, <2>3
<1>10. RowTypes
  <2>1. events = {FirstEvent} /\ FirstEvent \in Events
    BY DEF Init, Events
  <2>2. groupOf \in [Events -> Requests \cup {None}] /\ \A e \in Events : groupOf[e] = None
    BY DEF Init
  <2>3. members \in [Requests -> Seq(Member)]
    BY DEF Init
  <2> QED BY <1>4, <1>6, <1>8, <1>9, <2>1, <2>2, <2>3 DEF RowTypes
<1>11. HandlerTypes
  BY DEF Init, HandlerTypes, Labels, Events
<1>12. Unmade /\ MemberKnown /\ OwnSeat /\ SavesAlone
  BY FreshAssumption DEF Init, Unmade, MemberKnown, Bound, OwnSeat, SavesAlone, Opened
<1>13. OldestRow
  BY <1>5, <1>8 DEF Init, OldestRow
<1>14. Unique
  BY <1>7, <1>8 DEF Init, Unique
<1>15. BlocksMatchFeed
  BY DEF Init, BlocksMatchFeed
<1>16. Linking
  BY FreshAssumption DEF Init, Linking
<1> QED BY <1>10, <1>11, <1>12, <1>13, <1>14, <1>15, <1>16, TypeSplit DEF Inv

LEMMA StutterStep == ASSUME Inv, UNCHANGED vars PROVE Inv'
<1>1. UNCHANGED <<events, groupOf, seats, members, wallet, pc, device, event, member, listed,
                  cleared, overlapped, mixed>>
  BY DEF vars, rows, handlers, saves
<1> QED
  BY <1>1, SameRoster DEF Inv, TypeOK, Unmade, MemberKnown, OwnSeat, OldestRow, SavesAlone,
     Unique, Linking, BlocksMatchFeed, Saving, Locking, Locked, RowOf, IsOrganizers, Bound

LEMMA InvStep == Inv /\ [Next]_vars => Inv'
<1> SUFFICES ASSUME Inv, [Next]_vars PROVE Inv'
  OBVIOUS
<1>1. ASSUME NEW r \in Requests, FindSeat(r) PROVE Inv'
  BY <1>1, MoveStep DEF FindSeat
<1>2. ASSUME NEW r \in Requests, RotateParticipantToken(r) PROVE Inv'
  BY <1>2, MoveStep DEF RotateParticipantToken
<1>3. ASSUME NEW r \in Requests, InsertConflict(r) PROVE Inv'
  BY <1>3, MoveStep DEF InsertConflict
<1>4. ASSUME NEW r \in Requests, Fail(r) PROVE Inv'
  BY <1>4, MoveStep DEF Fail
<1>7. ASSUME NEW r \in Requests, LinkRefused(r) PROVE Inv'
  BY <1>7, MoveStep DEF LinkRefused
<1>8. ASSUME NEW r \in Requests, LockBlocks(r) PROVE Inv'
  <2>1. CASE pc[r] = "lockFeed"
    BY <1>8, <2>1, MoveStep DEF LockBlocks
  <2>2. CASE pc[r] = "lockNone"
    BY <1>8, <2>2, MoveStep DEF LockBlocks
  <2> QED BY <1>8, <2>1, <2>2 DEF LockBlocks
<1>5. ASSUME NEW r \in Requests, ConnectGroupICS(r) PROVE Inv'
  BY <1>5, CalendarStep DEF ConnectGroupICS
<1>6. ASSUME NEW r \in Requests, DisconnectGroupCalendar(r) PROVE Inv'
  BY <1>6, CalendarStep DEF DisconnectGroupCalendar
<1> QED
  BY <1>1, <1>2, <1>3, <1>4, <1>5, <1>6, <1>7, <1>8, StutterStep, PurgeStep, GraduateStep,
     CreateGroupStep, LinkEventStep, ClaimCallersSeatStep, ClaimGroupMemberStep,
     JoinGroupStep, CreateGroupEventStep, LinkOrganizerStep, JoinEventStep,
     ClaimEventSeatStep, InsertSeatStep, ClearBlocksStep, CommitStep DEF Next

LEMMA Invariance == Spec => []Inv
BY InvInit, InvStep, PTL DEF Spec

-----------------------------------------------------------------------------
(* The theorems. *)

\* The types; whatever is in flight when the sweep deletes an event, an event
\* that exists has its organizer's row, once and first, and none has rows left
\* that is gone (the foreign keys of 00001_events.sql and 00004_groups.sql).
THEOREM GroupTypes == Spec => []TypeOK
<1>1. Inv => TypeOK
  BY DEF Inv
<1> QED BY <1>1, Invariance, PTL

\* However many claims of one member overlap, on however many devices: a member
\* other than the creator of an event never has two seats in it, and the
\* creator has a second one only if the request that made the event did not
\* link their first (LinkParticipantToGroupMember, whose error is logged).
THEOREM OneSeat == Spec => []OneSeatPerMember
<1>1. ASSUME Inv PROVE OneSeatPerMember
  <2>0. ASSUME NEW g \in Requests, NEW n \in DOMAIN members[g] PROVE <<g, n>> \in Roster
    <3>1. RowTypes
      BY <1>1, TypeSplit DEF Inv
    <3>2. members[g] \in Seq(Member)
      BY <3>1 DEF RowTypes
    <3>3. n \in Nat
      BY <3>2
    <3> QED BY <3>3 DEF Roster
  <2> SUFFICES ASSUME NEW e \in events, NEW m \in Roster,
                      NEW j \in DOMAIN seats[e], NEW k \in DOMAIN seats[e],
                      Belongs(e, j, m), Belongs(e, k, m), j # k
               PROVE  1 \in {j, k} /\ e # FirstEvent /\ pc[e] # "done"
    BY <2>0 DEF OneSeatPerMember
  <2>1. m # None
    BY FreshAssumption DEF Roster
  <2>2. ~(seats[e][j].member = m /\ seats[e][k].member = m)
    BY <1>1, <2>1 DEF Inv, Unique
  <2>3. 1 \in {j, k} /\ e # FirstEvent /\ member[e] = m
    BY <2>2 DEF Belongs
  <2>4. e \in Requests
    BY <1>1, <2>3, TypeSplit DEF Inv, RowTypes, Events
  <2>5. pc[e] = "done" => seats[e][1].member = m
    BY <1>1, <2>3, <2>4 DEF Inv, Linking
  <2> QED BY <2>2, <2>3, <2>5 DEF Belongs
<1> QED BY <1>1, Invariance, PTL

\* Whoever else has their name, the person who graduates an event is handed the
\* row made of their own seat.
THEOREM OwnRow == Spec => []CallerIsHandedOwnSeat
<1>1. Inv => CallerIsHandedOwnSeat
  <2> SUFFICES ASSUME Inv, NEW r \in Requests, pc[r] = "callersSeat"
               PROVE  listed[r][CallersSeat(r)[2]].id = Organizer
    BY DEF CallerIsHandedOwnSeat
  <2> QED BY OwnSeatFound
<1> QED BY <1>1, Invariance, PTL

\* Saves that do not overlap leave the blocks of the address on file, however
\* many devices hold or have held the row.
THEOREM CalendarMatches == Spec => []BlocksMatchFeed
<1>1. Inv => BlocksMatchFeed
  BY DEF Inv
<1> QED BY <1>1, Invariance, PTL
=============================================================================
