--------------------------------- MODULE Groups ---------------------------------
(***************************************************************************)
(* How a decided event becomes a group, and how a group's members get into *)
(* the group's events.                                                     *)
(*                                                                         *)
(* Graduation lists the participants, writes the group with its roster,    *)
(* links the event and claims the caller's own row, each by itself.  A     *)
(* member takes a seat in an event by a lookup followed by a rotation of   *)
(* the seat's token or by an insert, which only the unique index on        *)
(* (event_id, group_member_id) keeps apart from the same member's other    *)
(* claims.  An event made from a group seats its creator in one            *)
(* transaction and links that seat to the membership in another.           *)
(*                                                                         *)
(* A token is represented by the device it was minted for.  A new event,   *)
(* group, seat or membership is named after the request that made it.      *)
(***************************************************************************)
EXTENDS Naturals, Sequences, FiniteSets

CONSTANTS
    Requests,    \* HTTP requests, each made once
    People,
    Devices,     \* browsers, with their local storage
    Owner,       \* whose device it is
    Name,        \* display names, which need not differ
    Organizer,   \* of the event that graduates
    FirstEvent,  \* that event
    None

ASSUME PeopleAssumption == IsFiniteSet(People) /\ Organizer \in People
ASSUME OwnerAssumption == Owner \in [Devices -> People]
ASSUME FreshAssumption ==
    /\ None \notin Requests \cup Devices \cup {FirstEvent} /\ None \notin Requests \X Nat
    /\ FirstEvent \notin Requests

VARIABLES
    events,      \* rows of events
    groupOf,     \* events.group_id
    seats,       \* rows of participants, by event, oldest first
    members,     \* rows of group_members, by group, oldest first, each with its
                 \* rows of group_member_busy_blocks
    wallet,      \* the membership whose token a device has stored
    pc,          \* how far each request is
    device,      \* the device it came from
    event,       \* the event it is about
    member,      \* the membership its token resolved to
    listed,      \* the participants it read
    cleared,     \* the busy blocks the DELETE of its transaction saw
    overlapped,  \* history: requests that saved a calendar while another did
    mixed        \* history: memberships whose calendar such a request saved last

saves == <<cleared, overlapped, mixed>>
rows == <<events, groupOf, seats, members>>
handlers == <<pc, device, event, member, listed>>
vars == <<rows, wallet, handlers, saves>>

Events == {FirstEvent} \cup Requests
\* A membership <<g, k>> is the k-th row of group g.
Roster == {m \in Requests \X Nat : m[2] \in DOMAIN members[m[1]]}
RowOf(m) == members[m[1]][m[2]]

Seat == [id : People \cup Requests, who : People, organizer : BOOLEAN,
         member : Roster \cup {None}]
\* holder is the device whose token the row has; calendar_url and the blocks are
\* named after the request that brought them.
Member == [who : People, holder : Devices \cup {None},
           url : Requests \cup {None}, blocks : SUBSET Requests]

SeatOf(id, p, org, m) == [id |-> id, who |-> p, organizer |-> org, member |-> m]
MemberOf(p, d) == [who |-> p, holder |-> d, url |-> None, blocks |-> {}]

\* m's row becomes row; e gets one more seat.
With(m, row) == [members EXCEPT ![m[1]] = [@ EXCEPT ![m[2]] = row]]
Seated(e, seat) == [seats EXCEPT ![e] = Append(@, seat)]

\* The event was created by its organizer, and everybody else joined it since.
Init ==
    /\ events = {FirstEvent}
    /\ groupOf = [e \in Events |-> None]
    /\ \E joined \in [1 .. Cardinality(People) -> People] :
        /\ joined[1] = Organizer
        /\ \A j, k \in DOMAIN joined : joined[j] = joined[k] => j = k
        /\ seats = [e \in Events |-> IF e = FirstEvent
                       THEN [k \in DOMAIN joined |->
                                SeatOf(joined[k], joined[k], k = 1, None)]
                       ELSE <<>>]
    /\ members = [g \in Requests |-> <<>>]
    /\ wallet = [d \in Devices |-> None]
    /\ pc = [r \in Requests |-> "idle"]
    /\ device \in [Requests -> Devices]
    /\ event = [r \in Requests |-> FirstEvent]
    /\ member = [r \in Requests |-> None]
    /\ listed = [r \in Requests |-> <<>>]
    /\ cleared = [r \in Requests |-> {}] /\ overlapped = {} /\ mixed = {}

Goto(r, label) == pc' = [pc EXCEPT ![r] = label]

\* requireGroupMember, GroupMemberByToken: the device's token is a row of g.
Recognised(d, g) ==
    wallet[d] # None /\ wallet[d][1] = g /\ RowOf(wallet[d]).holder = d

Held(row, d) == [row EXCEPT !.holder = d]

\* m's new token is on its way to d; the answer with it may be lost.
HandOver(m, d) ==
    \E received \in BOOLEAN :
        wallet' = IF received THEN [wallet EXCEPT ![d] = m] ELSE wallet

\* Mutant: an event that has been there is taken to be there still.
ExistedOnce(e) == TRUE

\* The event is there: the row an update names, or a foreign key refers to.
Exists(e) == e \in events

-----------------------------------------------------------------------------
(* Graduate. *)

\* The organizer of the decided event asks; the participants are listed.
Graduate(r) ==
    /\ pc[r] = "idle" /\ FirstEvent \in events
    /\ Owner[device[r]] = Organizer
    /\ listed' = [listed EXCEPT ![r] = seats[FirstEvent]]
    /\ Goto(r, "roster")
    /\ UNCHANGED <<rows, wallet, device, event, member, saves>>

\* createGroupTx: the group and one unclaimed row per participant.  Its
\* created_from refers to the event, so the transaction fails without it.
CreateGroup(r) ==
    /\ pc[r] = "roster" /\ Exists(FirstEvent)
    /\ members' = [members EXCEPT ![r] =
           [k \in DOMAIN listed[r] |-> MemberOf(listed[r][k].who, None)]]
    /\ Goto(r, "linkEvent")
    /\ UNCHANGED <<events, groupOf, seats, wallet, device, event, member, listed, saves>>

LinkEventToGroup(r) ==
    /\ pc[r] = "linkEvent" /\ Exists(FirstEvent)
    /\ groupOf' = [groupOf EXCEPT ![FirstEvent] = r]
    /\ Goto(r, "callersSeat")
    /\ UNCHANGED <<events, seats, members, wallet, device, event, member, listed, saves>>

\* Mutant: the last row of that name.
CallersSeatLast(r) ==
    LET named == {k \in DOMAIN listed[r] : Name[listed[r][k].who] = Name[Organizer]}
    IN  <<r, CHOOSE k \in named : \A j \in named : j <= k>>

\* The first seeded row that has the caller's name.
CallersSeat(r) ==
    LET named == {k \in DOMAIN listed[r] : Name[listed[r][k].who] = Name[Organizer]}
    IN  <<r, CHOOSE k \in named : \A j \in named : k <= j>>

ClaimCallersSeat(r) ==
    /\ pc[r] = "callersSeat"
    /\ members' = With(CallersSeat(r), Held(RowOf(CallersSeat(r)), device[r]))
    /\ HandOver(CallersSeat(r), device[r])
    /\ Goto(r, "done")
    /\ UNCHANGED <<events, groupOf, seats, device, event, member, listed, saves>>

-----------------------------------------------------------------------------
(* Memberships. *)

\* Somebody picks a row of the roster, claimed or not: nothing but their word
\* says that it is theirs.
ClaimGroupMember(r) ==
    /\ pc[r] = "idle"
    /\ \E g \in Requests : \E k \in DOMAIN members[g] :
        /\ members' = With(<<g, k>>, Held(members[g][k], device[r]))
        /\ HandOver(<<g, k>>, device[r])
    /\ Goto(r, "done")
    /\ UNCHANGED <<events, groupOf, seats, device, event, member, listed, saves>>

\* Somebody who is not on the roster, or does not find themselves, joins.
JoinGroup(r) ==
    /\ pc[r] = "idle"
    /\ \E g \in Requests :
        /\ members[g] # <<>>
        /\ members' = [members EXCEPT ![g] =
               Append(@, MemberOf(Owner[device[r]], device[r]))]
        /\ HandOver(<<g, Len(members[g]) + 1>>, device[r])
    /\ Goto(r, "done")
    /\ UNCHANGED <<events, groupOf, seats, device, event, member, listed, saves>>

-----------------------------------------------------------------------------
(* Events made from a group. *)

\* The membership whose token d presents.
KnownAs(d) == {m \in {wallet[d]} : m # None /\ Recognised(d, m[1])}

\* createEventTx: the event and its organizer's seat are one transaction.
CreateGroupEvent(r) ==
    /\ pc[r] = "idle"
    /\ \E m \in KnownAs(device[r]) :
        /\ groupOf' = [groupOf EXCEPT ![r] = m[1]]
        /\ member' = [member EXCEPT ![r] = m]
    /\ events' = events \cup {r}
    /\ seats' = Seated(r, SeatOf(r, Owner[device[r]], TRUE, None))
    /\ event' = [event EXCEPT ![r] = r]
    /\ Goto(r, "linkSeat")
    /\ UNCHANGED <<members, wallet, device, listed, saves>>

\* m has a seat in e.
Claimed(e, m) == \E k \in DOMAIN seats[e] : seats[e][k].member = m

\* Mutant: no unique index.
NeverTaken(e, m) == FALSE

\* participants_event_group_member_idx has an entry for the member.
Taken(e, m) == Claimed(e, m)

Linked(seat, m) == [seat EXCEPT !.member = m]

\* LinkParticipantToGroupMember.
LinkOrganizer(r) ==
    /\ pc[r] = "linkSeat" /\ ~Taken(r, member[r])
    /\ seats' = [seats EXCEPT ![r] = [k \in DOMAIN @ |->
                    IF @[k].id = r THEN Linked(@[k], member[r]) ELSE @[k]]]
    /\ Goto(r, "done")
    /\ UNCHANGED <<events, groupOf, members, wallet, device, event, member, listed, saves>>

\* That the index refuses it is only logged: the creator keeps a seat nobody
\* will find by the membership, beside the one that came first.
LinkRefused(r) ==
    /\ pc[r] = "linkSeat" /\ Taken(r, member[r])
    /\ Goto(r, "unlinked")
    /\ UNCHANGED <<rows, wallet, device, event, member, listed, saves>>

-----------------------------------------------------------------------------
(* Seats. *)

\* handleJoin: somebody without a seat on this device types a name.
JoinEvent(r) ==
    /\ pc[r] = "idle"
    /\ \E e \in events : seats' = Seated(e, SeatOf(r, Owner[device[r]], FALSE, None))
    /\ Goto(r, "done")
    /\ UNCHANGED <<events, groupOf, members, wallet, device, event, member, listed, saves>>

\* handleClaimEventSeat: the event, its group, and the member of that group
\* whose token was sent.
ClaimEventSeat(r) ==
    /\ pc[r] = "idle"
    /\ \E e \in events :
        /\ groupOf[e] # None /\ Recognised(device[r], groupOf[e])
        /\ event' = [event EXCEPT ![r] = e]
    /\ member' = [member EXCEPT ![r] = wallet[device[r]]]
    /\ Goto(r, "find")
    /\ UNCHANGED <<rows, wallet, device, listed, saves>>

\* GetParticipantByGroupMember finds a seat or none.
FindSeat(r) ==
    /\ pc[r] = "find"
    /\ Goto(r, IF Claimed(event[r], member[r]) THEN "rotate" ELSE "insert")
    /\ UNCHANGED <<rows, wallet, device, event, member, listed, saves>>

\* The seat found gets the new token, if it still exists.
RotateParticipantToken(r) ==
    /\ pc[r] = "rotate" /\ Exists(event[r])
    /\ Goto(r, "seated")
    /\ UNCHANGED <<rows, wallet, device, event, member, listed, saves>>

InsertSeat(r) ==
    /\ pc[r] = "insert" /\ Exists(event[r])
    /\ ~Taken(event[r], member[r])
    /\ seats' = Seated(event[r], SeatOf(r, RowOf(member[r]).who, FALSE, member[r]))
    /\ Goto(r, "seated")
    /\ UNCHANGED <<events, groupOf, members, wallet, device, event, member, listed, saves>>

\* The index refuses the insert, and the handler answers 500.
InsertConflict(r) ==
    /\ pc[r] = "insert" /\ Exists(event[r])
    /\ Taken(event[r], member[r])
    /\ Goto(r, "conflict")
    /\ UNCHANGED <<rows, wallet, device, event, member, listed, saves>>

-----------------------------------------------------------------------------
(* Calendars of members. *)

\* handleConnectGroupICS: the token is checked, then the feed fetched.
ConnectGroupICS(r) ==
    /\ pc[r] = "idle"
    /\ \E m \in KnownAs(device[r]) : member' = [member EXCEPT ![r] = m]
    /\ Goto(r, "fetched")
    /\ UNCHANGED <<rows, wallet, device, event, listed, saves>>

\* handleDisconnectGroupCalendar has nothing to fetch.
DisconnectGroupCalendar(r) ==
    /\ pc[r] = "idle"
    /\ \E m \in KnownAs(device[r]) : member' = [member EXCEPT ![r] = m]
    /\ Goto(r, "disconnect")
    /\ UNCHANGED <<rows, wallet, device, event, listed, saves>>

\* Mutant: the old blocks stay.
ClearedNothing(m) == {}

\* DeleteGroupMemberBusyBlocks: what is committed of m when it starts.
Cleared(m) == RowOf(m).blocks

Locking(m) == {r \in Requests : pc[r] \in {"lockFeed", "lockNone"} /\ member[r] = m}
Locked(m) == {r \in Requests : pc[r] \in {"saveFeed", "saveNone"} /\ member[r] = m}
Saving(m) == Locking(m) \cup Locked(m)

\* SaveGroupMemberBusyBlocks begins, and its delete with a snapshot.
ClearBlocks(r) ==
    /\ pc[r] \in {"fetched", "disconnect"}
    /\ cleared' = [cleared EXCEPT ![r] = Cleared(member[r])]
    /\ overlapped' = IF Saving(member[r]) = {} THEN overlapped
                     ELSE overlapped \cup Saving(member[r]) \cup {r}
    /\ Goto(r, IF pc[r] = "fetched" THEN "lockFeed" ELSE "lockNone")
    /\ UNCHANGED <<rows, wallet, device, event, member, listed, mixed>>

\* The delete waits for a transaction that is deleting the same rows, and
\* passes over them if they are then gone.  What others inserted since it
\* started it neither sees nor waits for.
LockBlocks(r) ==
    /\ pc[r] \in {"lockFeed", "lockNone"}
    /\ \A q \in Locked(member[r]) :
           cleared[q] \cap cleared[r] \cap RowOf(member[r]).blocks = {}
    /\ Goto(r, IF pc[r] = "lockFeed" THEN "saveFeed" ELSE "saveNone")
    /\ UNCHANGED <<rows, wallet, device, event, member, listed, saves>>

\* The row without the old blocks, and with those of the feed at new if there is
\* one.
Saved(row, old, new) ==
    [row EXCEPT !.url = new, !.blocks = (@ \ old) \cup ({new} \ {None})]

\* The new blocks and SetGroupMemberCalendar, committed; a disconnect leaves no
\* address, though calendar_source stays 'ics'.
CommitCalendar(r) ==
    /\ pc[r] \in {"saveFeed", "saveNone"}
    /\ members' = With(member[r], Saved(RowOf(member[r]), cleared[r],
                           IF pc[r] = "saveFeed" THEN r ELSE None))
    /\ mixed' = IF r \in overlapped THEN mixed \cup {member[r]} ELSE mixed \ {member[r]}
    /\ Goto(r, "done")
    /\ UNCHANGED <<events, groupOf, seats, wallet, device, event, member, listed,
                   cleared, overlapped>>

-----------------------------------------------------------------------------
\* A statement fails, the client leaves or the process dies.
Fail(r) ==
    /\ pc[r] \in {"roster", "linkEvent", "callersSeat", "linkSeat", "find",
                  "rotate", "insert", "fetched", "disconnect", "lockFeed", "lockNone",
                  "saveFeed", "saveNone"}
    /\ Goto(r, "failed")
    /\ UNCHANGED <<rows, wallet, device, event, member, listed, saves>>

\* The sweep deletes the event and its participants; groups survive.
Purge(e) ==
    /\ e \in events
    /\ events' = events \ {e}
    /\ seats' = [seats EXCEPT ![e] = <<>>]
    /\ groupOf' = [groupOf EXCEPT ![e] = None]
    /\ UNCHANGED <<members, wallet, handlers, saves>>

Next ==
    \/ \E e \in events : Purge(e)
    \/ \E r \in Requests :
        \/ Graduate(r) \/ CreateGroup(r) \/ LinkEventToGroup(r) \/ ClaimCallersSeat(r)
        \/ ClaimGroupMember(r) \/ JoinGroup(r)
        \/ CreateGroupEvent(r) \/ LinkOrganizer(r) \/ LinkRefused(r)
        \/ JoinEvent(r) \/ ClaimEventSeat(r) \/ FindSeat(r)
        \/ RotateParticipantToken(r) \/ InsertSeat(r) \/ InsertConflict(r)
        \/ ConnectGroupICS(r) \/ DisconnectGroupCalendar(r)
        \/ ClearBlocks(r) \/ LockBlocks(r) \/ CommitCalendar(r)
        \/ Fail(r)

Spec == Init /\ [][Next]_vars

-----------------------------------------------------------------------------
(* Properties. *)

\* The types.  Whatever is in flight when the sweep runs, an event that exists
\* has its organizer's row, once and first, and nobody has a seat in, or a group
\* through, one that is gone.
TypeOK ==
    /\ events \subseteq Events
    /\ groupOf \in [Events -> Requests \cup {None}]
    /\ seats \in [Events -> Seq(Seat)]
    /\ \A e \in Events \ events : groupOf[e] = None /\ seats[e] = <<>>
    /\ \A e \in events :
        seats[e] # <<>> /\ \A k \in DOMAIN seats[e] : seats[e][k].organizer = (k = 1)
    /\ members \in [Requests -> Seq(Member)]
    /\ wallet \in [Devices -> Roster \cup {None}]
    /\ device \in [Requests -> Devices] /\ event \in [Requests -> Events]
    /\ member \in [Requests -> Roster \cup {None}]
    /\ pc \in [Requests -> {"idle", "roster", "linkEvent", "callersSeat", "linkSeat",
                            "find", "rotate", "insert", "seated", "conflict",
                            "done", "unlinked", "failed", "fetched", "disconnect",
                            "lockFeed", "lockNone", "saveFeed", "saveNone"}]
    /\ listed \in [Requests -> Seq(Seat)]
    /\ cleared \in [Requests -> SUBSET Requests] /\ overlapped \subseteq Requests
    /\ mixed \subseteq Roster

\* A seat is the member's if it is linked to the membership, and the first one
\* of an event is its creator's, linked or not.
Belongs(e, k, m) ==
    \/ seats[e][k].member = m
    \/ k = 1 /\ e # FirstEvent /\ member[e] = m

\* A member has one seat in an event, however their claims overlap; only the
\* creator may have a second one, and only if their seat was not linked, by a
\* failure or because a claim of theirs came before the link: once the request
\* that made the event has linked the seat, no claim adds another.
\* (ClaimEventSeat: "makes a second insert for the same pair a constraint
\* violation rather than a duplicate row".)
OneSeatPerMember ==
    \A e \in events : \A g \in Requests : \A n \in DOMAIN members[g] :
        \A j, k \in {i \in DOMAIN seats[e] : Belongs(e, i, <<g, n>>)} :
            j # k => 1 \in {j, k} /\ e # FirstEvent /\ pc[e] # "done"

\* Whoever graduates an event is handed the row made of their own seat, although
\* rows are matched by a name that others may share.
CallerIsHandedOwnSeat ==
    \A r \in Requests :
        pc[r] = "callersSeat" => listed[r][CallersSeat(r)[2]].id = Organizer

\* A member's calendar that was last saved by a request that no other save of
\* it overlapped has the blocks of the address on file and no others, whoever
\* has taken over the row since, whatever failed half way and whatever
\* overlapping saves left behind before; a disconnect leaves none.  ("replaces
\* one member's stored calendar")
BlocksMatchFeed ==
    \A g \in Requests : \A k \in DOMAIN members[g] :
        <<g, k>> \notin mixed =>
            members[g][k].blocks = {members[g][k].url} \ {None}
=============================================================================
