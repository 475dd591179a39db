----------------------------- MODULE ResponseStore -----------------------------
(***************************************************************************)
(* One participant's stored answers and calendar, and the three handlers   *)
(* that rewrite them:                                                      *)
(*                                                                         *)
(*   put         PUT /responses      handlePutResponses                    *)
(*   connect     POST /calendar/ics  handleConnectICS                      *)
(*   disconnect  DELETE /calendar    handleDisconnectCalendar              *)
(*                                                                         *)
(* Every handler reads the stored rows with a plain query, computes a      *)
(* complete replacement in memory and writes it with store.SaveResponses,  *)
(* a READ COMMITTED transaction of DELETE, INSERT and UPDATE.  Nothing in  *)
(* the program keeps two requests of the same person apart, so the steps   *)
(* of several requests interleave, unless the person is patient and waits  *)
(* for one answer before sending the next request.  The expiry sweep       *)
(* deletes the person's event at any time, in a transaction of its own.    *)
(*                                                                         *)
(* A transaction locks rows and keys one at a time and keeps what it has   *)
(* while it waits for the next, so that transactions can wait for each     *)
(* other in a circle; PostgreSQL then aborts one of them.                  *)
(*                                                                         *)
(* A tier is represented by who typed it (row.said): the request that      *)
(* stated it, or NoOne for a "no" inferred from the calendar.  row.by is   *)
(* the request whose transaction inserted the row, which is PostgreSQL's   *)
(* row version.                                                            *)
(***************************************************************************)
EXTENDS Naturals, FiniteSets, Functions

CONSTANTS
    Slots,        \* the event's slot starts, Event.Slots(), in time
    Requests,     \* HTTP requests authenticated as this participant
    Submissions,  \* [coarse, fine] bodies of PUT /responses, by slots named
    Feeds,        \* what a fetched calendar may cover: sets of slots
    NoOne,        \* row.said of a tier nobody typed
    Sweep         \* the transaction of the expiry sweep

ASSUME SlotsAssumption == Slots # {} /\ Slots \subseteq Nat
ASSUME NoOneAssumption == NoOne \notin Requests
ASSUME SweepAssumption == Sweep \notin Requests
ASSUME RequestsAssumption == Requests \cap {"in_use", "gone"} = {}
ASSUME SubmissionsAssumption ==
    Submissions \subseteq [coarse : SUBSET Slots, fine : SUBSET Slots]
ASSUME FeedsAssumption == Feeds \subseteq SUBSET Slots

VARIABLES
    table,      \* committed rows of responses
    blocks,     \* committed rows of busy_blocks
    source,     \* participants.calendar_source
    responded,  \* participants.responded_at is not null
    alive,      \* the participants row exists: the event is not purged
    pc,         \* where each request's handler is
    kind,       \* which handler each request runs
    feed,       \* the slots covered by the calendar the request fetched
    rs,         \* the handler's in-memory replacement set
    sweep,      \* where the sweep is: "cascade" while it has the participant
    seen,       \* what a transaction's DELETE saw and has yet to delete
    held,       \* rows an open transaction has deleted
    put,        \* rows an open transaction has inserted
    calendar,   \* history: "in_use" once a connect began; a disconnect that
                \* began after every connect ended, until it completed: "gone"
    patient     \* the person sends one request at a time

stored == <<table, blocks, source, responded, alive>>
handler == <<kind, feed, rs>>
transaction == <<seen, held, put>>
history == <<calendar, patient>>
vars == <<stored, pc, handler, sweep, transaction, history>>

Transactions == Requests \cup {Sweep}

Kinds == {"put", "connect", "disconnect"}
StatedSources == {"manual", "coarse"}
Sources == StatedSources \cup {"calendar"}
CalendarSources == {"none", "ics"}

\* What a handler wants stored: responses without the inserting transaction.
Response == [slot : Slots, source : Sources, said : Requests \cup {NoOne}]
Row == [slot : Slots, source : Sources, said : Requests \cup {NoOne}, by : Requests]
BusyBlock == [covers : Slots, by : Requests]

Refusals == {"conflict", "victim"}
Ended == {"idle", "done", "failed"} \cup Refusals
Steps == {"load", "fetch", "existing", "clearBlocks", "saveBlocks", "apply",
          "clear", "insert", "commit"}
SweepSteps == {"idle", "cascade", "done", "failed", "victim"}
Active == {r \in Requests : pc[r] \in Steps}

-----------------------------------------------------------------------------
(* Rows and row sets. *)

ToResponse(row) == [slot |-> row.slot, source |-> row.source, said |-> row.said]
ToRow(resp, r) ==
    [slot |-> resp.slot, source |-> resp.source, said |-> resp.said, by |-> r]

SlotsOf(rows) == {x.slot : x \in rows}
Stated(rows) == {x \in rows : x.source # "calendar"}
Calendar(rows) == {x \in rows : x.source = "calendar"}
Typed(rows, r) == {x \in rows : x.said = r}
OnePerSlot(rows) == \A x, y \in rows : x.slot = y.slot => x = y

\* ResponsesForParticipant: the committed rows.
ResponsesForParticipant == {ToResponse(x) : x \in table}

\* Mutant: both selections are written, also where they name the same slot.
NotOverlaid(body, r) ==
    {[slot |-> s, source |-> "manual", said |-> r] : s \in body.fine}
    \cup {[slot |-> s, source |-> "coarse", said |-> r] : s \in body.coarse}

\* A body's rows: coarse selections first, fine selections overlaid.
BuildResponses(body, r) ==
    {[slot |-> s, source |-> "manual", said |-> r] : s \in body.fine}
    \cup {[slot |-> s, source |-> "coarse", said |-> r] : s \in body.coarse \ body.fine}

\* Calendar rows are carried into the slots a submission is silent about.
MergeCalendarRows(stated, prior) ==
    stated \cup {x \in Calendar(prior) : x.slot \notin SlotsOf(stated)}

\* Mutant: the derived tiers are kept.
KeptAll(existing) == existing

\* What a disconnect keeps.
KeptOnDisconnect(existing) == Stated(existing)

\* Mutant: a refetch adds to the tiers of the previous one.
ApplyOnTop(existing, covered) ==
    existing \cup {[slot |-> s, source |-> "calendar", said |-> NoOne] :
                      s \in covered \ SlotsOf(existing)}

\* A "no" for every covered slot; whatever was stated is left untouched.
ApplyCalendar(existing, covered) ==
    Stated(existing)
    \cup {[slot |-> s, source |-> "calendar", said |-> NoOne] :
             s \in covered \ SlotsOf(Stated(existing))}

-----------------------------------------------------------------------------
(* Locks.  Whoever deleted a row or inserted a key has it until its          *)
(* transaction ends; a save that has passed its foreign key check has a      *)
(* share of the participant's row, and the sweep takes that row for itself.  *)

HeldByOthers(t) == UNION {held[o] : o \in Transactions \ {t}}
PutByOthers(t) == UNION {put[o] : o \in Transactions \ {t}}

\* Slots whose key in responses an open transaction of another will decide.
Undecided(t) == SlotsOf(table \cap HeldByOthers(t)) \cup SlotsOf(PutByOthers(t))

\* Slots whose key is in use for t, unless it is undecided.
InUse(t) == SlotsOf(table \ held[t]) \cup SlotsOf(put[t])

SweepHasParticipant == sweep = "cascade"
SharesParticipant(r) == pc[r] = "commit" /\ rs[r] # {}

\* r's next statement reads or updates the participant's row.
NeedsParticipant(r) ==
    /\ seen[r] = {}
    /\ \/ pc[r] = "saveBlocks"
       \/ pc[r] = "insert" /\ put[r] = rs[r] /\ rs[r] # {}
       \/ pc[r] = "commit" /\ rs[r] = {}

\* Every handler has its rows sorted, and so the INSERT takes them.
NextRows(r) == {x \in rs[r] \ put[r] : \A y \in rs[r] \ put[r] : x.slot <= y.slot}

\* t may be waiting for a row or a key that o has.
WaitsFor(t, o) ==
    /\ o # t
    /\ \/ seen[t] \cap held[o] # {}
       \/ /\ t \in Requests /\ pc[t] = "insert" /\ seen[t] = {}
          /\ SlotsOf(NextRows(t)) \cap (SlotsOf(table \cap held[o]) \cup SlotsOf(put[o])) # {}
       \/ t \in Requests /\ o = Sweep /\ SweepHasParticipant /\ NeedsParticipant(t)

\* t is on a circle of transactions of which each waits for the next.
InCircle(t) ==
    /\ \E o \in Transactions : WaitsFor(t, o)
    /\ \E C \in SUBSET Transactions :
           /\ t \in C
           /\ \E next \in Bijection(C, C) : \A p \in C : WaitsFor(p, next[p])

-----------------------------------------------------------------------------
Init ==
    /\ table = {} /\ blocks = {}
    /\ source = "none" /\ responded = FALSE /\ alive = TRUE
    /\ pc = [r \in Requests |-> "idle"]
    /\ kind = [r \in Requests |-> "put"]
    /\ feed = [r \in Requests |-> {}]
    /\ rs = [r \in Requests |-> {}]
    /\ sweep = "idle"
    /\ seen = [t \in Transactions |-> {}]
    /\ held = [t \in Transactions |-> {}]
    /\ put = [t \in Transactions |-> {}]
    /\ calendar = "gone"
    /\ patient \in BOOLEAN

Goto(r, label) == pc' = [pc EXCEPT ![r] = label]

\* COMMIT and ROLLBACK release everything.
EndTransaction(t) ==
    /\ seen' = [seen EXCEPT ![t] = {}]
    /\ held' = [held EXCEPT ![t] = {}]
    /\ put' = [put EXCEPT ![t] = {}]

\* requireParticipant resolved the token, so the participant still existed.
Arrive(r, k, label) ==
    /\ pc[r] = "idle" /\ alive
    /\ patient => Active = {}
    /\ kind' = [kind EXCEPT ![r] = k]
    /\ Goto(r, label)

(* handlePutResponses: decode and expand, then read the prior rows. *)
Put(r) ==
    /\ Arrive(r, "put", "load")
    /\ \E body \in Submissions : rs' = [rs EXCEPT ![r] = BuildResponses(body, r)]
    /\ UNCHANGED <<stored, feed, sweep, transaction, history>>

LoadPrior(r) ==
    /\ pc[r] = "load"
    /\ rs' = [rs EXCEPT ![r] = MergeCalendarRows(@, ResponsesForParticipant)]
    /\ Goto(r, "clear")
    /\ UNCHANGED <<stored, kind, feed, sweep, transaction, history>>

(* handleConnectICS: fetch the feed, store its blocks, derive the tiers. *)
Connect(r) ==
    /\ Arrive(r, "connect", "fetch")
    /\ calendar' = "in_use"
    /\ UNCHANGED <<stored, feed, rs, sweep, transaction, patient>>

Fetch(r) ==
    /\ pc[r] = "fetch"
    /\ \E covered \in Feeds : feed' = [feed EXCEPT ![r] = covered]
    /\ Goto(r, "clearBlocks")
    /\ UNCHANGED <<stored, kind, rs, sweep, transaction, history>>

ApplyCalendarToResponses(r) ==
    /\ pc[r] = "apply"
    /\ rs' = [rs EXCEPT ![r] = ApplyCalendar(ResponsesForParticipant, feed[r])]
    /\ Goto(r, "clear")
    /\ UNCHANGED <<stored, kind, feed, sweep, transaction, history>>

(* handleDisconnectCalendar: the rows to keep are read before anything is
   cleared. *)
Disconnect(r) ==
    /\ Arrive(r, "disconnect", "existing")
    /\ calendar' = IF \A o \in Active : kind[o] # "connect" THEN r ELSE calendar
    /\ UNCHANGED <<stored, feed, rs, sweep, transaction, patient>>

KeepStated(r) ==
    /\ pc[r] = "existing"
    /\ rs' = [rs EXCEPT ![r] = KeptOnDisconnect(ResponsesForParticipant)]
    /\ Goto(r, "clearBlocks")
    /\ UNCHANGED <<stored, kind, feed, sweep, transaction, history>>

-----------------------------------------------------------------------------
(* DELETE statements: a snapshot, and then one row after the other, in an    *)
(* order that SQL leaves open.                                               *)

DeleteSaw(t, rows) == seen' = [seen EXCEPT ![t] = rows]

\* A row another transaction has deleted is waited for; if it is then gone, it
\* is passed over.
DeleteRow(t) ==
    /\ \E x \in seen[t] :
           /\ x \notin HeldByOthers(t)
           /\ seen' = [seen EXCEPT ![t] = @ \ {x}]
           /\ held' = [held EXCEPT ![t] = @ \cup ({x} \cap (table \cup blocks))]
    /\ UNCHANGED <<stored, pc, handler, sweep, put, history>>

\* Mutant: no foreign key.
NoForeignKey(inserted) == TRUE

\* Rows can only be inserted for a participant that exists; otherwise the
\* INSERT fails and Fail ends the request.
ForeignKey(inserted) == alive \/ inserted = {}

\* Mutant: the handler's name is stored as the source.
SourceIsKind(r) == kind[r]

\* DeleteBusyBlocks has no condition but the participant.
SeenByBlocksDelete == blocks

\* The source a handler records: CalendarICS or CalendarNone.
SourceOf(r) == IF kind[r] = "connect" THEN "ics" ELSE "none"

(* store.SaveBusyBlocks.  busy_blocks has no key two inserts can collide on,
   so what follows its DELETE waits for nobody but the sweep. *)

ClearBusyBlocks(r) ==
    /\ pc[r] = "clearBlocks"
    /\ DeleteSaw(r, SeenByBlocksDelete)
    /\ Goto(r, "saveBlocks")
    /\ UNCHANGED <<stored, handler, sweep, held, put, history>>

SaveBusyBlocks(r) ==
    /\ pc[r] = "saveBlocks" /\ seen[r] = {}
    /\ ~SweepHasParticipant
    /\ ForeignKey(feed[r])
    /\ blocks' = (blocks \ held[r]) \cup {[covers |-> s, by |-> r] : s \in feed[r]}
    /\ source' = IF alive THEN SourceOf(r) ELSE source
    /\ EndTransaction(r)
    /\ Goto(r, IF kind[r] = "connect" THEN "apply" ELSE "clear")
    /\ UNCHANGED <<table, responded, alive, handler, sweep, history>>

-----------------------------------------------------------------------------
(* store.SaveResponses, one statement at a time. *)

\* Mutant: only the inferred rows are cleared.
SeenCalendarOnly == Calendar(table)

\* DeleteResponsesForParticipant has no condition but the participant.
SeenByDelete == table

ClearResponses(r) ==
    /\ pc[r] = "clear"
    /\ DeleteSaw(r, SeenByDelete)
    /\ Goto(r, "insert")
    /\ UNCHANGED <<stored, handler, sweep, held, put, history>>

\* The INSERT takes its keys one after the other, and waits for those that
\* another transaction deleted or inserted.
InsertRow(r) ==
    /\ pc[r] = "insert" /\ seen[r] = {}
    /\ \E x \in NextRows(r) :
           /\ x.slot \notin Undecided(r) \cup InUse(r)
           /\ put' = [put EXCEPT ![r] = @ \cup {x}]
    /\ UNCHANGED <<stored, pc, handler, sweep, seen, held, history>>

\* It violates the primary key: rollback, and the request gets a 500.
InsertConflict(r) ==
    /\ pc[r] = "insert" /\ seen[r] = {}
    /\ \E x \in NextRows(r) : x.slot \notin Undecided(r) /\ x.slot \in InUse(r)
    /\ EndTransaction(r)
    /\ Goto(r, "conflict")
    /\ UNCHANGED <<stored, handler, sweep, history>>

\* All rows are in; the foreign key is checked at the end of the INSERT, which
\* there is none of when there is nothing to insert.
CheckForeignKey(r) ==
    /\ pc[r] = "insert" /\ seen[r] = {} /\ put[r] = rs[r]
    /\ rs[r] # {} => ~SweepHasParticipant
    /\ ForeignKey(rs[r])
    /\ Goto(r, "commit")
    /\ UNCHANGED <<stored, handler, sweep, transaction, history>>

\* MarkParticipantResponded updates the row, if there still is one.
RespondedAfterSave == responded \/ alive

\* MarkParticipantResponded and COMMIT.
CommitResponses(r) ==
    /\ pc[r] = "commit"
    /\ ~SweepHasParticipant
    /\ table' = (table \ held[r]) \cup {ToRow(x, r) : x \in put[r]}
    /\ responded' = RespondedAfterSave
    /\ EndTransaction(r)
    /\ calendar' = IF calendar = r THEN "gone" ELSE calendar
    /\ Goto(r, "done")
    /\ UNCHANGED <<blocks, source, alive, handler, sweep, patient>>

-----------------------------------------------------------------------------
(* The environment. *)

\* A database error, a failed fetch, a dropped client or a crash of the
\* process ends the handler; an open transaction rolls back.
Fail(r) ==
    /\ pc[r] \in Steps
    /\ Goto(r, "failed")
    /\ EndTransaction(r)
    /\ UNCHANGED <<stored, handler, sweep, history>>

\* PostgreSQL aborts a transaction it finds waiting for itself.
AbortRequest(r) ==
    /\ InCircle(r)
    /\ Goto(r, "victim")
    /\ EndTransaction(r)
    /\ UNCHANGED <<stored, handler, sweep, history>>

(* DeleteExpiredEvents: the event's DELETE cascades to the participant, whose
   row it gets once no save has a share of it, and from there to everything
   stored for them.  A sweep that failed is repeated by the next. *)

SweepParticipant ==
    /\ alive /\ sweep \in {"idle", "failed", "victim"}
    /\ \A r \in Requests : ~SharesParticipant(r)
    /\ sweep' = "cascade"
    /\ DeleteSaw(Sweep, table \cup blocks)
    /\ UNCHANGED <<stored, pc, handler, held, put, history>>

SweepCommits ==
    /\ SweepHasParticipant /\ seen[Sweep] = {}
    /\ sweep' = "done"
    /\ alive' = FALSE
    /\ table' = table \ held[Sweep] /\ blocks' = blocks \ held[Sweep]
    /\ source' = "none" /\ responded' = FALSE
    /\ EndTransaction(Sweep)
    /\ UNCHANGED <<pc, handler, history>>

SweepFails ==
    /\ SweepHasParticipant
    /\ \/ sweep' = "failed"
       \/ InCircle(Sweep) /\ sweep' = "victim"
    /\ EndTransaction(Sweep)
    /\ UNCHANGED <<stored, pc, handler, history>>

Handler(r) ==
    \/ Put(r) \/ LoadPrior(r)
    \/ Connect(r) \/ Fetch(r) \/ ApplyCalendarToResponses(r)
    \/ Disconnect(r) \/ KeepStated(r)
    \/ ClearBusyBlocks(r) \/ SaveBusyBlocks(r)
    \/ ClearResponses(r) \/ DeleteRow(r)
    \/ InsertRow(r) \/ InsertConflict(r) \/ CheckForeignKey(r) \/ CommitResponses(r)
    \/ Fail(r) \/ AbortRequest(r)

Purge == SweepParticipant \/ DeleteRow(Sweep) \/ SweepCommits \/ SweepFails

Next == Purge \/ \E r \in Requests : Handler(r)

Spec == Init /\ [][Next]_vars

-----------------------------------------------------------------------------
(* Properties. *)

TypeOK ==
    /\ table \subseteq Row
    /\ blocks \subseteq BusyBlock
    /\ source \in CalendarSources
    /\ responded \in BOOLEAN /\ alive \in BOOLEAN
    /\ pc \in [Requests -> Steps \cup Ended]
    /\ kind \in [Requests -> Kinds]
    /\ feed \in [Requests -> SUBSET Slots]
    /\ rs \in [Requests -> SUBSET Response]
    /\ sweep \in SweepSteps
    /\ seen \in [Transactions -> SUBSET (Row \cup BusyBlock)]
    /\ held \in [Transactions -> SUBSET (Row \cup BusyBlock)]
    /\ put \in [Transactions -> SUBSET Response]
    /\ calendar \in {"in_use", "gone"} \cup Requests
    /\ patient \in BOOLEAN

\* However the saves interleave, a reader finds at most one tier for a slot
\* (results.Build overlays rows in order, so a second one would silently win).
OneTierPerSlot == OnePerSlot(table)

\* A save is never seen in part: whatever a committed request wrote is there
\* whole, until a later save or the purge removes all of it.  (SaveResponses:
\* "a failure halfway cannot leave someone marked as responded with half a
\* response".)
NoTornSave ==
    \A r \in Requests :
        LET left == {x \in table : x.by = r}
        IN  left # {} => left = {ToRow(x, r) : x \in rs[r]}

\* Whoever has stored tiers counts as having answered; otherwise results.Build
\* would drop them and the solver would treat the person as unknown.
RowsImplyResponded == table # {} => responded

\* The purge is final: a request that was in flight when the event expired
\* leaves neither answers nor calendar rows behind.
NothingAfterPurge == ~alive => table = {} /\ blocks = {} /\ ~responded

Refused == {r \in Requests : pc[r] \in Refusals}

\* The database refuses a save, for a key that is taken or to break a
\* deadlock, only on account of another one: of overlapping saves and the sweep
\* there is always one that has gone through, failed for a reason from
\* outside, or is still under way; and a person who waits for each answer is
\* never refused, unless by the sweep of an expired event.
RefusedByOverlapOnly ==
    /\ Refused # {} =>
           \/ \E r \in Requests : pc[r] \notin {"idle"} \cup Refusals
           \/ sweep \notin {"idle", "victim"}
    /\ patient /\ Refused # {} => sweep # "idle"

\* Once a patient person's disconnect has completed, no tier derived from the
\* calendar is left or comes back until they connect again; and no blocks are
\* stored for a participant without a calendar.
DisconnectIsFinal ==
    patient => /\ calendar = "gone" => Calendar(table) = {}
               /\ source = "none" => blocks = {}

-----------------------------------------------------------------------------
(* Implementation of the abstract specification. *)

InferredNo(s) == [slot |-> s, source |-> "calendar", said |-> NoOne]

Promise == INSTANCE Answers WITH
    Statements <- {BuildResponses(body, r) : body \in Submissions, r \in Requests},
    Inferred <- InferredNo,
    answers <- IF patient THEN ResponsesForParticipant ELSE {},
    answered <- patient /\ responded,
    exists <- patient => alive

\* For a person who sends one request at a time, every request amounts to one
\* indivisible change of their answers, whatever fails on the way.
ImplementsAnswers == Promise!Spec
=============================================================================
