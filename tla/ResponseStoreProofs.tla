-------------------------- MODULE ResponseStoreProofs --------------------------
(***************************************************************************)
(* What ResponseStore guarantees however the requests of one person        *)
(* interleave with each other and with the sweep, for any set of slots,    *)
(* requests, submissions and feeds, and that to a person who sends one     *)
(* request at a time it implements Answers.                                *)
(***************************************************************************)
EXTENDS ResponseStore, TLAPS

\* Requests whose SaveResponses transaction has taken its DELETE snapshot.
Clearers == {o \in Requests : pc[o] \in {"insert", "commit"}}

\* The snapshot of a DELETE, without the rows that were gone when it got there.
Snapshot(t) == seen[t] \cup held[t]

\* A transaction is open between its first statement and its last, and has
\* inserted all its rows before it commits.
Phases ==
    /\ \A r \in Requests :
           /\ pc[r] \notin {"saveBlocks", "insert"} => seen[r] = {}
           /\ pc[r] \notin {"saveBlocks", "insert", "commit"} => held[r] = {}
           /\ pc[r] \notin {"insert", "commit"} => put[r] = {}
           /\ put[r] \subseteq rs[r]
           /\ pc[r] = "commit" => put[r] = rs[r]
    /\ put[Sweep] = {}
    /\ sweep # "cascade" => seen[Sweep] = {} /\ held[Sweep] = {}

\* What a handler wants stored has one tier per slot.
Separate == \A r \in Requests : OnePerSlot(rs[r])

\* A stored row was written by a finished request, as that request meant it.
RowsAreSaved ==
    \A x \in table : pc[x.by] = "done" /\ ToResponse(x) \in rs[x.by]

\* Once a finished request's rows are there, they are all there.
WholeSaves ==
    \A r \in Requests : \A x \in table :
        x.by = r => \A y \in rs[r] : ToRow(y, r) \in table

\* What a transaction saw it saw whole, and only from finished requests.
WholeSnapshots ==
    \A o \in Clearers :
        /\ Snapshot(o) \subseteq Row
        /\ \A x \in Snapshot(o) : pc[x.by] = "done"
        /\ \A x \in Snapshot(o), y \in table : x.by = y.by => y \in Snapshot(o)

\* Deleted rows are locked: they stay where they are and nobody else has them.
Locked ==
    /\ \A t \in Transactions : held[t] \subseteq table \cup blocks
    /\ \A t, u \in Transactions : t # u => held[t] \cap held[u] = {}

\* Uncommitted inserts respect the primary key against what will remain.
KeysReserved ==
    /\ \A t \in Transactions : OnePerSlot(put[t])
    /\ \A t \in Transactions : SlotsOf(put[t]) \cap SlotsOf(table \ held[t]) = {}
    /\ \A t, u \in Transactions : t # u => SlotsOf(put[t]) \cap SlotsOf(put[u]) = {}

\* After the purge no open transaction can commit anything.
Expired == ~alive => /\ NothingAfterPurge
                     /\ \A r \in Requests : ~SharesParticipant(r)

\* While the sweep has the participant, it has seen everything that is stored.
Cascade ==
    SweepHasParticipant =>
        /\ alive
        /\ table \cup blocks \subseteq Snapshot(Sweep)
        /\ \A r \in Requests : ~SharesParticipant(r)

\* Whoever is refused was refused on account of somebody.
Somebody ==
    \/ \E r \in Requests : pc[r] \notin {"idle"} \cup Refusals
    \/ sweep \notin {"idle", "victim"}
Blamed == Refused # {} => Somebody

Saves == RowsAreSaved /\ WholeSaves /\ WholeSnapshots
Keys == OneTierPerSlot /\ Locked /\ KeysReserved

Inv ==
    /\ TypeOK
    /\ Phases
    /\ Separate
    /\ Saves
    /\ Keys
    /\ Expired
    /\ Cascade
    /\ RowsImplyResponded
    /\ Blamed

-----------------------------------------------------------------------------
(* Types. *)

LEMMA Assumptions ==
    /\ NoOne \notin Requests
    /\ Sweep \notin Requests
    /\ Submissions \subseteq [coarse : SUBSET Slots, fine : SUBSET Slots]
    /\ Feeds \subseteq SUBSET Slots
  BY NoOneAssumption, SweepAssumption, SubmissionsAssumption, FeedsAssumption

\* What the handlers compute are sets of responses.
LEMMA BuildType ==
    ASSUME NEW r \in Requests, NEW body \in Submissions
    PROVE  BuildResponses(body, r) \subseteq Response
  BY Assumptions DEF BuildResponses, Response, Sources, StatedSources

LEMMA MergeType ==
    ASSUME NEW rows, rows \subseteq Response, NEW prior, prior \subseteq Response
    PROVE  MergeCalendarRows(rows, prior) \subseteq Response
  BY DEF MergeCalendarRows, Calendar

LEMMA ApplyType ==
    ASSUME NEW rows, rows \subseteq Response, NEW covered, covered \subseteq Slots
    PROVE  ApplyCalendar(rows, covered) \subseteq Response
  <1> DEFINE inferred == {[slot |-> s, source |-> "calendar", said |-> NoOne] :
                             s \in covered \ SlotsOf(Stated(rows))}
  <1>1. inferred \subseteq Response
    BY DEF Response, Sources
  <1>2. Stated(rows) \subseteq Response
    BY DEF Stated
  <1> QED
    BY <1>1, <1>2 DEF ApplyCalendar

LEMMA KeptType ==
    ASSUME NEW rows, rows \subseteq Response
    PROVE  KeptOnDisconnect(rows) \subseteq Response
  BY DEF KeptOnDisconnect, Stated

LEMMA StoredType ==
    ASSUME table \subseteq Row
    PROVE  ResponsesForParticipant \subseteq Response
  BY DEF ResponsesForParticipant, ToResponse, Row, Response

LEMMA InitTypeOK == Init => TypeOK
  BY DEF Init, TypeOK, Row, BusyBlock, CalendarSources, Steps, Ended, Kinds, Response,
     SweepSteps

\* A handler's step leaves the other requests and the sweep alone.
LEMMA OthersStay ==
    ASSUME TypeOK, NEW r \in Requests, Handler(r)
    PROVE  /\ \A o \in Requests \ {r} :
                 pc'[o] = pc[o] /\ kind'[o] = kind[o] /\ feed'[o] = feed[o] /\ rs'[o] = rs[o]
           /\ \A t \in Transactions \ {r} :
                 seen'[t] = seen[t] /\ held'[t] = held[t] /\ put'[t] = put[t]
           /\ alive' = alive /\ sweep' = sweep /\ patient' = patient
  <1> USE DEF TypeOK, stored, handler, transaction, history, Goto, EndTransaction,
              DeleteSaw, Transactions
  <1>1. CASE Put(r) \/ Connect(r) \/ Disconnect(r)
    BY <1>1 DEF Put, Connect, Disconnect, Arrive
  <1>2. CASE LoadPrior(r) \/ Fetch(r) \/ ApplyCalendarToResponses(r) \/ KeepStated(r)
    BY <1>2 DEF LoadPrior, Fetch, ApplyCalendarToResponses, KeepStated
  <1>3. CASE ClearBusyBlocks(r) \/ SaveBusyBlocks(r)
    BY <1>3 DEF ClearBusyBlocks, SaveBusyBlocks
  <1>4. CASE ClearResponses(r) \/ DeleteRow(r)
    BY <1>4 DEF ClearResponses, DeleteRow
  <1>5. CASE InsertRow(r) \/ InsertConflict(r) \/ CheckForeignKey(r)
    BY <1>5 DEF InsertRow, InsertConflict, CheckForeignKey
  <1>6. CASE CommitResponses(r) \/ Fail(r) \/ AbortRequest(r)
    BY <1>6 DEF CommitResponses, Fail, AbortRequest
  <1> QED
    BY <1>1, <1>2, <1>3, <1>4, <1>5, <1>6 DEF Handler

\* A step of the sweep leaves the requests alone.
LEMMA RequestsStay ==
    ASSUME TypeOK, Purge
    PROVE  /\ pc' = pc /\ kind' = kind /\ feed' = feed /\ rs' = rs
           /\ calendar' = calendar /\ patient' = patient
           /\ \A r \in Requests : seen'[r] = seen[r] /\ held'[r] = held[r] /\ put'[r] = put[r]
  <1> USE Assumptions
       DEF TypeOK, stored, handler, transaction, history, EndTransaction, DeleteSaw, Transactions
  <1>1. CASE SweepParticipant \/ DeleteRow(Sweep)
    BY <1>1 DEF SweepParticipant, DeleteRow
  <1>2. CASE SweepCommits \/ SweepFails
    BY <1>2 DEF SweepCommits, SweepFails
  <1> QED
    BY <1>1, <1>2 DEF Purge

LEMMA DeleteRowType ==
    ASSUME TypeOK, NEW t \in Transactions, DeleteRow(t)
    PROVE  TypeOK'
  <1>1. PICK x \in seen[t] :
            /\ seen' = [seen EXCEPT ![t] = seen[t] \ {x}]
            /\ held' = [held EXCEPT ![t] = held[t] \cup ({x} \cap (table \cup blocks))]
    BY DEF DeleteRow
  <1>2. UNCHANGED <<table, blocks, source, responded, alive, pc, kind, feed, rs, sweep, put,
                    calendar, patient>>
    BY DEF DeleteRow, stored, handler, history
  <1> QED
    BY <1>1, <1>2 DEF TypeOK

LEMMA NextTypeOK == TypeOK /\ [Next]_vars => TypeOK'
  <1> SUFFICES ASSUME TypeOK, [Next]_vars
               PROVE  TypeOK'
    OBVIOUS
  <1> USE DEF TypeOK, stored, handler, transaction, history, Goto, EndTransaction, DeleteSaw,
              Steps, Ended, Refusals
  <1>1. ASSUME NEW r \in Requests, Handler(r)
        PROVE  TypeOK'
    <2>0. r \in Transactions
      BY DEF Transactions
    <2>1. CASE Put(r)
      BY <2>1, BuildType DEF Put, Arrive, Kinds
    <2>2. CASE LoadPrior(r)
      BY <2>2, MergeType, StoredType DEF LoadPrior
    <2>3. CASE Connect(r)
      BY <2>3 DEF Connect, Arrive, Kinds
    <2>4. CASE Fetch(r)
      BY <2>4, Assumptions DEF Fetch
    <2>5. CASE ApplyCalendarToResponses(r)
      <3>1. ApplyCalendar(ResponsesForParticipant, feed[r]) \subseteq Response
        BY ApplyType, StoredType
      <3> QED
        BY <2>5, <3>1 DEF ApplyCalendarToResponses
    <2>6. CASE Disconnect(r)
      BY <2>6 DEF Disconnect, Arrive, Kinds
    <2>7. CASE KeepStated(r)
      BY <2>7, KeptType, StoredType DEF KeepStated
    <2>8. CASE ClearBusyBlocks(r)
      BY <2>0, <2>8 DEF ClearBusyBlocks, SeenByBlocksDelete
    <2>9. CASE SaveBusyBlocks(r)
      <3>1. {[covers |-> s, by |-> r] : s \in feed[r]} \subseteq BusyBlock
        BY DEF BusyBlock
      <3> QED
        BY <2>0, <2>9, <3>1 DEF SaveBusyBlocks, SourceOf, CalendarSources
    <2>10. CASE ClearResponses(r)
      BY <2>0, <2>10 DEF ClearResponses, SeenByDelete
    <2>11. CASE DeleteRow(r)
      BY <2>0, <2>11, DeleteRowType
    <2>12. CASE InsertRow(r)
      BY <2>0, <2>12 DEF InsertRow, NextRows
    <2>13. CASE InsertConflict(r)
      BY <2>0, <2>13 DEF InsertConflict
    <2>14. CASE CheckForeignKey(r)
      BY <2>0, <2>14 DEF CheckForeignKey
    <2>15. CASE CommitResponses(r)
      <3>1. {ToRow(x, r) : x \in put[r]} \subseteq Row
        BY <2>0 DEF ToRow, Row, Response
      <3> QED
        BY <2>0, <2>15, <3>1 DEF CommitResponses, RespondedAfterSave
    <2>16. CASE Fail(r) \/ AbortRequest(r)
      BY <2>0, <2>16 DEF Fail, AbortRequest
    <2> QED
      BY <1>1, <2>1, <2>2, <2>3, <2>4, <2>5, <2>6, <2>7, <2>8, <2>9, <2>10,
         <2>11, <2>12, <2>13, <2>14, <2>15, <2>16 DEF Handler
  <1>2. CASE Purge
    <2>0. Sweep \in Transactions
      BY DEF Transactions
    <2>1. CASE DeleteRow(Sweep)
      BY <2>0, <2>1, DeleteRowType
    <2>2. CASE SweepParticipant
      BY <2>0, <2>2 DEF SweepParticipant, SweepSteps
    <2>3. CASE SweepCommits
      BY <2>0, <2>3 DEF SweepCommits, SweepSteps, CalendarSources
    <2>4. CASE SweepFails
      BY <2>0, <2>4 DEF SweepFails, SweepSteps
    <2> QED
      BY <1>2, <2>1, <2>2, <2>3, <2>4 DEF Purge
  <1>3. CASE UNCHANGED vars
    BY <1>3 DEF vars
  <1> QED
    BY <1>1, <1>2, <1>3 DEF Next

-----------------------------------------------------------------------------
(* Which statement a transaction is at, and what it holds there. *)

\* The steps of a handler outside its transactions.
Prepares(r) ==
    \/ Put(r) \/ LoadPrior(r) \/ Connect(r) \/ Fetch(r)
    \/ ApplyCalendarToResponses(r) \/ Disconnect(r) \/ KeepStated(r)

\* The steps that leave a handler without an open transaction.
Closes(r) ==
    \/ SaveBusyBlocks(r) \/ InsertConflict(r) \/ CommitResponses(r)
    \/ Fail(r) \/ AbortRequest(r)

LEMMA PreparesEffect ==
    ASSUME TypeOK, NEW r \in Requests, Prepares(r)
    PROVE  /\ UNCHANGED <<stored, transaction>>
           /\ pc[r] \notin {"done", "saveBlocks", "insert", "commit"}
           /\ pc'[r] \in Steps \ {"saveBlocks", "insert", "commit"}
  <1> USE DEF TypeOK, Goto, Steps
  <1>1. CASE Put(r) \/ Connect(r) \/ Disconnect(r)
    BY <1>1 DEF Put, Connect, Disconnect, Arrive
  <1>2. CASE LoadPrior(r) \/ Fetch(r) \/ ApplyCalendarToResponses(r) \/ KeepStated(r)
    BY <1>2 DEF LoadPrior, Fetch, ApplyCalendarToResponses, KeepStated
  <1> QED
    BY <1>1, <1>2 DEF Prepares

LEMMA ClosesEffect ==
    ASSUME TypeOK, NEW r \in Requests, Closes(r)
    PROVE  /\ rs' = rs
           /\ seen'[r] = {} /\ held'[r] = {} /\ put'[r] = {}
           /\ pc'[r] \notin {"idle", "saveBlocks", "insert", "commit"}
  <1> USE DEF TypeOK, Goto, EndTransaction, Transactions, handler
  <1>1. CASE SaveBusyBlocks(r) \/ InsertConflict(r) \/ CommitResponses(r)
    BY <1>1 DEF SaveBusyBlocks, InsertConflict, CommitResponses
  <1>2. CASE Fail(r) \/ AbortRequest(r)
    BY <1>2 DEF Fail, AbortRequest
  <1> QED
    BY <1>1, <1>2 DEF Closes

\* Whoever takes part in a transaction, or waits for one, is at work.
LEMMA WaitsIsActive ==
    ASSUME TypeOK, Phases, NEW t \in Transactions, NEW o \in Transactions, WaitsFor(t, o)
    PROVE  /\ t # o
           /\ t \in Requests => pc[t] \in {"saveBlocks", "insert", "commit"}
           /\ o \in Requests => pc[o] \in {"saveBlocks", "insert", "commit"}
           /\ o = Sweep => SweepHasParticipant
  <1> USE DEF TypeOK, Transactions, SweepHasParticipant
  <1>1. t # o
    BY DEF WaitsFor
  <1>2. t \in Requests => pc[t] \in {"saveBlocks", "insert", "commit"}
    BY DEF WaitsFor, Phases, NeedsParticipant
  <1>3. o # Sweep \/ ~SweepHasParticipant => held[o] # {} \/ put[o] # {}
    <2> SUFFICES ASSUME o # Sweep \/ ~SweepHasParticipant
                 PROVE  held[o] # {} \/ put[o] # {}
      OBVIOUS
    <2>1. CASE seen[t] \cap held[o] # {}
      BY <2>1
    <2>2. CASE SlotsOf(NextRows(t)) \cap (SlotsOf(table \cap held[o]) \cup SlotsOf(put[o])) # {}
      BY <2>2 DEF SlotsOf
    <2> QED
      BY <2>1, <2>2 DEF WaitsFor
  <1>4. o \in Requests => pc[o] \in {"saveBlocks", "insert", "commit"}
    BY <1>3, Assumptions DEF Phases
  <1>5. o = Sweep => SweepHasParticipant
    BY <1>3 DEF Phases
  <1> QED
    BY <1>1, <1>2, <1>4, <1>5

LEMMA PhasesStep ==
    ASSUME TypeOK, Phases, [Next]_vars
    PROVE  Phases'
  <1> USE Assumptions DEF TypeOK
  <1>1. ASSUME NEW r \in Requests, Handler(r)
        PROVE  Phases'
    <2> DEFINE P(q) == /\ pc[q] \notin {"saveBlocks", "insert"} => seen[q] = {}
                       /\ pc[q] \notin {"saveBlocks", "insert", "commit"} => held[q] = {}
                       /\ pc[q] \notin {"insert", "commit"} => put[q] = {}
                       /\ put[q] \subseteq rs[q]
                       /\ pc[q] = "commit" => put[q] = rs[q]
    <2>0. P(r)
      BY DEF Phases
    <2>1. P(r)'
      <3>1. CASE Prepares(r)
        BY <2>0, <3>1, PreparesEffect DEF transaction, Phases
      <3>2. CASE Closes(r)
        BY <3>2, ClosesEffect
      <3>3. CASE ClearBusyBlocks(r) \/ ClearResponses(r)
        BY <2>0, <3>3 DEF ClearBusyBlocks, ClearResponses, DeleteSaw, Goto, handler
      <3>4. CASE DeleteRow(r)
        <4>1. /\ seen[r] # {} /\ pc' = pc /\ rs' = rs /\ put' = put
          BY <3>4 DEF DeleteRow, handler
        <4> QED
          BY <2>0, <4>1
      <3>5. CASE InsertRow(r)
        <4>1. PICK x \in rs[r] : put' = [put EXCEPT ![r] = put[r] \cup {x}]
          BY <3>5 DEF InsertRow, NextRows
        <4>2. put'[r] = put[r] \cup {x}
          BY <4>1 DEF Transactions
        <4>3. pc[r] = "insert" /\ pc' = pc /\ rs' = rs /\ seen' = seen /\ held' = held
          BY <3>5 DEF InsertRow, handler
        <4> QED
          BY <2>0, <4>2, <4>3
      <3>6. CASE CheckForeignKey(r)
        BY <2>0, <3>6 DEF CheckForeignKey, Goto, handler, transaction
      <3> QED
        BY <1>1, <3>1, <3>2, <3>3, <3>4, <3>5, <3>6 DEF Handler, Prepares, Closes
    <2>2. \A q \in Requests \ {r} : P(q)'
      <3>1. \A q \in Requests \ {r} : P(q)
        BY DEF Phases
      <3> QED
        BY <1>1, <3>1, OthersStay DEF Transactions
    <2>3. put'[Sweep] = put[Sweep] /\ seen'[Sweep] = seen[Sweep]
          /\ held'[Sweep] = held[Sweep] /\ sweep' = sweep
      BY <1>1, OthersStay DEF Transactions
    <2> QED
      BY <2>1, <2>2, <2>3 DEF Phases
  <1>2. CASE Purge
    <2>1. \A r \in Requests : seen'[r] = seen[r] /\ held'[r] = held[r] /\ put'[r] = put[r]
      BY <1>2, RequestsStay
    <2>2. pc' = pc /\ rs' = rs
      BY <1>2, RequestsStay
    <2>3. put'[Sweep] = {} /\ (sweep' # "cascade" => seen'[Sweep] = {} /\ held'[Sweep] = {})
      <3>1. CASE SweepParticipant
        BY <3>1 DEF SweepParticipant, DeleteSaw, Phases
      <3>2. CASE DeleteRow(Sweep)
        BY <3>2 DEF DeleteRow, Phases
      <3>3. CASE SweepCommits \/ SweepFails
        BY <3>3 DEF SweepCommits, SweepFails, EndTransaction, Transactions
      <3> QED
        BY <1>2, <3>1, <3>2, <3>3 DEF Purge
    <2> QED
      BY <2>1, <2>2, <2>3 DEF Phases
  <1>3. CASE UNCHANGED vars
    BY <1>3 DEF vars, Phases, handler, transaction
  <1> QED
    BY <1>1, <1>2, <1>3 DEF Next

\* One tier per slot is asked for, because one tier per slot is stored.
LEMMA SeparateStep ==
    ASSUME TypeOK, Separate, OneTierPerSlot, [Next]_vars
    PROVE  Separate'
  <1> USE DEF OnePerSlot
  <1> DEFINE prior == ResponsesForParticipant
  <1>0. OnePerSlot(prior)
    BY DEF OneTierPerSlot, ResponsesForParticipant, ToResponse
  <1>1. ASSUME NEW r \in Requests, Handler(r)
        PROVE  Separate'
    <2>1. \A q \in Requests \ {r} : rs'[q] = rs[q]
      BY <1>1, OthersStay
    <2>2. OnePerSlot(rs'[r])
      <3> USE DEF TypeOK
      <3>1. CASE Put(r)
        <4>1. PICK body \in Submissions : rs' = [rs EXCEPT ![r] = BuildResponses(body, r)]
          BY <3>1 DEF Put
        <4>2. OnePerSlot(BuildResponses(body, r))
          BY DEF BuildResponses
        <4> QED
          BY <4>1, <4>2
      <3>2. CASE LoadPrior(r)
        <4>1. OnePerSlot(MergeCalendarRows(rs[r], prior))
          BY <1>0 DEF Separate, MergeCalendarRows, Calendar, SlotsOf
        <4> QED
          BY <3>2, <4>1 DEF LoadPrior
      <3>3. CASE ApplyCalendarToResponses(r)
        <4>1. OnePerSlot(Stated(prior))
          BY <1>0 DEF Stated
        <4>2. \A x \in Stated(prior) : x.slot \in SlotsOf(Stated(prior))
          BY DEF SlotsOf
        <4>3. OnePerSlot(ApplyCalendar(prior, feed[r]))
          BY <4>1, <4>2 DEF ApplyCalendar
        <4> QED
          BY <3>3, <4>3 DEF ApplyCalendarToResponses
      <3>4. CASE KeepStated(r)
        <4>1. OnePerSlot(KeptOnDisconnect(prior))
          BY <1>0 DEF KeptOnDisconnect, Stated
        <4> QED
          BY <3>4, <4>1 DEF KeepStated
      <3>5. CASE ~(Put(r) \/ LoadPrior(r) \/ ApplyCalendarToResponses(r) \/ KeepStated(r))
        <4>1. rs' = rs
          BY <1>1, <3>5, ClosesEffect DEF Handler, Closes, Connect, Fetch, Disconnect,
             ClearBusyBlocks, ClearResponses, DeleteRow, InsertRow, CheckForeignKey, handler
        <4> QED
          BY <4>1 DEF Separate
      <3> QED
        BY <3>1, <3>2, <3>3, <3>4, <3>5
    <2> QED
      BY <2>1, <2>2 DEF Separate
  <1>2. CASE Purge
    BY <1>2, RequestsStay DEF Separate
  <1>3. CASE UNCHANGED vars
    BY <1>3 DEF vars, handler, Separate
  <1> QED
    BY <1>1, <1>2, <1>3 DEF Next

-----------------------------------------------------------------------------
(* The parts of the invariant that relate the table to the transactions. *)

\* The reserved keys stay free where transactions only let go of what they put.
LEMMA KeysStay ==
    ASSUME TypeOK, KeysReserved,
           \A t \in Transactions : put'[t] \subseteq put[t],
           \A t \in Transactions : put'[t] = {} \/ table' \ held'[t] \subseteq table \ held[t]
    PROVE  KeysReserved'
  <1>1. \A S, T : S \subseteq T => SlotsOf(S) \subseteq SlotsOf(T)
    BY DEF SlotsOf
  <1>2. SlotsOf({}) = {}
    BY DEF SlotsOf
  <1>3. \A t \in Transactions : OnePerSlot(put'[t])
    BY DEF KeysReserved, OnePerSlot
  <1>4. \A t \in Transactions : SlotsOf(put'[t]) \cap SlotsOf(table' \ held'[t]) = {}
    <2> SUFFICES ASSUME NEW t \in Transactions
                 PROVE  SlotsOf(put'[t]) \cap SlotsOf(table' \ held'[t]) = {}
      OBVIOUS
    <2>1. SlotsOf(put[t]) \cap SlotsOf(table \ held[t]) = {}
      BY DEF KeysReserved
    <2>2. CASE put'[t] = {}
      BY <1>2, <2>2
    <2>3. CASE table' \ held'[t] \subseteq table \ held[t]
      <3>1. SlotsOf(table' \ held'[t]) \subseteq SlotsOf(table \ held[t])
        BY <1>1, <2>3
      <3>2. SlotsOf(put'[t]) \subseteq SlotsOf(put[t])
        BY <1>1
      <3> QED
        BY <2>1, <3>1, <3>2
    <2> QED
      BY <2>2, <2>3
  <1>5. \A t, u \in Transactions : t # u => SlotsOf(put'[t]) \cap SlotsOf(put'[u]) = {}
    <2>1. \A t \in Transactions : SlotsOf(put'[t]) \subseteq SlotsOf(put[t])
      BY <1>1
    <2> QED
      BY <2>1 DEF KeysReserved
  <1> QED
    BY <1>3, <1>4, <1>5 DEF KeysReserved

\* A step that leaves the table alone and a request without a transaction that
\* has touched it disturbs neither.
LEMMA QuietStep ==
    ASSUME TypeOK, Saves, Keys, NEW r \in Requests,
           table' = table, blocks \ held[r] \subseteq blocks', pc[r] # "done",
           pc'[r] \notin {"done", "insert", "commit"},
           held'[r] = {}, put'[r] = {},
           \A o \in Requests \ {r} : pc'[o] = pc[o] /\ rs'[o] = rs[o],
           \A t \in Transactions \ {r} :
               seen'[t] = seen[t] /\ held'[t] = held[t] /\ put'[t] = put[t]
    PROVE  Saves' /\ Keys'
  <1> USE DEF TypeOK, Row
  <1>0. r \in Transactions /\ Requests \subseteq Transactions
    BY DEF Transactions
  <1>1. \A x \in table : x.by # r
    BY DEF Saves, RowsAreSaved
  <1>2. \A o \in Clearers' : o \in Clearers /\ o # r /\ Snapshot(o)' = Snapshot(o)
    BY <1>0 DEF Clearers, Snapshot
  <1>3. RowsAreSaved'
    BY <1>1 DEF Saves, RowsAreSaved
  <1>4. WholeSaves'
    BY <1>1 DEF Saves, WholeSaves
  <1>5. WholeSnapshots'
    <2>1. \A o \in Clearers' : \A x \in Snapshot(o) : x.by # r /\ x.by \in Requests
      BY <1>2 DEF Saves, WholeSnapshots
    <2> QED
      BY <1>2, <2>1 DEF Saves, WholeSnapshots
  <1>6. OneTierPerSlot'
    BY DEF Keys, OneTierPerSlot, OnePerSlot
  <1>7. Locked'
    <2>1. \A t \in Transactions \ {r} : held[t] \cap held[r] = {}
      BY <1>0 DEF Keys, Locked
    <2> QED
      BY <1>0, <2>1 DEF Keys, Locked
  <1>8. KeysReserved'
    BY <1>0 DEF Keys, KeysReserved, OnePerSlot, SlotsOf
  <1> QED
    BY <1>3, <1>4, <1>5, <1>6, <1>7, <1>8 DEF Saves, Keys

LEMMA ClearStep ==
    ASSUME TypeOK, Phases, Saves, Keys, NEW r \in Requests, ClearResponses(r)
    PROVE  Saves' /\ Keys'
  <1> USE DEF TypeOK, stored, handler
  <1>1. /\ pc[r] = "clear" /\ pc' = [pc EXCEPT ![r] = "insert"]
        /\ table' = table /\ blocks' = blocks /\ rs' = rs
        /\ held' = held /\ put' = put /\ held[r] = {}
        /\ seen'[r] = table /\ \A o \in Requests \ {r} : seen'[o] = seen[o]
    BY DEF ClearResponses, Goto, SeenByDelete, DeleteSaw, Transactions, Phases
  <1>2. \A o \in Clearers' :
            \/ o = r /\ Snapshot(o)' = table
            \/ o \in Clearers /\ o # r /\ Snapshot(o)' = Snapshot(o)
    BY <1>1 DEF Clearers, Snapshot
  <1>3. RowsAreSaved' /\ WholeSaves'
    BY <1>1 DEF Saves, RowsAreSaved, WholeSaves, Row
  <1>4. WholeSnapshots'
    <2>1. \A x \in table : x.by \in Requests /\ pc'[x.by] = "done"
      BY <1>1, <1>3 DEF RowsAreSaved, Row
    <2>2. \A o \in Clearers : \A x \in Snapshot(o) : x.by # r /\ x.by \in Requests
      BY <1>1 DEF Saves, WholeSnapshots, Row
    <2> QED
      BY <1>1, <1>2, <2>1, <2>2 DEF Saves, WholeSnapshots
  <1>5. Keys'
    BY <1>1 DEF Keys, OneTierPerSlot, OnePerSlot, Locked, KeysReserved, SlotsOf
  <1> QED
    BY <1>3, <1>4, <1>5 DEF Saves

LEMMA DeleteRowStep ==
    ASSUME TypeOK, Saves, Keys, NEW t \in Transactions, DeleteRow(t)
    PROVE  Saves' /\ Keys'
  <1> USE DEF TypeOK, stored, handler
  <1>1. PICK x \in seen[t] :
            /\ x \notin HeldByOthers(t)
            /\ seen' = [seen EXCEPT ![t] = seen[t] \ {x}]
            /\ held' = [held EXCEPT ![t] = held[t] \cup ({x} \cap (table \cup blocks))]
    BY DEF DeleteRow
  <1>2. table' = table /\ blocks' = blocks /\ pc' = pc /\ rs' = rs /\ put' = put
    BY DEF DeleteRow
  <1>3. \A u \in Transactions : /\ Snapshot(u)' \subseteq Snapshot(u)
                                /\ Snapshot(u) \cap table \subseteq Snapshot(u)'
    BY <1>1 DEF Snapshot
  <1>4. RowsAreSaved' /\ WholeSaves'
    BY <1>2 DEF Saves, RowsAreSaved, WholeSaves
  <1>5. WholeSnapshots'
    <2>1. Clearers' = Clearers /\ Clearers \subseteq Transactions
      BY <1>2 DEF Clearers, Transactions
    <2> SUFFICES ASSUME NEW o \in Clearers
                 PROVE  /\ Snapshot(o)' \subseteq Row
                        /\ \A y \in Snapshot(o)' : pc[y.by] = "done"
                        /\ \A y \in Snapshot(o)', z \in table : y.by = z.by => z \in Snapshot(o)'
      BY <1>2, <2>1 DEF WholeSnapshots
    <2>2. /\ Snapshot(o) \subseteq Row
          /\ \A y \in Snapshot(o) : pc[y.by] = "done"
          /\ \A y \in Snapshot(o), z \in table : y.by = z.by => z \in Snapshot(o)
      BY DEF Saves, WholeSnapshots
    <2> QED
      BY <1>3, <2>1, <2>2
  <1>6. OneTierPerSlot'
    BY <1>2 DEF Keys, OneTierPerSlot, OnePerSlot
  <1>7. Locked'
    <2>1. \A u \in Transactions \ {t} : x \notin held[u]
      BY <1>1 DEF HeldByOthers
    <2> QED
      BY <1>1, <1>2, <2>1 DEF Keys, Locked
  <1>8. KeysReserved'
    <2>1. \A u \in Transactions : held[u] \subseteq held'[u]
      BY <1>1
    <2> QED
      BY <1>2, <2>1, KeysStay DEF Keys
  <1> QED
    BY <1>4, <1>5, <1>6, <1>7, <1>8 DEF Saves, Keys

LEMMA InsertStep ==
    ASSUME TypeOK, Saves, Keys, NEW r \in Requests, InsertRow(r)
    PROVE  Saves' /\ Keys'
  <1> USE DEF TypeOK, stored, handler
  <1>0. r \in Transactions
    BY DEF Transactions
  <1>1. PICK x \in rs[r] : /\ x.slot \notin Undecided(r) \cup InUse(r)
                           /\ put' = [put EXCEPT ![r] = put[r] \cup {x}]
    BY DEF InsertRow, NextRows
  <1>2. /\ table' = table /\ blocks' = blocks /\ pc' = pc /\ rs' = rs
        /\ seen' = seen /\ held' = held
    BY DEF InsertRow
  <1>3. Saves'
    BY <1>2 DEF Saves, RowsAreSaved, WholeSaves, WholeSnapshots, Clearers, Snapshot
  <1>4. OneTierPerSlot' /\ Locked'
    BY <1>2 DEF Keys, OneTierPerSlot, OnePerSlot, Locked
  <1>5. KeysReserved'
    <2>1. x.slot \notin SlotsOf(put[r]) /\ x.slot \notin SlotsOf(table \ held[r])
      BY <1>1 DEF InUse
    <2>2. \A t \in Transactions \ {r} : x.slot \notin SlotsOf(put[t])
      <3>1. x.slot \notin SlotsOf(PutByOthers(r))
        BY <1>1 DEF Undecided
      <3> QED
        BY <3>1 DEF PutByOthers, SlotsOf
    <2>3. OnePerSlot(put[r] \cup {x})
      BY <1>0, <2>1 DEF OnePerSlot, SlotsOf, Keys, KeysReserved
    <2>4. SlotsOf(put[r] \cup {x}) = SlotsOf(put[r]) \cup {x.slot}
      BY DEF SlotsOf
    <2>5. \A t \in Transactions : put'[t] = IF t = r THEN put[r] \cup {x} ELSE put[t]
      BY <1>0, <1>1
    <2>6. \A t \in Transactions : OnePerSlot(put'[t])
      BY <2>3, <2>5 DEF Keys, KeysReserved
    <2>7. \A t \in Transactions : SlotsOf(put'[t]) \cap SlotsOf(table' \ held'[t]) = {}
      <3>1. SlotsOf(put[r]) \cap SlotsOf(table \ held[r]) = {}
        BY <1>0 DEF Keys, KeysReserved
      <3>2. SlotsOf(put[r] \cup {x}) \cap SlotsOf(table \ held[r]) = {}
        BY <2>1, <2>4, <3>1
      <3>3. \A t \in Transactions \ {r} : SlotsOf(put[t]) \cap SlotsOf(table \ held[t]) = {}
        BY DEF Keys, KeysReserved
      <3> QED
        BY <1>2, <2>5, <3>2, <3>3
    <2>8. \A t, u \in Transactions : t # u => SlotsOf(put'[t]) \cap SlotsOf(put'[u]) = {}
      <3>1. \A t \in Transactions \ {r} :
                SlotsOf(put[r] \cup {x}) \cap SlotsOf(put[t]) = {}
        BY <1>0, <2>2, <2>4 DEF Keys, KeysReserved
      <3> QED
        BY <2>5, <3>1 DEF Keys, KeysReserved
    <2> QED
      BY <2>6, <2>7, <2>8 DEF KeysReserved
  <1> QED
    BY <1>3, <1>4, <1>5 DEF Keys

LEMMA CommitStep ==
    ASSUME TypeOK, Phases, Saves, Keys, NEW r \in Requests, CommitResponses(r)
    PROVE  Saves' /\ Keys'
  <1> USE DEF TypeOK
  <1> DEFINE kept == table \ held[r]
             added == {ToRow(x, r) : x \in rs[r]}
  <1>0. r \in Transactions /\ Requests \subseteq Transactions
    BY DEF Transactions
  <1>1. /\ pc[r] = "commit" /\ pc' = [pc EXCEPT ![r] = "done"]
        /\ put[r] = rs[r] /\ Snapshot(r) = held[r]
        /\ table' = kept \cup added /\ blocks' = blocks /\ rs' = rs
    BY DEF CommitResponses, Goto, Phases, Snapshot, handler
  <1>2. /\ held'[r] = {} /\ put'[r] = {}
        /\ \A t \in Transactions \ {r} :
               seen'[t] = seen[t] /\ held'[t] = held[t] /\ put'[t] = put[t]
    BY <1>0 DEF CommitResponses, EndTransaction
  <1>3. r \in Clearers
    BY <1>1 DEF Clearers
  <1>4. \A x \in table : x.by \in Requests /\ x.by # r /\ pc'[x.by] = "done"
                         /\ ToResponse(x) \in rs[x.by]
    BY <1>1 DEF Saves, RowsAreSaved, Row
  <1>5. \A y \in added : y.by = r /\ ToResponse(y) \in rs[r]
                         /\ y.slot \in SlotsOf(rs[r]) /\ y = ToRow(ToResponse(y), r)
    BY DEF ToRow, ToResponse, SlotsOf, Response
  <1>6. \A o \in Clearers' : o \in Clearers \ {r} /\ Snapshot(o)' = Snapshot(o)
    BY <1>0, <1>1, <1>2 DEF Clearers, Snapshot
  <1>7. RowsAreSaved'
    BY <1>1, <1>4, <1>5 DEF RowsAreSaved
  <1>8. WholeSaves'
    <2> SUFFICES ASSUME NEW q \in Requests, NEW x \in table', x.by = q, NEW y \in rs[q]
                 PROVE  ToRow(y, q) \in table'
      BY <1>1 DEF WholeSaves
    <2>1. CASE q = r
      BY <2>1, <1>1
    <2>2. CASE q # r
      <3>1. x \in kept
        BY <2>2, <1>1, <1>5
      <3>2. ToRow(y, q) \in table
        BY <3>1 DEF Saves, WholeSaves
      <3>3. ToRow(y, q).by = x.by
        BY DEF ToRow
      <3>4. ToRow(y, q) \notin held[r]
        BY <1>1, <1>3, <3>1, <3>3 DEF Saves, WholeSnapshots
      <3> QED
        BY <1>1, <3>2, <3>4
    <2> QED
      BY <2>1, <2>2
  <1>9. WholeSnapshots'
    <2>1. \A o \in Clearers \ {r} : \A x \in Snapshot(o) :
              x.by # r /\ x.by \in Requests /\ pc'[x.by] = "done"
      BY <1>1 DEF Saves, WholeSnapshots, Row
    <2>2. \A o \in Clearers \ {r} : \A x \in Snapshot(o), y \in kept \cup added :
              x.by = y.by => y \in Snapshot(o)
      BY <1>5, <2>1 DEF Saves, WholeSnapshots
    <2> QED
      BY <1>1, <1>6, <2>1, <2>2 DEF Saves, WholeSnapshots
  <1>10. OneTierPerSlot'
    <2>1. \A x, y \in kept : x.slot = y.slot => x = y
      BY DEF Keys, OneTierPerSlot, OnePerSlot
    <2>2. \A x \in kept, y \in added : x.slot # y.slot
      <3>1. SlotsOf(rs[r]) \cap SlotsOf(kept) = {}
        BY <1>0, <1>1 DEF Keys, KeysReserved
      <3>2. \A x \in kept : x.slot \in SlotsOf(kept)
        BY DEF SlotsOf
      <3> QED
        BY <1>5, <3>1, <3>2
    <2>3. ASSUME NEW x \in added, NEW y \in added, x.slot = y.slot
          PROVE  x = y
      <3>1. ToResponse(x).slot = ToResponse(y).slot
        BY <2>3 DEF ToResponse
      <3>2. OnePerSlot(rs[r])
        BY <1>0, <1>1 DEF Keys, KeysReserved
      <3>3. ToResponse(x) = ToResponse(y)
        BY <1>5, <3>1, <3>2 DEF OnePerSlot
      <3> QED
        BY <1>5, <3>3
    <2> QED
      BY <1>1, <2>1, <2>2, <2>3 DEF OneTierPerSlot, OnePerSlot
  <1>11. Locked'
    <2>1. \A t \in Transactions \ {r} : held[t] \subseteq kept \cup blocks
      BY <1>0 DEF Keys, Locked
    <2> QED
      BY <1>0, <1>1, <1>2, <2>1 DEF Keys, Locked
  <1>12. KeysReserved'
    <2>1. \A t \in Transactions \ {r} :
              SlotsOf(put[t]) \cap SlotsOf((kept \cup added) \ held[t]) = {}
      <3> SUFFICES ASSUME NEW t \in Transactions \ {r}, NEW x \in put[t],
                          NEW y \in (kept \cup added) \ held[t], x.slot = y.slot
                   PROVE  FALSE
        BY DEF SlotsOf
      <3>1. x.slot \in SlotsOf(put[t])
        BY DEF SlotsOf
      <3>2. CASE y \in kept
        <4>1. y \in table \ held[t]
          BY <3>2
        <4>2. y.slot \in SlotsOf(table \ held[t])
          BY <4>1 DEF SlotsOf
        <4>3. SlotsOf(put[t]) \cap SlotsOf(table \ held[t]) = {}
          BY DEF Keys, KeysReserved
        <4> HIDE DEF kept, added, TypeOK
        <4> QED
          BY <3>1, <4>2, <4>3
      <3>3. CASE y \in added
        BY <1>0, <1>1, <1>5, <3>1, <3>3 DEF Keys, KeysReserved
      <3> QED
        BY <3>2, <3>3
    <2>2. OnePerSlot({}) /\ SlotsOf({}) = {}
      BY DEF OnePerSlot, SlotsOf
    <2> QED
      BY <1>0, <1>1, <1>2, <2>1, <2>2 DEF Keys, KeysReserved
  <1> QED
    BY <1>7, <1>8, <1>9, <1>10, <1>11, <1>12 DEF Saves, Keys

LEMMA HandlerSaves ==
    ASSUME TypeOK, Phases, Saves, Keys, NEW r \in Requests, Handler(r)
    PROVE  Saves' /\ Keys'
  <1>0. r \in Transactions
    BY DEF Transactions
  <1>1. CASE Prepares(r) \/ ClearBusyBlocks(r)
    <2>1. /\ table' = table /\ blocks' = blocks /\ held'[r] = held[r] /\ put'[r] = put[r]
          /\ pc[r] \notin {"done", "saveBlocks", "insert", "commit"}
          /\ pc'[r] \notin {"done", "insert", "commit"}
      <3>1. CASE Prepares(r)
        BY <3>1, PreparesEffect DEF stored, transaction, Steps
      <3>2. CASE ClearBusyBlocks(r)
        BY <3>2 DEF ClearBusyBlocks, stored, Goto, TypeOK
      <3> QED
        BY <1>1, <3>1, <3>2
    <2>2. held[r] = {} /\ put[r] = {}
      BY <2>1 DEF Phases
    <2> QED
      BY <2>1, <2>2, OthersStay, QuietStep
  <1>2. CASE SaveBusyBlocks(r) \/ InsertConflict(r) \/ Fail(r) \/ AbortRequest(r)
    <2>1. table' = table /\ blocks \ held[r] \subseteq blocks'
      BY <1>2 DEF SaveBusyBlocks, InsertConflict, Fail, AbortRequest, stored
    <2>2. pc[r] \in Steps
      <3>1. CASE AbortRequest(r)
        BY <1>0, <3>1, WaitsIsActive DEF AbortRequest, InCircle, Steps
      <3>2. CASE SaveBusyBlocks(r) \/ InsertConflict(r) \/ Fail(r)
        BY <3>2 DEF SaveBusyBlocks, InsertConflict, Fail, Steps
      <3> QED
        BY <1>2, <3>1, <3>2
    <2>3. pc'[r] # "done"
      BY <1>2 DEF SaveBusyBlocks, InsertConflict, Fail, AbortRequest, Goto, TypeOK
    <2>4. Closes(r)
      BY <1>2 DEF Closes
    <2> QED
      BY <2>1, <2>2, <2>3, <2>4, ClosesEffect, OthersStay, QuietStep DEF Steps
  <1>3. CASE ClearResponses(r)
    BY <1>3, ClearStep
  <1>4. CASE DeleteRow(r)
    BY <1>0, <1>4, DeleteRowStep
  <1>5. CASE InsertRow(r)
    BY <1>5, InsertStep
  <1>6. CASE CheckForeignKey(r)
    <2>1. /\ table' = table /\ blocks' = blocks /\ rs' = rs
          /\ UNCHANGED <<seen, held, put>>
          /\ Clearers' = Clearers
          /\ \A q \in Requests : pc[q] = "done" <=> pc'[q] = "done"
      BY <1>6 DEF CheckForeignKey, stored, handler, transaction, Goto, TypeOK, Clearers
    <2>2. RowsAreSaved'
      BY <2>1 DEF TypeOK, Row, Saves, RowsAreSaved
    <2>3. WholeSaves'
      BY <2>1 DEF Saves, WholeSaves
    <2>4. WholeSnapshots'
      BY <2>1 DEF TypeOK, Row, Saves, WholeSnapshots, Snapshot
    <2>5. Keys'
      BY <2>1 DEF Keys, OneTierPerSlot, OnePerSlot, Locked, KeysReserved, SlotsOf
    <2> QED
      BY <2>2, <2>3, <2>4, <2>5 DEF Saves
  <1>7. CASE CommitResponses(r)
    BY <1>7, CommitStep
  <1> QED
    BY <1>1, <1>2, <1>3, <1>4, <1>5, <1>6, <1>7 DEF Handler, Prepares

\* What the sweep has deleted when it commits is everything that is stored.
LEMMA SweepTakesAll ==
    ASSUME Cascade, SweepCommits
    PROVE  table' = {} /\ blocks' = {}
  BY DEF Cascade, SweepCommits, Snapshot

LEMMA PurgeSaves ==
    ASSUME TypeOK, Saves, Keys, Cascade, Purge
    PROVE  Saves' /\ Keys'
  <1> USE Assumptions DEF TypeOK
  <1>0. /\ Sweep \in Transactions /\ Requests \subseteq Transactions
        /\ pc' = pc /\ rs' = rs /\ Clearers' = Clearers
        /\ \A r \in Requests : seen'[r] = seen[r] /\ held'[r] = held[r] /\ put'[r] = put[r]
    BY RequestsStay DEF Transactions, Clearers
  <1>1. CASE DeleteRow(Sweep)
    BY <1>0, <1>1, DeleteRowStep
  <1>2. CASE SweepParticipant \/ SweepFails
    <2>1. /\ table' = table /\ blocks' = blocks
          /\ held'[Sweep] \subseteq held[Sweep] /\ put'[Sweep] \subseteq put[Sweep]
          /\ held'[Sweep] = held[Sweep] \/ put'[Sweep] = {}
      BY <1>0, <1>2 DEF SweepParticipant, SweepFails, stored, EndTransaction
    <2>2. Saves'
      BY <1>0, <2>1 DEF Saves, RowsAreSaved, WholeSaves, WholeSnapshots, Snapshot, Clearers
    <2>3. Keys'
      <3>1. \A t \in Transactions : /\ held'[t] \subseteq held[t] /\ put'[t] \subseteq put[t]
                                    /\ held'[t] = held[t] \/ put'[t] = {}
        BY <1>0, <2>1 DEF Transactions
      <3>2. OneTierPerSlot' /\ Locked'
        BY <2>1, <3>1 DEF Keys, OneTierPerSlot, OnePerSlot, Locked
      <3>3. KeysReserved'
        BY <2>1, <3>1, KeysStay DEF Keys
      <3> QED
        BY <3>2, <3>3 DEF Keys
    <2> QED
      BY <2>2, <2>3
  <1>3. CASE SweepCommits
    <2>1. table' = {} /\ blocks' = {}
      BY <1>3, SweepTakesAll
    <2>2. held[Sweep] = table \cup blocks
      BY <1>0, <1>3 DEF SweepCommits, Cascade, Snapshot, Keys, Locked
    <2>3. \A t \in Transactions : held'[t] = {} /\ put'[t] \subseteq put[t]
      <3>1. \A r \in Requests : held[r] = {}
        BY <1>0, <2>2 DEF Keys, Locked
      <3>2. held'[Sweep] = {} /\ put'[Sweep] = {}
        BY <1>0, <1>3 DEF SweepCommits, EndTransaction
      <3> QED
        BY <1>0, <3>1, <3>2 DEF Transactions
    <2>4. RowsAreSaved' /\ WholeSaves' /\ OneTierPerSlot'
      BY <2>1 DEF RowsAreSaved, WholeSaves, OneTierPerSlot, OnePerSlot
    <2>5. WholeSnapshots'
      BY <1>0, <2>1 DEF Saves, WholeSnapshots, Snapshot, Clearers
    <2>6. Locked'
      BY <2>3 DEF Locked
    <2>7. KeysReserved'
      BY <2>1, <2>3, KeysStay DEF Keys
    <2> QED
      BY <2>4, <2>5, <2>6, <2>7 DEF Saves, Keys
  <1> QED
    BY <1>1, <1>2, <1>3 DEF Purge


-----------------------------------------------------------------------------
(* The expiry sweep, and who is refused. *)

\* Only a commit of either kind changes what is stored, and it waits for the
\* sweep to let go of the participant.
LEMMA StoredStep ==
    ASSUME TypeOK, NEW r \in Requests, Handler(r)
    PROVE  \/ SaveBusyBlocks(r)
           \/ CommitResponses(r)
           \/ UNCHANGED stored
  BY DEF Handler, Put, LoadPrior, Connect, Fetch, ApplyCalendarToResponses, Disconnect,
     KeepStated, ClearBusyBlocks, ClearResponses, DeleteRow, InsertRow, InsertConflict,
     CheckForeignKey, Fail, AbortRequest

\* A request comes to share the participant's row by the foreign key check.
LEMMA SharesStep ==
    ASSUME TypeOK, NEW r \in Requests, Handler(r), NEW q \in Requests, SharesParticipant(q)'
    PROVE  SharesParticipant(q) \/ (q = r /\ CheckForeignKey(r))
  <1> USE DEF TypeOK, SharesParticipant
  <1>1. CASE q # r
    BY <1>1, OthersStay
  <1>2. CASE q = r /\ ~CheckForeignKey(r)
    <2>1. CASE Prepares(r)
      BY <1>2, <2>1, PreparesEffect
    <2>2. CASE Closes(r)
      BY <1>2, <2>2, ClosesEffect
    <2>3. CASE ClearBusyBlocks(r) \/ ClearResponses(r)
      BY <1>2, <2>3 DEF ClearBusyBlocks, ClearResponses, Goto
    <2>4. CASE DeleteRow(r) \/ InsertRow(r)
      BY <1>2, <2>4 DEF DeleteRow, InsertRow, handler
    <2> QED
      BY <1>2, <2>1, <2>2, <2>3, <2>4 DEF Handler, Prepares, Closes
  <1> QED
    BY <1>1, <1>2

LEMMA ExpiredStep ==
    ASSUME TypeOK, Phases, Keys, Expired, Cascade, RowsImplyResponded, [Next]_vars
    PROVE  Expired' /\ Cascade' /\ RowsImplyResponded'
  <1> USE Assumptions DEF TypeOK, stored, SweepHasParticipant, NothingAfterPurge,
                          RowsImplyResponded
  <1>1. ASSUME NEW r \in Requests, Handler(r)
        PROVE  Expired' /\ Cascade' /\ RowsImplyResponded'
    <2>1. alive' = alive /\ sweep' = sweep /\ Snapshot(Sweep)' = Snapshot(Sweep)
      BY <1>1, OthersStay DEF Transactions, Snapshot
    <2>2. \A q \in Requests : SharesParticipant(q)' => SharesParticipant(q) \/ CheckForeignKey(r)
      BY <1>1, SharesStep
    <2>3. CheckForeignKey(r) => \/ alive /\ sweep # "cascade"
                                \/ ~SharesParticipant(r)'
      BY DEF CheckForeignKey, ForeignKey, SharesParticipant, handler
    <2>4. (~alive \/ sweep = "cascade") => \A q \in Requests : ~SharesParticipant(q)'
      BY <1>1, <2>2, <2>3, SharesStep DEF Expired, Cascade
    <2>5. CASE SaveBusyBlocks(r)
      <3>1. sweep # "cascade" /\ table' = table /\ responded' = responded
        BY <2>5 DEF SaveBusyBlocks
      <3>2. ~alive => blocks' = {}
        BY <2>5 DEF SaveBusyBlocks, ForeignKey, Expired
      <3> QED
        BY <2>1, <2>4, <3>1, <3>2 DEF Expired, Cascade
    <2>6. CASE CommitResponses(r)
      <3>1. sweep # "cascade" /\ blocks' = blocks /\ responded' = (responded \/ alive)
        BY <2>6 DEF CommitResponses, RespondedAfterSave
      <3>2. ASSUME ~alive
            PROVE  table' = {}
        <4>1. put[r] = {}
          BY <2>6, <3>2 DEF CommitResponses, Expired, SharesParticipant, Phases
        <4> QED
          BY <2>6, <3>2, <4>1 DEF CommitResponses, Expired
      <3> QED
        BY <2>1, <2>4, <3>1, <3>2 DEF Expired, Cascade
    <2>7. CASE UNCHANGED stored
      BY <2>1, <2>4, <2>7 DEF Expired, Cascade
    <2> QED
      BY <1>1, <2>5, <2>6, <2>7, StoredStep
  <1>2. CASE Purge
    <2>0. /\ Sweep \in Transactions
          /\ \A q \in Requests : SharesParticipant(q)' <=> SharesParticipant(q)
      BY <1>2, RequestsStay DEF Transactions, SharesParticipant
    <2>1. CASE SweepParticipant
      <3>1. /\ alive /\ seen'[Sweep] = table \cup blocks
            /\ UNCHANGED stored
            /\ \A q \in Requests : ~SharesParticipant(q)
        BY <2>0, <2>1 DEF SweepParticipant, DeleteSaw
      <3> QED
        BY <2>0, <3>1 DEF Expired, Cascade, Snapshot
    <2>2. CASE DeleteRow(Sweep)
      <3>1. PICK x \in seen[Sweep] :
                /\ seen'[Sweep] = seen[Sweep] \ {x}
                /\ held'[Sweep] = held[Sweep] \cup ({x} \cap (table \cup blocks))
        BY <2>0, <2>2 DEF DeleteRow
      <3>2. UNCHANGED stored /\ sweep' = sweep
        BY <2>2 DEF DeleteRow
      <3>3. table \cup blocks \subseteq Snapshot(Sweep) => table \cup blocks \subseteq Snapshot(Sweep)'
        BY <3>1 DEF Snapshot
      <3> QED
        BY <2>0, <3>2, <3>3 DEF Expired, Cascade
    <2>3. CASE SweepCommits
      <3>1. sweep' = "done" /\ responded' = FALSE
        BY <2>3 DEF SweepCommits
      <3> QED
        BY <2>0, <2>3, <3>1, SweepTakesAll DEF Expired, Cascade, SweepCommits
    <2>4. CASE SweepFails
      <3>1. UNCHANGED stored /\ sweep' # "cascade"
        BY <2>4 DEF SweepFails
      <3> QED
        BY <2>0, <3>1 DEF Expired, Cascade
    <2> QED
      BY <1>2, <2>1, <2>2, <2>3, <2>4 DEF Purge
  <1>3. CASE UNCHANGED vars
    BY <1>3 DEF vars, handler, transaction, Expired, Cascade, SharesParticipant, Snapshot
  <1> QED
    BY <1>1, <1>2, <1>3 DEF Next

\* The key a save is refused for is in use by the row of a finished request.
LEMMA ConflictHasOwner ==
    ASSUME TypeOK, Phases, Separate, Saves, NEW r \in Requests, InsertConflict(r)
    PROVE  \E y \in table \ held[r] : y.by \in Requests \ {r} /\ pc[y.by] = "done"
  <1>1. PICK x \in NextRows(r) : x.slot \in InUse(r)
    BY DEF InsertConflict
  <1>2. x \in rs[r] \ put[r]
    BY DEF NextRows
  <1>3. x.slot \notin SlotsOf(put[r])
    BY <1>2 DEF Phases, Separate, OnePerSlot, SlotsOf
  <1>4. PICK y \in table \ held[r] : y.slot = x.slot
    BY <1>1, <1>3 DEF InUse, SlotsOf
  <1>5. y.by \in Requests /\ pc[y.by] = "done"
    BY DEF Saves, RowsAreSaved, TypeOK, Row
  <1>6. pc[r] = "insert"
    BY DEF InsertConflict
  <1> QED
    BY <1>5, <1>6

\* Who is aborted waits for another one, and that one is under way.
LEMMA VictimHasRival ==
    ASSUME TypeOK, Phases, NEW t \in Transactions, InCircle(t)
    PROVE  \/ \E o \in Requests \ {t} : pc[o] \in Steps
           \/ t # Sweep /\ sweep = "cascade"
  <1>1. PICK o \in Transactions : WaitsFor(t, o)
    BY DEF InCircle
  <1> QED
    BY <1>1, WaitsIsActive DEF Transactions, Steps, SweepHasParticipant

LEMMA BlamedStep ==
    ASSUME TypeOK, Phases, Separate, Saves, Blamed, [Next]_vars
    PROVE  Blamed'
  <1> USE DEF TypeOK, Refusals, Goto
  <1>1. ASSUME NEW r \in Requests, Handler(r)
        PROVE  Blamed'
    <2>0. \A o \in Requests \ {r} : pc'[o] = pc[o]
      BY <1>1, OthersStay
    <2>1. CASE InsertConflict(r)
      <3>1. PICK q \in Requests \ {r} : pc[q] = "done"
        BY <2>1, ConflictHasOwner
      <3> QED
        BY <2>0, <3>1 DEF Blamed, Somebody
    <2>2. CASE AbortRequest(r)
      <3>1. sweep' = sweep
        BY <2>2 DEF AbortRequest
      <3>2. \/ \E o \in Requests \ {r} : pc[o] \in Steps
            \/ sweep = "cascade"
        BY <2>2, VictimHasRival DEF AbortRequest, Transactions
      <3> QED
        BY <2>0, <3>1, <3>2 DEF Blamed, Somebody, Steps
    <2>3. CASE ~InsertConflict(r) /\ ~AbortRequest(r)
      <3>1. pc'[r] \notin {"idle", "conflict", "victim"}
        <4>1. CASE Prepares(r)
          BY <4>1, PreparesEffect DEF Steps
        <4>2. CASE ClearBusyBlocks(r) \/ ClearResponses(r) \/ CheckForeignKey(r)
          BY <4>2 DEF ClearBusyBlocks, ClearResponses, CheckForeignKey
        <4>3. CASE DeleteRow(r) \/ InsertRow(r)
          <5>1. CASE DeleteRow(r)
            BY <5>1 DEF DeleteRow, Phases
          <5>2. CASE InsertRow(r)
            BY <5>2 DEF InsertRow, handler
          <5> QED
            BY <4>3, <5>1, <5>2
        <4>4. CASE SaveBusyBlocks(r) \/ CommitResponses(r) \/ Fail(r)
          BY <4>4 DEF SaveBusyBlocks, CommitResponses, Fail
        <4> QED
          BY <1>1, <2>3, <4>1, <4>2, <4>3, <4>4 DEF Handler, Prepares
      <3> QED
        BY <3>1 DEF Blamed, Somebody
    <2> QED
      BY <2>1, <2>2, <2>3
  <1>2. CASE Purge
    <2>1. pc' = pc
      BY <1>2, RequestsStay
    <2>2. Somebody => Somebody'
      <3>1. CASE sweep' \in {"cascade", "done", "failed"}
        BY <3>1 DEF Somebody
      <3>2. CASE sweep' = sweep
        BY <2>1, <3>2 DEF Somebody
      <3>3. CASE SweepFails /\ InCircle(Sweep)
        <4>1. \E o \in Requests \ {Sweep} : pc[o] \in Steps
          BY <3>3, VictimHasRival DEF Transactions
        <4> QED
          BY <2>1, <4>1 DEF Somebody, Steps
      <3>4. \/ sweep' \in {"cascade", "done", "failed"}
            \/ sweep' = sweep
            \/ SweepFails /\ InCircle(Sweep)
        BY <1>2 DEF Purge, SweepParticipant, DeleteRow, SweepCommits, SweepFails
      <3> QED
        BY <3>1, <3>2, <3>3, <3>4
    <2> QED
      BY <2>1, <2>2 DEF Blamed, Refused
  <1>3. CASE UNCHANGED vars
    BY <1>3 DEF vars, Blamed, Somebody, Refused
  <1> QED
    BY <1>1, <1>2, <1>3 DEF Next

-----------------------------------------------------------------------------
(* The invariant. *)

LEMMA InitInv == Init => Inv
  <1> SUFFICES ASSUME Init
               PROVE  Inv
    OBVIOUS
  <1> USE DEF Init
  <1>1. TypeOK
    BY InitTypeOK
  <1>2. \A t \in Transactions : seen[t] = {} /\ held[t] = {} /\ put[t] = {}
    OBVIOUS
  <1>3. Requests \subseteq Transactions /\ Sweep \in Transactions
    BY DEF Transactions
  <1>4. Phases /\ Separate
    BY <1>2, <1>3 DEF Phases, Separate, OnePerSlot
  <1>5. Saves
    BY DEF Saves, RowsAreSaved, WholeSaves, WholeSnapshots, Clearers
  <1>6. Keys
    BY <1>2 DEF Keys, OneTierPerSlot, OnePerSlot, Locked, KeysReserved, SlotsOf
  <1>7. Expired /\ Cascade /\ RowsImplyResponded /\ Blamed
    BY DEF Expired, Cascade, SweepHasParticipant, RowsImplyResponded, Blamed, Refused, Refusals
  <1> QED
    BY <1>1, <1>4, <1>5, <1>6, <1>7 DEF Inv

LEMMA NextInv == Inv /\ [Next]_vars => Inv'
  <1> SUFFICES ASSUME Inv, [Next]_vars
               PROVE  Inv'
    OBVIOUS
  <1> USE DEF Inv
  <1>1. TypeOK'
    BY NextTypeOK
  <1>2. Phases'
    BY PhasesStep
  <1>3. Separate'
    BY SeparateStep DEF Keys
  <1>4. Expired' /\ Cascade' /\ RowsImplyResponded'
    BY ExpiredStep
  <1>5. Blamed'
    BY BlamedStep
  <1>6. Saves' /\ Keys'
    <2>1. ASSUME NEW r \in Requests, Handler(r)
          PROVE  Saves' /\ Keys'
      BY <2>1, HandlerSaves
    <2>2. CASE Purge
      BY <2>2, PurgeSaves
    <2>3. CASE UNCHANGED vars
      BY <2>3 DEF vars, stored, handler, transaction, Saves, Keys, RowsAreSaved, WholeSaves,
         WholeSnapshots, OneTierPerSlot, Locked, KeysReserved, Clearers, Snapshot,
         OnePerSlot, SlotsOf
    <2> QED
      BY <2>1, <2>2, <2>3 DEF Next
  <1> QED
    BY <1>1, <1>2, <1>3, <1>4, <1>5, <1>6

THEOREM Invariance == Spec => []Inv
  BY InitInv, NextInv, PTL DEF Spec

\* Every behaviour of the three handlers keeps to the types.
THEOREM TypeCorrect == Spec => []TypeOK
  <1>1. Inv => TypeOK
    BY DEF Inv
  <1> QED
    BY <1>1, Invariance, PTL

\* A reader of the responses table never finds two tiers for one slot,
\* whichever saves of the person overlap.
THEOREM AtMostOneTier == Spec => []OneTierPerSlot
  <1>1. Inv => OneTierPerSlot
    BY DEF Inv, Keys
  <1> QED
    BY <1>1, Invariance, PTL

\* Overlapping saves may end up side by side, but each is there whole or not
\* at all: SaveResponses never leaves half a response.
THEOREM SavesAreWhole == Spec => []NoTornSave
  <1>1. Inv => NoTornSave
    <2> SUFFICES ASSUME Inv, NEW r \in Requests, NEW z \in table, z.by = r
                 PROVE  {x \in table : x.by = r} = {ToRow(x, r) : x \in rs[r]}
      BY DEF NoTornSave
    <2>1. \A x \in table : x.by = r => x = ToRow(ToResponse(x), r) /\ ToResponse(x) \in rs[r]
      BY DEF Inv, Saves, RowsAreSaved, TypeOK, Row, ToRow, ToResponse
    <2>2. \A y \in rs[r] : ToRow(y, r) \in table /\ ToRow(y, r).by = r
      BY DEF Inv, Saves, WholeSaves, ToRow
    <2> QED
      BY <2>1, <2>2
  <1> QED
    BY <1>1, Invariance, PTL

\* Whoever has stored tiers is marked as having answered.
THEOREM StoredMeansResponded == Spec => []RowsImplyResponded
  <1>1. Inv => RowsImplyResponded
    BY DEF Inv
  <1> QED
    BY <1>1, Invariance, PTL

\* Nothing is written for a participant the purge has deleted.
THEOREM PurgeIsFinal == Spec => []NothingAfterPurge
  <1>1. Inv => NothingAfterPurge
    BY DEF Inv, Expired, NothingAfterPurge
  <1> QED
    BY <1>1, Invariance, PTL

-----------------------------------------------------------------------------
(* A second invariant: what a patient person sees. *)

\* A tier derived from the calendar is one nobody typed.
Inferences ==
    /\ \A x \in table : x.source = "calendar" => x.said = NoOne
    /\ \A r \in Requests : \A x \in rs[r] : x.source = "calendar" => x.said = NoOne

\* Which handler is at which step, and with what.
Prepared(r) ==
    /\ pc[r] = "load" => /\ kind[r] = "put"
                        /\ \E body \in Submissions : rs[r] = BuildResponses(body, r)
    /\ pc[r] \in {"fetch", "apply"} => kind[r] = "connect"
    /\ pc[r] = "existing" => kind[r] = "disconnect"
    /\ pc[r] \in {"clearBlocks", "saveBlocks"} => kind[r] # "put"
    /\ pc[r] \in {"clearBlocks", "saveBlocks", "apply"} /\ kind[r] = "connect" =>
           feed[r] \in Feeds
    /\ feed[r] # {} => kind[r] = "connect" /\ pc[r] # "idle"

Handlers == \A r \in Requests : Prepared(r)

\* What r holds in memory is what its handler makes of the rows stored now.
Intended(r) ==
    \/ /\ kind[r] = "put"
       /\ \E body \in Submissions :
              rs[r] = MergeCalendarRows(BuildResponses(body, r), ResponsesForParticipant)
    \/ /\ kind[r] = "connect" /\ feed[r] \in Feeds
       /\ rs[r] = ApplyCalendar(ResponsesForParticipant, feed[r])
    \/ /\ kind[r] = "disconnect"
       /\ rs[r] = KeptOnDisconnect(ResponsesForParticipant)

Computed(r) ==
    \/ pc[r] \in {"clear", "insert", "commit"}
    \/ pc[r] \in {"clearBlocks", "saveBlocks"} /\ kind[r] = "disconnect"

Exclusive(r) ==
    /\ pc[r] = "saveBlocks" => blocks \subseteq Snapshot(r)
    /\ pc[r] \in {"insert", "commit"} => table \subseteq Snapshot(r)
    /\ alive /\ Computed(r) => Intended(r)

\* The one request of a patient person: nothing it read has changed, except by
\* the purge, and its transactions delete everything that is stored.
OneAtATime ==
    patient =>
        /\ \A r, q \in Active : r = q
        /\ \A r \in Requests : Exclusive(r)

\* A patient person without a calendar has no tiers of one, stored or on the
\* way.
Disconnected ==
    patient =>
        /\ calendar \in Requests =>
               kind[calendar] = "disconnect" /\ pc[calendar] # "idle"
        /\ calendar = "gone" =>
            /\ Calendar(table) = {}
            /\ \A r \in Active : kind[r] = "put" /\ Calendar(rs[r]) = {}
        /\ source = "none" => blocks = {}

\* A patient person's save is refused only once there is a sweep.
Unrefused == patient /\ Refused # {} => sweep # "idle"

-----------------------------------------------------------------------------
(* One request at a time. *)

LEMMA InferencesStep ==
    ASSUME TypeOK, Phases, Inferences, [Next]_vars
    PROVE  Inferences'
  <1> USE DEF TypeOK, stored, handler
  <1> DEFINE Fine(rows) == \A x \in rows : x.source = "calendar" => x.said = NoOne
  <1>0. Fine(table) /\ \A r \in Requests : Fine(rs[r])
    BY DEF Inferences
  <1>1. Fine(ResponsesForParticipant)
    BY <1>0 DEF ResponsesForParticipant, ToResponse, Row
  <1>2. ASSUME NEW r \in Requests, Handler(r)
        PROVE  Inferences'
    <2>1. CASE Put(r)
      <3>1. PICK body \in Submissions : rs' = [rs EXCEPT ![r] = BuildResponses(body, r)]
        BY <2>1 DEF Put
      <3>2. Fine(BuildResponses(body, r))
        BY DEF BuildResponses
      <3>3. \A q \in Requests : Fine(rs'[q])
        BY <1>0, <3>1, <3>2
      <3>4. table' = table
        BY <2>1 DEF Put
      <3> QED
        BY <1>0, <3>3, <3>4 DEF Inferences
    <2>2. CASE LoadPrior(r)
      <3>1. Fine(MergeCalendarRows(rs[r], ResponsesForParticipant))
        BY <1>0, <1>1 DEF MergeCalendarRows, Calendar
      <3> QED
        BY <1>0, <2>2, <3>1 DEF LoadPrior, Inferences
    <2>3. CASE ApplyCalendarToResponses(r)
      <3>0. Fine(Stated(ResponsesForParticipant))
        BY <1>1 DEF Stated
      <3>1. Fine(ApplyCalendar(ResponsesForParticipant, feed[r]))
        BY <3>0 DEF ApplyCalendar
      <3> QED
        BY <1>0, <2>3, <3>1 DEF ApplyCalendarToResponses, Inferences
    <2>4. CASE KeepStated(r)
      <3>1. Fine(KeptOnDisconnect(ResponsesForParticipant))
        BY <1>1 DEF KeptOnDisconnect, Stated
      <3> QED
        BY <1>0, <2>4, <3>1 DEF KeepStated, Inferences
    <2>5. CASE CommitResponses(r)
      <3>1. Fine({ToRow(x, r) : x \in put[r]})
        BY <1>0 DEF ToRow, Phases
      <3> QED
        BY <1>0, <2>5, <3>1 DEF CommitResponses, Inferences
    <2>6. CASE \/ Connect(r) \/ Fetch(r) \/ Disconnect(r) \/ ClearBusyBlocks(r)
               \/ SaveBusyBlocks(r) \/ ClearResponses(r) \/ DeleteRow(r) \/ InsertRow(r)
               \/ InsertConflict(r) \/ CheckForeignKey(r) \/ Fail(r) \/ AbortRequest(r)
      <3>1. table' = table /\ rs' = rs
        BY <2>6 DEF Connect, Fetch, Disconnect, ClearBusyBlocks, SaveBusyBlocks,
           ClearResponses, DeleteRow, InsertRow, InsertConflict, CheckForeignKey, Fail,
           AbortRequest
      <3> QED
        BY <3>1 DEF Inferences
    <2> QED
      BY <1>2, <2>1, <2>2, <2>3, <2>4, <2>5, <2>6 DEF Handler
  <1>3. CASE Purge
    <2>1. table' \subseteq table
      BY <1>3 DEF Purge, SweepParticipant, DeleteRow, SweepCommits, SweepFails
    <2> QED
      BY <1>3, <2>1, RequestsStay DEF Inferences
  <1>4. CASE UNCHANGED vars
    BY <1>4 DEF vars, Inferences
  <1> QED
    BY <1>2, <1>3, <1>4 DEF Next

LEMMA HandlersStep ==
    ASSUME TypeOK, Handlers, [Next]_vars
    PROVE  Handlers'
  <1> USE DEF TypeOK, handler, Goto
  <1>1. ASSUME NEW r \in Requests, Handler(r)
        PROVE  Handlers'
    <2>0. \A o \in Requests \ {r} :
              pc'[o] = pc[o] /\ kind'[o] = kind[o] /\ feed'[o] = feed[o] /\ rs'[o] = rs[o]
      BY <1>1, OthersStay
    <2> SUFFICES Prepared(r)'
      BY <2>0 DEF Handlers, Prepared
    <2>a. Prepared(r)
      BY DEF Handlers
    <2>1. CASE Put(r)
      BY <2>1, <2>a DEF Put, Arrive, Prepared
    <2>2. CASE LoadPrior(r)
      BY <2>2, <2>a DEF LoadPrior, Prepared
    <2>3. CASE Connect(r)
      BY <2>3, <2>a DEF Connect, Arrive, Prepared
    <2>4. CASE Fetch(r)
      BY <2>4, <2>a DEF Fetch, Prepared
    <2>5. CASE ApplyCalendarToResponses(r)
      BY <2>5, <2>a DEF ApplyCalendarToResponses, Prepared
    <2>6. CASE Disconnect(r)
      BY <2>6, <2>a DEF Disconnect, Arrive, Prepared
    <2>7. CASE KeepStated(r)
      BY <2>7, <2>a DEF KeepStated, Prepared
    <2>8. CASE ClearBusyBlocks(r)
      BY <2>8, <2>a DEF ClearBusyBlocks, Prepared
    <2>9. CASE SaveBusyBlocks(r)
      BY <2>9, <2>a DEF SaveBusyBlocks, Prepared
    <2>10. CASE ClearResponses(r) \/ DeleteRow(r) \/ InsertRow(r) \/ CheckForeignKey(r)
      BY <2>10, <2>a DEF ClearResponses, DeleteRow, InsertRow, CheckForeignKey, Prepared
    <2>11. CASE InsertConflict(r) \/ CommitResponses(r) \/ Fail(r)
      BY <2>11, <2>a DEF InsertConflict, CommitResponses, Fail, Prepared
    <2>12. CASE AbortRequest(r)
      BY <2>12, <2>a DEF AbortRequest, Prepared
    <2> QED
      BY <1>1, <2>1, <2>2, <2>3, <2>4, <2>5, <2>6, <2>7, <2>8, <2>9, <2>10, <2>11,
         <2>12
      DEF Handler
  <1>2. CASE Purge
    BY <1>2, RequestsStay DEF Handlers, Prepared
  <1>3. CASE UNCHANGED vars
    BY <1>3 DEF vars, Handlers, Prepared
  <1> QED
    BY <1>1, <1>2, <1>3 DEF Next

\* But for its first step a handler is at work.
LEMMA AtWork ==
    ASSUME TypeOK, Phases, NEW r \in Requests, Handler(r),
           ~(Put(r) \/ Connect(r) \/ Disconnect(r))
    PROVE  r \in Active
  <1> USE DEF Active, Steps
  <1>1. CASE DeleteRow(r)
    BY <1>1 DEF DeleteRow, Phases
  <1>2. CASE AbortRequest(r)
    <2>1. r \in Transactions
      BY DEF Transactions
    <2> QED
      BY <1>2, <2>1, WaitsIsActive DEF AbortRequest, InCircle
  <1>3. CASE ~DeleteRow(r) /\ ~AbortRequest(r)
    BY <1>3 DEF Handler, LoadPrior, Fetch, ApplyCalendarToResponses, KeepStated,
       ClearBusyBlocks, SaveBusyBlocks, ClearResponses, InsertRow, InsertConflict,
       CheckForeignKey, CommitResponses, Fail
  <1> QED
    BY <1>1, <1>2, <1>3

\* A step puts a request to work only if it is at work already or, when the
\* person is patient, if no other is.
LEMMA AloneStep ==
    ASSUME TypeOK, Phases, OneAtATime, patient, NEW r \in Requests, Handler(r)
    PROVE  /\ Active' \subseteq {r}
           /\ \A o \in Requests \ {r} : o \notin Active /\ pc'[o] \notin Steps
  <1> USE DEF TypeOK, stored, Goto, Active
  <1>1. \A o \in Requests \ {r} : pc'[o] = pc[o]
    BY OthersStay
  <1>2. \A o \in Requests \ {r} : o \notin Active
    <2>1. CASE Put(r) \/ Connect(r) \/ Disconnect(r)
      BY <2>1 DEF Put, Connect, Disconnect, Arrive
    <2>2. CASE ~(Put(r) \/ Connect(r) \/ Disconnect(r))
      <3>1. r \in Active
        BY <2>2, AtWork
      <3> QED
        BY <3>1 DEF OneAtATime
    <2> QED
      BY <2>1, <2>2
  <1> QED
    BY <1>1, <1>2

LEMMA OneAtATimeStep ==
    ASSUME Inv, Handlers, OneAtATime, [Next]_vars
    PROVE  OneAtATime'
  <1> USE DEF stored, handler, transaction, history, Goto
  <1>0. TypeOK /\ Phases
    BY DEF Inv
  <1>1. ASSUME NEW r \in Requests, Handler(r), patient
        PROVE  OneAtATime'
    <2> USE <1>0 DEF TypeOK
    <2>0. /\ Active' \subseteq {r}
          /\ \A o \in Requests \ {r} : pc'[o] \notin Steps
      BY <1>0, <1>1, AloneStep
    <2> SUFFICES Exclusive(r)'
      BY <2>0 DEF OneAtATime, Exclusive, Computed, Steps
    <2>a. Exclusive(r) /\ Prepared(r)
      BY <1>1 DEF OneAtATime, Handlers
    <2>1. CASE Put(r)
      BY <2>1 DEF Put, Arrive, Exclusive, Computed
    <2>2. CASE LoadPrior(r)
      <3>1. /\ kind' = kind /\ kind[r] = "put" /\ table' = table
            /\ rs'[r] = MergeCalendarRows(rs[r], ResponsesForParticipant)
            /\ pc'[r] = "clear"
        BY <2>2, <2>a DEF LoadPrior, Prepared
      <3>2. PICK body \in Submissions : rs[r] = BuildResponses(body, r)
        BY <2>2, <2>a DEF LoadPrior, Prepared
      <3>3. Intended(r)'
        BY <3>1, <3>2 DEF Intended, ResponsesForParticipant
      <3> QED
        BY <3>1, <3>3 DEF Exclusive
    <2>3. CASE Connect(r) \/ Fetch(r) \/ Disconnect(r)
      BY <2>3, <2>a DEF Connect, Fetch, Disconnect, Arrive, Exclusive, Computed, Prepared
    <2>4. CASE ApplyCalendarToResponses(r)
      <3>1. /\ kind' = kind /\ kind[r] = "connect" /\ table' = table
            /\ feed' = feed /\ feed[r] \in Feeds
            /\ rs'[r] = ApplyCalendar(ResponsesForParticipant, feed[r])
            /\ pc'[r] = "clear"
        BY <2>4, <2>a DEF ApplyCalendarToResponses, Prepared
      <3>2. Intended(r)'
        BY <3>1 DEF Intended, ResponsesForParticipant
      <3> QED
        BY <3>1, <3>2 DEF Exclusive
    <2>5. CASE KeepStated(r)
      <3>1. /\ kind' = kind /\ kind[r] = "disconnect" /\ table' = table
            /\ rs'[r] = KeptOnDisconnect(ResponsesForParticipant)
            /\ pc'[r] = "clearBlocks"
        BY <2>5, <2>a DEF KeepStated, Prepared
      <3>2. Intended(r)'
        BY <3>1 DEF Intended, ResponsesForParticipant
      <3> QED
        BY <3>1, <3>2 DEF Exclusive
    <2>6. CASE \/ ClearBusyBlocks(r) \/ SaveBusyBlocks(r) \/ ClearResponses(r)
               \/ DeleteRow(r) \/ InsertRow(r) \/ CheckForeignKey(r)
      <3>1. /\ table' = table /\ kind' = kind /\ feed' = feed /\ rs' = rs /\ alive' = alive
        BY <2>6 DEF ClearBusyBlocks, SaveBusyBlocks, ClearResponses, DeleteRow, InsertRow,
           CheckForeignKey
      <3>2. Computed(r)' => Computed(r)
        BY <2>6, <2>a, <3>1 DEF Computed, ClearBusyBlocks, SaveBusyBlocks, ClearResponses,
           DeleteRow, InsertRow, CheckForeignKey, Prepared, Kinds
      <3>3. Intended(r) => Intended(r)'
        BY <3>1 DEF Intended, ResponsesForParticipant
      <3>4. /\ pc'[r] = "saveBlocks" => blocks' \subseteq Snapshot(r)'
            /\ pc'[r] \in {"insert", "commit"} => table' \subseteq Snapshot(r)'
        <4> USE DEF Snapshot, Transactions
        <4>1. CASE ClearBusyBlocks(r)
          BY <4>1 DEF ClearBusyBlocks, SeenByBlocksDelete, DeleteSaw
        <4>2. CASE SaveBusyBlocks(r)
          BY <4>2 DEF SaveBusyBlocks
        <4>3. CASE ClearResponses(r)
          BY <4>3 DEF ClearResponses, SeenByDelete, DeleteSaw
        <4>4. CASE DeleteRow(r)
          <5>1. PICK x \in seen[r] :
                    /\ seen'[r] = seen[r] \ {x}
                    /\ held'[r] = held[r] \cup ({x} \cap (table \cup blocks))
            BY <4>4 DEF DeleteRow
          <5>2. pc' = pc /\ table' = table /\ blocks' = blocks
            BY <4>4 DEF DeleteRow
          <5> QED
            BY <2>a, <5>1, <5>2 DEF Exclusive
        <4>5. CASE InsertRow(r) \/ CheckForeignKey(r)
          BY <2>a, <4>5 DEF InsertRow, CheckForeignKey, Exclusive
        <4> QED
          BY <2>6, <4>1, <4>2, <4>3, <4>4, <4>5
      <3> QED
        BY <2>a, <3>1, <3>2, <3>3, <3>4 DEF Exclusive
    <2>7. CASE InsertConflict(r) \/ CommitResponses(r) \/ Fail(r) \/ AbortRequest(r)
      BY <2>7 DEF InsertConflict, CommitResponses, Fail, AbortRequest, Exclusive, Computed
    <2> QED
      BY <1>1, <2>1, <2>2, <2>3, <2>4, <2>5, <2>6, <2>7 DEF Handler
  <1>2. ASSUME NEW r \in Requests, Handler(r), ~patient
        PROVE  OneAtATime'
    BY <1>0, <1>2, OthersStay DEF OneAtATime
  <1>3. CASE Purge
    <2>1. /\ pc' = pc /\ kind' = kind /\ feed' = feed /\ rs' = rs /\ patient' = patient
          /\ \A r \in Requests : Snapshot(r)' = Snapshot(r)
      BY <1>0, <1>3, RequestsStay DEF Snapshot
    <2>2. \/ table' = table /\ blocks' = blocks /\ alive' = alive
          \/ ~alive' /\ table' \subseteq table /\ blocks' \subseteq blocks
      BY <1>3 DEF Purge, SweepParticipant, DeleteRow, SweepCommits, SweepFails
    <2> QED
      BY <2>1, <2>2 DEF OneAtATime, Active, Exclusive, Computed, Intended,
         ResponsesForParticipant
  <1>4. CASE UNCHANGED vars
    BY <1>4 DEF vars, OneAtATime, Active, Exclusive, Computed, Intended,
       ResponsesForParticipant, Snapshot
  <1> QED
    BY <1>1, <1>2, <1>3, <1>4 DEF Next

\* What a patient person's request puts in the place of everything stored.
LEMMA WholeReplacement ==
    ASSUME TypeOK, Phases, OneAtATime, patient, NEW r \in Requests, CommitResponses(r)
    PROVE  table' = {ToRow(x, r) : x \in rs[r]}
  BY DEF CommitResponses, OneAtATime, Exclusive, Phases, Snapshot

LEMMA DisconnectedStep ==
    ASSUME Inv, Handlers, OneAtATime, Disconnected, [Next]_vars
    PROVE  Disconnected'
  <1> USE DEF stored, handler, transaction, history, Goto
  <1>0. TypeOK /\ Phases
    BY DEF Inv
  <1> USE <1>0 DEF TypeOK
  <1>1. ASSUME NEW r \in Requests, Handler(r), patient
        PROVE  Disconnected'
    <2>0. /\ Active' \subseteq {r}
          /\ \A o \in Requests \ {r} : o \notin Active /\ pc'[o] = pc[o] /\ kind'[o] = kind[o]
      BY <1>0, <1>1, AloneStep, OthersStay
    <2>a. Prepared(r) /\ Exclusive(r)
      BY <1>1 DEF Handlers, OneAtATime
    <2>1. calendar' \in Requests => kind'[calendar'] = "disconnect" /\ pc'[calendar'] # "idle"
      <3>1. CASE Disconnect(r)
        BY <1>1, <3>1 DEF Disconnect, Arrive
      <3>2. CASE Connect(r)
        BY <3>2, RequestsAssumption DEF Connect
      <3>3. CASE Put(r)
        <4>1. calendar' = calendar /\ pc[r] = "idle"
          BY <3>3 DEF Put, Arrive
        <4> QED
          BY <1>1, <2>0, <4>1 DEF Disconnected
      <3>4. CASE ~Disconnect(r) /\ ~Connect(r) /\ ~Put(r)
        <4>1. calendar' \in {calendar, "gone"}
          BY <1>1, <3>4 DEF Handler, LoadPrior, Fetch, ApplyCalendarToResponses, KeepStated,
             ClearBusyBlocks, SaveBusyBlocks, ClearResponses, DeleteRow, InsertRow,
             InsertConflict, CheckForeignKey, CommitResponses, Fail, AbortRequest
        <4>2. kind' = kind /\ pc'[r] # "idle"
          <5>1. CASE DeleteRow(r)
            BY <5>1 DEF DeleteRow, Phases
          <5>2. CASE ~DeleteRow(r)
            BY <1>1, <3>4, <5>2 DEF Handler, LoadPrior, Fetch, ApplyCalendarToResponses,
               KeepStated, ClearBusyBlocks, SaveBusyBlocks, ClearResponses, InsertRow,
               InsertConflict, CheckForeignKey, CommitResponses, Fail, AbortRequest
          <5> QED
            BY <5>1, <5>2
        <4> QED
          BY <1>1, <2>0, <4>1, <4>2, RequestsAssumption DEF Disconnected
      <3> QED
        BY <3>1, <3>2, <3>3, <3>4
    <2>2. calendar' = "gone" =>
              /\ Calendar(table') = {}
              /\ \A q \in Active' : kind'[q] = "put" /\ Calendar(rs'[q]) = {}
      <3> SUFFICES ASSUME calendar' = "gone"
                   PROVE  /\ Calendar(table') = {}
                          /\ r \in Active' => kind'[r] = "put" /\ Calendar(rs'[r]) = {}
        BY <2>0
      <3>1. CASE CommitResponses(r)
        <4>1. table' = {ToRow(x, r) : x \in rs[r]} /\ r \notin Active'
          BY <1>0, <1>1, <3>1, WholeReplacement DEF CommitResponses, Active, Steps
        <4>2. Calendar(rs[r]) = {}
          <5>1. CASE calendar = "gone"
            BY <1>1, <3>1, <5>1 DEF Disconnected, CommitResponses, Active, Steps
          <5>2. CASE calendar = r
            <6>1. kind[r] = "disconnect"
              BY <1>1, <5>2 DEF Disconnected
            <6>2. CASE alive
              <7>1. rs[r] = KeptOnDisconnect(ResponsesForParticipant)
                BY <2>a, <3>1, <6>1, <6>2 DEF Exclusive, Computed, CommitResponses, Intended
              <7> QED
                BY <7>1 DEF KeptOnDisconnect, Stated, Calendar
            <6>3. CASE ~alive
              <7>1. rs[r] = {}
                BY <3>1, <6>3 DEF Inv, Expired, SharesParticipant, CommitResponses
              <7> QED
                BY <7>1 DEF Calendar
            <6> QED
              BY <6>2, <6>3
          <5> QED
            BY <3>1, <5>1, <5>2 DEF CommitResponses
        <4> QED
          BY <4>1, <4>2 DEF Calendar, ToRow
      <3>2. CASE ~CommitResponses(r)
        <4>1. calendar = "gone" /\ ~Connect(r) /\ ~Disconnect(r)
          <5>1. ~Connect(r)
            BY DEF Connect
          <5>2. ~Disconnect(r)
            BY <1>1, RequestsAssumption DEF Disconnect, Arrive
          <5> QED
            BY <1>1, <3>2, <5>1, <5>2 DEF Handler, Put, LoadPrior, Fetch,
               ApplyCalendarToResponses, KeepStated, ClearBusyBlocks, SaveBusyBlocks,
               ClearResponses, DeleteRow, InsertRow, InsertConflict, CheckForeignKey, Fail,
               AbortRequest
        <4>2. Calendar(table) = {} /\ (r \in Active => kind[r] = "put" /\ Calendar(rs[r]) = {})
          BY <1>1, <4>1 DEF Disconnected
        <4>3. table' = table
          BY <1>1, <3>2, <4>1 DEF Handler, Put, LoadPrior, Fetch,
             ApplyCalendarToResponses, KeepStated, ClearBusyBlocks, SaveBusyBlocks,
             ClearResponses, DeleteRow, InsertRow, InsertConflict, CheckForeignKey, Fail,
             AbortRequest
        <4>4. r \in Active' => kind'[r] = "put" /\ Calendar(rs'[r]) = {}
          <5>1. CASE Put(r)
            <6>1. PICK body \in Submissions : rs'[r] = BuildResponses(body, r)
              BY <5>1 DEF Put
            <6>2. kind'[r] = "put"
              BY <5>1 DEF Put, Arrive
            <6> QED
              BY <6>1, <6>2 DEF BuildResponses, Calendar
          <5>2. CASE LoadPrior(r)
            <6>1. /\ kind' = kind /\ r \in Active
                  /\ rs'[r] = MergeCalendarRows(rs[r], ResponsesForParticipant)
              BY <5>2 DEF LoadPrior, Active, Steps
            <6>2. Calendar(ResponsesForParticipant) = {}
              BY <4>2 DEF Calendar, ResponsesForParticipant, ToResponse
            <6> QED
              BY <4>2, <6>1, <6>2 DEF MergeCalendarRows, Calendar
          <5>3. CASE Fetch(r) \/ ApplyCalendarToResponses(r) \/ KeepStated(r)
            BY <2>a, <4>2, <5>3 DEF Fetch, ApplyCalendarToResponses, KeepStated, Prepared,
               Active, Steps
          <5>4. CASE ~Put(r) /\ ~LoadPrior(r) /\ ~Fetch(r) /\ ~ApplyCalendarToResponses(r)
                     /\ ~KeepStated(r)
            <6>1. rs' = rs /\ kind' = kind /\ r \in Active
              <7>1. rs' = rs /\ kind' = kind
                BY <1>1, <3>2, <4>1, <5>4 DEF Handler, ClearBusyBlocks, SaveBusyBlocks,
                   ClearResponses, DeleteRow, InsertRow, InsertConflict, CheckForeignKey,
                   Fail, AbortRequest
              <7>2. r \in Active
                BY <1>0, <1>1, <4>1, <5>4, AtWork
              <7> QED
                BY <7>1, <7>2
            <6> QED
              BY <4>2, <6>1
          <5> QED
            BY <5>1, <5>2, <5>3, <5>4
        <4> QED
          BY <4>2, <4>3, <4>4
      <3> QED
        BY <3>1, <3>2
    <2>3. source' = "none" => blocks' = {}
      <3>1. CASE SaveBusyBlocks(r)
        <4>1. blocks \subseteq held[r]
          BY <2>a, <3>1 DEF SaveBusyBlocks, Exclusive, Snapshot
        <4>2. blocks' = {[covers |-> s, by |-> r] : s \in feed[r]}
          BY <3>1, <4>1 DEF SaveBusyBlocks
        <4>3. feed[r] = {} => blocks' = {}
          BY <4>2
        <4>4. feed[r] # {} => alive /\ kind[r] = "connect"
          BY <2>a, <3>1 DEF SaveBusyBlocks, ForeignKey, Prepared
        <4> QED
          BY <3>1, <4>3, <4>4 DEF SaveBusyBlocks, SourceOf
      <3>2. CASE ~SaveBusyBlocks(r)
        <4>1. source' = source /\ blocks' = blocks
          BY <1>1, <3>2 DEF Handler, Put, LoadPrior, Connect, Fetch,
             ApplyCalendarToResponses, Disconnect, KeepStated, ClearBusyBlocks,
             ClearResponses, DeleteRow, InsertRow, InsertConflict, CheckForeignKey,
             CommitResponses, Fail, AbortRequest
        <4> QED
          BY <1>1, <4>1 DEF Disconnected
      <3> QED
        BY <3>1, <3>2
    <2> QED
      BY <2>1, <2>2, <2>3 DEF Disconnected
  <1>2. ASSUME NEW r \in Requests, Handler(r), ~patient
        PROVE  Disconnected'
    BY <1>0, <1>2, OthersStay DEF Disconnected
  <1>3. CASE Purge
    <2>1. /\ pc' = pc /\ kind' = kind /\ rs' = rs /\ patient' = patient
          /\ calendar' = calendar
      BY <1>0, <1>3, RequestsStay
    <2>2. \/ table' = table /\ blocks' = blocks /\ source' = source
          \/ table' = {} /\ blocks' = {}
      BY <1>3, SweepTakesAll DEF Inv, Purge, SweepParticipant, DeleteRow, SweepFails
    <2> QED
      BY <2>1, <2>2 DEF Disconnected, Active, Calendar
  <1>4. CASE UNCHANGED vars
    BY <1>4 DEF vars, Disconnected, Active
  <1> QED
    BY <1>1, <1>2, <1>3, <1>4 DEF Next

LEMMA UnrefusedStep ==
    ASSUME Inv, OneAtATime, Unrefused, [Next]_vars
    PROVE  Unrefused'
  <1>0. TypeOK /\ Phases /\ Separate /\ Saves
    BY DEF Inv
  <1> USE <1>0 DEF Refusals, Goto
  <1>1. ASSUME NEW r \in Requests, Handler(r), patient
        PROVE  Unrefused'
    <2>0. /\ sweep' = sweep
          /\ \A o \in Requests \ {r} : pc'[o] = pc[o] /\ o \notin Active
      BY <1>1, OthersStay, AloneStep
    <2>1. ~InsertConflict(r)
      <3> SUFFICES ASSUME InsertConflict(r)
                   PROVE  FALSE
        OBVIOUS
      <3>1. table \subseteq held[r]
        BY <1>1 DEF InsertConflict, OneAtATime, Exclusive, Snapshot
      <3> QED
        BY <3>1, ConflictHasOwner
    <2>2. CASE AbortRequest(r)
      <3>1. sweep = "cascade"
        BY <2>0, <2>2, VictimHasRival DEF AbortRequest, Transactions, Active
      <3> QED
        BY <2>0, <3>1 DEF Unrefused
    <2>3. CASE ~AbortRequest(r)
      <3>1. pc'[r] \in Refusals => pc[r] \in Refusals
        BY <1>1, <2>1, <2>3 DEF TypeOK, handler, Handler, Put, Arrive, LoadPrior, Connect,
           Fetch, ApplyCalendarToResponses, Disconnect, KeepStated, ClearBusyBlocks,
           SaveBusyBlocks, ClearResponses, DeleteRow, InsertRow, CheckForeignKey,
           CommitResponses, Fail
      <3>2. Refused' \subseteq Refused
        BY <2>0, <3>1 DEF Refused
      <3>3. patient' = patient
        BY <1>1, OthersStay
      <3> QED
        BY <1>1, <2>0, <3>2, <3>3 DEF Unrefused
    <2> QED
      BY <2>2, <2>3
  <1>2. ASSUME NEW r \in Requests, Handler(r), ~patient
        PROVE  Unrefused'
    BY <1>2, OthersStay DEF Unrefused
  <1>3. CASE Purge
    <2>1. pc' = pc /\ patient' = patient
      BY <1>3, RequestsStay
    <2>2. sweep # "idle" => sweep' # "idle"
      BY <1>3 DEF Purge, SweepParticipant, DeleteRow, SweepCommits, SweepFails
    <2> QED
      BY <2>1, <2>2 DEF Unrefused, Refused
  <1>4. CASE UNCHANGED vars
    BY <1>4 DEF vars, history, Unrefused, Refused
  <1> QED
    BY <1>1, <1>2, <1>3, <1>4 DEF Next

-----------------------------------------------------------------------------
(* The implementation of Answers. *)

\* What a handler computed from the rows that are stored is what its operation
\* makes of the answers.
LEMMA IntendedIsPromised ==
    ASSUME TypeOK, Inferences, patient, alive, alive', patient', responded',
           NEW r \in Requests, Intended(r), ResponsesForParticipant' = rs[r]
    PROVE  Promise!Next
  <1> DEFINE old == ResponsesForParticipant
  <1>1. old \subseteq Response
    BY StoredType DEF TypeOK
  <1>2. \A a \in old : a.source = "calendar" <=> a = InferredNo(a.slot)
    <2>1. \A a \in old : a.source = "calendar" => a.said = NoOne
      BY DEF Inferences, ResponsesForParticipant, ToResponse
    <2> QED
      BY <1>1, <2>1 DEF InferredNo, Response
  <1>3. Promise!Typed = Stated(old) /\ old \ Promise!Typed = Calendar(old)
    BY <1>2 DEF Promise!Typed, Stated, Calendar
  <1> HIDE DEF old
  <1>4. CASE kind[r] = "put"
    <2>1. PICK body \in Submissions : rs[r] = MergeCalendarRows(BuildResponses(body, r), old)
      BY <1>4 DEF Intended, old
    <2> DEFINE stated == BuildResponses(body, r)
    <2>2. stated \in {BuildResponses(b, q) : b \in Submissions, q \in Requests}
      OBVIOUS
    <2>3. \A a \in old : a.slot \in Promise!Silent(stated) <=> a.slot \notin SlotsOf(stated)
      BY <1>1 DEF Promise!Silent, SlotsOf, Response
    <2> HIDE DEF stated
    <2>4. rs[r] = stated \cup {a \in old \ Promise!Typed : a.slot \in Promise!Silent(stated)}
      BY <1>3, <2>1, <2>3 DEF MergeCalendarRows, Calendar, stated
    <2>5. Promise!Submit(stated)
      BY <2>4 DEF Promise!Submit, old
    <2> QED
      BY <2>2, <2>5 DEF Promise!Next
  <1>5. CASE kind[r] = "connect"
    <2>1. feed[r] \in Feeds /\ rs[r] = ApplyCalendar(old, feed[r])
      BY <1>5 DEF Intended, old
    <2>2. feed[r] \ SlotsOf(Stated(old)) = feed[r] \cap Promise!Silent(Stated(old))
      BY <2>1, FeedsAssumption DEF Promise!Silent, SlotsOf
    <2>3. rs[r] = Promise!Typed \cup {InferredNo(s) : s \in feed[r] \cap Promise!Silent(Promise!Typed)}
      BY <1>3, <2>1, <2>2 DEF ApplyCalendar, InferredNo
    <2>4. Promise!Import(feed[r])
      BY <2>3 DEF Promise!Import
    <2> QED
      BY <2>1, <2>4 DEF Promise!Next
  <1>6. CASE kind[r] = "disconnect"
    <2>1. rs[r] = Promise!Typed
      BY <1>3, <1>6 DEF Intended, KeptOnDisconnect, old
    <2>2. Promise!Drop
      BY <2>1 DEF Promise!Drop
    <2> QED
      BY <2>2 DEF Promise!Next
  <1> QED
    BY <1>4, <1>5, <1>6 DEF TypeOK, Kinds

PatientInv == Inferences /\ Handlers /\ OneAtATime /\ Disconnected /\ Unrefused

LEMMA PromiseStep ==
    ASSUME Inv, PatientInv, [Next]_vars
    PROVE  [Promise!Next]_(Promise!vars)
  <1> USE DEF Inv, PatientInv, stored, Goto
  <1>0. TypeOK /\ Phases
    OBVIOUS
  <1>1. ASSUME UNCHANGED <<table, responded, alive, patient>>
        PROVE  UNCHANGED Promise!vars
    BY <1>1 DEF Promise!vars, ResponsesForParticipant
  <1>2. ASSUME ~patient, ~patient'
        PROVE  UNCHANGED Promise!vars
    BY <1>2 DEF Promise!vars
  <1>3. ASSUME NEW r \in Requests, Handler(r), patient
        PROVE  [Promise!Next]_(Promise!vars)
    <2>0. alive' = alive /\ patient' = patient
      BY <1>0, <1>3, OthersStay
    <2>1. CASE CommitResponses(r)
      <3>1. table' = {ToRow(x, r) : x \in rs[r]}
        BY <1>3, <2>1, WholeReplacement
      <3>2. rs[r] \subseteq Response
        BY DEF TypeOK
      <3>3. ResponsesForParticipant' = rs[r]
        <4>1. \A x \in rs[r] : ToResponse(ToRow(x, r)) = x
          BY <3>2 DEF ToResponse, ToRow, Response
        <4> QED
          BY <3>1, <4>1 DEF ResponsesForParticipant
      <3>4. CASE alive
        <4>1. Intended(r)
          BY <1>3, <2>1, <3>4 DEF OneAtATime, Exclusive, Computed, CommitResponses
        <4>2. responded'
          BY <2>1, <3>4 DEF CommitResponses, RespondedAfterSave
        <4> QED
          BY <1>0, <1>3, <2>0, <3>3, <3>4, <4>1, <4>2, IntendedIsPromised
      <3>5. CASE ~alive
        <4>1. rs[r] = {} /\ table = {}
          BY <2>1, <3>5 DEF Expired, NothingAfterPurge, SharesParticipant, CommitResponses
        <4>2. table' = table /\ responded' = responded
          BY <2>1, <3>1, <3>5, <4>1 DEF CommitResponses, RespondedAfterSave, TypeOK
        <4> QED
          BY <1>1, <2>0, <4>2
      <3> QED
        BY <3>4, <3>5
    <2>2. CASE ~CommitResponses(r)
      <3>1. table' = table /\ responded' = responded
        BY <1>3, <2>2 DEF Handler, Put, LoadPrior, Connect, Fetch,
           ApplyCalendarToResponses, Disconnect, KeepStated, ClearBusyBlocks,
           SaveBusyBlocks, ClearResponses, DeleteRow, InsertRow, InsertConflict,
           CheckForeignKey, Fail, AbortRequest
      <3> QED
        BY <1>1, <2>0, <3>1
    <2> QED
      BY <2>1, <2>2
  <1>4. ASSUME NEW r \in Requests, Handler(r), ~patient
        PROVE  UNCHANGED Promise!vars
    BY <1>0, <1>2, <1>4, OthersStay
  <1>5. ASSUME Purge, patient
        PROVE  [Promise!Next]_(Promise!vars)
    <2>0. patient' = patient
      BY <1>0, <1>5, RequestsStay
    <2>1. CASE SweepCommits
      <3>1. alive' = FALSE /\ responded' = FALSE /\ ResponsesForParticipant' = {}
        BY <2>1, SweepTakesAll DEF SweepCommits, ResponsesForParticipant
      <3> QED
        BY <1>5, <2>0, <3>1 DEF Promise!Next, Promise!Expire
    <2>2. CASE ~SweepCommits
      BY <1>1, <1>5, <2>0, <2>2 DEF Purge, SweepParticipant, DeleteRow, SweepFails
    <2> QED
      BY <2>1, <2>2
  <1>6. ASSUME Purge, ~patient
        PROVE  UNCHANGED Promise!vars
    BY <1>0, <1>2, <1>6, RequestsStay
  <1>7. CASE UNCHANGED vars
    BY <1>1, <1>7 DEF vars, history
  <1> QED
    BY <1>3, <1>4, <1>5, <1>6, <1>7 DEF Next

LEMMA PatientInvariance == Spec => []PatientInv
  <1>1. Init => PatientInv
    <2> SUFFICES ASSUME Init
                 PROVE  PatientInv
      OBVIOUS
    <2>1. /\ table = {} /\ blocks = {} /\ Active = {} /\ Refused = {}
          /\ calendar \notin Requests
          /\ \A r \in Requests : pc[r] = "idle" /\ feed[r] = {} /\ rs[r] = {}
      BY RequestsAssumption DEF Init, Active, Steps, Refused, Refusals
    <2>2. Inferences /\ Handlers /\ Unrefused
      BY <2>1 DEF Inferences, Handlers, Prepared, Unrefused
    <2>3. OneAtATime
      BY <2>1 DEF OneAtATime, Exclusive, Computed
    <2>4. Disconnected
      BY <2>1 DEF Disconnected, Calendar
    <2> QED
      BY <2>2, <2>3, <2>4 DEF PatientInv
  <1>2. Inv /\ PatientInv /\ [Next]_vars => PatientInv'
    <2> SUFFICES ASSUME Inv, PatientInv, [Next]_vars
                 PROVE  PatientInv'
      OBVIOUS
    <2> USE DEF PatientInv
    <2>1. TypeOK /\ Phases
      BY DEF Inv
    <2>2. Inferences' /\ Handlers'
      BY <2>1, InferencesStep, HandlersStep
    <2>3. OneAtATime' /\ Disconnected' /\ Unrefused'
      BY OneAtATimeStep, DisconnectedStep, UnrefusedStep
    <2> QED
      BY <2>2, <2>3
  <1> QED
    BY <1>1, <1>2, Invariance, PTL DEF Spec

\* Neither key conflicts nor deadlocks can end every save of a person: somebody
\* else's went through or is under way; and they never hit a person who waits
\* for each answer, but for the sweep of an expired event.
THEOREM RefusalsHaveRivals == Spec => []RefusedByOverlapOnly
  <1>1. Inv /\ PatientInv => RefusedByOverlapOnly
    BY DEF Inv, PatientInv, Blamed, Somebody, Unrefused, RefusedByOverlapOnly
  <1> QED
    BY <1>1, Invariance, PatientInvariance, PTL

\* What a disconnect of a patient person removed stays removed until they
\* connect again.
THEOREM DisconnectHolds == Spec => []DisconnectIsFinal
  <1>1. PatientInv => DisconnectIsFinal
    BY DEF PatientInv, Disconnected, DisconnectIsFinal
  <1> QED
    BY <1>1, PatientInvariance, PTL

\* To a person who sends one request at a time, the three handlers and the
\* purge are the indivisible operations of Answers.
THEOREM AnswersAreImplemented == Spec => ImplementsAnswers
  <1>1. Init => Promise!Init
    BY DEF Init, Promise!Init, ResponsesForParticipant
  <1>2. Inv /\ PatientInv /\ [Next]_vars => [Promise!Next]_(Promise!vars)
    BY PromiseStep
  <1> QED
    BY <1>1, <1>2, Invariance, PatientInvariance, PTL
    DEF Spec, ImplementsAnswers, Promise!Spec
=============================================================================
