--------------------------------- MODULE Decide --------------------------------
(***************************************************************************)
(* Locking a poll onto a slot while people go on answering.                *)
(*                                                                         *)
(* handleDecide reads the participants, then the responses, scores the     *)
(* slots, refuses a vetoed one unless it is forced, and only then updates  *)
(* the event.  Nothing is locked across those steps, so answers, joins,    *)
(* the organizer's other tabs and the expiry sweep come in between.        *)
(***************************************************************************)
EXTENDS Poll

CONSTANT Tabs          \* the organizer's decide requests in flight

VARIABLES
    status,      \* "open" or "decided"; "gone" once the sweep deleted the row
    decided,     \* decided_slot_start, 0 for null
    pc,          \* how far each tab's request is
    pick,        \* the slot it asks for
    force,       \* its force flag
    people,      \* the participants it read, and who of them had responded
    standing     \* history: <<p, s>> with p's veto of s stored ever since

requests == <<pc, pick, force, people, standing>>
decideVars == <<vars, status, decided, requests>>

Nobody == [joined |-> {}, responded |-> {}]

\* A stored answer that rules s out for p: a "no", or a gap once p responded.
Vetoes(p, s) == p \in Required /\ p \in responded
                /\ (s \in DOMAIN rows[p] => rows[p][s] = TierNo)
Vetoed == {v \in People \X Slots : Vetoes(v[1], v[2])}

DInit ==
    /\ Init
    /\ status = "open" /\ decided = 0
    /\ pc = [d \in Tabs |-> "idle"]
    /\ pick = [d \in Tabs |-> 0]
    /\ force = [d \in Tabs |-> FALSE]
    /\ people = [d \in Tabs |-> Nobody]
    /\ standing = [d \in Tabs |-> {}]

\* Joins and submissions go on whatever the status is: no handler looks at it.
Answer ==
    /\ status # "gone"
    /\ Next
    /\ standing' = [d \in Tabs |-> standing[d] \cap Vetoed']
    /\ UNCHANGED <<status, decided, pc, pick, force, people>>

\* The participants are read first.  The reads of the authentication before it
\* find the same event and organizer, and nothing else of them is used.
ReadPeople(d) ==
    /\ pc[d] = "idle" /\ status # "gone"
    /\ \E s \in Slots, f \in BOOLEAN :
        /\ pick' = [pick EXCEPT ![d] = s]
        /\ force' = [force EXCEPT ![d] = f]
    /\ people' = [people EXCEPT ![d] = [joined |-> joined, responded |-> responded]]
    /\ standing' = [standing EXCEPT ![d] = Vetoed]
    /\ pc' = [pc EXCEPT ![d] = "responses"]
    /\ UNCHANGED <<vars, status, decided>>

\* What the request sees: who was there then, and what is stored now.
Seen(d) == Build(people[d].joined, people[d].responded, rows)

\* Mutant: a slot somebody else prefers is not ruled out.
RuledOutByAll(d) == ScoreSlot(pick[d], Seen(d)).eliminated
                    /\ ScoreSlot(pick[d], Seen(d)).coverage = 0

RuledOut(d) == ScoreSlot(pick[d], Seen(d)).eliminated

\* The responses are read, the slots scored, and the check made.
Check(d) ==
    /\ pc[d] = "responses"
    /\ pc' = [pc EXCEPT ![d] = IF RuledOut(d) /\ ~force[d] THEN "idle" ELSE "lock"]
    /\ UNCHANGED <<vars, status, decided, pick, force, people, standing>>

\* Store.Decide: the update has no condition but the id; on a deleted row the
\* handler answers 500.
Lock(d) ==
    /\ pc[d] = "lock"
    /\ pc' = [pc EXCEPT ![d] = "idle"]
    /\ status' = IF status = "gone" THEN "gone" ELSE "decided"
    /\ decided' = IF status = "gone" THEN 0 ELSE pick[d]
    /\ UNCHANGED <<vars, pick, force, people, standing>>

\* A read or the update fails and the handler answers 500.
FailDecide(d) ==
    /\ pc[d] # "idle"
    /\ pc' = [pc EXCEPT ![d] = "idle"]
    /\ UNCHANGED <<vars, status, decided, pick, force, people, standing>>

\* Mutant: the slot stays behind when the event reopens.
ReopenKeepsSlot ==
    /\ status # "gone" /\ status' = "open"
    /\ UNCHANGED <<vars, decided, requests>>

Reopen ==
    /\ status # "gone"
    /\ status' = "open" /\ decided' = 0
    /\ UNCHANGED <<vars, requests>>

\* The sweep deletes the event, and participants and responses with it.
Expire ==
    /\ status # "gone" /\ status' = "gone" /\ decided' = 0
    /\ joined' = {} /\ responded' = {} /\ rows' = [p \in People |-> NoRows]
    /\ standing' = [d \in Tabs |-> {}]
    /\ UNCHANGED <<pc, pick, force, people>>

DNext ==
    \/ Answer \/ Reopen \/ Expire
    \/ \E d \in Tabs : ReadPeople(d) \/ Check(d) \/ Lock(d) \/ FailDecide(d)

DSpec == DInit /\ [][DNext]_decideVars

-----------------------------------------------------------------------------
(* Properties. *)

\* The types, and the table's constraint that exactly a decided event names a
\* slot.
DTypeOK ==
    /\ TypeOK
    /\ status \in {"open", "decided", "gone"}
    /\ decided \in Slots \cup {0}
    /\ (status = "decided") = (decided # 0)
    /\ pc \in [Tabs -> {"idle", "responses", "lock"}]
    /\ pick \in [Tabs -> Slots \cup {0}] /\ force \in [Tabs -> BOOLEAN]
    /\ people \in [Tabs -> [joined : SUBSET People, responded : SUBSET People]]
    /\ standing \in [Tabs -> SUBSET (People \X Slots)]

\* What the check is good for: a request without force never gets to lock a
\* slot that one person has ruled out during the whole request, although what
\* it sees mixes two moments.
StandingVetoRespected ==
    \A d \in Tabs : pc[d] = "lock" /\ ~force[d] =>
        \A p \in People : <<p, pick[d]>> \notin standing[d]
================================================================================
