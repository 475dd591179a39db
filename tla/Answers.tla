-------------------------------- MODULE Answers --------------------------------
(***************************************************************************)
(* What the product promises one participant about their answers: each of  *)
(* submitting, importing a calendar and dropping it is one indivisible     *)
(* change.  A submission replaces what was typed and leaves the calendar   *)
(* only the slots it is silent about; a calendar never touches what was    *)
(* typed; dropping it leaves exactly what was typed.  ResponseStore is the *)
(* program, and implements this for a person who sends one request at a    *)
(* time.                                                                   *)
(***************************************************************************)
CONSTANTS
    Slots,       \* the event's slots
    Statements,  \* complete submissions: sets of typed answers, one per slot
    Feeds,       \* what a calendar may cover: sets of slots
    Inferred(_)  \* the answer a calendar yields for a slot

VARIABLES
    answers,     \* the stored answers
    answered,    \* the participant counts as having answered
    exists       \* the event has not expired

vars == <<answers, answered, exists>>

Typed == {a \in answers : a # Inferred(a.slot)}
Silent(stated) == Slots \ {a.slot : a \in stated}

Init == answers = {} /\ answered = FALSE /\ exists = TRUE

\* Submitting keeps of the calendar what the new statement is silent about.
Submit(stated) ==
    /\ exists
    /\ answers' = stated \cup {a \in answers \ Typed : a.slot \in Silent(stated)}
    /\ answered' = TRUE
    /\ UNCHANGED exists

\* Importing replaces the inferred answers and only those.
Import(covered) ==
    /\ exists
    /\ answers' = Typed \cup {Inferred(s) : s \in covered \cap Silent(Typed)}
    /\ answered' = TRUE
    /\ UNCHANGED exists

Drop ==
    /\ exists
    /\ answers' = Typed
    /\ answered' = TRUE
    /\ UNCHANGED exists

Expire ==
    /\ exists' = FALSE /\ answers' = {} /\ answered' = FALSE

Next ==
    \/ \E stated \in Statements : Submit(stated)
    \/ \E covered \in Feeds : Import(covered)
    \/ Drop
    \/ Expire

Spec == Init /\ [][Next]_vars
=============================================================================
