---------------------------------- MODULE Events --------------------------------
(***************************************************************************)
(* An event, for the modules about what people do with one: its window as  *)
(* the organizer stored it, and the slots every handler expands from it.   *)
(***************************************************************************)
EXTENDS Slots

CONSTANT Windows   \* the windows an organizer may ask for
ASSUME WindowsAssumption == Windows \subseteq Window

VARIABLES
    window,    \* the stored event's window, or <<>>
    grid       \* its slots

event == <<window, grid>>
SlotSet == {grid[i] : i \in DOMAIN grid}
NoEvent == window = <<>> /\ grid = <<>>

\* POST /events: a window that does not expand is never stored.
Created(w) ==
    /\ window = <<>> /\ ~Rejected(w)
    /\ window' = w /\ grid' = Expand(w).starts
=============================================================================
