------------------------------- MODULE MCLifecycle ------------------------------
(* Instances of Lifecycle for TLC: an old and a new binary. *)
EXTENDS Lifecycle

CONSTANTS old, new

MCLatest == [m \in Machines |-> IF m = old THEN 1 ELSE 2]
=============================================================================
