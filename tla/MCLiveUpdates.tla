----------------------------- MODULE MCLiveUpdates -----------------------------
(* Instances of LiveUpdates for TLC. *)
EXTENDS LiveUpdates

CONSTANTS s1, s2
=============================================================================
