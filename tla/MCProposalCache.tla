---------------------------- MODULE MCProposalCache ----------------------------
(* Instances of ProposalCache for TLC. *)
EXTENDS ProposalCache

CONSTANTS c1, c2, m1, m2
=============================================================================
