---------------------------- MODULE MCResponseStore ----------------------------
(* Instances of ResponseStore for TLC: two slots, submissions that name one,
   the other, both in both granularities, or neither.  All properties are
   safety properties and nothing tells requests apart. *)
EXTENDS ResponseStore, TLC

CONSTANTS s1, s2

MCSubmissions ==
    {[coarse |-> {s1, s2}, fine |-> {s2}], [coarse |-> {}, fine |-> {s1}],
     [coarse |-> {s2}, fine |-> {}], [coarse |-> {}, fine |-> {}]}
MCFeeds == {{}, {s1}, {s2}}

AlikeRequests == Permutations(Requests)
=============================================================================
