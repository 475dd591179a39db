---------------------------------- MODULE Poll ---------------------------------
(***************************************************************************)
(* An open poll over time: people join, submit and resubmit, and after     *)
(* every change the solver ranks the slots and says whether to go on       *)
(* waiting.  A submission is one step, which is what ResponseStore shows   *)
(* it to be for a person who sends one request at a time.                  *)
(***************************************************************************)
EXTENDS Solver

CONSTANT Submissions   \* stored rows a person may end up with: [S -> Tiers]
ASSUME SubmissionsAssumption ==
    \A rows \in Submissions : \E S \in SUBSET Slots : rows \in [S -> Tiers]

VARIABLES
    joined,      \* the event's participants
    responded,   \* those with responded_at set
    rows         \* their stored responses

vars == <<joined, responded, rows>>

NoRows == [s \in {} |-> TierNo]

\* results.Build: who responded answered every slot, a gap meaning "no"; who
\* has not is unknown everywhere.
Build(ps, done, stored) ==
    [p \in ps |-> [s \in Slots |->
        IF p \notin done THEN Unknown
        ELSE IF s \in DOMAIN stored[p] THEN stored[p][s] ELSE TierNo]]

View == Build(joined, responded, rows)

Init == joined = {} /\ responded = {} /\ rows = [p \in People |-> NoRows]

Join(p) ==
    /\ p \notin joined
    /\ joined' = joined \cup {p}
    /\ UNCHANGED <<responded, rows>>

Submit(p) ==
    /\ p \in joined
    /\ \E stored \in Submissions : rows' = [rows EXCEPT ![p] = stored]
    /\ responded' = responded \cup {p}
    /\ UNCHANGED joined

Next == \E p \in People : Join(p) \/ Submit(p)
Spec == Init /\ [][Next]_vars

-----------------------------------------------------------------------------
(* Properties. *)

TypeOK ==
    /\ joined \subseteq People /\ responded \subseteq joined
    /\ rows \in [People -> Submissions \cup {NoRows}]

\* Every way the outstanding people may still answer.
Completions(g) ==
    {[p \in DOMAIN g |-> IF p \in Missing(g) THEN late[p] ELSE g[p]] :
        late \in [Missing(g) -> [Slots -> Tiers]]}

\* s survives in c, and no surviving slot scores above it.
Stands(s, c) ==
    LET score == Scores(c)
    IN  /\ ~score[s].eliminated
        /\ \A o \in Slots : score[o].eliminated \/ ~Above(score[o], score[s])

\* "Decide now" is safe: however the outstanding people answer, the leader
\* survives and no surviving slot ends up scoring above it.
DecidableStands ==
    LET d == Analyze(View)
    IN  d.decidable => \A c \in Completions(View) : Stands(d.leader, c)

\* Analyze bounds slots one at a time instead of enumerating completions, and
\* loses nothing by it: the page says the poll can be decided exactly when some
\* slot stands in every completion, and the leader it names is such a slot.
DecidableIsExact ==
    LET d == Analyze(View)
    IN  IF Verdict(d, RankWithHistory(View, Affinity)) = "decidable"
        THEN \E s \in Slots : /\ s = d.leader
                             /\ \A c \in Completions(View) : Stands(s, c)
        ELSE \A s \in Slots : \E c \in Completions(View) : ~Stands(s, c)

\* Every slot is ranked, the ruled out ones behind all others, and none directly
\* behind one it beats by more than the tolerance.
RankingIsOrdered ==
    LET ranked == RankWithHistory(View, Affinity)
    IN  /\ {ranked[k] : k \in Slots} = {ScoreSlot(s, View) : s \in Slots}
        /\ \A k, l \in Slots : k < l /\ ranked[k].eliminated => ranked[l].eliminated
        /\ \A k \in Slots \ {1} :
               ~ranked[k].eliminated => ~FarAbove(ranked[k], ranked[k - 1])

\* a is better than b by n tolerances at most.
Within(a, b, n) == a.num * b.den - b.num * a.den <= n * (HistoryEpsilon * (a.den * b.den))

\* The ranking and the verdict shown beside it tell one story although they
\* are computed apart, one with the group's habit and a tolerance, the other
\* without: once nobody is outstanding, the slot ranked first is as good as the
\* leader but for one tolerance per place that the leader is behind it.
RankingFitsVerdict ==
    LET ranked == RankWithHistory(View, Affinity)
        d == Analyze(View)
    IN  Verdict(d, ranked) = "decidable" /\ Missing(View) = {} =>
            \E k \in Slots : /\ ranked[k] = ScoreSlot(d.leader, View)
                            /\ Within(ranked[k], ranked[1], k - 1)

\* "A slot whose score differs by more than HistoryEpsilon can never be
\* overturned by history": the ranking puts no surviving slot behind one it
\* beats by more than the tolerance, unless it would without any habit.
HistoryNeverOverturns ==
    LET ranked == RankWithHistory(View, Affinity)
        plain == RankWithHistory(View, [s \in Slots |-> 0])
    IN  \A k, l \in Slots :
            k < l /\ ~ranked[l].eliminated /\ FarAbove(ranked[l], ranked[k]) =>
                \E i, j \in Slots : i < j /\ plain[i] = ranked[k] /\ plain[j] = ranked[l]

\* The field relevantNonResponders narrows is the true one: a slot is a
\* possible winner exactly when it stands in some completion.
WinnersArePossible ==
    PossibleWinners(View) =
        {s \in Slots : \E c \in Completions(View) : Stands(s, c)}
=============================================================================
