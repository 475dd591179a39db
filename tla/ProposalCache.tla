----------------------------- MODULE ProposalCache -----------------------------
(***************************************************************************)
(* GET /api/groups/{slug}/proposal: callers ask for a group event's        *)
(* proposal, and proposalCache.Do decides who refreshes the members'       *)
(* calendars.  An answer is kept for the cooldown; callers that miss it    *)
(* together share one computation (golang.org/x/sync/singleflight); the    *)
(* computation fetches every calendar in a goroutine of its own, at most   *)
(* MaxFetches at a time, under the context of the caller that runs it.     *)
(*                                                                         *)
(* An answer is abstracted to whose calendars it considered and when the   *)
(* refreshing began.                                                       *)
(***************************************************************************)
EXTENDS Naturals, FiniteSets, Functions

CONSTANTS
    Callers,     \* HTTP requests that may be served at once
    Events,      \* open events that belong to a group
    Members,     \* the group's members with a calendar connected
    TTL,         \* the cooldown, PROPOSAL_COOLDOWN
    FetchTime,   \* how long a computation takes at most
    MaxFetches,  \* maxConcurrentCalendarFetches, 8 in the code
    MaxCached,   \* maxCachedProposals, 2000 in the code
    MaxTime,     \* bound of the clock
    Nobody

ASSUME NobodyAssumption == Nobody \notin Callers
ASSUME MembersAssumption == IsFiniteSet(Members)
ASSUME EventsAssumption == IsFiniteSet(Events)
ASSUME NumbersAssumption ==
    /\ TTL \in Nat \ {0} /\ FetchTime \in Nat /\ MaxFetches \in Nat \ {0}
    /\ MaxCached \in Nat \ {0} /\ MaxTime \in Nat

VARIABLES
    now,
    values,      \* proposalCache.values: by event, the stored answer
    flight,      \* singleflight: by event, the caller that runs fn, or Nobody
    pc,          \* where each caller's handler is
    event,       \* the event it asks about
    gone,        \* its client has left, which cancels the request's context
    todo, busy,  \* members still to be fetched, and being fetched, for it
    answer,      \* what fn returns, or is about to
    age          \* history: how old the answer it got last was

handlers == <<pc, event, gone>>
fetches == <<todo, busy>>
vars == <<now, values, flight, pc, event, gone, todo, busy, answer, age>>

Proposal == [considered : SUBSET Members, since : 0 .. MaxTime]
Cached == [considered : SUBSET Members, since : 0 .. MaxTime, at : 0 .. MaxTime]
NoProposal == [considered |-> {}, since |-> 0]

\* The states of a caller that runs fn for its event.
Leading == {"recheck", "list", "fetch", "store", "return", "error"}

Init ==
    /\ now = 0 /\ values = [k \in {} |-> NoProposal]
    /\ flight = [k \in Events |-> Nobody]
    /\ pc = [c \in Callers |-> "idle"]
    /\ event \in [Callers -> Events]
    /\ gone = [c \in Callers |-> FALSE]
    /\ todo = [c \in Callers |-> {}] /\ busy = [c \in Callers |-> {}]
    /\ answer = [c \in Callers |-> NoProposal]
    /\ age = [c \in Callers |-> 0]

Goto(c, label) == pc' = [pc EXCEPT ![c] = label]

-----------------------------------------------------------------------------
(* The cache. *)

\* Mutant: an answer that has just reached the cooldown is still served.
FreshTooLong(k) == k \in DOMAIN values /\ now - values[k].at <= TTL

\* proposalCache.lookup finds an answer.
Fresh(k) == k \in DOMAIN values /\ now - values[k].at < TTL

\* proposalCache.store: a full map first loses what is stale, and an answer
\* for which there is no room then is not kept.
Stored(k, v) ==
    LET full(f) == Cardinality(DOMAIN f) >= MaxCached
        kept == IF full(values) THEN Restrict(values, {x \in DOMAIN values : Fresh(x)})
                ELSE values
    IN  IF full(kept) THEN kept
        ELSE [x \in DOMAIN kept \cup {k} |-> IF x = k THEN v ELSE kept[x]]

-----------------------------------------------------------------------------
(* A caller. *)

\* The first lookup, outside the single-flight group, finds an answer ...
AskHit(c, k) ==
    /\ pc[c] = "idle" /\ Fresh(k)
    /\ age' = [age EXCEPT ![c] = now - values[k].since]
    /\ UNCHANGED <<now, values, flight, handlers, fetches, answer>>

\* ... or does not.
AskMiss(c, k) ==
    /\ pc[c] = "idle" /\ ~Fresh(k)
    /\ Goto(c, "join")
    /\ event' = [event EXCEPT ![c] = k]
    /\ age' = [age EXCEPT ![c] = 0]
    /\ UNCHANGED <<now, values, flight, gone, fetches, answer>>

\* Mutant: every caller that missed computes.
JoinAlone(c) ==
    /\ pc[c] = "join" /\ Goto(c, "recheck")
    /\ flight' = [flight EXCEPT ![event[c]] = c]
    /\ UNCHANGED <<now, values, event, gone, fetches, answer, age>>

\* group.Do: the first caller runs fn, the others wait for what it returns.
Join(c) ==
    /\ pc[c] = "join"
    /\ IF flight[event[c]] = Nobody
       THEN flight' = [flight EXCEPT ![event[c]] = c] /\ Goto(c, "recheck")
       ELSE flight' = flight /\ Goto(c, "wait")
    /\ UNCHANGED <<now, values, event, gone, fetches, answer, age>>

\* Mutant: no second lookup.
RecheckNothing(c) ==
    /\ pc[c] = "recheck" /\ Goto(c, "list")
    /\ UNCHANGED <<now, values, flight, event, gone, fetches, answer, age>>

\* The second lookup, inside the group.
Recheck(c) ==
    /\ pc[c] = "recheck"
    /\ IF Fresh(event[c])
       THEN /\ answer' = [answer EXCEPT ![c] =
                    [considered |-> values[event[c]].considered,
                     since |-> values[event[c]].since]]
            /\ Goto(c, "return")
       ELSE answer' = answer /\ Goto(c, "list")
    /\ UNCHANGED <<now, values, flight, event, gone, fetches, age>>

\* computeGroupProposal lists the members ...
List(c) ==
    /\ pc[c] = "list" /\ ~gone[c]
    /\ Goto(c, "fetch")
    /\ todo' = [todo EXCEPT ![c] = Members]
    /\ answer' = [answer EXCEPT ![c] = [considered |-> {}, since |-> now]]
    /\ UNCHANGED <<now, values, flight, event, gone, busy, age>>

\* ... or fails, as it does once the context is cancelled.
ListFails(c) ==
    /\ pc[c] = "list" /\ Goto(c, "error")
    /\ UNCHANGED <<now, values, flight, event, gone, fetches, answer, age>>

\* A member's goroutine gets past the semaphore.
StartFetch(c, m) ==
    /\ pc[c] = "fetch" /\ m \in todo[c] /\ Cardinality(busy[c]) < MaxFetches
    /\ todo' = [todo EXCEPT ![c] = @ \ {m}]
    /\ busy' = [busy EXCEPT ![c] = @ \cup {m}]
    /\ UNCHANGED <<now, values, flight, handlers, answer, age>>

\* The refresh succeeds, unless the context has been cancelled.
FetchOK(c, m) ==
    /\ pc[c] = "fetch" /\ m \in busy[c] /\ ~gone[c]
    /\ busy' = [busy EXCEPT ![c] = @ \ {m}]
    /\ answer' = [answer EXCEPT ![c].considered = @ \cup {m}]
    /\ UNCHANGED <<now, values, flight, handlers, todo, age>>

\* The refresh fails, which is logged: the member is left out.
FetchFails(c, m) ==
    /\ pc[c] = "fetch" /\ m \in busy[c]
    /\ busy' = [busy EXCEPT ![c] = @ \ {m}]
    /\ UNCHANGED <<now, values, flight, handlers, todo, answer, age>>

\* Mutant: the goroutines are not waited for.
ComputeUnwaited(c) ==
    /\ pc[c] = "fetch" /\ todo[c] = {}
    /\ Goto(c, "store")
    /\ UNCHANGED <<now, values, flight, event, gone, fetches, answer, age>>

\* All goroutines are done, and proposal.Best returns a result.
Compute(c) ==
    /\ pc[c] = "fetch" /\ todo[c] = {} /\ busy[c] = {}
    /\ Goto(c, "store")
    /\ UNCHANGED <<now, values, flight, event, gone, fetches, answer, age>>

Store(c) ==
    /\ pc[c] = "store" /\ Goto(c, "return")
    /\ values' = Stored(event[c], [considered |-> answer[c].considered,
                                   since |-> answer[c].since, at |-> now])
    /\ UNCHANGED <<now, flight, event, gone, fetches, answer, age>>

\* Mutant: an error is reported to the caller that met it only.
SharingReturned(c) ==
    {c} \cup {d \in Callers : pc[d] = "wait" /\ event[d] = event[c] /\ pc[c] = "return"}

\* Those fn's outcome, a result or an error, is handed to.
Sharing(c) == {c} \cup {d \in Callers : pc[d] = "wait" /\ event[d] = event[c]}

\* fn has returned: the flight ends, and everybody who waited is answered.
EndFlight(c) ==
    /\ pc[c] \in {"return", "error"}
    /\ flight' = [flight EXCEPT ![event[c]] = Nobody]
    /\ pc' = [d \in Callers |-> IF d \in Sharing(c) THEN "idle" ELSE pc[d]]
    /\ gone' = [d \in Callers |-> gone[d] /\ d \notin Sharing(c)]
    /\ age' = [d \in Callers |-> IF d \in Sharing(c) /\ pc[c] = "return"
                                 THEN now - answer[c].since ELSE age[d]]
    /\ answer' = [answer EXCEPT ![c] = NoProposal]
    /\ UNCHANGED <<now, values, event, fetches>>

Handle(c) ==
    \/ Join(c) \/ Recheck(c)
    \/ List(c) \/ ListFails(c)
    \/ \E m \in Members : StartFetch(c, m) \/ FetchOK(c, m) \/ FetchFails(c, m)
    \/ Compute(c) \/ Store(c) \/ EndFlight(c)

-----------------------------------------------------------------------------
(* The environment. *)

\* A client leaves; its handler runs on with a cancelled context.
Leave(c) ==
    /\ pc[c] # "idle" /\ ~gone[c]
    /\ gone' = [gone EXCEPT ![c] = TRUE]
    /\ UNCHANGED <<now, values, flight, pc, event, fetches, answer, age>>

\* Time passes, but no computation is let run for longer than its fetches may
\* take, and what it does after them takes no time in comparison.
Tick ==
    /\ now < MaxTime
    /\ \A c \in Callers :
        /\ pc[c] = "fetch" => now - answer[c].since < FetchTime
        /\ pc[c] \notin {"store", "return", "error"}
    /\ now' = now + 1
    /\ UNCHANGED <<values, flight, handlers, fetches, answer, age>>

Next ==
    \/ Tick
    \/ \E c \in Callers :
        \/ \E k \in Events : AskHit(c, k) \/ AskMiss(c, k)
        \/ Leave(c) \/ Handle(c)

Spec == Init /\ [][Next]_vars

\* Handlers run on, and a fetch ends at the latest when it times out.  Nobody
\* has to ask.
FairSpec == Spec /\ \A c \in Callers : WF_vars(Handle(c))

-----------------------------------------------------------------------------
(* Properties. *)

\* The types; and no goroutine outlives the computation it belongs to.
TypeOK ==
    /\ now \in 0 .. MaxTime
    /\ DOMAIN values \subseteq Events /\ values \in [DOMAIN values -> Cached]
    /\ flight \in [Events -> Callers \cup {Nobody}]
    /\ pc \in [Callers -> {"idle", "join", "wait"} \cup Leading]
    /\ event \in [Callers -> Events]
    /\ gone \in [Callers -> BOOLEAN]
    /\ todo \in [Callers -> SUBSET Members] /\ busy \in [Callers -> SUBSET Members]
    /\ \A c \in Callers : pc[c] # "fetch" => todo[c] = {} /\ busy[c] = {}
    /\ answer \in [Callers -> Proposal]
    /\ age \in [Callers -> 0 .. MaxTime]

\* The map of answers never outgrows its bound.
CacheBounded == Cardinality(DOMAIN values) <= MaxCached

\* However many callers ask, an event's members are fetched by one
\* computation, with no more connections at a time than one may open.
\* ("Keying the guard on the event instead caps the outbound work no matter
\* how many callers ask.")
OutboundBounded ==
    \A k \in Events :
        Cardinality({f \in Callers \X Members : event[f[1]] = k /\ f[2] \in busy[f[1]]})
            <= MaxFetches

\* Calendars are never refreshed while an answer that would do is stored, also
\* when it was stored after the caller had looked.
NoNeedlessFanOut == \A c \in Callers : pc[c] \in {"list", "fetch"} => ~Fresh(event[c])

\* No answer rests on calendars read as long ago as the cooldown and one
\* computation together: the age counts from the start of the refresh, although
\* the cooldown counts from its end.
AnswersAreRecent == \A c \in Callers : age[c] < TTL + FetchTime

\* Whoever waits for somebody else's computation is answered, also when the
\* other's client leaves or its computation fails.
WaitersAreAnswered == \A c \in Callers : pc[c] = "wait" ~> pc[c] = "idle"
=============================================================================
