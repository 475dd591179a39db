------------------------------- MODULE RateLimiter -------------------------------
(***************************************************************************)
(* The token buckets behind the routes that anybody may call               *)
(* (ratelimit.Limiter and the middleware rateLimit).  A call reads the     *)
(* clock first and takes the mutex afterwards, so that by the time it is   *)
(* decided its reading may be old; the map of buckets is capped, and full  *)
(* buckets are dropped by a sweep or to make room.                         *)
(*                                                                         *)
(* Tokens are counted in fractions: a request costs Cost of them, and      *)
(* Refill of them appear in a second.  Skew bounds how long a call may     *)
(* wait between its reading and the mutex.                                 *)
(***************************************************************************)
EXTENDS Integers, FiniteSets

CONSTANTS
    Keys,     \* callers' addresses
    Calls,    \* requests, each made once
    Burst,    \* requests a full bucket is good for
    Cost,     \* fractions of a token per request
    Refill,   \* fractions of a token per second
    MaxKeys,  \* buckets the map may hold
    Skew,     \* seconds a call may wait for the mutex
    MaxTime   \* bound of the clock

ASSUME FiniteAssumption == IsFiniteSet(Keys) /\ IsFiniteSet(Calls)
ASSUME RateAssumption ==
    Burst \in Nat \ {0} /\ Cost \in Nat \ {0} /\ Refill \in Nat \ {0}
ASSUME BoundAssumption == MaxKeys \in Nat \ {0} /\ Skew \in Nat /\ MaxTime \in Nat

VARIABLES
    clock,    \* time.Now, in seconds
    buckets,  \* Limiter.buckets, by the keys that have one
    pc,       \* where each call is
    key,      \* whose call it is
    now,      \* what it read off the clock
    grants,   \* history: the calls let through against a bucket
    births,   \* history: the calls that made a bucket
    advice    \* history: until when a refused key was told to wait, or -1
              \* once it was let through again

history == <<grants, births, advice>>
vars == <<clock, buckets, pc, key, now, grants, births, advice>>

Times == 0 .. MaxTime
Depth == Burst * Cost
Bucket == [tokens : 0 .. Depth, last : Times]
Grant == [call : Calls, key : Keys, at : Times]

Init ==
    /\ clock = 0
    /\ buckets = [k \in {} |-> 0]
    /\ pc = [c \in Calls |-> "idle"]
    /\ key \in [Calls -> Keys]
    /\ now = [c \in Calls |-> 0]
    /\ grants = {} /\ births = {}
    /\ advice = [k \in Keys |-> -1]

\* Seconds pass, but no call waits for the mutex longer than Skew.
Tick ==
    /\ clock < MaxTime
    /\ \A c \in Calls : pc[c] = "locking" => clock < now[c] + Skew
    /\ clock' = clock + 1
    /\ UNCHANGED <<buckets, pc, key, now, history>>

-----------------------------------------------------------------------------
\* Mutant: the bucket of any idle key goes, refilled or not.
FullWhenIdle(b, t) == t > b.last

\* A bucket that has refilled says nothing a new one would not.
Full(b, t) == b.tokens + (t - b.last) * Refill >= Depth

\* evictLocked
Evicted(t) ==
    LET kept == {k \in DOMAIN buckets : ~Full(buckets[k], t)}
    IN  [k \in kept |-> buckets[k]]

\* The map when k asks: at the cap, a key without a bucket has it evicted.
Room(k, t) ==
    IF k \in DOMAIN buckets \/ Cardinality(DOMAIN buckets) < MaxKeys
    THEN buckets ELSE Evicted(t)

\* Mutant: the cap is only a reason to evict.
TracksAlways(k, t) == TRUE

\* k has a bucket, or there is room for one.
Tracks(k, t) ==
    k \in DOMAIN Room(k, t) \/ Cardinality(DOMAIN Room(k, t)) < MaxKeys

Least(a, b) == IF a < b THEN a ELSE b

\* The lazy refill: a reading older than the last one changes nothing.
Refilled(b, t) ==
    IF t > b.last
    THEN [tokens |-> Least(Depth, b.tokens + (t - b.last) * Refill), last |-> t]
    ELSE b

\* The bucket k is charged to: its own, or a new full one.
BucketOf(k, t) ==
    IF k \in DOMAIN Room(k, t) THEN Refilled(Room(k, t)[k], t)
    ELSE [tokens |-> Depth, last |-> t]

\* The map once k's bucket is b.
With(k, t, b) ==
    [j \in DOMAIN Room(k, t) \cup {k} |-> IF j = k THEN b ELSE Room(k, t)[j]]

\* Mutant: the header says whole seconds of the wait.
RetryAfterDown(b) == (Cost - b.tokens) \div Refill

\* The Retry-After header: the wait for a whole token, rounded up by a second.
RetryAfter(b) == (Cost - b.tokens) \div Refill + 1

-----------------------------------------------------------------------------
\* Allow reads the clock before it locks.
Read(c) ==
    /\ pc[c] = "idle"
    /\ now' = [now EXCEPT ![c] = clock]
    /\ pc' = [pc EXCEPT ![c] = "locking"]
    /\ UNCHANGED <<clock, buckets, key, history>>

\* The bucket of a key that had none is made.
Born(c) ==
    IF key[c] \in DOMAIN Room(key[c], now[c]) THEN {}
    ELSE {[call |-> c, key |-> key[c], at |-> clock]}

\* The map is full of active keys: let through, and not recorded.
Overflow(c) ==
    /\ pc[c] = "locking" /\ ~Tracks(key[c], now[c])
    /\ buckets' = Room(key[c], now[c])
    /\ pc' = [pc EXCEPT ![c] = "allowed"]
    /\ advice' = [advice EXCEPT ![key[c]] = -1]
    /\ UNCHANGED <<clock, key, now, grants, births>>

Spend(c) ==
    LET b == BucketOf(key[c], now[c])
    IN  /\ pc[c] = "locking" /\ Tracks(key[c], now[c])
        /\ b.tokens >= Cost
        /\ buckets' = With(key[c], now[c], [b EXCEPT !.tokens = @ - Cost])
        /\ pc' = [pc EXCEPT ![c] = "allowed"]
        /\ grants' = grants \cup {[call |-> c, key |-> key[c], at |-> clock]}
        /\ births' = births \cup Born(c)
        /\ advice' = [advice EXCEPT ![key[c]] = -1]
        /\ UNCHANGED <<clock, key, now>>

\* 429 with Retry-After; the refill is kept.
Refuse(c) ==
    LET b == BucketOf(key[c], now[c])
    IN  /\ pc[c] = "locking" /\ Tracks(key[c], now[c])
        /\ b.tokens < Cost
        /\ buckets' = With(key[c], now[c], b)
        /\ pc' = [pc EXCEPT ![c] = "refused"]
        /\ advice' = [advice EXCEPT ![key[c]] = clock + RetryAfter(b)]
        /\ UNCHANGED <<clock, key, now, grants, births>>

\* The sweep reads the clock under the mutex.
Sweep ==
    /\ buckets' = Evicted(clock)
    /\ UNCHANGED <<clock, pc, key, now, history>>

Next ==
    \/ Tick \/ Sweep
    \/ \E c \in Calls : Read(c) \/ Overflow(c) \/ Spend(c) \/ Refuse(c)

Spec == Init /\ [][Next]_vars

-----------------------------------------------------------------------------
(* Properties. *)

\* The types; in particular the map never outgrows its cap, however many
\* addresses call.
TypeOK ==
    /\ clock \in Times
    /\ DOMAIN buckets \subseteq Keys /\ Cardinality(DOMAIN buckets) <= MaxKeys
    /\ \A k \in DOMAIN buckets : buckets[k] \in Bucket
    /\ pc \in [Calls -> {"idle", "locking", "allowed", "refused"}]
    /\ key \in [Calls -> Keys] /\ now \in [Calls -> Times]
    /\ grants \subseteq Grant /\ births \subseteq Grant
    /\ advice \in [Keys -> {-1} \cup Nat]

During(calls, k, from, to) ==
    Cardinality({g \in calls : g.key = k /\ from <= g.at /\ g.at <= to})

\* Burst at once and Refill sustained, over any stretch of time: readings that
\* arrive out of order, dropping a bucket and making it anew give a key no more
\* than the waits for the mutex are worth, once for the stretch and once for
\* every bucket made in it.  (evictLocked: "a bucket that has refilled to full
\* carries no information a new one would not have".)
WithinBudget ==
    \A k \in Keys : \A from, to \in Times :
        from <= to =>
            Cost * During(grants, k, from, to)
              <= Depth + Refill * (to - from + Skew * (1 + During(births, k, from, to)))

\* A caller who waits for as long as Retry-After said and is alone on its
\* address is let through: "a client that respects it stops guessing".
RetryAfterIsEnough ==
    \A k \in DOMAIN buckets :
        advice[k] # -1 /\ clock >= advice[k] =>
            buckets[k].tokens + (clock - buckets[k].last) * Refill >= Cost
=============================================================================
