---------------------------- MODULE RateLimiterProofs ----------------------------
(***************************************************************************)
(* What the rate limiter promises for any number of callers and calls, any *)
(* rates and any wait for the mutex: the map stays within its cap, nobody  *)
(* gets more than their budget, and a refused caller who waits as told is  *)
(* let through.                                                            *)
(***************************************************************************)
EXTENDS RateLimiter, FiniteSetTheorems, TLAPS

-----------------------------------------------------------------------------
(* The inductive invariant. *)

\* A call's reading is of the past, and at most Skew old while the call waits.
ReadingsAreRecent ==
    \A c \in Calls : now[c] <= clock /\ (pc[c] = "locking" => clock <= now[c] + Skew)

BucketsAreOfThePast == \A k \in DOMAIN buckets : buckets[k].last <= clock

\* The histories are finite, and only calls that were let through are in them.
HistoryIsPast ==
    /\ IsFiniteSet(grants) /\ IsFiniteSet(births)
    /\ \A g \in grants \cup births : g.at <= clock /\ pc[g.call] = "allowed"

\* Whoever was told when to come back finds a token in the bucket by then.
AdviceHolds ==
    \A k \in DOMAIN buckets :
        advice[k] # -1 =>
            buckets[k].tokens + (advice[k] - buckets[k].last) * Refill >= Cost

\* What refills from a time to another, and what the waits for the mutex add.
Allowance(k, from, to) == Refill * (to - from + Skew * (1 + During(births, k, from, clock)))

\* What a key was granted since a time, and what its bucket still holds, came out
\* of one full bucket and the refills up to the last of them; once the bucket was
\* dropped as full, out of the refills alone.
AccountedSince(k, from) ==
    During(grants, k, from, clock) # 0 =>
        IF k \in DOMAIN buckets
        THEN Cost * During(grants, k, from, clock) + buckets[k].tokens
               <= Depth + Allowance(k, from, buckets[k].last)
        ELSE Cost * During(grants, k, from, clock) <= Allowance(k, from, clock)

Accounted == \A k \in Keys : \A from \in 0 .. clock : AccountedSince(k, from)

Inv ==
    /\ TypeOK /\ ReadingsAreRecent /\ BucketsAreOfThePast /\ HistoryIsPast
    /\ AdviceHolds /\ Accounted /\ WithinBudget

-----------------------------------------------------------------------------
(* Numbers. *)

\* A full bucket is good for a request at least.
LEMMA Rates ==
    /\ Burst \in Nat \ {0} /\ Cost \in Nat \ {0} /\ Refill \in Nat \ {0}
    /\ Skew \in Nat /\ MaxTime \in Nat /\ MaxKeys \in Nat \ {0}
    /\ Depth \in Nat /\ Cost <= Depth
<1>1. /\ Burst \in Nat \ {0} /\ Cost \in Nat \ {0} /\ Refill \in Nat \ {0}
      /\ Skew \in Nat /\ MaxTime \in Nat /\ MaxKeys \in Nat \ {0}
  BY RateAssumption, BoundAssumption
<1>2. \A m, n \in Nat : m * n \in Nat
  OBVIOUS
<1>3. Burst * Cost = Cost + (Burst - 1) * Cost /\ (Burst - 1) * Cost \in Nat
  BY <1>1, <1>2
<1> QED BY <1>1, <1>2, <1>3 DEF Depth

LEMMA TimesFacts == \A t \in Times : t \in Nat /\ t <= MaxTime
BY Rates DEF Times

\* More time refills more.
LEMMA RefillGrows ==
    ASSUME NEW a \in Int, NEW b \in Int, a <= b
    PROVE  Refill * a <= Refill * b
<1>1. \A m, n \in Nat : m * n \in Nat
  OBVIOUS
<1>2. Refill \in Nat /\ b - a \in Nat
  BY Rates
<1>3. Refill * (b - a) \in Nat
  BY <1>1, <1>2
<1>4. Refill * (b - a) = Refill * b - Refill * a
  BY <1>2
<1> QED BY <1>2, <1>3, <1>4

\* The seconds of Retry-After are enough for what is missing.
LEMMA RoundedUp ==
    ASSUME NEW a \in Nat
    PROVE  a \div Refill + 1 \in Nat /\ a <= (a \div Refill + 1) * Refill
<1>1. Refill \in Nat /\ Refill > 0
  BY Rates
<1>2. a \div Refill \in Nat
  BY <1>1
<1>4. a = Refill * (a \div Refill) + (a % Refill)
  BY <1>1
<1>5. a % Refill \in 0 .. Refill - 1
  BY <1>1
<1>3. (a \div Refill + 1) * Refill = Refill * (a \div Refill) + Refill
  BY <1>1, <1>2
<1> QED BY <1>1, <1>2, <1>3, <1>4, <1>5

-----------------------------------------------------------------------------
(* Buckets. *)

LEMMA BucketFacts ==
    ASSUME NEW b \in Bucket
    PROVE  /\ b.tokens \in Nat /\ b.tokens <= Depth /\ b.last \in Times /\ b.last \in Nat
           /\ b = [tokens |-> b.tokens, last |-> b.last]
BY Rates, TimesFacts DEF Bucket

LEMMA MakeBucket ==
    ASSUME NEW n \in Nat, n <= Depth, NEW t \in Times
    PROVE  [tokens |-> n, last |-> t] \in Bucket
BY Rates DEF Bucket

\* Refilling gives no more than the time since is worth.
LEMMA RefilledFacts ==
    ASSUME NEW b \in Bucket, NEW t \in Times
    PROVE  /\ Refilled(b, t) \in Bucket
           /\ Refilled(b, t).last = (IF t > b.last THEN t ELSE b.last)
           /\ Refilled(b, t).tokens <= b.tokens + (Refilled(b, t).last - b.last) * Refill
<1>1. b.tokens \in Nat /\ b.tokens <= Depth /\ b.last \in Nat /\ t \in Nat /\ Depth \in Nat
  BY BucketFacts, TimesFacts, Rates
<1>2. CASE ~(t > b.last)
  <2>1. Refilled(b, t) = b /\ (b.last - b.last) * Refill = 0
    BY <1>1, <1>2, Rates DEF Refilled
  <2> QED BY <1>1, <1>2, <2>1
<1>3. CASE t > b.last
  <2> DEFINE more == (t - b.last) * Refill
             new  == Least(Depth, b.tokens + more)
  <2>1. more \in Nat
    <3>1. \A m, n \in Nat : m * n \in Nat
      OBVIOUS
    <3>2. t - b.last \in Nat
      BY <1>1, <1>3
    <3> QED BY <3>1, <3>2, Rates
  <2> HIDE DEF more
  <2>2. new \in Nat /\ new <= Depth /\ new <= b.tokens + more
    BY <1>1, <2>1 DEF Least
  <2>3. Refilled(b, t) = [tokens |-> new, last |-> t]
    BY <1>3 DEF Refilled, more
  <2> HIDE DEF new
  <2>4. Refilled(b, t) \in Bucket
    BY <2>2, <2>3, MakeBucket
  <2>5. Refilled(b, t).last = t /\ Refilled(b, t).tokens = new
    BY <2>3
  <2> QED BY <1>3, <2>2, <2>4, <2>5 DEF more
<1> QED BY <1>2, <1>3

\* Making room drops full buckets only, and not the caller's.
LEMMA RoomFacts ==
    ASSUME NEW k, NEW t, NEW D, D = DOMAIN Room(k, t)
    PROVE  /\ D \subseteq DOMAIN buckets
           /\ \A j \in D : Room(k, t)[j] = buckets[j]
           /\ \A j \in DOMAIN buckets \ D : Full(buckets[j], t)
           /\ k \in DOMAIN buckets => k \in D
BY DEF Room, Evicted

\* What With leaves of the map.
LEMMA WithFacts ==
    ASSUME NEW k, NEW t, NEW b, buckets' = With(k, t, b)
    PROVE  /\ DOMAIN buckets' = DOMAIN Room(k, t) \cup {k}
           /\ buckets'[k] = b
           /\ \A j \in DOMAIN buckets' : j # k => j \in DOMAIN buckets /\ buckets'[j] = buckets[j]
           /\ \A j \in DOMAIN buckets \ DOMAIN buckets' : j # k /\ Full(buckets[j], t)
           /\ k \in DOMAIN Room(k, t) <=> k \in DOMAIN buckets
BY RoomFacts DEF With

LEMMA WithSelf ==
    ASSUME NEW k, NEW t, NEW b
    PROVE  With(k, t, b)[k] = b /\ k \in DOMAIN With(k, t, b)
BY DEF With

\* What the caller finds.
LEMMA BucketOfFacts ==
    ASSUME NEW k \in Keys, NEW t \in Times, \A j \in DOMAIN buckets : buckets[j] \in Bucket
    PROVE  /\ BucketOf(k, t) \in Bucket
           /\ k \in DOMAIN buckets => BucketOf(k, t) = Refilled(buckets[k], t)
           /\ k \notin DOMAIN buckets => BucketOf(k, t) = [tokens |-> Depth, last |-> t]
<1>1. /\ DOMAIN Room(k, t) \subseteq DOMAIN buckets
      /\ \A j \in DOMAIN Room(k, t) : Room(k, t)[j] = buckets[j]
      /\ k \in DOMAIN buckets => k \in DOMAIN Room(k, t)
  BY RoomFacts
<1>2. CASE k \in DOMAIN buckets
  <2>1. BucketOf(k, t) = Refilled(buckets[k], t)
    BY <1>1, <1>2 DEF BucketOf
  <2> QED BY <1>2, <2>1, RefilledFacts
<1>3. CASE k \notin DOMAIN buckets
  <2>1. BucketOf(k, t) = [tokens |-> Depth, last |-> t]
    BY <1>1, <1>3 DEF BucketOf
  <2>2. [tokens |-> Depth, last |-> t] \in Bucket
    BY MakeBucket, Rates
  <2> QED BY <1>3, <2>1, <2>2
<1> QED BY <1>2, <1>3

-----------------------------------------------------------------------------
(* Counting. *)

LEMMA DuringType ==
    ASSUME NEW calls, IsFiniteSet(calls), NEW k, NEW from, NEW to
    PROVE  During(calls, k, from, to) \in Nat
<1>1. {g \in calls : g.key = k /\ from <= g.at /\ g.at <= to} \in SUBSET calls
  OBVIOUS
<1> QED BY <1>1, FS_Subset, FS_CardinalityType DEF During

\* One call more counts if it is in the stretch, and the key's.
LEMMA DuringOneMore ==
    ASSUME NEW calls, IsFiniteSet(calls), NEW g, g \notin calls, NEW k, NEW from, NEW to
    PROVE  During(calls \cup {g}, k, from, to)
             = During(calls, k, from, to)
               + (IF g.key = k /\ from <= g.at /\ g.at <= to THEN 1 ELSE 0)
<1> DEFINE In(x) == x.key = k /\ from <= x.at /\ x.at <= to
           old == {x \in calls : In(x)}
           new == {x \in calls \cup {g} : In(x)}
<1>1. IsFiniteSet(old)
  <2>1. old \in SUBSET calls
    OBVIOUS
  <2> QED BY <2>1, FS_Subset
<1>2. Cardinality(old) \in Nat
  BY <1>1, FS_CardinalityType
<1>3. CASE In(g)
  <2>1. new = old \cup {g} /\ g \notin old
    BY <1>3
  <2>2. Cardinality(new) = Cardinality(old) + 1
    BY <1>1, <2>1, FS_AddElement
  <2> QED BY <1>3, <2>2 DEF During
<1>4. CASE ~In(g)
  <2>1. Cardinality(new) = Cardinality(old) + 0
    <3>1. new = old
      BY <1>4
    <3>2. Cardinality(new) = Cardinality(old)
      BY <3>1
    <3> HIDE DEF old, new
    <3> QED BY <1>2, <3>2
  <2> QED BY <1>4, <2>1 DEF During
<1> QED BY <1>3, <1>4

\* Nothing is in the future of the histories.
LEMMA DuringPast ==
    ASSUME NEW calls, NEW k, NEW from, NEW now1 \in Nat, NEW to \in Nat, now1 <= to,
           \A g \in calls : g.at \in Nat /\ g.at <= now1
    PROVE  During(calls, k, from, to) = During(calls, k, from, now1)
<1>1. \A g \in calls : g.at <= to /\ g.at <= now1
  OBVIOUS
<1>2. {g \in calls : g.key = k /\ from <= g.at /\ g.at <= to}
        = {g \in calls : g.key = k /\ from <= g.at /\ g.at <= now1}
  BY <1>1
<1> QED BY <1>2 DEF During

LEMMA DuringFuture ==
    ASSUME NEW calls, NEW k, NEW from \in Nat, NEW to, NEW now1 \in Nat, now1 < from,
           \A g \in calls : g.at \in Nat /\ g.at <= now1
    PROVE  During(calls, k, from, to) = 0
<1>1. {g \in calls : g.key = k /\ from <= g.at /\ g.at <= to} = {}
  OBVIOUS
<1> QED BY <1>1, FS_EmptySet DEF During

-----------------------------------------------------------------------------
(* Types and the past. *)

\* The map never outgrows its cap.
LEMMA CapHolds ==
    ASSUME TypeOK, NEW k \in Keys, NEW t, NEW b, Tracks(k, t), buckets' = With(k, t, b)
    PROVE  DOMAIN buckets' \subseteq Keys /\ Cardinality(DOMAIN buckets') <= MaxKeys
<1> DEFINE D == DOMAIN Room(k, t)
<1>1. D \subseteq DOMAIN buckets /\ DOMAIN buckets' = D \cup {k}
  BY RoomFacts, WithFacts
<1>2. DOMAIN buckets \subseteq Keys /\ IsFiniteSet(Keys)
  BY FiniteAssumption DEF TypeOK
<1> HIDE DEF D
<1>3. IsFiniteSet(DOMAIN buckets) /\ IsFiniteSet(D) /\ Cardinality(D) <= Cardinality(DOMAIN buckets)
  <2>1. IsFiniteSet(DOMAIN buckets)
    BY <1>2, FS_Subset
  <2> QED BY <1>1, <2>1, FS_Subset
<1>4. Cardinality(D) \in Nat /\ Cardinality(DOMAIN buckets) \in Nat /\ MaxKeys \in Nat
  BY <1>3, FS_CardinalityType, Rates
<1>5. CASE k \in D
  <2>1. D \cup {k} = D
    BY <1>5
  <2>2. Cardinality(DOMAIN buckets) <= MaxKeys
    BY DEF TypeOK
  <2>3. Cardinality(DOMAIN buckets') = Cardinality(D)
    BY <1>1, <2>1
  <2>4. Cardinality(D) <= MaxKeys
    BY <1>3, <1>4, <2>2
  <2> QED BY <1>1, <1>2, <2>3, <2>4
<1>6. CASE k \notin D
  <2>1. Cardinality(D) < MaxKeys
    BY <1>6 DEF Tracks, D
  <2>2. Cardinality(D \cup {k}) = Cardinality(D) + 1
    BY <1>3, <1>6, FS_AddElement
  <2>3. Cardinality(D) + 1 <= MaxKeys
    BY <1>4, <2>1
  <2>4. Cardinality(DOMAIN buckets') <= MaxKeys
    BY <1>1, <2>2, <2>3
  <2> QED BY <1>1, <1>2, <2>4
<1> QED BY <1>5, <1>6

\* Dropping buckets keeps the types.
LEMMA DroppedTypes ==
    ASSUME TypeOK, DOMAIN buckets' \subseteq DOMAIN buckets,
           \A j \in DOMAIN buckets' : buckets'[j] = buckets[j]
    PROVE  /\ DOMAIN buckets' \subseteq Keys /\ Cardinality(DOMAIN buckets') <= MaxKeys
           /\ \A j \in DOMAIN buckets' : buckets'[j] \in Bucket
<1>1. IsFiniteSet(DOMAIN buckets)
  BY FiniteAssumption, FS_Subset DEF TypeOK
<1>2. Cardinality(DOMAIN buckets') <= Cardinality(DOMAIN buckets) /\ IsFiniteSet(DOMAIN buckets')
  BY <1>1, FS_Subset
<1>3. Cardinality(DOMAIN buckets) \in Nat /\ Cardinality(DOMAIN buckets') \in Nat
  BY <1>1, <1>2, FS_CardinalityType
<1>4. Cardinality(DOMAIN buckets) <= MaxKeys
  BY DEF TypeOK
<1>5. Cardinality(DOMAIN buckets') <= MaxKeys
  BY <1>2, <1>3, <1>4, Rates
<1> QED BY <1>5 DEF TypeOK

\* The bucket of a call that is decided, and the one it leaves behind.
LEMMA SpendFacts ==
    ASSUME TypeOK, NEW c \in Calls, Spend(c)
    PROVE  LET b == BucketOf(key[c], now[c]) IN
           /\ key[c] \in Keys /\ now[c] \in Times /\ b \in Bucket
           /\ buckets'[key[c]].tokens = b.tokens - Cost /\ buckets'[key[c]].last = b.last
           /\ buckets'[key[c]] \in Bucket /\ key[c] \in DOMAIN buckets'
<1> DEFINE k == key[c]
           b == BucketOf(k, now[c])
<1>1. k \in Keys /\ now[c] \in Times /\ \A j \in DOMAIN buckets : buckets[j] \in Bucket
  BY DEF TypeOK
<1> HIDE DEF k
<1>2. b \in Bucket
  BY <1>1, BucketOfFacts
<1>3. buckets' = With(k, now[c], [b EXCEPT !.tokens = @ - Cost]) /\ b.tokens >= Cost
  BY DEF Spend, k
<1> HIDE DEF b
<1>4. buckets'[k] = [b EXCEPT !.tokens = @ - Cost] /\ k \in DOMAIN buckets'
  BY <1>3, WithSelf
<1>5. b.tokens \in Nat /\ b.tokens <= Depth /\ b.last \in Times
      /\ b = [tokens |-> b.tokens, last |-> b.last]
  BY <1>2, BucketFacts
<1>6. buckets'[k] = [tokens |-> b.tokens - Cost, last |-> b.last]
  BY <1>4, <1>5
<1>7. b.tokens - Cost \in Nat /\ b.tokens - Cost <= Depth
  BY <1>3, <1>5, Rates
<1>8. buckets'[k] \in Bucket
  BY <1>5, <1>6, <1>7, MakeBucket
<1>9. buckets'[k].tokens = b.tokens - Cost /\ buckets'[k].last = b.last
  BY <1>6
<1> QED BY <1>1, <1>2, <1>4, <1>8, <1>9 DEF k, b

LEMMA RefuseFacts ==
    ASSUME TypeOK, NEW c \in Calls, Refuse(c)
    PROVE  LET b == BucketOf(key[c], now[c]) IN
           /\ key[c] \in Keys /\ now[c] \in Times /\ b \in Bucket
           /\ buckets'[key[c]] = b /\ key[c] \in DOMAIN buckets'
           /\ key[c] \in DOMAIN buckets
           /\ RetryAfter(b) \in Nat /\ b.tokens + RetryAfter(b) * Refill >= Cost
<1> DEFINE k == key[c]
           b == BucketOf(k, now[c])
<1>1. k \in Keys /\ now[c] \in Times /\ \A j \in DOMAIN buckets : buckets[j] \in Bucket
  BY DEF TypeOK
<1> HIDE DEF k
<1>2. /\ b \in Bucket
      /\ k \notin DOMAIN buckets => b = [tokens |-> Depth, last |-> now[c]]
  BY <1>1, BucketOfFacts
<1>3. buckets' = With(k, now[c], b) /\ b.tokens < Cost
  BY DEF Refuse, k
<1> HIDE DEF b
<1>4. buckets'[k] = b /\ k \in DOMAIN buckets'
  BY <1>3, WithSelf
<1>5. b.tokens \in Nat
  BY <1>2, BucketFacts
<1>6. k \in DOMAIN buckets
  <2>1. [tokens |-> Depth, last |-> now[c]].tokens = Depth
    OBVIOUS
  <2> QED BY <1>2, <1>3, <1>5, <2>1, Rates
<1>7. Cost - b.tokens \in Nat
  BY <1>3, <1>5, Rates
<1>8. RetryAfter(b) \in Nat /\ Cost - b.tokens <= RetryAfter(b) * Refill
  BY <1>7, RoundedUp DEF RetryAfter
<1>9. b.tokens + RetryAfter(b) * Refill >= Cost
  <2>1. \A m, n \in Nat : m * n \in Nat
    OBVIOUS
  <2>2. RetryAfter(b) * Refill \in Nat
    BY <1>8, <2>1, Rates
  <2> HIDE DEF RetryAfter
  <2> QED BY <1>5, <1>8, <2>2, Rates
<1> QED BY <1>1, <1>2, <1>4, <1>6, <1>8, <1>9 DEF k, b

LEMMA TypeStep == TypeOK /\ [Next]_vars => TypeOK'
<1> SUFFICES ASSUME TypeOK, [Next]_vars PROVE TypeOK'
  OBVIOUS
<1>1. CASE Tick
  <2>1. clock + 1 \in Times
    BY <1>1, Rates DEF Tick, Times, TypeOK
  <2> QED BY <1>1, <2>1 DEF Tick, TypeOK, history
<1>2. CASE Sweep
  <2>1. DOMAIN buckets' \subseteq DOMAIN buckets /\ \A j \in DOMAIN buckets' : buckets'[j] = buckets[j]
    BY <1>2 DEF Sweep, Evicted
  <2>2. /\ DOMAIN buckets' \subseteq Keys /\ Cardinality(DOMAIN buckets') <= MaxKeys
        /\ \A j \in DOMAIN buckets' : buckets'[j] \in Bucket
    BY <2>1, DroppedTypes
  <2> QED BY <1>2, <2>2 DEF Sweep, TypeOK, history
<1>3. ASSUME NEW c \in Calls, Read(c) PROVE TypeOK'
  BY <1>3 DEF Read, TypeOK, history
<1>4. ASSUME NEW c \in Calls, Overflow(c) PROVE TypeOK'
  <2>1. DOMAIN buckets' \subseteq DOMAIN buckets /\ \A j \in DOMAIN buckets' : buckets'[j] = buckets[j]
    BY <1>4, RoomFacts DEF Overflow
  <2>2. /\ DOMAIN buckets' \subseteq Keys /\ Cardinality(DOMAIN buckets') <= MaxKeys
        /\ \A j \in DOMAIN buckets' : buckets'[j] \in Bucket
    BY <2>1, DroppedTypes
  <2>3. advice' \in [Keys -> {-1} \cup Nat] /\ pc' \in [Calls -> {"idle", "locking", "allowed", "refused"}]
    BY <1>4 DEF Overflow, TypeOK
  <2> QED BY <1>4, <2>2, <2>3 DEF Overflow, TypeOK
<1>5. ASSUME NEW c \in Calls, Spend(c) PROVE TypeOK'
  <2>1. key[c] \in Keys /\ clock \in Times /\ buckets'[key[c]] \in Bucket
    BY <1>5, SpendFacts DEF TypeOK
  <2>2. \A j \in DOMAIN buckets' : j # key[c] => j \in DOMAIN buckets /\ buckets'[j] = buckets[j]
    BY <1>5, WithFacts DEF Spend
  <2>3. \A j \in DOMAIN buckets' : buckets'[j] \in Bucket
    BY <2>1, <2>2 DEF TypeOK
  <2>4. DOMAIN buckets' \subseteq Keys /\ Cardinality(DOMAIN buckets') <= MaxKeys
    BY <1>5, <2>1, CapHolds DEF Spend
  <2>5. [call |-> c, key |-> key[c], at |-> clock] \in Grant
    BY <2>1 DEF Grant
  <2>6. grants' \subseteq Grant /\ births' \subseteq Grant
    BY <1>5, <2>5 DEF Spend, Born, TypeOK
  <2>7. advice' \in [Keys -> {-1} \cup Nat] /\ pc' \in [Calls -> {"idle", "locking", "allowed", "refused"}]
    BY <1>5 DEF Spend, TypeOK
  <2> QED BY <1>5, <2>3, <2>4, <2>6, <2>7 DEF Spend, TypeOK
<1>6. ASSUME NEW c \in Calls, Refuse(c) PROVE TypeOK'
  <2>1. key[c] \in Keys /\ buckets'[key[c]] \in Bucket
        /\ RetryAfter(BucketOf(key[c], now[c])) \in Nat
    BY <1>6, RefuseFacts
  <2>2. \A j \in DOMAIN buckets' : j # key[c] => j \in DOMAIN buckets /\ buckets'[j] = buckets[j]
    BY <1>6, WithFacts DEF Refuse
  <2>3. \A j \in DOMAIN buckets' : buckets'[j] \in Bucket
    BY <2>1, <2>2 DEF TypeOK
  <2>4. DOMAIN buckets' \subseteq Keys /\ Cardinality(DOMAIN buckets') <= MaxKeys
    BY <1>6, <2>1, CapHolds DEF Refuse
  <2>5. clock + RetryAfter(BucketOf(key[c], now[c])) \in Nat
    BY <2>1, TimesFacts DEF TypeOK
  <2>6. advice' \in [Keys -> {-1} \cup Nat] /\ pc' \in [Calls -> {"idle", "locking", "allowed", "refused"}]
    BY <1>6, <2>5 DEF Refuse, TypeOK
  <2> QED BY <1>6, <2>3, <2>4, <2>6 DEF Refuse, TypeOK
<1>7. CASE UNCHANGED vars
  BY <1>7 DEF vars, history, TypeOK
<1> QED BY <1>1, <1>2, <1>3, <1>4, <1>5, <1>6, <1>7 DEF Next

\* Readings, buckets and histories stay in the past.
LEMMA PastStep ==
    ASSUME TypeOK, TypeOK', ReadingsAreRecent, BucketsAreOfThePast, HistoryIsPast, Next
    PROVE  ReadingsAreRecent' /\ BucketsAreOfThePast' /\ HistoryIsPast'
<1> DEFINE Past == ReadingsAreRecent /\ BucketsAreOfThePast /\ HistoryIsPast
<1>1. clock \in Nat /\ clock' \in Nat /\ \A c \in Calls : now[c] \in Nat /\ now'[c] \in Nat
  BY TimesFacts DEF TypeOK
<1>2. \A k \in DOMAIN buckets : buckets[k].last \in Nat
  BY BucketFacts DEF TypeOK
<1>3. \A g \in grants \cup births : g.at \in Nat /\ g.call \in Calls
  BY TimesFacts DEF TypeOK, Grant
<1>4. CASE Tick
  <2>1. clock' = clock + 1 /\ UNCHANGED <<buckets, pc, now, grants, births>>
    BY <1>4 DEF Tick, history
  <2>2. ReadingsAreRecent'
    BY <1>1, <1>4, <2>1, Rates DEF ReadingsAreRecent, Tick
  <2>3. BucketsAreOfThePast'
    BY <1>1, <1>2, <2>1 DEF BucketsAreOfThePast
  <2>4. HistoryIsPast'
    BY <1>1, <1>3, <2>1 DEF HistoryIsPast
  <2> QED BY <2>2, <2>3, <2>4
<1>5. CASE Sweep
  BY <1>5 DEF Sweep, Evicted, history, ReadingsAreRecent, BucketsAreOfThePast, HistoryIsPast
<1>6. ASSUME NEW c \in Calls, Read(c) PROVE Past'
  <2>1. UNCHANGED <<clock, buckets, grants, births>>
    BY <1>6 DEF Read, history
  <2>2. now'[c] = clock /\ pc'[c] = "locking" /\ pc[c] = "idle"
        /\ \A d \in Calls : d # c => now'[d] = now[d] /\ pc'[d] = pc[d]
    BY <1>6 DEF Read, TypeOK
  <2>3. ReadingsAreRecent'
    BY <1>1, <2>1, <2>2, Rates DEF ReadingsAreRecent
  <2>4. BucketsAreOfThePast'
    BY <2>1 DEF BucketsAreOfThePast
  <2>5. HistoryIsPast'
    BY <1>3, <2>1, <2>2 DEF HistoryIsPast
  <2> QED BY <2>3, <2>4, <2>5
<1>7. ASSUME NEW c \in Calls, pc[c] = "locking", pc'[c] # "locking", UNCHANGED <<clock, now>>,
             \A d \in Calls : d # c => pc'[d] = pc[d]
      PROVE  ReadingsAreRecent'
  BY <1>7 DEF ReadingsAreRecent
<1>8. ASSUME NEW c \in Calls, Overflow(c) PROVE Past'
  <2>1. pc[c] = "locking" /\ pc'[c] = "allowed" /\ \A d \in Calls : d # c => pc'[d] = pc[d]
    BY <1>8 DEF Overflow, TypeOK
  <2>2. UNCHANGED <<clock, now, grants, births>>
    BY <1>8 DEF Overflow
  <2>3. BucketsAreOfThePast'
    BY <1>8, <2>2, RoomFacts DEF Overflow, BucketsAreOfThePast
  <2>4. HistoryIsPast'
    BY <1>3, <2>1, <2>2 DEF HistoryIsPast
  <2> QED BY <1>7, <2>1, <2>2, <2>3, <2>4
<1>9. ASSUME NEW c \in Calls, Spend(c) PROVE Past'
  <2>1. pc[c] = "locking" /\ pc'[c] = "allowed" /\ \A d \in Calls : d # c => pc'[d] = pc[d]
    BY <1>9 DEF Spend, TypeOK
  <2>2. UNCHANGED <<clock, now>>
    BY <1>9 DEF Spend
  <2> DEFINE g == [call |-> c, key |-> key[c], at |-> clock]
  <2>3. grants' = grants \cup {g} /\ (births' = births \/ births' = births \cup {g})
    BY <1>9 DEF Spend, Born
  <2>4. g.at = clock /\ g.call = c
    OBVIOUS
  <2> HIDE DEF g
  <2>5. HistoryIsPast'
    <3>1. IsFiniteSet(grants') /\ IsFiniteSet(births')
      BY <2>3, FS_AddElement DEF HistoryIsPast
    <3>2. \A x \in grants' \cup births' : x.at <= clock /\ pc'[x.call] = "allowed"
      BY <1>1, <1>3, <2>1, <2>3, <2>4 DEF HistoryIsPast
    <3> QED BY <2>2, <3>1, <3>2 DEF HistoryIsPast
  <2>6. BucketsAreOfThePast'
    <3>1. \A j \in DOMAIN buckets' : j # key[c] => j \in DOMAIN buckets /\ buckets'[j] = buckets[j]
      BY <1>9, WithFacts DEF Spend
    <3>2. buckets'[key[c]].last <= clock
      <4>1. now[c] <= clock /\ now[c] \in Times /\ key[c] \in Keys
            /\ \A j \in DOMAIN buckets : buckets[j] \in Bucket
        BY DEF ReadingsAreRecent, TypeOK
      <4>2. buckets'[key[c]].last = BucketOf(key[c], now[c]).last
        BY <1>9, SpendFacts
      <4>3. CASE key[c] \in DOMAIN buckets
        BY <4>1, <4>2, <4>3, BucketOfFacts, RefilledFacts DEF BucketsAreOfThePast
      <4>4. CASE key[c] \notin DOMAIN buckets
        BY <4>1, <4>2, <4>4, BucketOfFacts
      <4> QED BY <4>3, <4>4
    <3> QED BY <2>2, <3>1, <3>2 DEF BucketsAreOfThePast
  <2> QED BY <1>7, <2>1, <2>2, <2>5, <2>6
<1>10. ASSUME NEW c \in Calls, Refuse(c) PROVE Past'
  <2>1. pc[c] = "locking" /\ pc'[c] = "refused" /\ \A d \in Calls : d # c => pc'[d] = pc[d]
    BY <1>10 DEF Refuse, TypeOK
  <2>2. UNCHANGED <<clock, now, grants, births>>
    BY <1>10 DEF Refuse
  <2>3. HistoryIsPast'
    BY <1>3, <2>1, <2>2 DEF HistoryIsPast
  <2>4. BucketsAreOfThePast'
    <3>1. \A j \in DOMAIN buckets' : j # key[c] => j \in DOMAIN buckets /\ buckets'[j] = buckets[j]
      BY <1>10, WithFacts DEF Refuse
    <3>2. now[c] <= clock /\ now[c] \in Times /\ key[c] \in Keys
          /\ \A j \in DOMAIN buckets : buckets[j] \in Bucket
      BY DEF ReadingsAreRecent, TypeOK
    <3>3. buckets'[key[c]] = BucketOf(key[c], now[c]) /\ key[c] \in DOMAIN buckets
      BY <1>10, RefuseFacts
    <3>4. buckets'[key[c]].last <= clock
      BY <3>2, <3>3, BucketOfFacts, RefilledFacts DEF BucketsAreOfThePast
    <3> QED BY <2>2, <3>1, <3>4 DEF BucketsAreOfThePast
  <2> QED BY <1>7, <2>1, <2>2, <2>3, <2>4
<1> QED BY <1>4, <1>5, <1>6, <1>8, <1>9, <1>10 DEF Next

-----------------------------------------------------------------------------
(* Retry-After. *)

\* Advice is given once, to a bucket that was found; it is forgotten as soon as
\* the key is let through, and a bucket only gains before that.
LEMMA AdviceStep ==
    ASSUME TypeOK, TypeOK', ReadingsAreRecent, BucketsAreOfThePast, AdviceHolds, Next
    PROVE  AdviceHolds'
<1>1. clock \in Nat /\ \A k \in Keys : advice[k] \in Int
  BY TimesFacts DEF TypeOK
<1>2. \A k \in DOMAIN buckets : k \in Keys /\ buckets[k] \in Bucket
  BY DEF TypeOK
<1>3. CASE Tick \/ Sweep \/ \E c \in Calls : Read(c)
  <2>1. UNCHANGED advice
    BY <1>3 DEF Tick, Sweep, Read, history
  <2>2. \A j \in DOMAIN buckets' : j \in DOMAIN buckets /\ buckets'[j] = buckets[j]
    BY <1>3 DEF Tick, Sweep, Evicted, Read
  <2> QED BY <2>1, <2>2 DEF AdviceHolds
<1>4. ASSUME NEW c \in Calls, Overflow(c) PROVE AdviceHolds'
  <2>1. \A j \in DOMAIN buckets' : j \in DOMAIN buckets /\ buckets'[j] = buckets[j]
    BY <1>4, RoomFacts DEF Overflow
  <2>2. \A j \in Keys : advice'[j] = advice[j] \/ advice'[j] = -1
    BY <1>4 DEF Overflow, TypeOK
  <2> QED BY <1>2, <2>1, <2>2 DEF AdviceHolds
<1>5. ASSUME NEW c \in Calls, Spend(c) PROVE AdviceHolds'
  <2>1. \A j \in DOMAIN buckets' : j # key[c] => j \in DOMAIN buckets /\ buckets'[j] = buckets[j]
    BY <1>5, WithFacts DEF Spend
  <2>2. key[c] \in Keys
    BY DEF TypeOK
  <2>3. advice'[key[c]] = -1 /\ \A j \in Keys : j # key[c] => advice'[j] = advice[j]
    BY <1>5, <2>2 DEF Spend, TypeOK
  <2> QED BY <1>2, <2>1, <2>3 DEF AdviceHolds
<1>6. ASSUME NEW c \in Calls, Refuse(c) PROVE AdviceHolds'
  <2> DEFINE k == key[c]
             b == BucketOf(k, now[c])
  <2>1. \A j \in DOMAIN buckets' : j # k => j \in DOMAIN buckets /\ buckets'[j] = buckets[j]
    BY <1>6, WithFacts DEF Refuse
  <2>2. /\ k \in Keys /\ now[c] \in Times /\ b \in Bucket /\ buckets'[k] = b
        /\ RetryAfter(b) \in Nat /\ b.tokens + RetryAfter(b) * Refill >= Cost
    BY <1>6, RefuseFacts
  <2>3. advice'[k] = clock + RetryAfter(b) /\ \A j \in Keys : j # k => advice'[j] = advice[j]
    BY <1>6, <2>2 DEF Refuse, TypeOK
  <2>4. b.last <= clock
    <3>1. BucketsAreOfThePast' /\ UNCHANGED clock
      <4>1. now[c] <= clock /\ k \in DOMAIN buckets
        BY <1>6, RefuseFacts DEF ReadingsAreRecent
      <4>2. b.last <= clock
        BY <1>2, <2>2, <4>1, BucketOfFacts, RefilledFacts DEF BucketsAreOfThePast
      <4>3. UNCHANGED clock
        BY <1>6 DEF Refuse
      <4>4. \A j \in DOMAIN buckets' : buckets'[j].last <= clock
        BY <2>1, <2>2, <4>2 DEF BucketsAreOfThePast
      <4> QED BY <4>3, <4>4 DEF BucketsAreOfThePast
    <3>2. k \in DOMAIN buckets'
      BY <1>6, RefuseFacts
    <3> QED BY <2>2, <3>1, <3>2 DEF BucketsAreOfThePast
  <2>5. b.tokens \in Nat /\ b.last \in Nat
    BY <2>2, BucketFacts
  <2> DEFINE wait == RetryAfter(b)
  <2> HIDE DEF b, wait
  <2>6. b.tokens + (clock + wait - b.last) * Refill >= Cost
    <3>1. wait \in Nat /\ b.tokens + wait * Refill >= Cost
      BY <2>2 DEF wait
    <3>2. Refill * wait <= Refill * (clock + wait - b.last)
      BY <1>1, <2>4, <2>5, <3>1, RefillGrows
    <3>3. wait * Refill = Refill * wait
          /\ (clock + wait - b.last) * Refill = Refill * (clock + wait - b.last)
      BY <1>1, <2>5, <3>1, Rates
    <3>4. Refill * wait \in Int /\ Refill * (clock + wait - b.last) \in Int
      BY <1>1, <2>5, <3>1, Rates
    <3> QED BY <2>5, <3>1, <3>2, <3>3, <3>4, Rates
  <2>7. \A j \in DOMAIN buckets' :
           advice'[j] # -1 =>
             buckets'[j].tokens + (advice'[j] - buckets'[j].last) * Refill >= Cost
    <3> TAKE j \in DOMAIN buckets'
    <3>1. CASE j = k
      <4>1. buckets'[j] = b /\ advice'[j] = clock + wait
        BY <2>2, <2>3, <3>1 DEF wait
      <4>2. buckets'[j].tokens = b.tokens /\ buckets'[j].last = b.last
        BY <4>1
      <4>3. buckets'[j].tokens + (advice'[j] - buckets'[j].last) * Refill >= Cost
        <5>1. wait \in Nat /\ Refill \in Nat /\ Cost \in Nat
          BY <2>2, Rates DEF wait
        <5>2. clock + wait - b.last \in Int
          BY <1>1, <2>5, <5>1
        <5>3. advice'[j] - buckets'[j].last = clock + wait - b.last
          BY <1>1, <2>5, <4>1, <4>2, <5>1
        <5> QED BY <2>5, <2>6, <4>2, <5>1, <5>2, <5>3
      <4> QED BY <4>3
    <3>2. CASE j # k
      <4>1. j \in DOMAIN buckets /\ buckets'[j] = buckets[j] /\ advice'[j] = advice[j]
        BY <1>2, <2>1, <2>3, <3>2
      <4> QED BY <4>1 DEF AdviceHolds
    <3> QED BY <3>1, <3>2
  <2> QED BY <2>7 DEF AdviceHolds
<1> QED BY <1>3, <1>4, <1>5, <1>6 DEF Next

-----------------------------------------------------------------------------
(* The account of a key. *)

\* What the counts are in a state.
LEMMA Counts ==
    ASSUME HistoryIsPast, NEW k, NEW from, NEW to
    PROVE  During(grants, k, from, to) \in Nat /\ During(births, k, from, to) \in Nat
BY DuringType DEF HistoryIsPast

\* The allowance, as a sum.
LEMMA AllowanceType ==
    ASSUME HistoryIsPast, NEW k, NEW from \in Int, NEW to \in Int
    PROVE  /\ Skew * (1 + During(births, k, from, clock)) \in Nat
           /\ Skew <= Skew * (1 + During(births, k, from, clock))
           /\ to - from + Skew * (1 + During(births, k, from, clock)) \in Int
           /\ Allowance(k, from, to) \in Int
<1> DEFINE B == During(births, k, from, clock)
<1>1. B \in Nat /\ Skew \in Nat /\ Refill \in Nat
  BY Counts, Rates
<1> HIDE DEF B
<1>2. \A m, n \in Nat : m * n \in Nat
  OBVIOUS
<1>3. Skew * B \in Nat /\ Skew * (1 + B) = Skew + Skew * B
  BY <1>1, <1>2
<1>4. Skew * (1 + B) \in Nat /\ Skew <= Skew * (1 + B)
  BY <1>1, <1>3
<1>5. to - from + Skew * (1 + B) \in Int
  BY <1>4
<1>6. Refill * (to - from + Skew * (1 + B)) \in Int
  BY <1>1, <1>5
<1> QED BY <1>4, <1>5, <1>6 DEF Allowance, B

\* A later end allows more, by what refills in between.
LEMMA AllowanceGrows ==
    ASSUME HistoryIsPast, NEW k, NEW from \in Int, NEW a \in Int, NEW b \in Int
    PROVE  /\ Allowance(k, from, b) = Allowance(k, from, a) + (b - a) * Refill
           /\ a <= b => Allowance(k, from, a) <= Allowance(k, from, b)
<1> DEFINE W == Skew * (1 + During(births, k, from, clock))
<1>1. W \in Nat /\ Refill \in Nat
  BY AllowanceType, Rates
<1>2. Allowance(k, from, a) = Refill * (a - from + W) /\ Allowance(k, from, b) = Refill * (b - from + W)
  BY DEF Allowance
<1> HIDE DEF W
<1>3. Refill * (b - from + W) = Refill * (a - from + W) + (b - a) * Refill
  BY <1>1
<1>4. a <= b => Refill * (a - from + W) <= Refill * (b - from + W)
  BY <1>1, RefillGrows
<1> QED BY <1>2, <1>3, <1>4

\* The allowance of a stretch that has begun is not negative, even up to a
\* reading that was as old as it may be.
LEMMA AllowancePositive ==
    ASSUME HistoryIsPast, NEW k, NEW from \in Int, NEW to \in Int, from - Skew <= to
    PROVE  0 <= Allowance(k, from, to)
<1> DEFINE W == Skew * (1 + During(births, k, from, clock))
<1>1. W \in Nat /\ Skew <= W /\ Refill \in Nat /\ Skew \in Nat
  BY AllowanceType, Rates
<1>2. Allowance(k, from, to) = Refill * (to - from + W)
  BY DEF Allowance
<1> HIDE DEF W
<1>3. 0 <= to - from + W /\ to - from + W \in Int
  BY <1>1
<1>4. Refill * 0 <= Refill * (to - from + W) /\ Refill * 0 = 0
  BY <1>1, <1>3, RefillGrows
<1> QED BY <1>2, <1>4

\* One more bucket made is worth one more wait.
LEMMA AllowanceOfBirth ==
    ASSUME HistoryIsPast, NEW k, NEW from \in Int, NEW to \in Int, NEW t \in Int,
           During(births', k, from, clock') = During(births, k, from, clock) + 1, to - Skew <= t
    PROVE  Allowance(k, from, to) <= Refill * (t - from + Skew * (1 + During(births', k, from, clock')))
<1> DEFINE B == During(births, k, from, clock)
<1>1. B \in Nat /\ Skew \in Nat /\ Refill \in Nat
  BY Counts, Rates
<1>2. Allowance(k, from, to) = Refill * (to - from + Skew * (1 + B))
  BY DEF Allowance
<1> HIDE DEF B
<1>3. Skew * (1 + (B + 1)) = Skew * (1 + B) + Skew /\ Skew * (1 + B) \in Int
  BY <1>1
<1>4. Refill * (to - from + Skew * (1 + B)) <= Refill * (t - from + Skew * (1 + (B + 1)))
  BY <1>1, <1>3, RefillGrows
<1> QED BY <1>2, <1>4 DEF B

\* What a decided call adds to the counts of a stretch that lasts until now.
LEMMA CountedNow ==
    ASSUME HistoryIsPast, NEW calls, IsFiniteSet(calls), NEW g, g \notin calls, g.at = clock,
           clock \in Nat, NEW k, NEW from \in 0 .. clock
    PROVE  During(calls \cup {g}, k, from, clock)
             = During(calls, k, from, clock) + (IF g.key = k THEN 1 ELSE 0)
<1>1. from <= g.at /\ g.at <= clock
  OBVIOUS
<1>2. During(calls \cup {g}, k, from, clock) = During(calls, k, from, clock)
        + (IF g.key = k /\ from <= g.at /\ g.at <= clock THEN 1 ELSE 0)
  BY DuringOneMore
<1> QED BY <1>1, <1>2

\* A key of which no call is decided: its bucket stays, or goes because it is full.
LEMMA Bystander ==
    ASSUME Inv, NEW k \in Keys, NEW from \in 0 .. clock, UNCHANGED clock,
           During(grants', k, from, clock) = During(grants, k, from, clock),
           During(births', k, from, clock) = During(births, k, from, clock),
           k \in DOMAIN buckets' => k \in DOMAIN buckets /\ buckets'[k] = buckets[k],
           NEW t \in Times, t <= clock,
           k \in DOMAIN buckets \ DOMAIN buckets' => Full(buckets[k], t)
    PROVE  AccountedSince(k, from)'
<1> DEFINE G == During(grants, k, from, clock)
<1>1. HistoryIsPast /\ clock \in Nat /\ t \in Nat /\ from \in Nat /\ AccountedSince(k, from)
  BY TimesFacts DEF Inv, TypeOK, Accounted
<1>2. G \in Nat /\ Cost \in Nat /\ Cost * G \in Int /\ During(grants', k, from, clock') = G
  BY <1>1, Counts, Rates
<1>3. \A to : Allowance(k, from, to)' = Allowance(k, from, to')
  BY DEF Allowance
<1>4. During(births', k, from, clock') = During(births, k, from, clock)
  OBVIOUS
<1> SUFFICES ASSUME G # 0
             PROVE  IF k \in DOMAIN buckets'
                    THEN Cost * G + buckets'[k].tokens <= Depth + Allowance(k, from, buckets'[k].last)
                    ELSE Cost * G <= Allowance(k, from, clock)
  BY <1>2, <1>4 DEF AccountedSince, Allowance
<1>5. CASE k \in DOMAIN buckets'
  BY <1>1, <1>5 DEF AccountedSince
<1>6. CASE k \notin DOMAIN buckets' /\ k \in DOMAIN buckets
  <2> DEFINE b == buckets[k]
  <2>1. b.tokens \in Nat /\ b.last \in Nat /\ Depth \in Nat /\ Refill \in Nat
    BY <1>6, BucketFacts, Rates DEF Inv, TypeOK
  <2>2. Cost * G + b.tokens <= Depth + Allowance(k, from, b.last)
    BY <1>1, <1>6 DEF AccountedSince
  <2>3. b.tokens + (t - b.last) * Refill >= Depth
    BY <1>6 DEF Full
  <2> HIDE DEF b, G
  <2>4. Allowance(k, from, t) = Allowance(k, from, b.last) + (t - b.last) * Refill
    BY <1>1, <2>1, AllowanceGrows
  <2>5. Allowance(k, from, t) <= Allowance(k, from, clock)
    BY <1>1, AllowanceGrows
  <2>6. /\ Allowance(k, from, t) \in Int /\ Allowance(k, from, b.last) \in Int
        /\ Allowance(k, from, clock) \in Int /\ (t - b.last) * Refill \in Int
    BY <1>1, <2>1, AllowanceType
  <2>7. Cost * G <= Allowance(k, from, clock)
    BY <1>2, <2>1, <2>2, <2>3, <2>4, <2>5, <2>6
  <2> QED BY <1>6, <2>7 DEF G
<1>7. CASE k \notin DOMAIN buckets' /\ k \notin DOMAIN buckets
  BY <1>1, <1>7 DEF AccountedSince
<1> QED BY <1>5, <1>6, <1>7

\* Nothing was granted in a stretch that begins now, and one that began before
\* goes on.
LEMMA TickAccounts == ASSUME Inv, TypeOK', Tick PROVE Accounted'
<1>1. clock' = clock + 1 /\ clock \in Nat /\ UNCHANGED <<buckets, grants, births>> /\ HistoryIsPast
  BY TimesFacts DEF Tick, history, Inv, TypeOK
<1>2. /\ \A g \in grants : g.at \in Nat /\ g.at <= clock
      /\ \A g \in births : g.at \in Nat /\ g.at <= clock
  BY TimesFacts DEF Inv, TypeOK, HistoryIsPast, Grant
<1> SUFFICES ASSUME NEW k \in Keys, NEW from \in 0 .. clock + 1 PROVE AccountedSince(k, from)'
  BY <1>1 DEF Accounted
<1>3. CASE from = clock + 1
  <2>1. During(grants, k, from, clock + 1) = 0
    BY <1>1, <1>2, <1>3, DuringFuture
  <2> QED BY <1>1, <2>1 DEF AccountedSince
<1>4. CASE from \in 0 .. clock
  <2>1. During(grants, k, from, clock + 1) = During(grants, k, from, clock)
    BY <1>1, <1>2, DuringPast
  <2>2. During(births, k, from, clock + 1) = During(births, k, from, clock)
    BY <1>1, <1>2, DuringPast
  <2>3. AccountedSince(k, from)
    BY <1>4 DEF Inv, Accounted
  <2>4. Allowance(k, from, clock) <= Allowance(k, from, clock + 1)
        /\ Allowance(k, from, clock) \in Int /\ Allowance(k, from, clock + 1) \in Int
    BY <1>1, <1>4, AllowanceGrows, AllowanceType
  <2>5. During(grants, k, from, clock) \in Nat /\ Cost \in Nat
    BY <1>1, Counts, Rates
  <2> DEFINE G == During(grants, k, from, clock)
  <2>6. Cost * G \in Int
    BY <2>5
  <2> HIDE DEF G
  <2>7. Cost * G <= Allowance(k, from, clock) => Cost * G <= Allowance(k, from, clock + 1)
    BY <2>4, <2>6
  <2>8. AccountedSince(k, from)' <=>
          (G # 0 => IF k \in DOMAIN buckets
                    THEN Cost * G + buckets[k].tokens <= Depth + Allowance(k, from, buckets[k].last)
                    ELSE Cost * G <= Allowance(k, from, clock + 1))
    BY <1>1, <2>1, <2>2 DEF AccountedSince, Allowance, G
  <2> QED BY <2>3, <2>7, <2>8 DEF AccountedSince, G
<1> QED BY <1>1, <1>3, <1>4

\* A refused call only refills its bucket.
LEMMA RefuseAccounts == ASSUME Inv, NEW c \in Calls, Refuse(c) PROVE Accounted'
<1> DEFINE k == key[c]
           t == now[c]
           b == BucketOf(k, t)
<1>1. UNCHANGED <<clock, grants, births>> /\ clock \in Nat /\ HistoryIsPast
  BY TimesFacts DEF Refuse, Inv, TypeOK
<1>2. k \in Keys /\ t \in Times /\ t <= clock /\ k \in DOMAIN buckets /\ k \in DOMAIN buckets'
      /\ buckets'[k] = b
  BY RefuseFacts DEF Inv, ReadingsAreRecent
<1>3. /\ \A j \in DOMAIN buckets' : j # k => j \in DOMAIN buckets /\ buckets'[j] = buckets[j]
      /\ \A j \in DOMAIN buckets \ DOMAIN buckets' : Full(buckets[j], t)
  BY WithFacts DEF Refuse
<1> SUFFICES ASSUME NEW j \in Keys, NEW from \in 0 .. clock PROVE AccountedSince(j, from)'
  BY <1>1 DEF Accounted
<1>4. CASE j # k
  BY <1>1, <1>2, <1>3, <1>4, Bystander
<1>5. CASE j = k
  <2> DEFINE G == During(grants, k, from, clock)
             b0 == buckets[k]
  <2>1. b = Refilled(b0, t) /\ b0 \in Bucket
    BY <1>2, BucketOfFacts DEF Inv, TypeOK
  <2>2. b \in Bucket /\ b.tokens <= b0.tokens + (b.last - b0.last) * Refill
    BY <1>2, <2>1, RefilledFacts
  <2>3. /\ b0.tokens \in Nat /\ b0.last \in Nat /\ b.tokens \in Nat /\ b.last \in Nat
        /\ Depth \in Nat /\ Refill \in Nat /\ Cost \in Nat /\ G \in Nat
    BY <1>1, <2>1, <2>2, BucketFacts, Counts, Rates
  <2>4. G # 0 => Cost * G + b0.tokens <= Depth + Allowance(k, from, b0.last)
    BY <1>2 DEF Inv, Accounted, AccountedSince
  <2> HIDE DEF b, b0, G
  <2>5. Allowance(k, from, b.last) = Allowance(k, from, b0.last) + (b.last - b0.last) * Refill
        /\ Allowance(k, from, b.last) \in Int /\ Allowance(k, from, b0.last) \in Int
    BY <1>1, <2>3, AllowanceGrows, AllowanceType
  <2>6. Cost * G \in Int /\ (b.last - b0.last) * Refill \in Int
    BY <2>3
  <2>7. G # 0 => Cost * G + b.tokens <= Depth + Allowance(k, from, b.last)
    BY <2>2, <2>3, <2>4, <2>5, <2>6
  <2> QED BY <1>1, <1>2, <1>5, <2>7 DEF AccountedSince, Allowance, G
<1> QED BY <1>4, <1>5

\* A granted call pays from its bucket, or from the new one it makes.
LEMMA SpendAccounts == ASSUME Inv, TypeOK', HistoryIsPast', NEW c \in Calls, Spend(c) PROVE Accounted'
<1> DEFINE k == key[c]
           t == now[c]
           b == BucketOf(k, t)
           g == [call |-> c, key |-> k, at |-> clock]
<1>1. UNCHANGED clock /\ clock \in Nat /\ HistoryIsPast
  BY TimesFacts DEF Spend, Inv, TypeOK
<1>2. /\ k \in Keys /\ t \in Times /\ t \in Nat /\ t <= clock /\ clock <= t + Skew
      /\ k \in DOMAIN buckets' /\ b \in Bucket
      /\ buckets'[k].tokens = b.tokens - Cost /\ buckets'[k].last = b.last
  BY SpendFacts, TimesFacts DEF Inv, ReadingsAreRecent, Spend
<1>3. /\ \A j \in DOMAIN buckets' : j # k => j \in DOMAIN buckets /\ buckets'[j] = buckets[j]
      /\ \A j \in DOMAIN buckets \ DOMAIN buckets' : Full(buckets[j], t)
      /\ k \in DOMAIN Room(k, t) <=> k \in DOMAIN buckets
  <2> DEFINE paid == [b EXCEPT !.tokens = @ - Cost]
  <2>1. buckets' = With(k, t, paid)
    BY DEF Spend
  <2> HIDE DEF paid, k, t
  <2> QED BY <2>1, WithFacts
<1>4. grants' = grants \cup {g} /\ births' = births \cup (IF k \in DOMAIN buckets THEN {} ELSE {g})
  BY <1>3 DEF Spend, Born
<1>5. g.call = c /\ g.key = k /\ g.at = clock
  OBVIOUS
<1>6. g \notin grants /\ g \notin births
  BY <1>5 DEF Inv, HistoryIsPast, Spend
<1> HIDE DEF g
<1>7. ASSUME NEW j \in Keys, NEW from \in 0 .. clock
      PROVE  During(grants', j, from, clock)
               = During(grants, j, from, clock) + (IF k = j THEN 1 ELSE 0)
  BY <1>1, <1>4, <1>5, <1>6, <1>7, CountedNow DEF HistoryIsPast
<1>8. ASSUME NEW j \in Keys, NEW from \in 0 .. clock, k \notin DOMAIN buckets
      PROVE  During(births', j, from, clock)
               = During(births, j, from, clock) + (IF k = j THEN 1 ELSE 0)
  BY <1>1, <1>4, <1>5, <1>6, <1>8, CountedNow DEF HistoryIsPast
<1>9. k \in DOMAIN buckets => births' = births
  BY <1>4
<1> SUFFICES ASSUME NEW j \in Keys, NEW from \in 0 .. clock PROVE AccountedSince(j, from)'
  BY <1>1 DEF Accounted
<1> DEFINE G == During(grants, j, from, clock)
<1>10. /\ G \in Nat /\ Cost \in Nat /\ Depth \in Nat /\ Refill \in Nat /\ Skew \in Nat /\ from \in Nat
       /\ b.tokens \in Nat /\ b.tokens <= Depth /\ b.last \in Nat /\ Cost * G \in Int
  <2>1. G \in Nat
    BY <1>1, Counts
  <2> QED BY <1>1, <1>2, <2>1, BucketFacts, Rates
<1>11. CASE j # k
  <2>1. During(grants', j, from, clock) = G /\ G + 0 = G
    BY <1>7, <1>10, <1>11
  <2>2. During(births', j, from, clock) = During(births, j, from, clock)
    <3>1. During(births, j, from, clock) \in Nat
      BY <1>1, Counts
    <3> QED BY <1>8, <1>9, <1>11, <3>1
  <2> QED BY <1>1, <1>2, <1>3, <1>11, <2>1, <2>2, Bystander
<1>12. CASE j = k
  <2>1. During(grants', j, from, clock) = G + 1
    BY <1>7, <1>12
  <2>2. Cost * (G + 1) = Cost * G + Cost
    BY <1>10
  <2>3. SUFFICES Cost * G + b.tokens
                   <= Depth + Refill * (b.last - from + Skew * (1 + During(births', j, from, clock)))
    <3> DEFINE A == Refill * (b.last - from + Skew * (1 + During(births', j, from, clock)))
    <3>1. During(births', j, from, clock) \in Nat
      BY DuringType DEF HistoryIsPast
    <3>2. A \in Int
      <4>1. \A m, n \in Int : m * n \in Int
        OBVIOUS
      <4>2. Skew * (1 + During(births', j, from, clock)) \in Int
        BY <1>10, <3>1, <4>1
      <4> QED BY <1>10, <4>1, <4>2
    <3> HIDE DEF A
    <3>3. Cost * (G + 1) + (b.tokens - Cost) <= Depth + A
      BY <1>10, <2>2, <2>3, <3>2 DEF A
    <3> QED BY <1>1, <1>2, <1>12, <2>1, <3>3 DEF AccountedSince, Allowance, A
  <2>4. CASE k \in DOMAIN buckets
    <3> DEFINE b0 == buckets[k]
    <3>1. b = Refilled(b0, t) /\ b0 \in Bucket
      BY <1>2, <2>4, BucketOfFacts DEF Inv, TypeOK
    <3>3. b0.tokens \in Nat /\ b0.last \in Nat
      BY <3>1, BucketFacts
    <3>9. b.last = (IF t > b0.last THEN t ELSE b0.last)
          /\ b.tokens <= b0.tokens + (b.last - b0.last) * Refill
      BY <1>2, <3>1, RefilledFacts
    <3>2. b.tokens <= b0.tokens + (b.last - b0.last) * Refill /\ b.last >= t
      <4> HIDE DEF b, b0, t
      <4> QED BY <1>2, <3>3, <3>9
    <3>4. G # 0 => Cost * G + b0.tokens <= Depth + Allowance(k, from, b0.last)
      BY <1>12, <2>4 DEF Inv, Accounted, AccountedSince
    <3> HIDE DEF b, b0, G
    <3>5. Allowance(k, from, b.last) = Allowance(k, from, b0.last) + (b.last - b0.last) * Refill
          /\ Allowance(k, from, b.last) \in Int /\ Allowance(k, from, b0.last) \in Int
      BY <1>1, <1>10, <3>3, AllowanceGrows, AllowanceType
    <3>6. (b.last - b0.last) * Refill \in Int
      BY <1>10, <3>3
    <3>7. 0 <= Allowance(k, from, b.last)
      <4>1. from - Skew <= b.last
        BY <1>1, <1>2, <1>10, <3>2
      <4> QED BY <1>1, <1>10, <4>1, AllowancePositive
    <3>8. Cost * G + b.tokens <= Depth + Allowance(k, from, b.last)
      <4>1. CASE G = 0
        <5>1. Cost * G = 0
          BY <1>10, <4>1
        <5> QED BY <1>10, <3>5, <3>7, <5>1
      <4>2. CASE G # 0
        BY <1>10, <3>2, <3>3, <3>4, <3>5, <3>6, <4>2
      <4> QED BY <4>1, <4>2
    <3> QED BY <1>9, <1>12, <2>4, <3>8 DEF Allowance
  <2>5. CASE k \notin DOMAIN buckets
    <3>1. b = [tokens |-> Depth, last |-> t]
      BY <1>2, <2>5, BucketOfFacts DEF Inv, TypeOK
    <3>2. b.tokens = Depth /\ b.last = t
      BY <3>1
    <3>3. During(births', k, from, clock) = During(births, k, from, clock) + 1
      BY <1>8, <1>12, <2>5
    <3> DEFINE A == Refill * (t - from + Skew * (1 + During(births', k, from, clock)))
    <3>4. Allowance(k, from, clock) <= A
      BY <1>1, <1>2, <1>10, <3>3, AllowanceOfBirth
    <3>5. 0 <= Allowance(k, from, clock) /\ Allowance(k, from, clock) \in Int
      BY <1>1, <1>10, AllowancePositive, AllowanceType
    <3>6. Cost * G <= Allowance(k, from, clock)
      <4>1. CASE G = 0
        BY <1>10, <3>5, <4>1
      <4>2. CASE G # 0
        BY <1>12, <2>5, <4>2 DEF Inv, Accounted, AccountedSince
      <4> QED BY <4>1, <4>2
    <3>7. A \in Int
      <4>1. \A m, n \in Int : m * n \in Int
        OBVIOUS
      <4>2. During(births, k, from, clock) + 2 \in Int
        BY <1>1, Counts
      <4>3. 1 + During(births', k, from, clock) \in Int
        BY <1>1, <3>3, Counts
      <4> QED BY <1>2, <1>10, <4>1, <4>3
    <3> HIDE DEF A
    <3>8. Cost * G + Depth <= Depth + A
      BY <1>10, <3>4, <3>5, <3>6, <3>7
    <3> QED BY <1>12, <3>2, <3>8 DEF A
  <2> QED BY <2>4, <2>5
<1> QED BY <1>11, <1>12

LEMMA AccountStep == ASSUME Inv, TypeOK', HistoryIsPast', Next PROVE Accounted'
<1>1. clock \in Nat /\ clock \in Times
  BY TimesFacts DEF Inv, TypeOK
<1>2. CASE Tick
  BY <1>2, TickAccounts
<1>3. ASSUME UNCHANGED <<clock, grants, births>>, NEW t \in Times, t <= clock,
             \A j \in DOMAIN buckets' : j \in DOMAIN buckets /\ buckets'[j] = buckets[j],
             \A j \in DOMAIN buckets \ DOMAIN buckets' : Full(buckets[j], t)
      PROVE  Accounted'
  BY <1>3, Bystander DEF Accounted
<1>4. CASE Sweep
  <2>1. UNCHANGED <<clock, grants, births>>
    BY <1>4 DEF Sweep, history
  <2>2. /\ \A j \in DOMAIN buckets' : j \in DOMAIN buckets /\ buckets'[j] = buckets[j]
        /\ \A j \in DOMAIN buckets \ DOMAIN buckets' : Full(buckets[j], clock)
    BY <1>4 DEF Sweep, Evicted
  <2> QED BY <1>1, <1>3, <2>1, <2>2
<1>5. ASSUME NEW c \in Calls, Read(c) PROVE Accounted'
  <2>1. UNCHANGED <<clock, grants, births, buckets>>
    BY <1>5 DEF Read, history
  <2> QED BY <1>1, <1>3, <2>1
<1>6. ASSUME NEW c \in Calls, Overflow(c) PROVE Accounted'
  <2>1. UNCHANGED <<clock, grants, births>>
    BY <1>6 DEF Overflow
  <2>2. /\ \A j \in DOMAIN buckets' : j \in DOMAIN buckets /\ buckets'[j] = buckets[j]
        /\ \A j \in DOMAIN buckets \ DOMAIN buckets' : Full(buckets[j], now[c])
    BY <1>6, RoomFacts DEF Overflow
  <2>3. now[c] \in Times /\ now[c] <= clock
    BY DEF Inv, TypeOK, ReadingsAreRecent
  <2> QED BY <1>3, <2>1, <2>2, <2>3
<1> QED
  BY <1>2, <1>4, <1>5, <1>6, SpendAccounts, RefuseAccounts DEF Next

-----------------------------------------------------------------------------
(* The budget. *)

\* The account of a stretch that lasts until now is within the budget.
BudgetUntilNow ==
    \A k \in Keys : \A from \in 0 .. clock :
        Cost * During(grants, k, from, clock) <= Depth + Allowance(k, from, clock)

LEMMA BudgetNow ==
    TypeOK /\ BucketsAreOfThePast /\ HistoryIsPast /\ Accounted => BudgetUntilNow
<1> SUFFICES ASSUME TypeOK, BucketsAreOfThePast, HistoryIsPast, Accounted,
                    NEW k \in Keys, NEW from \in 0 .. clock
             PROVE  Cost * During(grants, k, from, clock) <= Depth + Allowance(k, from, clock)
  BY DEF BudgetUntilNow
<1> DEFINE G == During(grants, k, from, clock)
<1>1. clock \in Nat /\ from \in Nat /\ G \in Nat /\ Cost \in Nat /\ Depth \in Nat /\ Skew \in Nat
  BY TimesFacts, Counts, Rates DEF TypeOK
<1>2. AccountedSince(k, from)
  BY DEF Accounted
<1>3. 0 <= Allowance(k, from, clock) /\ Allowance(k, from, clock) \in Int
  BY <1>1, AllowancePositive, AllowanceType
<1>4. CASE G = 0
  BY <1>1, <1>3, <1>4
<1>5. CASE G # 0 /\ k \in DOMAIN buckets
  <2> DEFINE b == buckets[k]
  <2>1. b.tokens \in Nat /\ b.last \in Nat /\ b.last <= clock
    BY <1>5, BucketFacts DEF TypeOK, BucketsAreOfThePast
  <2>2. Cost * G + b.tokens <= Depth + Allowance(k, from, b.last)
    BY <1>2, <1>5 DEF AccountedSince
  <2> HIDE DEF b, G
  <2>3. Allowance(k, from, b.last) <= Allowance(k, from, clock) /\ Allowance(k, from, b.last) \in Int
    BY <1>1, <2>1, AllowanceGrows, AllowanceType
  <2>4. Cost * G \in Int
    BY <1>1
  <2>5. Cost * G <= Depth + Allowance(k, from, clock)
    BY <1>1, <1>3, <2>1, <2>2, <2>3, <2>4
  <2> QED BY <2>5 DEF G
<1>6. CASE G # 0 /\ k \notin DOMAIN buckets
  <2>1. Cost * G <= Allowance(k, from, clock)
    BY <1>2, <1>6 DEF AccountedSince
  <2>2. Cost * G \in Int
    BY <1>1
  <2> HIDE DEF G
  <2> QED BY <1>1, <1>3, <2>1, <2>2 DEF G
<1> QED BY <1>4, <1>5, <1>6

\* A stretch that ends now or later is accounted for; one that has ended is over.
LEMMA BudgetStep ==
    ASSUME Inv, TypeOK', BucketsAreOfThePast', HistoryIsPast', Accounted', Next
    PROVE  WithinBudget'
<1>1. /\ clock \in Nat /\ clock' \in Nat
      /\ clock' = clock \/ (clock' = clock + 1 /\ UNCHANGED <<grants, births>>)
  <2>1. clock \in Nat /\ clock' \in Nat
    BY TimesFacts DEF Inv, TypeOK
  <2>2. Tick => clock' = clock + 1 /\ UNCHANGED <<grants, births>>
    BY DEF Tick, history
  <2>3. ~Tick => clock' = clock
    BY DEF Next, Sweep, Read, Overflow, Spend, Refuse
  <2> QED BY <2>1, <2>2, <2>3
<1>2. /\ \A x \in grants' : x.at \in Nat /\ x.at <= clock'
      /\ \A x \in births' : x.at \in Nat /\ x.at <= clock'
  BY TimesFacts DEF TypeOK, HistoryIsPast, Grant
<1> SUFFICES ASSUME NEW k \in Keys, NEW from \in Times, NEW to \in Times, from <= to
             PROVE  Cost * During(grants', k, from, to)
                      <= Depth + Refill * (to - from + Skew * (1 + During(births', k, from, to)))
  BY DEF WithinBudget
<1>3. from \in Nat /\ to \in Nat /\ Skew \in Nat /\ Refill \in Nat /\ Depth \in Nat /\ Cost \in Nat
  BY TimesFacts, Rates
<1>4. CASE from <= clock' /\ clock' <= to
  <2> DEFINE G == During(grants', k, from, clock')
             W == Skew * (1 + During(births', k, from, clock'))
  <2>1. BudgetUntilNow'
    BY BudgetNow, PTL
  <2>2. Cost * G <= Depth + Refill * (clock' - from + W)
    BY <1>1, <1>3, <1>4, <2>1 DEF BudgetUntilNow, Allowance
  <2>3. During(grants', k, from, to) = G
    BY <1>1, <1>2, <1>3, <1>4, DuringPast
  <2>4. During(births', k, from, to) = During(births', k, from, clock')
    BY <1>1, <1>2, <1>3, <1>4, DuringPast
  <2>5. G \in Nat /\ W \in Int
    <3>1. During(births', k, from, clock') \in Nat /\ G \in Nat
      BY DuringType DEF HistoryIsPast
    <3>2. \A m, n \in Nat : m * n \in Nat
      OBVIOUS
    <3> QED BY <1>3, <3>1, <3>2
  <2> HIDE DEF G, W
  <2>6. Refill * (clock' - from + W) <= Refill * (to - from + W)
    <3>1. clock' - from + W \in Int /\ to - from + W \in Int
          /\ clock' - from + W <= to - from + W
      <4>1. \A c, f, t, w \in Int : c <= t => c - f + w \in Int /\ t - f + w \in Int
                                                 /\ c - f + w <= t - f + w
        OBVIOUS
      <4>2. clock' \in Int /\ from \in Int /\ to \in Int /\ W \in Int /\ clock' <= to
        BY <1>1, <1>3, <1>4, <2>5
      <4> QED BY <4>1, <4>2
    <3> QED BY <3>1, RefillGrows
  <2>7. Cost * G <= Depth + Refill * (to - from + W)
    <3>1. \A m, n \in Int : m * n \in Int
      OBVIOUS
    <3>2. Cost * G \in Int /\ Refill * (clock' - from + W) \in Int /\ Refill * (to - from + W) \in Int
      BY <1>1, <1>3, <2>5, <3>1
    <3> QED BY <1>3, <2>2, <2>6, <3>2
  <2> QED BY <2>3, <2>4, <2>7 DEF W
<1>5. CASE clock' < from
  <2> DEFINE B == During(births', k, from, to)
  <2>1. During(grants', k, from, to) = 0
    BY <1>1, <1>2, <1>3, <1>5, DuringFuture
  <2>2. B \in Nat
    BY DuringType DEF HistoryIsPast
  <2> HIDE DEF B
  <2>3. \A m, n \in Nat : m * n \in Nat
    OBVIOUS
  <2>4. Skew * (1 + B) \in Nat
    BY <1>3, <2>2, <2>3
  <2>5. to - from + Skew * (1 + B) \in Nat
    BY <1>3, <2>4
  <2>6. Refill * (to - from + Skew * (1 + B)) \in Nat
    BY <1>3, <2>3, <2>5
  <2>7. Cost * 0 = 0
    BY <1>3
  <2> QED BY <1>3, <2>1, <2>6, <2>7 DEF B
<1>6. CASE to < clock'
  <2>1. Cost * During(grants, k, from, to)
          <= Depth + Refill * (to - from + Skew * (1 + During(births, k, from, to)))
    BY DEF Inv, WithinBudget
  <2>2. CASE UNCHANGED <<grants, births>>
    BY <2>1, <2>2
  <2>3. ASSUME clock' = clock, NEW calls, NEW calls2, calls \subseteq calls2,
               \A x \in calls2 \ calls : x.at = clock
        PROVE  During(calls2, k, from, to) = During(calls, k, from, to)
    <3>1. \A x \in calls2 : x.at <= to => x \in calls
      BY <1>1, <1>3, <1>6, <2>3
    <3>2. {x \in calls2 : x.key = k /\ from <= x.at /\ x.at <= to}
            = {x \in calls : x.key = k /\ from <= x.at /\ x.at <= to}
      BY <2>3, <3>1
    <3> QED BY <3>2 DEF During
  <2>4. ASSUME NEW c \in Calls, Spend(c)
        PROVE  /\ grants \subseteq grants' /\ \A x \in grants' \ grants : x.at = clock
               /\ births \subseteq births' /\ \A x \in births' \ births : x.at = clock
               /\ clock' = clock
    BY <2>4 DEF Spend, Born
  <2>5. ASSUME NEW c \in Calls, Spend(c)
        PROVE  /\ During(grants', k, from, to) = During(grants, k, from, to)
               /\ During(births', k, from, to) = During(births, k, from, to)
    BY <2>3, <2>4, <2>5
  <2> QED
    BY <2>1, <2>2, <2>5 DEF Next, Tick, Sweep, Read, Overflow, Refuse, history
<1> QED BY <1>1, <1>3, <1>4, <1>5, <1>6

-----------------------------------------------------------------------------
(* The theorems. *)

LEMMA InvInit == Init => Inv
<1> SUFFICES ASSUME Init PROVE Inv
  OBVIOUS
<1>1. /\ DOMAIN buckets = {} /\ clock = 0 /\ grants = {} /\ births = {}
      /\ Cardinality({}) = 0 /\ IsFiniteSet({})
  BY FS_EmptySet DEF Init
<1>2. 0 \in Times
  BY Rates DEF Times
<1>3. TypeOK
  <2>1. now \in [Calls -> Times] /\ advice \in [Keys -> {-1} \cup Nat]
        /\ pc \in [Calls -> {"idle", "locking", "allowed", "refused"}]
    BY <1>2 DEF Init
  <2>2. Cardinality(DOMAIN buckets) <= MaxKeys
    BY <1>1, Rates
  <2> QED BY <1>1, <1>2, <2>1, <2>2 DEF Init, TypeOK
<1>4. ReadingsAreRecent
  BY DEF Init, ReadingsAreRecent
<1>5. BucketsAreOfThePast /\ HistoryIsPast /\ AdviceHolds
  BY <1>1 DEF BucketsAreOfThePast, HistoryIsPast, AdviceHolds
<1>6. \A k, from, to : During(grants, k, from, to) = 0 /\ During(births, k, from, to) = 0
  BY <1>1 DEF During
<1>7. Accounted
  BY <1>6 DEF Accounted, AccountedSince
<1>8. WithinBudget
  <2> SUFFICES ASSUME NEW k \in Keys, NEW from \in Times, NEW to \in Times, from <= to
               PROVE  Cost * 0 <= Depth + Refill * (to - from + Skew * (1 + 0))
    BY <1>6 DEF WithinBudget
  <2>1. to - from + Skew * (1 + 0) \in Nat
    BY TimesFacts, Rates
  <2>2. \A m, n \in Nat : m * n \in Nat
    OBVIOUS
  <2>3. Refill * (to - from + Skew * (1 + 0)) \in Nat
    BY <2>1, <2>2, Rates
  <2> QED BY <2>3, Rates
<1> QED BY <1>3, <1>4, <1>5, <1>7, <1>8 DEF Inv

LEMMA InvStep == Inv /\ [Next]_vars => Inv'
<1> SUFFICES ASSUME Inv, [Next]_vars PROVE Inv'
  OBVIOUS
<1>1. TypeOK'
  BY TypeStep DEF Inv
<1>2. CASE Next
  <2>1. ReadingsAreRecent' /\ BucketsAreOfThePast' /\ HistoryIsPast'
    BY <1>1, <1>2, PastStep DEF Inv
  <2>2. AdviceHolds'
    BY <1>1, <1>2, AdviceStep DEF Inv
  <2>3. Accounted'
    BY <1>1, <1>2, <2>1, AccountStep
  <2>4. WithinBudget'
    BY <1>1, <1>2, <2>1, <2>3, BudgetStep
  <2> QED BY <1>1, <2>1, <2>2, <2>3, <2>4 DEF Inv
<1>3. CASE UNCHANGED vars
  BY <1>1, <1>3 DEF Inv, vars, history, ReadingsAreRecent, BucketsAreOfThePast, HistoryIsPast,
     AdviceHolds, Accounted, AccountedSince, Allowance, WithinBudget
<1> QED BY <1>2, <1>3

LEMMA Invariance == Spec => []Inv
BY InvInit, InvStep, PTL DEF Spec

\* However many addresses call, the limiter tracks no more than MaxKeys of them.
THEOREM MapIsCapped == Spec => []TypeOK
<1>1. Inv => TypeOK
  BY DEF Inv
<1> QED BY <1>1, Invariance, PTL

\* No address gets more than Burst at once and Refill sustained, over any stretch
\* of time, but for what the waits for the mutex are worth: dropping buckets,
\* making them anew and deciding calls out of order gain nothing else.
THEOREM BudgetHolds == Spec => []WithinBudget
<1>1. Inv => WithinBudget
  BY DEF Inv
<1> QED BY <1>1, Invariance, PTL

\* Whoever waits for as long as Retry-After said finds a token.
THEOREM WaitIsEnough == Spec => []RetryAfterIsEnough
<1>1. Inv => RetryAfterIsEnough
  <2> SUFFICES ASSUME Inv, NEW k \in DOMAIN buckets, advice[k] # -1, clock >= advice[k]
               PROVE  buckets[k].tokens + (clock - buckets[k].last) * Refill >= Cost
    BY DEF RetryAfterIsEnough
  <2> DEFINE b == buckets[k]
             a == advice[k]
  <2>1. k \in Keys /\ b \in Bucket /\ clock \in Nat /\ a \in Int
    BY TimesFacts DEF Inv, TypeOK
  <2>2. b.tokens \in Nat /\ b.last \in Nat /\ Refill \in Nat /\ Cost \in Nat
    BY <2>1, BucketFacts, Rates
  <2>3. b.tokens + (a - b.last) * Refill >= Cost
    BY DEF Inv, AdviceHolds
  <2>4. a <= clock
    BY <2>1
  <2> HIDE DEF a, b
  <2>5. Refill * (a - b.last) <= Refill * (clock - b.last)
    BY <2>1, <2>2, <2>4, RefillGrows
  <2>6. (a - b.last) * Refill = Refill * (a - b.last)
        /\ (clock - b.last) * Refill = Refill * (clock - b.last)
        /\ Refill * (a - b.last) \in Int /\ Refill * (clock - b.last) \in Int
    BY <2>1, <2>2
  <2>7. b.tokens + (clock - b.last) * Refill >= Cost
    BY <2>2, <2>3, <2>5, <2>6
  <2> QED BY <2>7 DEF b
<1> QED BY <1>1, Invariance, PTL
=============================================================================
