-------------------------- MODULE ProposalCacheProofs --------------------------
(***************************************************************************)
(* What ProposalCache bounds, for any number of callers, events and        *)
(* members, any cooldown, time-out and cap.                                *)
(***************************************************************************)
EXTENDS ProposalCache, FiniteSetTheorems, TLAPS

\* The caller that runs fn for an event holds the event's flight.
SingleFlight == \A c \in Callers : pc[c] \in Leading => flight[event[c]] = c

\* Nothing is from the future, and no stored answer took too long.
Ordered ==
    /\ \A k \in DOMAIN values :
        /\ values[k].at <= now
        /\ values[k].since <= values[k].at
        /\ values[k].at <= values[k].since + FetchTime
    /\ \A c \in Callers : answer[c].since <= now

\* How old the answer of a caller that runs fn may be, by where it is.
Young ==
    \A c \in Callers :
        /\ pc[c] \in {"fetch", "store"} => now <= answer[c].since + FetchTime
        /\ pc[c] = "return" => now < answer[c].since + TTL + FetchTime

\* The semaphore bounds the goroutines of one computation.
FetchesBounded ==
    \A c \in Callers : IsFiniteSet(busy[c]) /\ Cardinality(busy[c]) <= MaxFetches

Inv ==
    /\ TypeOK
    /\ Ordered
    /\ Young
    /\ AnswersAreRecent
    /\ SingleFlight
    /\ NoNeedlessFanOut
    /\ FetchesBounded
    /\ CacheBounded

-----------------------------------------------------------------------------
LEMMA Assumptions ==
    /\ Nobody \notin Callers
    /\ IsFiniteSet(Members) /\ IsFiniteSet(Events)
    /\ TTL \in Nat /\ TTL > 0 /\ FetchTime \in Nat /\ MaxTime \in Nat
    /\ MaxFetches \in Nat /\ MaxFetches > 0 /\ MaxCached \in Nat /\ MaxCached > 0
  BY NobodyAssumption, MembersAssumption, EventsAssumption, NumbersAssumption

\* What store leaves in the map: the new answer, or nothing but old ones, and
\* never more than the cap.
LEMMA StoredFacts ==
  ASSUME TypeOK, CacheBounded, NEW k \in Events, NEW v \in Cached
  PROVE  /\ DOMAIN Stored(k, v) \subseteq Events
         /\ Stored(k, v) \in [DOMAIN Stored(k, v) -> Cached]
         /\ \A x \in DOMAIN Stored(k, v) :
                \/ x = k /\ Stored(k, v)[x] = v
                \/ x \in DOMAIN values /\ Stored(k, v)[x] = values[x]
         /\ Cardinality(DOMAIN Stored(k, v)) <= MaxCached
  <1> DEFINE full(f) == Cardinality(DOMAIN f) >= MaxCached
             kept == IF full(values)
                     THEN Restrict(values, {x \in DOMAIN values : Fresh(x)})
                     ELSE values
             added == [x \in DOMAIN kept \cup {k} |-> IF x = k THEN v ELSE kept[x]]
  <1>1. Stored(k, v) = IF full(kept) THEN kept ELSE added
    BY DEF Stored
  <1>2. /\ DOMAIN kept \subseteq DOMAIN values
        /\ kept = [x \in DOMAIN kept |-> values[x]]
    BY DEF Restrict, TypeOK
  <1>3. DOMAIN values \subseteq Events /\ IsFiniteSet(DOMAIN values)
    BY Assumptions, FS_Subset DEF TypeOK
  <1>4. /\ IsFiniteSet(DOMAIN kept)
        /\ Cardinality(DOMAIN kept) \in Nat
        /\ Cardinality(DOMAIN kept) <= MaxCached
    <2>1. /\ IsFiniteSet(DOMAIN kept)
          /\ Cardinality(DOMAIN kept) <= Cardinality(DOMAIN values)
      BY <1>2, <1>3, FS_Subset
    <2>2. Cardinality(DOMAIN kept) \in Nat /\ Cardinality(DOMAIN values) \in Nat
      BY <1>3, <2>1, FS_CardinalityType
    <2> QED
      BY <2>1, <2>2, Assumptions DEF CacheBounded
  <1> HIDE DEF kept
  <1>5. CASE full(kept)
    BY <1>1, <1>2, <1>3, <1>4, <1>5 DEF TypeOK
  <1>6. CASE ~full(kept)
    <2>1. DOMAIN added = DOMAIN kept \cup {k}
      OBVIOUS
    <2>2. Cardinality(DOMAIN kept \cup {k}) <= MaxCached
      <3>1. /\ IsFiniteSet(DOMAIN kept \cup {k})
            /\ \/ Cardinality(DOMAIN kept \cup {k}) = Cardinality(DOMAIN kept)
               \/ Cardinality(DOMAIN kept \cup {k}) = Cardinality(DOMAIN kept) + 1
        BY <1>4, FS_AddElement
      <3>2. Cardinality(DOMAIN kept) < MaxCached
        BY <1>4, <1>6, Assumptions
      <3> QED
        BY <1>4, <3>1, <3>2, Assumptions
    <2>3. added \in [DOMAIN added -> Cached]
      BY <1>2, <2>1 DEF TypeOK
    <2>4. \A x \in DOMAIN added : added[x] = IF x = k THEN v ELSE kept[x]
      BY <2>1
    <2>5. \A x \in DOMAIN kept : x \in DOMAIN values /\ kept[x] = values[x]
      BY <1>2
    <2>6. Stored(k, v) = added
      BY <1>1, <1>6
    <2> HIDE DEF added
    <2>7. \A x \in DOMAIN added :
              \/ x = k /\ added[x] = v
              \/ x \in DOMAIN values /\ added[x] = values[x]
      BY <2>1, <2>4, <2>5
    <2>8. DOMAIN added \subseteq Events
      BY <1>2, <1>3, <2>1
    <2> QED
      BY <2>1, <2>2, <2>3, <2>6, <2>7, <2>8
  <1> QED
    BY <1>5, <1>6

\* The answers a caller can be given are no older than cooldown and computation.
LEMMA StoredIsYoung ==
  ASSUME Inv, NEW k \in Events, Fresh(k)
  PROVE  /\ values[k] \in Cached
         /\ now - values[k].since \in 0 .. MaxTime
         /\ now - values[k].since < TTL + FetchTime
  <1>1. /\ k \in DOMAIN values /\ now - values[k].at < TTL
        /\ values[k] \in Cached /\ now \in 0 .. MaxTime
    BY DEF Fresh, Inv, TypeOK
  <1>2. /\ values[k].at <= now /\ values[k].since <= values[k].at
        /\ values[k].at <= values[k].since + FetchTime
    BY <1>1 DEF Inv, Ordered
  <1> QED
    BY <1>1, <1>2, Assumptions DEF Cached

-----------------------------------------------------------------------------
LEMMA InitInv == Init => Inv
  <1> SUFFICES ASSUME Init
               PROVE  Inv
    OBVIOUS
  <1>1. TypeOK
    BY Assumptions DEF Init, TypeOK, Proposal, NoProposal, Leading
  <1>2. Ordered /\ Young /\ AnswersAreRecent /\ SingleFlight /\ NoNeedlessFanOut
    BY Assumptions DEF Init, Ordered, Young, AnswersAreRecent, SingleFlight,
       NoNeedlessFanOut, NoProposal, Leading
  <1>3. FetchesBounded
    BY Assumptions, FS_EmptySet DEF Init, FetchesBounded
  <1>4. CacheBounded
    BY Assumptions, FS_EmptySet DEF Init, CacheBounded
  <1> QED
    BY <1>1, <1>2, <1>3, <1>4 DEF Inv

\* The types, and the ages that they rest on.
LEMMA NextTypeOK == Inv /\ [Next]_vars => TypeOK'
  <1> SUFFICES ASSUME Inv, [Next]_vars
               PROVE  TypeOK'
    OBVIOUS
  <1> USE DEF Inv, Goto
  <1>1. TypeOK
    OBVIOUS
  <1>2. ASSUME NEW c \in Callers, NEW k \in Events, AskHit(c, k)
        PROVE  TypeOK'
    <2>1. now - values[k].since \in 0 .. MaxTime
      BY <1>2, StoredIsYoung DEF AskHit
    <2> QED
      BY <1>1, <1>2, <2>1 DEF AskHit, TypeOK, handlers, fetches
  <1>3. ASSUME NEW c \in Callers, NEW k \in Events, AskMiss(c, k)
        PROVE  TypeOK'
    BY <1>1, <1>3, Assumptions DEF AskMiss, TypeOK, fetches
  <1>4. ASSUME NEW c \in Callers, Leave(c)
        PROVE  TypeOK'
    BY <1>1, <1>4 DEF Leave, TypeOK, fetches
  <1>5. ASSUME NEW c \in Callers, Handle(c)
        PROVE  TypeOK'
    <2>1. CASE Join(c)
      BY <1>1, <2>1 DEF Join, TypeOK, fetches, Leading
    <2>2. CASE Recheck(c)
      <3>1. CASE Fresh(event[c])
        <4>1. [considered |-> values[event[c]].considered,
               since |-> values[event[c]].since] \in Proposal
          BY <1>1, <3>1, StoredIsYoung DEF TypeOK, Cached, Proposal
        <4> QED
          BY <1>1, <2>2, <3>1, <4>1 DEF Recheck, TypeOK, fetches, Leading
      <3>2. CASE ~Fresh(event[c])
        BY <1>1, <2>2, <3>2 DEF Recheck, TypeOK, fetches, Leading
      <3> QED
        BY <3>1, <3>2
    <2>3. CASE List(c)
      BY <1>1, <2>3 DEF List, TypeOK, Proposal, Leading
    <2>4. CASE ListFails(c)
      BY <1>1, <2>4 DEF ListFails, TypeOK, fetches, Leading
    <2>5. ASSUME NEW m \in Members, StartFetch(c, m)
          PROVE  TypeOK'
      BY <1>1, <2>5 DEF StartFetch, TypeOK, handlers
    <2>6. ASSUME NEW m \in Members, FetchOK(c, m)
          PROVE  TypeOK'
      BY <1>1, <2>6 DEF FetchOK, TypeOK, handlers, Proposal
    <2>7. ASSUME NEW m \in Members, FetchFails(c, m)
          PROVE  TypeOK'
      BY <1>1, <2>7 DEF FetchFails, TypeOK, handlers
    <2>8. CASE Compute(c)
      BY <1>1, <2>8 DEF Compute, TypeOK, fetches, Leading
    <2>9. CASE Store(c)
      <3> DEFINE v == [considered |-> answer[c].considered,
                       since |-> answer[c].since, at |-> now]
      <3>1. v \in Cached /\ event[c] \in Events
        BY <1>1 DEF TypeOK, Cached, Proposal
      <3>2. values' = Stored(event[c], v)
        BY <2>9 DEF Store
      <3>3. DOMAIN values' \subseteq Events /\ values' \in [DOMAIN values' -> Cached]
        BY <3>1, <3>2, StoredFacts
      <3> QED
        BY <1>1, <2>9, <3>3 DEF Store, TypeOK, fetches, Leading
    <2>10. CASE EndFlight(c)
      <3>1. pc[c] = "return" => now - answer[c].since \in 0 .. MaxTime
        <4>1. answer[c].since \in 0 .. MaxTime /\ now \in 0 .. MaxTime
          BY <1>1 DEF TypeOK, Proposal
        <4>2. answer[c].since <= now
          BY DEF Ordered
        <4> QED
          BY <4>1, <4>2, Assumptions
      <3>2. gone' \in [Callers -> BOOLEAN]
        BY <2>10 DEF EndFlight
      <3>3. answer' \in [Callers -> Proposal]
        BY <1>1, <2>10, Assumptions DEF EndFlight, TypeOK, Proposal, NoProposal
      <3>4. age' \in [Callers -> 0 .. MaxTime]
        BY <1>1, <2>10, <3>1 DEF EndFlight, TypeOK
      <3>5. pc' \in [Callers -> {"idle", "join", "wait"} \cup Leading]
        BY <1>1, <2>10 DEF EndFlight, TypeOK
      <3>7. \A d \in Callers : pc'[d] # "fetch" => pc[d] # "fetch"
        <4>1. \A d \in Sharing(c) : pc[d] \in {"wait", "return", "error"}
          BY <2>10 DEF EndFlight, Sharing
        <4>2. \A d \in Callers : d \notin Sharing(c) => pc'[d] = pc[d]
          BY <2>10 DEF EndFlight
        <4> QED
          BY <4>1, <4>2
      <3>6. flight' \in [Events -> Callers \cup {Nobody}]
        BY <1>1, <2>10 DEF EndFlight, TypeOK
      <3> QED
        BY <1>1, <2>10, <3>2, <3>3, <3>4, <3>5, <3>6, <3>7 DEF EndFlight, TypeOK, fetches
    <2> QED
      BY <1>5, <2>1, <2>2, <2>3, <2>4, <2>5, <2>6, <2>7, <2>8, <2>9, <2>10 DEF Handle
  <1>6. CASE Tick
    BY <1>1, <1>6, Assumptions DEF Tick, TypeOK, handlers, fetches
  <1>7. CASE UNCHANGED vars
    BY <1>1, <1>7 DEF vars, TypeOK
  <1> QED
    BY <1>2, <1>3, <1>4, <1>5, <1>6, <1>7 DEF Next

-----------------------------------------------------------------------------
\* The ages.  Nothing but Store changes the map and nothing but List and Recheck
\* gives a caller an answer; time passes only while a computation may run on.
LEMMA NextAges ==
  Inv /\ TypeOK' /\ [Next]_vars => Ordered' /\ Young' /\ AnswersAreRecent'
  <1> DEFINE Ages == Ordered /\ Young /\ AnswersAreRecent
  <1> SUFFICES ASSUME Inv, TypeOK', [Next]_vars
               PROVE  Ages'
    OBVIOUS
  <1>1. Ages /\ TypeOK
    BY DEF Inv
  <1>2. /\ now \in 0 .. MaxTime /\ now' \in 0 .. MaxTime
        /\ MaxTime \in Nat /\ TTL \in Nat /\ TTL > 0 /\ FetchTime \in Nat
        /\ \A d \in Callers : answer[d].since \in 0 .. MaxTime
        /\ \A k \in DOMAIN values :
               values[k].since \in 0 .. MaxTime /\ values[k].at \in 0 .. MaxTime
    BY <1>1, Assumptions DEF TypeOK, Proposal, Cached
  <1>3. ASSUME NEW c \in Callers, NEW k \in Events, AskHit(c, k)
        PROVE  Ages'
    <2>1. now - values[k].since < TTL + FetchTime
      BY <1>3, StoredIsYoung DEF AskHit
    <2> QED
      BY <1>1, <1>3, <2>1 DEF AskHit, Ordered, Young, AnswersAreRecent, TypeOK,
         handlers, fetches
  <1>4. ASSUME NEW c \in Callers, NEW k \in Events, AskMiss(c, k)
        PROVE  Ages'
    BY <1>1, <1>2, <1>4 DEF AskMiss, Goto, Ordered, Young, AnswersAreRecent, TypeOK
  <1>5. ASSUME NEW c \in Callers, Leave(c)
        PROVE  Ages'
    BY <1>1, <1>5 DEF Leave, Ordered, Young, AnswersAreRecent
  <1>6. ASSUME NEW c \in Callers, Handle(c)
        PROVE  Ages'
    <2>1. CASE Join(c)
      BY <1>1, <2>1 DEF Join, Goto, Ordered, Young, AnswersAreRecent, TypeOK
    <2>2. CASE Recheck(c)
      <3>1. CASE Fresh(event[c])
        <4>1. /\ values[event[c]].since <= now
              /\ now - values[event[c]].since < TTL + FetchTime
          <5>1. event[c] \in Events
            BY <1>1 DEF TypeOK
          <5>2. /\ now - values[event[c]].since \in 0 .. MaxTime
                /\ now - values[event[c]].since < TTL + FetchTime
            BY <3>1, <5>1, StoredIsYoung
          <5>3. values[event[c]].since \in 0 .. MaxTime
            BY <1>2, <3>1 DEF Fresh
          <5> QED
            BY <1>2, <5>2, <5>3
        <4>2. /\ answer'[c].since = values[event[c]].since /\ pc'[c] = "return"
              /\ \A d \in Callers \ {c} : answer'[d] = answer[d] /\ pc'[d] = pc[d]
          BY <1>1, <2>2, <3>1 DEF Recheck, Goto, TypeOK
        <4>3. values[event[c]].since \in 0 .. MaxTime
          BY <1>2, <3>1 DEF Fresh
        <4>4. Ordered'
          BY <1>1, <2>2, <4>1, <4>2 DEF Recheck, Ordered
        <4>5. Young'
          BY <1>1, <1>2, <2>2, <4>1, <4>2, <4>3 DEF Recheck, Young
        <4>6. AnswersAreRecent'
          BY <1>1, <2>2 DEF Recheck, AnswersAreRecent
        <4> QED
          BY <4>4, <4>5, <4>6
      <3>2. CASE ~Fresh(event[c])
        BY <1>1, <2>2, <3>2 DEF Recheck, Goto, Ordered, Young, AnswersAreRecent, TypeOK
      <3> QED
        BY <3>1, <3>2
    <2>3. CASE List(c)
      <3>1. /\ answer'[c].since = now /\ pc'[c] = "fetch"
            /\ \A d \in Callers \ {c} : answer'[d] = answer[d] /\ pc'[d] = pc[d]
        BY <1>1, <2>3 DEF List, Goto, TypeOK
      <3>2. Ordered'
        BY <1>1, <1>2, <2>3, <3>1 DEF List, Ordered
      <3>3. Young'
        BY <1>1, <1>2, <2>3, <3>1 DEF List, Young
      <3>4. AnswersAreRecent'
        BY <1>1, <2>3 DEF List, AnswersAreRecent
      <3> QED
        BY <3>2, <3>3, <3>4
    <2>4. CASE ListFails(c)
      BY <1>1, <2>4 DEF ListFails, Goto, Ordered, Young, AnswersAreRecent, TypeOK
    <2>5. ASSUME NEW m \in Members, StartFetch(c, m) \/ FetchFails(c, m)
          PROVE  Ages'
      BY <1>1, <2>5 DEF StartFetch, FetchFails, handlers, Ordered, Young, AnswersAreRecent
    <2>6. ASSUME NEW m \in Members, FetchOK(c, m)
          PROVE  Ages'
      <3>1. \A d \in Callers : answer'[d].since = answer[d].since
        <4>1. answer[c] \in Proposal /\ answer \in [Callers -> Proposal]
          BY <1>1 DEF TypeOK
        <4>2. answer' = [answer EXCEPT ![c] =
                  [answer[c] EXCEPT !.considered = answer[c].considered \cup {m}]]
          BY <2>6 DEF FetchOK
        <4>3. [answer[c] EXCEPT !.considered = answer[c].considered \cup {m}].since
                  = answer[c].since
          BY <4>1 DEF Proposal
        <4> QED
          BY <4>1, <4>2, <4>3
      <3> QED
        BY <1>1, <2>6, <3>1 DEF FetchOK, handlers, Ordered, Young, AnswersAreRecent
    <2>7. CASE Compute(c)
      BY <1>1, <2>7 DEF Compute, Goto, Ordered, Young, AnswersAreRecent, TypeOK
    <2>8. CASE Store(c)
      <3> DEFINE v == [considered |-> answer[c].considered,
                       since |-> answer[c].since, at |-> now]
      <3>1. v \in Cached /\ event[c] \in Events
        BY <1>1 DEF TypeOK, Cached, Proposal
      <3>2. values' = Stored(event[c], v)
        BY <2>8 DEF Store
      <3>3. \A x \in DOMAIN values' :
               \/ values'[x] = v
               \/ x \in DOMAIN values /\ values'[x] = values[x]
        BY <3>1, <3>2, <1>1, StoredFacts DEF Inv
      <3>4. answer[c].since <= now /\ now <= answer[c].since + FetchTime
        BY <1>1, <2>8 DEF Store, Ordered, Young
      <3>5. v.at <= now /\ v.since <= v.at /\ v.at <= v.since + FetchTime
        BY <1>2, <3>4
      <3>6. now' = now /\ answer' = answer /\ age' = age
        BY <2>8 DEF Store
      <3>7. Ordered'
        <4> HIDE DEF v
        <4> QED
          BY <1>1, <3>3, <3>5, <3>6 DEF Ordered
      <3>8. Young'
        <4>1. /\ pc'[c] = "return"
              /\ \A d \in Callers \ {c} : pc'[d] = pc[d]
          BY <1>1, <2>8 DEF Store, Goto, TypeOK
        <4>2. now < answer[c].since + TTL + FetchTime
          BY <1>2, <3>4
        <4> QED
          BY <1>1, <3>6, <4>1, <4>2 DEF Young
      <3>9. AnswersAreRecent'
        BY <1>1, <3>6 DEF AnswersAreRecent
      <3> QED
        BY <3>7, <3>8, <3>9
    <2>9. CASE EndFlight(c)
      <3>1. /\ answer'[c] = NoProposal /\ pc'[c] = "idle"
            /\ \A d \in Callers \ {c} : answer'[d] = answer[d]
            /\ \A d \in Callers : pc'[d] = "idle" \/ pc'[d] = pc[d]
        BY <1>1, <2>9 DEF EndFlight, Sharing, TypeOK
      <3>2. Ordered'
        BY <1>1, <1>2, <2>9, <3>1 DEF EndFlight, Ordered, NoProposal
      <3>3. Young'
        BY <1>1, <2>9, <3>1 DEF EndFlight, Young
      <3>4. pc[c] = "return" => now - answer[c].since < TTL + FetchTime
        BY <1>1, <1>2 DEF Young
      <3>5. AnswersAreRecent'
        BY <1>1, <2>9, <3>4 DEF EndFlight, AnswersAreRecent
      <3> QED
        BY <3>2, <3>3, <3>5
    <2> QED
      BY <1>6, <2>1, <2>2, <2>3, <2>4, <2>5, <2>6, <2>7, <2>8, <2>9 DEF Handle
  <1>7. CASE Tick
    <2>1. now' = now + 1 /\ values' = values /\ answer' = answer /\ pc' = pc /\ age' = age
      BY <1>7 DEF Tick, handlers
    <2>2. \A d \in Callers : /\ pc[d] = "fetch" => now - answer[d].since < FetchTime
                             /\ pc[d] \notin {"store", "return"}
      BY <1>7 DEF Tick
    <2>3. Ordered'
      BY <1>1, <1>2, <2>1 DEF Ordered
    <2>4. Young'
      BY <1>1, <1>2, <2>1, <2>2 DEF Young
    <2> QED
      BY <1>1, <2>1, <2>3, <2>4 DEF AnswersAreRecent
  <1>8. CASE UNCHANGED vars
    BY <1>1, <1>8 DEF vars, Ordered, Young, AnswersAreRecent, handlers, fetches
  <1> QED
    BY <1>3, <1>4, <1>5, <1>6, <1>7, <1>8 DEF Next

-----------------------------------------------------------------------------
\* Who runs fn.  Join takes a flight only when nobody holds it, and EndFlight
\* gives back its own; an answer appears only through the one that holds it.
LEMMA NextLeaders ==
  Inv /\ TypeOK' /\ [Next]_vars => SingleFlight' /\ NoNeedlessFanOut'
  <1> DEFINE Leaders == SingleFlight /\ NoNeedlessFanOut
  <1> SUFFICES ASSUME Inv, TypeOK', [Next]_vars
               PROVE  Leaders'
    OBVIOUS
  <1>1. Leaders /\ TypeOK
    BY DEF Inv
  <1>2. /\ pc \in [Callers -> {"idle", "join", "wait"} \cup Leading]
        /\ event \in [Callers -> Events]
        /\ flight \in [Events -> Callers \cup {Nobody}]
        /\ Nobody \notin Callers
    BY <1>1, Assumptions DEF TypeOK
  <1>3. ASSUME NEW c \in Callers, NEW k \in Events, AskHit(c, k)
        PROVE  Leaders'
    BY <1>1, <1>3 DEF AskHit, SingleFlight, NoNeedlessFanOut, Fresh, handlers
  <1>4. ASSUME NEW c \in Callers, NEW k \in Events, AskMiss(c, k)
        PROVE  Leaders'
    <2>1. /\ pc'[c] = "join"
          /\ \A d \in Callers \ {c} : pc'[d] = pc[d] /\ event'[d] = event[d]
          /\ flight' = flight /\ \A x \in Events : Fresh(x)' <=> Fresh(x)
      BY <1>2, <1>4 DEF AskMiss, Goto, Fresh
    <2> QED
      BY <1>1, <1>2, <2>1 DEF SingleFlight, NoNeedlessFanOut, Leading
  <1>5. ASSUME NEW c \in Callers, Leave(c)
        PROVE  Leaders'
    BY <1>1, <1>5 DEF Leave, SingleFlight, NoNeedlessFanOut, Fresh
  <1>6. ASSUME NEW c \in Callers, Handle(c)
        PROVE  Leaders'
    <2>1. event' = event
      BY <1>6 DEF Handle, Join, Recheck, List, ListFails, StartFetch, FetchOK,
         FetchFails, Compute, Store, EndFlight, handlers
    <2>2. CASE Join(c)
      <3>1. /\ \A d \in Callers \ {c} : pc'[d] = pc[d]
            /\ \A x \in Events : Fresh(x)' <=> Fresh(x)
        BY <1>2, <2>2 DEF Join, Goto, Fresh
      <3>2. CASE flight[event[c]] = Nobody
        <4>1. flight' = [flight EXCEPT ![event[c]] = c] /\ pc'[c] = "recheck"
          BY <1>2, <2>2, <3>2 DEF Join, Goto
        <4>2. \A d \in Callers \ {c} : pc[d] \in Leading => event[d] # event[c]
          BY <1>1, <1>2, <3>2 DEF SingleFlight
        <4> QED
          BY <1>1, <1>2, <2>1, <3>1, <4>1, <4>2 DEF SingleFlight, NoNeedlessFanOut
      <3>3. CASE flight[event[c]] # Nobody
        <4>1. flight' = flight /\ pc'[c] = "wait"
          BY <1>2, <2>2, <3>3 DEF Join, Goto
        <4> QED
          BY <1>1, <1>2, <2>1, <3>1, <4>1 DEF SingleFlight, NoNeedlessFanOut, Leading
      <3> QED
        BY <3>2, <3>3
    <2>3. CASE Recheck(c) \/ List(c) \/ ListFails(c) \/ Compute(c)
      <3>1. /\ pc[c] \in Leading /\ pc[c] \in {"recheck", "list", "fetch"}
            /\ pc'[c] \in {"list", "fetch"} => pc[c] = "list" \/ ~Fresh(event[c])
            /\ \A d \in Callers \ {c} : pc'[d] = pc[d]
            /\ flight' = flight /\ \A x \in Events : Fresh(x)' <=> Fresh(x)
        BY <1>2, <2>3 DEF Recheck, List, ListFails, Compute, Goto, Fresh, Leading
      <3> QED
        BY <1>1, <1>2, <2>1, <3>1 DEF SingleFlight, NoNeedlessFanOut
    <2>4. ASSUME NEW m \in Members,
                 StartFetch(c, m) \/ FetchOK(c, m) \/ FetchFails(c, m)
          PROVE  Leaders'
      BY <1>1, <2>4 DEF StartFetch, FetchOK, FetchFails, handlers, SingleFlight,
         NoNeedlessFanOut, Fresh
    <2>5. CASE Store(c)
      <3> DEFINE v == [considered |-> answer[c].considered,
                       since |-> answer[c].since, at |-> now]
      <3>1. v \in Cached /\ event[c] \in Events
        BY <1>1 DEF TypeOK, Cached, Proposal
      <3>2. values' = Stored(event[c], v)
        BY <2>5 DEF Store
      <3> HIDE DEF v
      <3>3. \A x \in DOMAIN values' :
               \/ x = event[c]
               \/ x \in DOMAIN values /\ values'[x] = values[x]
        <4>1. TypeOK /\ CacheBounded
          BY DEF Inv
        <4> QED
          BY <3>1, <3>2, <4>1, StoredFacts
      <3>4. /\ now' = now /\ flight' = flight
            /\ pc[c] = "store" /\ pc'[c] = "return"
            /\ \A d \in Callers \ {c} : pc'[d] = pc[d]
        BY <1>2, <2>5 DEF Store, Goto
      <3>5. \A x \in Events \ {event[c]} : Fresh(x)' => Fresh(x)
        BY <3>3, <3>4 DEF Fresh
      <3>6. SingleFlight'
        BY <1>1, <2>1, <3>4 DEF SingleFlight, Leading
      <3>7. \A d \in Callers \ {c} : pc[d] \in {"list", "fetch"} => event[d] # event[c]
        BY <1>1, <3>4 DEF SingleFlight, Leading
      <3>8. NoNeedlessFanOut'
        BY <1>1, <1>2, <2>1, <3>4, <3>5, <3>7 DEF NoNeedlessFanOut
      <3> QED
        BY <3>6, <3>8
    <2>6. CASE EndFlight(c)
      <3>1. /\ pc[c] \in Leading /\ pc'[c] = "idle"
            /\ \A d \in Callers : pc'[d] = "idle" \/ pc'[d] = pc[d]
            /\ flight' = [flight EXCEPT ![event[c]] = Nobody]
            /\ \A x \in Events : Fresh(x)' <=> Fresh(x)
        BY <1>2, <2>6 DEF EndFlight, Sharing, Fresh, Leading
      <3>2. \A d \in Callers \ {c} : pc[d] \in Leading => event[d] # event[c]
        BY <1>1, <3>1 DEF SingleFlight
      <3>3. SingleFlight'
        BY <1>1, <1>2, <2>1, <3>1, <3>2 DEF SingleFlight, Leading
      <3>4. NoNeedlessFanOut'
        BY <1>1, <1>2, <2>1, <3>1 DEF NoNeedlessFanOut
      <3> QED
        BY <3>3, <3>4
    <2> QED
      BY <1>6, <2>2, <2>3, <2>4, <2>5, <2>6 DEF Handle
  <1>7. CASE Tick
    <2>1. \A x \in Events : Fresh(x)' => Fresh(x)
      <3> SUFFICES ASSUME NEW x \in Events, Fresh(x)'
                   PROVE  Fresh(x)
        OBVIOUS
      <3>1. /\ x \in DOMAIN values /\ now \in Nat /\ now' = now + 1
            /\ values[x].at \in Nat /\ (now + 1) - values[x].at < TTL
        BY <1>1, <1>7, Assumptions DEF Tick, Fresh, TypeOK, Cached
      <3> QED
        BY <3>1, Assumptions DEF Fresh
    <2> QED
      BY <1>1, <1>2, <1>7, <2>1 DEF Tick, handlers, SingleFlight, NoNeedlessFanOut
  <1>8. CASE UNCHANGED vars
    BY <1>1, <1>8 DEF vars, SingleFlight, NoNeedlessFanOut, Fresh, handlers
  <1> QED
    BY <1>3, <1>4, <1>5, <1>6, <1>7, <1>8 DEF Next

-----------------------------------------------------------------------------
\* The caps.  A goroutine starts only while the semaphore has room, and what
\* store leaves fits (StoredFacts).
LEMMA NextCaps == Inv /\ [Next]_vars => FetchesBounded' /\ CacheBounded'
  <1> DEFINE Caps == FetchesBounded /\ CacheBounded
  <1> SUFFICES ASSUME Inv, [Next]_vars
               PROVE  Caps'
    OBVIOUS
  <1>1. Caps /\ TypeOK
    BY DEF Inv
  <1>2. busy \in [Callers -> SUBSET Members]
    BY <1>1 DEF TypeOK
  <1>3. ASSUME NEW c \in Callers, NEW k \in Events, AskHit(c, k) \/ AskMiss(c, k)
        PROVE  Caps'
    BY <1>1, <1>3 DEF AskHit, AskMiss, FetchesBounded, CacheBounded, fetches
  <1>4. ASSUME NEW c \in Callers, Leave(c)
        PROVE  Caps'
    BY <1>1, <1>4 DEF Leave, FetchesBounded, CacheBounded, fetches
  <1>5. ASSUME NEW c \in Callers, Handle(c)
        PROVE  Caps'
    <2>1. CASE \/ Join(c) \/ Recheck(c) \/ List(c) \/ ListFails(c)
               \/ Compute(c) \/ EndFlight(c)
      <3>1. busy' = busy /\ values' = values
        BY <2>1 DEF Join, Recheck, List, ListFails, Compute, EndFlight, fetches
      <3> QED
        BY <1>1, <3>1 DEF FetchesBounded, CacheBounded
    <2>2. ASSUME NEW m \in Members, StartFetch(c, m)
          PROVE  Caps'
      <3>1. /\ busy' = [busy EXCEPT ![c] = busy[c] \cup {m}] /\ values' = values
            /\ Cardinality(busy[c]) < MaxFetches
        BY <2>2 DEF StartFetch
      <3>2. IsFiniteSet(busy[c]) /\ Cardinality(busy[c]) \in Nat
        BY <1>1, FS_CardinalityType DEF FetchesBounded
      <3>3. /\ IsFiniteSet(busy[c] \cup {m})
            /\ \/ Cardinality(busy[c] \cup {m}) = Cardinality(busy[c])
               \/ Cardinality(busy[c] \cup {m}) = Cardinality(busy[c]) + 1
        BY <3>2, FS_AddElement
      <3>4. Cardinality(busy[c] \cup {m}) <= MaxFetches
        BY <3>1, <3>2, <3>3, Assumptions
      <3>5. /\ busy'[c] = busy[c] \cup {m}
            /\ \A d \in Callers \ {c} : busy'[d] = busy[d]
        BY <1>2, <3>1
      <3> QED
        BY <1>1, <3>1, <3>3, <3>4, <3>5 DEF FetchesBounded, CacheBounded
    <2>3. ASSUME NEW m \in Members, FetchOK(c, m) \/ FetchFails(c, m)
          PROVE  Caps'
      <3>1. /\ busy' = [busy EXCEPT ![c] = busy[c] \ {m}] /\ values' = values
            /\ m \in busy[c]
        BY <2>3 DEF FetchOK, FetchFails
      <3>2. /\ IsFiniteSet(busy[c]) /\ Cardinality(busy[c]) \in Nat
            /\ Cardinality(busy[c]) <= MaxFetches
        BY <1>1, FS_CardinalityType DEF FetchesBounded
      <3>3. /\ IsFiniteSet(busy[c] \ {m})
            /\ Cardinality(busy[c] \ {m}) = Cardinality(busy[c]) - 1
        BY <3>1, <3>2, FS_RemoveElement
      <3>4. Cardinality(busy[c] \ {m}) <= MaxFetches
        BY <3>2, <3>3, Assumptions
      <3>5. /\ busy'[c] = busy[c] \ {m}
            /\ \A d \in Callers \ {c} : busy'[d] = busy[d]
        BY <1>2, <3>1
      <3> QED
        BY <1>1, <3>1, <3>3, <3>4, <3>5 DEF FetchesBounded, CacheBounded
    <2>4. CASE Store(c)
      <3> DEFINE v == [considered |-> answer[c].considered,
                       since |-> answer[c].since, at |-> now]
      <3>1. v \in Cached /\ event[c] \in Events
        BY <1>1 DEF TypeOK, Cached, Proposal
      <3>2. values' = Stored(event[c], v) /\ busy' = busy
        BY <2>4 DEF Store, fetches
      <3> HIDE DEF v
      <3>3. CacheBounded'
        BY <1>1, <3>1, <3>2, StoredFacts DEF CacheBounded
      <3> QED
        BY <1>1, <3>2, <3>3 DEF FetchesBounded
    <2> QED
      BY <1>5, <2>1, <2>2, <2>3, <2>4 DEF Handle
  <1>6. CASE Tick
    BY <1>1, <1>6 DEF Tick, FetchesBounded, CacheBounded, fetches
  <1>7. CASE UNCHANGED vars
    BY <1>1, <1>7 DEF vars, FetchesBounded, CacheBounded, fetches
  <1> QED
    BY <1>3, <1>4, <1>5, <1>6, <1>7 DEF Next

\* The invariant holds in every state the endpoint can reach.
THEOREM Invariance == Spec => []Inv
  <1>1. Inv /\ [Next]_vars => Inv'
    <2> SUFFICES ASSUME Inv, [Next]_vars
                 PROVE  Inv'
      OBVIOUS
    <2>1. TypeOK'
      BY NextTypeOK
    <2>2. Ordered' /\ Young' /\ AnswersAreRecent'
      BY <2>1, NextAges
    <2>3. SingleFlight' /\ NoNeedlessFanOut'
      BY <2>1, NextLeaders
    <2>4. FetchesBounded' /\ CacheBounded'
      BY NextCaps
    <2> QED
      BY <2>1, <2>2, <2>3, <2>4 DEF Inv
  <1> QED
    BY <1>1, InitInv, PTL DEF Spec

-----------------------------------------------------------------------------
\* The types of the endpoint; and no goroutine outlives its computation.
THEOREM TypeCorrect == Spec => []TypeOK
  <1>1. Inv => TypeOK
    BY DEF Inv
  <1> QED
    BY <1>1, Invariance, PTL

\* proposalCache.store keeps the map within maxCachedProposals, whatever the
\* cap, the cooldown and the number of events.
THEOREM CacheStaysBounded == Spec => []CacheBounded
  <1>1. Inv => CacheBounded
    BY DEF Inv
  <1> QED
    BY <1>1, Invariance, PTL

\* A computation begins refreshing only when no stored answer would do.
THEOREM FanOutIsNeeded == Spec => []NoNeedlessFanOut
  <1>1. Inv => NoNeedlessFanOut
    BY DEF Inv
  <1> QED
    BY <1>1, Invariance, PTL

\* Nobody gets an answer older than the cooldown and one computation together.
THEOREM AnswersStayRecent == Spec => []AnswersAreRecent
  <1>1. Inv => AnswersAreRecent
    BY DEF Inv
  <1> QED
    BY <1>1, Invariance, PTL

\* Only the holder of an event's flight fetches for it, and the semaphore bounds
\* what it has open: one event costs at most MaxFetches connections at a time.
THEOREM OutboundStaysBounded == Spec => []OutboundBounded
  <1>1. Inv => OutboundBounded
    <2> SUFFICES ASSUME Inv, NEW k \in Events
                 PROVE  Cardinality({f \in Callers \X Members :
                            event[f[1]] = k /\ f[2] \in busy[f[1]]}) <= MaxFetches
      BY DEF OutboundBounded
    <2> DEFINE open == {f \in Callers \X Members :
                            event[f[1]] = k /\ f[2] \in busy[f[1]]}
               leader == flight[k]
    <2>1. TypeOK /\ SingleFlight /\ FetchesBounded
      BY DEF Inv
    <2>2. \A f \in open : f[1] = leader /\ f[1] \in Callers /\ f[2] \in busy[leader]
      <3> SUFFICES ASSUME NEW f \in open
                   PROVE  f[1] = leader /\ f[1] \in Callers /\ f[2] \in busy[leader]
        OBVIOUS
      <3>1. f[1] \in Callers /\ event[f[1]] = k /\ f[2] \in busy[f[1]]
        OBVIOUS
      <3>2. pc[f[1]] = "fetch"
        BY <2>1, <3>1 DEF TypeOK
      <3>3. flight[event[f[1]]] = f[1]
        BY <2>1, <3>1, <3>2 DEF SingleFlight, Leading
      <3> QED
        BY <3>1, <3>3
    <2>3. CASE open = {}
      BY <2>3, FS_EmptySet, Assumptions
    <2>4. CASE open # {}
      <3>1. leader \in Callers
        BY <2>2, <2>4
      <3>2. IsFiniteSet(busy[leader]) /\ Cardinality(busy[leader]) <= MaxFetches
        BY <2>1, <3>1 DEF FetchesBounded
      <3> DEFINE second == [f \in open |-> f[2]]
      <3>3. second \in Injection(open, busy[leader])
        <4>1. second \in [open -> busy[leader]]
          BY <2>2
        <4>2. ASSUME NEW f \in open, NEW g \in open, second[f] = second[g]
              PROVE  f = g
          BY <2>2, <4>2
        <4> QED
          BY <4>1, <4>2 DEF Injection, IsInjective
      <3>4. IsFiniteSet(open) /\ Cardinality(open) <= Cardinality(busy[leader])
        BY <3>2, <3>3, FS_Injection
      <3> QED
        BY <3>2, <3>4, FS_CardinalityType, Assumptions
    <2> QED
      BY <2>3, <2>4
  <1> QED
    BY <1>1, Invariance, PTL
=============================================================================
