---------------------------- MODULE LiveUpdatesProofs ----------------------------
(***************************************************************************)
(* What a results page can rely on, whatever the number of streams, the    *)
(* size of a channel, and however often the event changes and connections  *)
(* break: the types, and that a page at rest is up to date.                *)
(***************************************************************************)
EXTENDS LiveUpdates, SequenceTheorems, TLAPS

-----------------------------------------------------------------------------
(* The inductive invariant. *)

\* A stream says it is open only once the broker knows it.
GreetedAreRegistered == \A s \in Streams : phase[s] = "streaming" => s \in registered

\* Every commit that is still to be published made a version.
OwedIsCommitted == owed < version

\* The page hears its stream, and nothing was missed.
Connected ==
    current \in Streams /\ phase[current] = "streaming" /\ link[current] /\ ~missed

\* What it is answered, or will be, is what is committed, unless that changes.
Ripe(l) == l.ev \in {Asked, version, Kept} /\ l.res \in {Asked, version}

\* Some load and all that was asked after it will show what is committed; or the
\* page shows it, and its own solve will not change that.
Coming ==
    \/ \E k \in DOMAIN loads : ~Own(loads[k]) /\ \A j \in k .. Len(loads) : Ripe(loads[j])
    \/ Fresh /\ \A j \in DOMAIN loads : Own(loads[j]) /\ Ripe(loads[j])

\* Such a page is up to date, or something that will bring it there is under
\* way: the publication, a message, a notice, or a load.
Promised ==
    Connected => owed > 0 \/ channel[current] > 0 \/ wire[current] > 0 \/ Coming

Inv == TypeOK /\ GreetedAreRegistered /\ OwedIsCommitted

-----------------------------------------------------------------------------
(* Loads. *)

LEMMA Constants ==
    /\ Buffer \in Nat \ {0} /\ MaxVersion \in Nat \ {0} /\ MaxLoads \in Nat \ {0}
    /\ MaxFaults \in Nat
    /\ Versions \subseteq Nat \ {0} /\ Broken \notin Versions /\ Kept \notin Versions
    /\ Asked \notin Versions /\ Asked # Broken /\ Asked # Kept /\ 1 \in Versions
BY BoundsAssumption DEF Versions, Broken, Kept, Asked

\* What is left when one element goes.
LEMMA Removed ==
    ASSUME NEW S, NEW s \in Seq(S), NEW i \in DOMAIN s
    PROVE  /\ RemoveAt(s, i) \in Seq(S)
           /\ Len(RemoveAt(s, i)) = Len(s) - 1
           /\ DOMAIN RemoveAt(s, i) = 1 .. Len(s) - 1
           /\ \A j \in 1 .. Len(s) - 1 :
                RemoveAt(s, i)[j] = IF j < i THEN s[j] ELSE s[j + 1]
<1> DEFINE n == Len(s)
           a == SubSeq(s, 1, i - 1)
           b == SubSeq(s, i + 1, n)
<1>1. n \in Nat /\ DOMAIN s = 1 .. n /\ i \in 1 .. n /\ \A j \in 1 .. n : s[j] \in S
  OBVIOUS
<1>2. /\ a \in Seq(S) /\ Len(a) = i - 1
      /\ \A j \in 1 .. i - 1 : a[j] = s[j]
  <2>1. 1 \in Int /\ i - 1 \in Int /\ \A j \in 1 .. i - 1 : s[j] \in S
    BY <1>1
  <2>2. /\ a \in Seq(S) /\ Len(a) = IF 1 <= i - 1 THEN i - 1 - 1 + 1 ELSE 0
        /\ \A j \in 1 .. i - 1 - 1 + 1 : a[j] = s[1 + j - 1]
    BY <2>1, SubSeqProperties
  <2> HIDE DEF a
  <2> QED BY <1>1, <2>2
<1>3. /\ b \in Seq(S) /\ Len(b) = n - i
      /\ \A j \in 1 .. n - i : b[j] = s[i + j]
  <2>1. i + 1 \in Int /\ n \in Int /\ \A j \in i + 1 .. n : s[j] \in S
    BY <1>1
  <2>2. /\ b \in Seq(S) /\ Len(b) = IF i + 1 <= n THEN n - (i + 1) + 1 ELSE 0
        /\ \A j \in 1 .. n - (i + 1) + 1 : b[j] = s[i + 1 + j - 1]
    BY <2>1, SubSeqProperties
  <2> HIDE DEF b, n
  <2>3. i + 1 <= n <=> n - i # 0
    BY <1>1
  <2>4. n - (i + 1) + 1 = n - i /\ \A j \in 1 .. n - i : i + 1 + j - 1 = i + j
    BY <1>1
  <2>5. Len(b) = n - i
    BY <1>1, <2>2, <2>3, <2>4
  <2>6. \A j \in 1 .. n - i : b[j] = s[i + j]
    BY <2>2, <2>4
  <2> QED BY <2>2, <2>5, <2>6
<1>4. RemoveAt(s, i) = a \o b
  BY DEF RemoveAt
<1> HIDE DEF a, b, n
<1>5. /\ a \o b \in Seq(S) /\ Len(a \o b) = Len(a) + Len(b)
      /\ \A j \in 1 .. Len(a) + Len(b) :
            (a \o b)[j] = IF j <= Len(a) THEN a[j] ELSE b[j - Len(a)]
  BY <1>2, <1>3, ConcatProperties
<1>6. Len(a) + Len(b) = n - 1
  BY <1>1, <1>2, <1>3
<1>7. DOMAIN (a \o b) = 1 .. n - 1
  BY <1>5, <1>6
<1>8. ASSUME NEW j \in 1 .. n - 1
      PROVE  (a \o b)[j] = IF j < i THEN s[j] ELSE s[j + 1]
  <2>1. CASE j < i
    BY <1>1, <1>2, <1>5, <1>6, <2>1
  <2>2. CASE ~(j < i)
    <3>1. (a \o b)[j] = b[j - (i - 1)]
      BY <1>1, <1>2, <1>5, <1>6, <2>2
    <3>2. j - (i - 1) \in 1 .. n - i /\ i + (j - (i - 1)) = j + 1
      BY <1>1, <2>2
    <3> QED BY <1>3, <2>2, <3>1, <3>2
  <2> QED BY <2>1, <2>2
<1> QED BY <1>4, <1>5, <1>6, <1>7, <1>8 DEF n

LoadSet == [ev : Versions \cup {Asked, Kept}, res : Versions \cup {Asked, Broken}]
Loads == Seq(LoadSet)

\* There is one solve of the page's own, while lock() or unlock() runs.
OneOwn == \A i, j \in DOMAIN loads : Own(loads[i]) /\ Own(loads[j]) => i = j /\ busy

LEMMA LoadTypes ==
    /\ AskedBoth \in LoadSet /\ ~Own(AskedBoth) /\ Ripe(AskedBoth)
    /\ OwnSolve \in LoadSet /\ Own(OwnSolve) /\ Ripe(OwnSolve)
BY Constants DEF LoadSet, AskedBoth, OwnSolve, Own, Ripe

LEMMA LoadFacts ==
    ASSUME NEW s \in Loads
    PROVE  /\ Len(s) \in Nat /\ DOMAIN s = 1 .. Len(s)
           /\ \A i \in 1 .. Len(s) : s[i] \in LoadSet
BY DEF Loads

\* A load at the end.
LEMMA Appended ==
    ASSUME NEW s \in Loads, NEW l \in LoadSet
    PROVE  /\ Append(s, l) \in Loads
           /\ Len(Append(s, l)) = Len(s) + 1 /\ DOMAIN Append(s, l) = 1 .. Len(s) + 1
           /\ \A i \in 1 .. Len(s) : Append(s, l)[i] = s[i]
           /\ Append(s, l)[Len(s) + 1] = l
BY DEF Loads

\* An answer or a failure of the i-th load.
LEMMA Changed ==
    ASSUME NEW s \in Loads, NEW i \in DOMAIN s, NEW l \in LoadSet
    PROVE  /\ [s EXCEPT ![i] = l] \in Loads
           /\ Len([s EXCEPT ![i] = l]) = Len(s)
           /\ \A j \in DOMAIN s : [s EXCEPT ![i] = l][j] = IF j = i THEN l ELSE s[j]
BY DEF Loads

-----------------------------------------------------------------------------
(* The types. *)

\* TypeOK in two, so that a step shows only the part it disturbs.
ServerTypes ==
    /\ version \in Versions /\ owed \in 0 .. MaxVersion
    /\ registered \subseteq Streams
    /\ \A s \in registered : phase[s] # "gone"
    /\ channel \in [Streams -> 0 .. Buffer]
    /\ phase \in [Streams -> {"gone", "dialled", "streaming"}]
    /\ link \in [Streams -> BOOLEAN]
    /\ wire \in [Streams -> Nat]
    /\ faults \in 0 .. MaxFaults
    /\ current \in Streams \cup {NoStream}
    /\ GreetedAreRegistered /\ OwedIsCommitted

PageTypes ==
    /\ mounted \in BOOLEAN /\ loads \in Loads /\ Len(loads) <= MaxLoads /\ OneOwn
    /\ shown \in Display /\ busy \in BOOLEAN /\ missed \in BOOLEAN

LEMMA InvSplit == /\ Inv <=> ServerTypes /\ PageTypes
                  /\ Inv' <=> ServerTypes' /\ PageTypes'
BY DEF Inv, TypeOK, ServerTypes, PageTypes, Loads, LoadSet, OneOwn

LEMMA InvInit == Init => Inv /\ Promised
<1> SUFFICES ASSUME Init PROVE Inv /\ Promised
  OBVIOUS
<1>1. current \in Streams
  BY StreamsAssumption DEF Init
<1>2. ServerTypes
  <2>1. wire \in [Streams -> Nat] /\ channel \in [Streams -> 0 .. Buffer]
    BY Constants DEF Init
  <2>2. /\ phase \in [Streams -> {"gone", "dialled", "streaming"}]
        /\ link \in [Streams -> BOOLEAN]
    BY DEF Init
  <2>3. version \in Versions /\ owed \in 0 .. MaxVersion /\ faults \in 0 .. MaxFaults
    BY Constants DEF Init
  <2>4. registered = {} /\ GreetedAreRegistered /\ OwedIsCommitted
    BY DEF Init, GreetedAreRegistered, OwedIsCommitted
  <2> QED BY <1>1, <2>1, <2>2, <2>3, <2>4 DEF ServerTypes
<1>3. PageTypes
  <2>1. loads = <<AskedBoth>> /\ loads \in Loads /\ Len(loads) = 1 /\ loads[1] = AskedBoth
    BY LoadTypes DEF Init, Loads
  <2>2. DOMAIN loads = {1}
    BY <2>1
  <2>3. OneOwn
    BY <2>1, <2>2, LoadTypes DEF OneOwn
  <2>4. shown \in Display
    BY DEF Init, Display, AskedBoth
  <2>5. Len(loads) <= MaxLoads
    BY <2>1, Constants
  <2>6. mounted \in BOOLEAN /\ busy \in BOOLEAN /\ missed \in BOOLEAN
    BY DEF Init
  <2> QED BY <2>1, <2>3, <2>4, <2>5, <2>6 DEF PageTypes
<1>4. Promised
  BY <1>1 DEF Init, Promised, Connected
<1> QED BY <1>2, <1>3, <1>4, InvSplit

\* No step of the server or the network touches the types.
LEMMA ServerSteps ==
    ASSUME ServerTypes,
           \/ Commit \/ Join \/ Publish \/ Crash
           \/ \E s \in Streams : Handle(s) \/ Reject(s) \/ Sever(s)
    PROVE  ServerTypes'
<1> USE DEF ServerTypes, GreetedAreRegistered, OwedIsCommitted
<1>1. CASE Commit
  <2>1. version + 1 \in Versions /\ owed + 1 \in 0 .. MaxVersion /\ owed + 1 < version + 1
    BY <1>1, Constants DEF Commit, Versions
  <2> QED BY <1>1, <2>1 DEF Commit, streams, page
<1>2. CASE Join
  <2>1. version + 1 \in Versions /\ owed < version + 1 /\ faults + 1 \in 0 .. MaxFaults
    BY <1>2, Constants DEF Join, Versions
  <2> QED BY <1>2, <2>1 DEF Join, streams
<1>3. CASE Publish
  <2>1. owed - 1 \in 0 .. MaxVersion /\ owed - 1 < version
    BY <1>3, Constants DEF Publish, Versions
  <2>2. \A n \in 0 .. Buffer : Deliver(n) \in 0 .. Buffer
    BY Constants DEF Deliver
  <2>3. channel' \in [Streams -> 0 .. Buffer]
    BY <1>3, <2>2 DEF Publish
  <2> QED BY <1>3, <2>1, <2>3 DEF Publish, page
<1>4. CASE Crash
  <2>1. faults' \in 0 .. MaxFaults
    BY <1>4, Constants DEF Crash
  <2>2. 0 \in 0 .. MaxVersion /\ 0 < version
    BY Constants DEF Versions
  <2>3. channel' \in [Streams -> 0 .. Buffer]
    BY <1>4, Constants DEF Crash
  <2> QED BY <1>4, <2>1, <2>2, <2>3 DEF Crash
<1>5. ASSUME NEW s \in Streams, Sever(s) PROVE ServerTypes'
  <2>1. faults' \in 0 .. MaxFaults
    BY <1>5, Constants DEF Sever
  <2>2. link' \in [Streams -> BOOLEAN] /\ wire' \in [Streams -> Nat]
    BY <1>5 DEF Sever
  <2> QED BY <1>5, <2>1, <2>2 DEF Sever, server, page
<1>6. ASSUME NEW s \in Streams, Reject(s) PROVE ServerTypes'
  <2>1. faults' \in 0 .. MaxFaults
    BY <1>6, Constants DEF Reject
  <2> QED BY <1>6, <2>1 DEF Reject, server, page
<1>7. ASSUME NEW s \in Streams, Subscribe(s) PROVE ServerTypes'
  <2>1. channel' \in [Streams -> 0 .. Buffer]
    BY <1>7, Constants DEF Subscribe
  <2> QED BY <1>7, <2>1 DEF Subscribe, server, page
<1>8. ASSUME NEW s \in Streams, Greet(s) PROVE ServerTypes'
  <2>1. wire' \in [Streams -> Nat] /\ phase' \in [Streams -> {"gone", "dialled", "streaming"}]
    BY <1>8 DEF Greet
  <2> QED BY <1>8, <2>1 DEF Greet, server, page
<1>9. ASSUME NEW s \in Streams, Forward(s) PROVE ServerTypes'
  <2>1. channel' \in [Streams -> 0 .. Buffer] /\ wire' \in [Streams -> Nat]
    BY <1>9, Constants DEF Forward
  <2> QED BY <1>9, <2>1 DEF Forward, server, page
<1>10. ASSUME NEW s \in Streams, Return(s) PROVE ServerTypes'
  <2>1. channel' \in [Streams -> 0 .. Buffer]
        /\ phase' \in [Streams -> {"gone", "dialled", "streaming"}]
    BY <1>10, Constants DEF Return
  <2> QED BY <1>10, <2>1 DEF Return, server, page
<1> QED
  BY <1>1, <1>2, <1>3, <1>4, <1>5, <1>6, <1>7, <1>8, <1>9, <1>10 DEF Handle

\* Nor does one of the page.
LEMMA PageSteps ==
    ASSUME ServerTypes,
           \/ Dial \/ Hear \/ Glance \/ Lock \/ LockAnswered \/ LockLost \/ Leave
           \/ \E i \in DOMAIN loads : Load(i) \/ LoseLoad(i)
    PROVE  ServerTypes'
<1> USE DEF ServerTypes, GreetedAreRegistered, OwedIsCommitted
<1>1. CASE Dial
  <2> PICK s \in Streams :
        /\ link' = [t \in Streams |-> IF t = current THEN FALSE
                                       ELSE IF t = s THEN TRUE ELSE link[t]]
        /\ wire' = [t \in Streams |-> IF t \in {s, current} THEN 0 ELSE wire[t]]
    BY <1>1 DEF Dial
  <2>1. link' \in [Streams -> BOOLEAN] /\ wire' \in [Streams -> Nat]
    OBVIOUS
  <2>2. phase' \in [Streams -> {"gone", "dialled", "streaming"}]
    BY <1>1 DEF Dial
  <2> QED BY <1>1, <2>1, <2>2 DEF Dial, server
<1>2. CASE Hear
  <2>1. wire' \in [Streams -> Nat]
    BY <1>2 DEF Hear
  <2> QED BY <1>2, <2>1 DEF Hear, server
<1>3. CASE Glance
  BY <1>3 DEF Glance, server, streams
<1>4. CASE Leave
  <2>1. link' \in [Streams -> BOOLEAN] /\ wire' \in [Streams -> Nat]
    BY <1>4 DEF Leave
  <2> QED BY <1>4, <2>1 DEF Leave, server
<1>5. ASSUME NEW i \in DOMAIN loads, Load(i) PROVE ServerTypes'
  BY <1>5 DEF Load, AnswerEvent, AnswerSolve, Arrive, Abandon, server, streams
<1>6. ASSUME NEW i \in DOMAIN loads, LoseLoad(i) PROVE ServerTypes'
  <2>1. faults' \in 0 .. MaxFaults
    BY <1>6, Constants DEF LoseLoad
  <2> QED BY <1>6, <2>1 DEF LoseLoad, server, streams
<1>7. CASE Lock
  <2>1. version + 1 \in Versions /\ owed + 1 \in 0 .. MaxVersion /\ owed + 1 < version + 1
    BY <1>7, Constants DEF Lock, Versions
  <2> QED BY <1>7, <2>1 DEF Lock, streams
<1>8. CASE LockAnswered \/ LockLost
  BY <1>8 DEF LockAnswered, LockLost, server, streams
<1> QED BY <1>1, <1>2, <1>3, <1>4, <1>5, <1>6, <1>7, <1>8

\* The loads stay loads, and the page's own solve stays one.
LEMMA LoadSteps == ASSUME ServerTypes, PageTypes, Next PROVE PageTypes'
<1> USE DEF PageTypes
<1>1. /\ Len(loads) \in Nat /\ DOMAIN loads = 1 .. Len(loads)
      /\ \A i \in 1 .. Len(loads) : loads[i] \in LoadSet
  BY LoadFacts
<1>2. CASE Commit \/ Publish \/ \E s \in Streams : Handle(s) \/ Reject(s) \/ Sever(s)
  BY <1>2 DEF Commit, Publish, Handle, Subscribe, Greet, Forward, Return, Reject,
     Sever, page, OneOwn
<1>3. CASE Dial \/ Join
  BY <1>3 DEF Dial, Join, OneOwn
<1>4. CASE Crash
  <2>1. \A i \in DOMAIN loads : loads'[i] \in LoadSet /\ loads'[i].ev = loads[i].ev
    <3>1. \A l \in LoadSet : /\ [l EXCEPT !.res = Broken] \in LoadSet
                             /\ [l EXCEPT !.res = Broken].ev = l.ev
      BY DEF LoadSet
    <3> QED BY <1>1, <1>4, <3>1 DEF Crash
  <2>2. loads' \in [1 .. Len(loads) -> LoadSet]
    BY <1>1, <1>4, <2>1 DEF Crash
  <2>3. loads' \in Loads /\ Len(loads') = Len(loads) /\ DOMAIN loads' = DOMAIN loads
    BY <1>1, <2>2 DEF Loads
  <2>4. OneOwn'
    BY <1>4, <2>1, <2>3 DEF OneOwn, Own, Crash
  <2> QED BY <1>4, <2>3, <2>4 DEF Crash
<1>5. CASE Hear \/ Glance
  <2>1. loads' = Append(loads, AskedBoth) /\ Len(loads) < MaxLoads
        /\ UNCHANGED <<mounted, shown, busy>> /\ missed' = FALSE
    BY <1>5 DEF Hear, Glance, BeginLoad
  <2>2. /\ loads' \in Loads /\ Len(loads') = Len(loads) + 1 /\ DOMAIN loads' = 1 .. Len(loads) + 1
        /\ \A i \in 1 .. Len(loads) : loads'[i] = loads[i]
        /\ loads'[Len(loads) + 1] = AskedBoth
    BY <2>1, LoadTypes, Appended
  <2>3. \A i \in DOMAIN loads' : Own(loads'[i]) => i \in DOMAIN loads /\ Own(loads[i])
    BY <1>1, <2>2, LoadTypes
  <2>4. OneOwn'
    BY <2>1, <2>3 DEF OneOwn, Own
  <2>5. Len(loads') <= MaxLoads
    BY <1>1, <2>1, <2>2, Constants
  <2>6. mounted' \in BOOLEAN /\ busy' \in BOOLEAN /\ missed' \in BOOLEAN /\ shown' \in Display
    BY <2>1
  <2> QED BY <2>2, <2>4, <2>5, <2>6
<1>6. CASE LockAnswered
  <2>1. /\ loads' = Append(loads, OwnSolve) /\ Len(loads) < MaxLoads /\ busy
        /\ \A i \in DOMAIN loads : ~Own(loads[i])
        /\ UNCHANGED <<mounted, shown, busy, missed>>
    BY <1>6 DEF LockAnswered, AwaitsLock
  <2>2. /\ loads' \in Loads /\ Len(loads') = Len(loads) + 1 /\ DOMAIN loads' = 1 .. Len(loads) + 1
        /\ \A i \in 1 .. Len(loads) : loads'[i] = loads[i]
    BY <2>1, LoadTypes, Appended
  <2>3. \A i \in DOMAIN loads' : Own(loads'[i]) => i = Len(loads) + 1
    BY <1>1, <2>1, <2>2
  <2>4. OneOwn'
    BY <2>1, <2>3 DEF OneOwn, Own
  <2> QED BY <1>1, <2>1, <2>2, <2>4, Constants
<1>7. CASE Leave
  <2>1. <<>> \in Loads /\ Len(<<>>) = 0 /\ DOMAIN <<>> = {}
    BY DEF Loads
  <2>2. loads' \in Loads /\ Len(loads') <= MaxLoads /\ OneOwn'
    BY <1>7, <2>1, Constants DEF Leave, OneOwn
  <2>3. shown' \in Display
    BY <1>7 DEF Leave, Display, AskedBoth
  <2> QED BY <1>7, <2>2, <2>3 DEF Leave
<1>8. ASSUME NEW i \in DOMAIN loads, AnswerEvent(i) \/ AnswerSolve(i) PROVE PageTypes'
  <2>1. PICK l \in LoadSet : loads' = [loads EXCEPT ![i] = l] /\ (Own(l) => Own(loads[i]))
    <3>1. /\ [loads[i] EXCEPT !.ev = version] \in LoadSet
          /\ [loads[i] EXCEPT !.res = version] \in LoadSet
          /\ [loads[i] EXCEPT !.ev = version].ev = version
          /\ [loads[i] EXCEPT !.res = version].ev = loads[i].ev
      BY <1>1 DEF ServerTypes, LoadSet
    <3>2. ~Own([loads[i] EXCEPT !.ev = version])
      BY <3>1, Constants DEF Own, ServerTypes
    <3> QED BY <1>8, <3>1, <3>2 DEF AnswerEvent, AnswerSolve, Own
  <2>2. /\ loads' \in Loads /\ Len(loads') = Len(loads) /\ DOMAIN loads' = DOMAIN loads
        /\ \A j \in DOMAIN loads : Own(loads'[j]) => Own(loads[j])
    BY <1>1, <2>1, Changed, LoadFacts
  <2>3. OneOwn'
    BY <1>8, <2>2 DEF OneOwn, Own, AnswerEvent, AnswerSolve
  <2> QED BY <1>8, <2>2, <2>3 DEF AnswerEvent, AnswerSolve
<1>9. ASSUME NEW i \in DOMAIN loads, Arrive(i) \/ Abandon(i) \/ LoseLoad(i) PROVE PageTypes'
  <2>1. loads' = RemoveAt(loads, i) /\ busy' = (busy /\ ~Own(loads[i])) /\ UNCHANGED mounted
    BY <1>9 DEF Arrive, Abandon, LoseLoad, EndLoad
  <2>2. /\ loads' \in Loads /\ Len(loads') = Len(loads) - 1 /\ DOMAIN loads' = 1 .. Len(loads) - 1
        /\ \A j \in 1 .. Len(loads) - 1 : loads'[j] = IF j < i THEN loads[j] ELSE loads[j + 1]
    BY <2>1, Removed DEF Loads
  <2>3. Len(loads') <= MaxLoads
    BY <1>1, <2>2, Constants
  <2>4. shown' \in Display
    <3>1. CASE Arrive(i)
      <4>1. /\ loads[i].ev \in Versions \cup {Asked, Kept} /\ loads[i].res \in Versions \cup {Asked, Broken}
            /\ shown.ev \in Versions \cup {Asked}
        BY <1>1 DEF LoadSet, Display
      <4> QED BY <3>1, <4>1 DEF Arrive, Answered, Own, Display
    <3> QED BY <1>9, <3>1 DEF Abandon, LoseLoad
  <2>5. missed' \in BOOLEAN
    BY <1>9 DEF Arrive, Abandon, LoseLoad
  <2>6. OneOwn'
    <3> SUFFICES ASSUME NEW j \in DOMAIN loads', NEW k \in DOMAIN loads',
                        Own(loads'[j]), Own(loads'[k])
                 PROVE  j = k /\ busy'
      BY DEF OneOwn, Own
    <3> DEFINE At(n) == IF n < i THEN n ELSE n + 1
    <3>1. \A n \in 1 .. Len(loads) - 1 : At(n) \in DOMAIN loads /\ At(n) # i /\ loads'[n] = loads[At(n)]
      BY <1>1, <2>2
    <3>2. \A n, m \in 1 .. Len(loads) - 1 : At(n) = At(m) => n = m
      BY <1>1
    <3> HIDE DEF At
    <3>3. At(j) = At(k) /\ busy
      BY <2>2, <3>1 DEF OneOwn
    <3>4. ~Own(loads[i])
      BY <2>2, <3>1 DEF OneOwn
    <3> QED BY <2>1, <2>2, <3>2, <3>3, <3>4
  <2> QED BY <2>1, <2>2, <2>3, <2>4, <2>5, <2>6
<1>10. CASE Lock \/ LockLost
  BY <1>10 DEF Lock, LockLost, AwaitsLock, OneOwn
<1> QED
  BY <1>2, <1>3, <1>4, <1>5, <1>6, <1>7, <1>8, <1>9, <1>10 DEF Next, Load

LEMMA TypeStep == Inv /\ [Next]_vars => Inv'
<1> SUFFICES ASSUME Inv, [Next]_vars PROVE Inv'
  OBVIOUS
<1>1. CASE UNCHANGED vars
  BY <1>1 DEF Inv, TypeOK, GreetedAreRegistered, OwedIsCommitted, vars, server, streams, page
<1>2. CASE Next
  <2>1. ServerTypes /\ PageTypes
    BY InvSplit
  <2>2. PageTypes'
    BY <1>2, <2>1, LoadSteps
  <2>3. ServerTypes'
    BY <1>2, <2>1, ServerSteps, PageSteps DEF Next
  <2> QED BY <2>2, <2>3, InvSplit
<1> QED BY <1>1, <1>2

-----------------------------------------------------------------------------
(* A page at rest. *)

\* The server and the network.
LEMMA ServerPromises ==
    ASSUME Inv, Promised,
           \/ Commit \/ Join \/ Publish \/ Crash
           \/ \E s \in Streams : Handle(s) \/ Reject(s) \/ Sever(s)
    PROVE  Promised'
<1> SUFFICES ASSUME Connected'
             PROVE  owed' > 0 \/ channel'[current'] > 0 \/ wire'[current'] > 0 \/ Coming'
  BY DEF Promised
<1> DEFINE c == current
<1>1. owed \in Nat /\ channel \in [Streams -> 0 .. Buffer] /\ wire \in [Streams -> Nat]
  BY Constants DEF Inv, TypeOK
<1>2. c' \in Streams /\ phase'[c'] = "streaming" /\ link'[c'] /\ ~missed'
  BY DEF Connected
<1>3. c \in Streams \cup {NoStream}
  BY Constants DEF Inv, TypeOK
<1>4. CASE Commit
  BY <1>1, <1>4 DEF Commit
<1>5. CASE Join
  BY <1>2, <1>3, <1>5 DEF Join
<1>6. CASE Publish
  <2>1. c \in Streams /\ c \in registered
    BY <1>2, <1>6 DEF Publish, page, Inv, GreetedAreRegistered
  <2>2. channel'[c] = Deliver(channel[c]) /\ channel[c] \in 0 .. Buffer /\ c' = c
    BY <1>1, <1>6, <2>1 DEF Publish, page
  <2>3. Deliver(channel[c]) > 0
    BY <2>2, Constants DEF Deliver
  <2> QED BY <2>2, <2>3
<1>7. CASE Crash
  BY <1>2, <1>7 DEF Crash
<1>8. ASSUME NEW s \in Streams, Subscribe(s) \/ Reject(s) \/ Return(s) \/ Sever(s) PROVE Promised'
  <2>1. c' = c /\ c \in Streams /\ UNCHANGED <<loads, shown, missed, version, owed>>
    BY <1>2, <1>8 DEF Subscribe, Reject, Return, Sever, server, page
  <2>2. s # c /\ phase[c] = "streaming" /\ link[c]
    BY <1>2, <1>8, <2>1 DEF Subscribe, Reject, Return, Sever, Inv, TypeOK,
       GreetedAreRegistered
  <2>3. channel'[c] = channel[c] /\ wire'[c] = wire[c]
    BY <1>1, <1>8, <2>1, <2>2 DEF Subscribe, Reject, Return, Sever
  <2>4. Connected
    BY <1>2, <1>8, <2>1, <2>2 DEF Connected, Subscribe, Reject, Return, Sever
  <2> QED BY <2>1, <2>3, <2>4 DEF Promised, Coming, Ripe, Own, Fresh
<1>9. ASSUME NEW s \in Streams, Greet(s) PROVE Promised'
  <2>1. c' = c /\ c \in Streams /\ UNCHANGED <<loads, shown, missed, version, owed, channel, link>>
    BY <1>2, <1>9 DEF Greet, server, page
  <2>2. CASE s = c
    <3>1. wire'[c] = 1
      BY <1>1, <1>2, <1>9, <2>1, <2>2 DEF Greet
    <3> QED BY <2>1, <3>1 DEF Promised
  <2>3. CASE s # c
    <3>1. wire'[c] = wire[c] /\ phase'[c] = phase[c]
      BY <1>1, <1>9, <2>1, <2>3 DEF Greet, Inv, TypeOK
    <3>2. Connected
      BY <1>2, <1>9, <2>1, <3>1 DEF Connected, Greet
    <3> QED BY <2>1, <3>1, <3>2 DEF Promised, Coming, Ripe, Own, Fresh
  <2> QED BY <2>2, <2>3
<1>10. ASSUME NEW s \in Streams, Forward(s) PROVE Promised'
  <2>1. c' = c /\ c \in Streams /\ UNCHANGED <<loads, shown, missed, version, owed, phase, link>>
    BY <1>2, <1>10 DEF Forward, server, page
  <2>2. CASE s = c
    <3>1. wire'[c] = wire[c] + 1 /\ wire[c] \in Nat
      BY <1>1, <1>2, <1>10, <2>1, <2>2 DEF Forward
    <3> QED BY <2>1, <3>1 DEF Promised
  <2>3. CASE s # c
    <3>1. wire'[c] = wire[c] /\ channel'[c] = channel[c]
      BY <1>1, <1>10, <2>1, <2>3 DEF Forward
    <3>2. Connected
      BY <1>2, <1>10, <2>1 DEF Connected, Forward
    <3> QED BY <2>1, <3>1, <3>2 DEF Promised, Coming, Ripe, Own, Fresh
  <2> QED BY <2>2, <2>3
<1> QED
  BY <1>4, <1>5, <1>6, <1>7, <1>8, <1>9, <1>10 DEF Handle, Promised

\* The page.
LEMMA PagePromises ==
    ASSUME Inv, Promised,
           \/ Dial \/ Hear \/ Glance \/ Lock \/ LockAnswered \/ LockLost \/ Leave
           \/ \E i \in DOMAIN loads : Load(i) \/ LoseLoad(i)
    PROVE  Promised'
<1> USE DEF Promised
<1> DEFINE n == Len(loads)
<1>1. loads \in Loads /\ n \in Nat /\ DOMAIN loads = 1 .. n
      /\ \A i \in 1 .. n : loads[i] \in LoadSet
  BY LoadFacts, InvSplit DEF PageTypes
<1>2. version \in Versions /\ owed \in Nat
  BY Constants DEF Inv, TypeOK
<1> HIDE DEF n
<1>3. CASE Dial
  <2>1. phase'[current'] = "dialled"
    BY <1>3 DEF Dial, Inv, TypeOK
  <2> QED BY <2>1 DEF Connected
<1>4. CASE Hear \/ Glance
  <2>1. /\ Len(loads') = n + 1 /\ DOMAIN loads' = 1 .. n + 1
        /\ loads'[n + 1] = AskedBoth
    BY <1>1, <1>4, Appended, LoadTypes DEF Hear, Glance, BeginLoad, n
  <2>2. n + 1 \in DOMAIN loads' /\ \A j \in n + 1 .. Len(loads') : j = n + 1
    BY <1>1, <2>1
  <2>3. Coming'
    BY <2>1, <2>2, Constants DEF Coming, Own, Ripe, AskedBoth
  <2> QED BY <2>3
<1>5. CASE Leave
  BY <1>5, StreamsAssumption DEF Leave, Connected
<1>6. CASE Lock
  BY <1>2, <1>6 DEF Lock
<1>7. CASE LockLost
  <2>1. UNCHANGED <<owed, channel, wire, version, current, Connected, loads, shown>>
    BY <1>7 DEF LockLost, server, streams, Connected
  <2> QED BY <2>1 DEF Coming, Ripe, Own, Fresh
<1>8. CASE LockAnswered
  <2>1. UNCHANGED <<owed, channel, wire, version, current, Connected, shown>>
    BY <1>8 DEF LockAnswered, server, streams, Connected
  <2>2. /\ Len(loads') = n + 1 /\ DOMAIN loads' = 1 .. n + 1 /\ loads'[n + 1] = OwnSolve
        /\ \A j \in 1 .. n : loads'[j] = loads[j]
    BY <1>1, <1>8, Appended, LoadTypes DEF LockAnswered, n
  <2>3. \A l : Ripe(l)' = Ripe(l) /\ Own(l)' = Own(l)
    BY <2>1 DEF Ripe, Own
  <2>4. Coming => Coming'
    <3>1. ASSUME NEW k \in DOMAIN loads, ~Own(loads[k]), \A j \in k .. n : Ripe(loads[j])
          PROVE  Coming'
      <4>1. k \in DOMAIN loads' /\ ~Own(loads'[k])
        BY <1>1, <2>2, <3>1
      <4>2. \A j \in k .. n + 1 : Ripe(loads'[j])
        BY <1>1, <2>2, <3>1, LoadTypes
      <4> QED BY <2>2, <2>3, <4>1, <4>2 DEF Coming, Ripe, Own
    <3>2. ASSUME Fresh, \A j \in DOMAIN loads : Own(loads[j]) /\ Ripe(loads[j])
          PROVE  Coming'
      <4>1. \A j \in DOMAIN loads' : Own(loads'[j]) /\ Ripe(loads'[j])
        BY <1>1, <2>2, <3>2, LoadTypes
      <4> QED BY <2>1, <3>2, <4>1 DEF Coming, Fresh, Ripe, Own
    <3> QED BY <3>1, <3>2 DEF Coming, n
  <2> QED BY <2>1, <2>4
<1>9. ASSUME NEW i \in DOMAIN loads, AnswerEvent(i) \/ AnswerSolve(i) PROVE Promised'
  <2>1. UNCHANGED <<owed, channel, wire, version, current, Connected, shown>>
    BY <1>9 DEF AnswerEvent, AnswerSolve, server, streams, Connected
  <2>2. PICK l \in LoadSet : /\ loads' = [loads EXCEPT ![i] = l]
                             /\ (Own(l) <=> Own(loads[i])) /\ (Ripe(loads[i]) => Ripe(l))
    <3>1. /\ [loads[i] EXCEPT !.ev = version] \in LoadSet
          /\ [loads[i] EXCEPT !.ev = version].ev = version
          /\ [loads[i] EXCEPT !.ev = version].res = loads[i].res
          /\ [loads[i] EXCEPT !.res = version] \in LoadSet
          /\ [loads[i] EXCEPT !.res = version].ev = loads[i].ev
          /\ [loads[i] EXCEPT !.res = version].res = version
      BY <1>1, <1>2 DEF LoadSet
    <3>2. CASE AnswerEvent(i)
      <4>1. /\ loads' = [loads EXCEPT ![i] = [loads[i] EXCEPT !.ev = version]]
            /\ loads[i].ev = Asked
        BY <3>2 DEF AnswerEvent
      <4>2. ~Own(loads[i]) /\ ~Own([loads[i] EXCEPT !.ev = version])
        BY <1>2, <3>1, <4>1, Constants DEF Own
      <4>3. Ripe(loads[i]) => Ripe([loads[i] EXCEPT !.ev = version])
        BY <3>1 DEF Ripe
      <4> QED BY <3>1, <4>1, <4>2, <4>3
    <3>3. CASE AnswerSolve(i)
      <4>1. loads' = [loads EXCEPT ![i] = [loads[i] EXCEPT !.res = version]]
        BY <3>3 DEF AnswerSolve
      <4>2. Own([loads[i] EXCEPT !.res = version]) <=> Own(loads[i])
        BY <3>1 DEF Own
      <4>3. Ripe(loads[i]) => Ripe([loads[i] EXCEPT !.res = version])
        BY <3>1 DEF Ripe
      <4> QED BY <3>1, <4>1, <4>2, <4>3
    <3> QED BY <1>9, <3>2, <3>3
  <2>3. /\ Len(loads') = n /\ DOMAIN loads' = DOMAIN loads
        /\ \A j \in DOMAIN loads : /\ Own(loads'[j]) <=> Own(loads[j])
                                   /\ Ripe(loads[j]) => Ripe(loads'[j])
    BY <1>1, <2>2, Changed DEF n
  <2>4. \A x : Ripe(x)' = Ripe(x) /\ Own(x)' = Own(x)
    BY <2>1 DEF Ripe, Own
  <2>5. Coming => Coming'
    <3>1. ASSUME NEW k \in DOMAIN loads, ~Own(loads[k]), \A j \in k .. n : Ripe(loads[j])
          PROVE  Coming'
      <4>1. \A j \in k .. n : j \in DOMAIN loads
        BY <1>1
      <4>2. k \in DOMAIN loads' /\ ~Own(loads'[k]) /\ \A j \in k .. n : Ripe(loads'[j])
        BY <2>3, <3>1, <4>1
      <4> QED BY <2>1, <2>3, <4>2 DEF Coming, Ripe, Own
    <3>2. ASSUME Fresh, \A j \in DOMAIN loads : Own(loads[j]) /\ Ripe(loads[j])
          PROVE  Coming'
      <4>1. \A j \in DOMAIN loads' : Own(loads'[j]) /\ Ripe(loads'[j])
        BY <2>3, <3>2
      <4> QED BY <2>1, <3>2, <4>1 DEF Coming, Fresh, Ripe, Own
    <3> QED BY <3>1, <3>2 DEF Coming, n
  <2> QED BY <2>1, <2>5
<1>10. ASSUME NEW i \in DOMAIN loads, LoseLoad(i) PROVE Promised'
  BY <1>10 DEF LoseLoad, Connected
<1>11. ASSUME NEW i \in DOMAIN loads, Arrive(i) \/ Abandon(i) PROVE Promised'
  <2>1. UNCHANGED <<owed, channel, wire, version, current, phase, link>>
    BY <1>11 DEF Arrive, Abandon, server, streams
  <2> SUFFICES ASSUME Connected', Coming PROVE Coming'
    BY <1>11, <2>1 DEF Connected, Arrive, Abandon
  <2>2. /\ i \in 1 .. n /\ Len(loads') = n - 1 /\ DOMAIN loads' = 1 .. n - 1
        /\ \A j \in 1 .. n - 1 : loads'[j] = IF j < i THEN loads[j] ELSE loads[j + 1]
    BY <1>1, <1>11, Removed DEF Arrive, Abandon, EndLoad, Loads, n
  <2>3. \A l : Ripe(l)' = Ripe(l) /\ Own(l)' = Own(l)
    BY <2>1 DEF Ripe, Own
  <2>4. ASSUME NEW k \in 1 .. n, k # i, ~Own(loads[k]), \A j \in k .. n : Ripe(loads[j])
        PROVE  Coming'
    <3> DEFINE h == IF k < i THEN k ELSE k - 1
    <3>1. h \in 1 .. n - 1 /\ loads'[h] = loads[k]
      BY <1>1, <2>2, <2>4
    <3>2. \A j \in h .. n - 1 : \/ loads'[j] = loads[j] /\ j \in k .. n
                                \/ loads'[j] = loads[j + 1] /\ j + 1 \in k .. n
      BY <1>1, <2>2, <2>4
    <3> HIDE DEF h
    <3>3. \A j \in h .. n - 1 : Ripe(loads'[j])
      BY <2>4, <3>2
    <3> QED BY <2>1, <2>2, <2>4, <3>1, <3>3 DEF Coming, Ripe, Own
  <2>5. ASSUME Arrive(i), ~Own(loads[i]), Ripe(loads[i]),
               \A j \in i + 1 .. n : Own(loads[j]) /\ Ripe(loads[j])
        PROVE  Coming'
    <3>1. i = 1
      BY <2>5 DEF Arrive, Overtakes, Connected, n
    <3>2. Fresh'
      BY <2>1, <2>5 DEF Arrive, Answered, Ripe, Own, Fresh
    <3>3. \A j \in 1 .. n - 1 : loads'[j] = loads[j + 1] /\ j + 1 \in i + 1 .. n
      BY <1>1, <2>2, <3>1
    <3>4. \A j \in DOMAIN loads' : Own(loads'[j]) /\ Ripe(loads'[j])
      BY <2>2, <2>5, <3>3
    <3> QED BY <2>1, <3>2, <3>4 DEF Coming, Ripe, Own
  <2>6. ASSUME NEW k \in 1 .. n, ~Own(loads[k]), \A j \in k .. n : Ripe(loads[j])
        PROVE  Coming'
    <3>1. CASE k # i
      BY <2>4, <2>6, <3>1
    <3>2. CASE k = i
      <4>1. Ripe(loads[i]) /\ \A j \in i + 1 .. n : j \in k .. n /\ Ripe(loads[j])
        BY <1>1, <2>6, <3>2
      <4>2. CASE \E j \in i + 1 .. n : ~Own(loads[j])
        <5> PICK j \in i + 1 .. n : ~Own(loads[j])
          BY <4>2
        <5>1. j \in 1 .. n /\ j # i /\ \A m \in j .. n : m \in k .. n
          BY <1>1, <2>2, <3>2
        <5> QED BY <2>4, <2>6, <5>1
      <4>3. CASE \A j \in i + 1 .. n : Own(loads[j])
        <5>1. Arrive(i)
          BY <1>11, <4>1, <1>2, Constants DEF Abandon, Ripe
        <5> QED BY <2>5, <2>6, <3>2, <4>1, <4>3, <5>1
      <4> QED BY <4>2, <4>3
    <3> QED BY <3>1, <3>2
  <2>7. ASSUME Fresh, \A j \in DOMAIN loads : Own(loads[j]) /\ Ripe(loads[j])
        PROVE  Coming'
    <3>1. Own(loads[i]) /\ Ripe(loads[i])
      BY <2>7
    <3>2. Arrive(i)
      BY <1>2, <1>11, <3>1, Constants DEF Abandon, Ripe
    <3>3. Fresh'
      BY <2>1, <2>7, <3>1, <3>2 DEF Arrive, Answered, Ripe, Fresh
    <3>4. \A j \in 1 .. n - 1 : \E m \in DOMAIN loads : loads'[j] = loads[m]
      <4> TAKE j \in 1 .. n - 1
      <4>1. j \in DOMAIN loads /\ j + 1 \in DOMAIN loads
        BY <1>1
      <4> QED BY <2>2, <4>1
    <3>5. \A j \in DOMAIN loads' : Own(loads'[j]) /\ Ripe(loads'[j])
      BY <2>2, <2>7, <3>4
    <3> QED BY <2>1, <3>3, <3>5 DEF Coming, Ripe, Own
  <2> QED BY <1>1, <2>6, <2>7 DEF Coming, n
<1> QED BY <1>3, <1>4, <1>5, <1>6, <1>7, <1>8, <1>9, <1>10, <1>11 DEF Load

-----------------------------------------------------------------------------
(* The theorems. *)

LEMMA PromiseStep == Inv /\ Promised /\ [Next]_vars => Promised'
<1> SUFFICES ASSUME Inv, Promised, [Next]_vars PROVE Promised'
  OBVIOUS
<1>1. CASE UNCHANGED vars
  BY <1>1 DEF Promised, Connected, Coming, Ripe, Own, Fresh, vars, server, streams, page
<1>2. CASE Next
  BY <1>2, ServerPromises, PagePromises DEF Next
<1> QED BY <1>1, <1>2

\* The types; and the broker holds no subscriber whose handler has returned, so
\* that streams that come and go leave nothing behind in it.
THEOREM NoSubscriberLeaks == Spec => []TypeOK
<1>1. Inv => TypeOK
  BY DEF Inv
<1> QED BY <1>1, InvInit, TypeStep, PTL DEF Spec

\* A page that hears its stream and has nothing under way to it shows what is
\* committed, however small the channel: whatever was dropped, restarted or
\* severed, and in whatever order its requests are answered, unless an older
\* load was overtaken by the youngest, or something happened of which no message
\* tells, since the last load began.
THEOREM PageAtRest == Spec => []SettledPageIsFresh
<1>1. Inv /\ Promised => SettledPageIsFresh
  BY StreamsAssumption DEF Inv, TypeOK, Promised, Connected, Coming, Settled,
     SettledPageIsFresh
<1> QED BY <1>1, InvInit, TypeStep, PromiseStep, PTL DEF Spec
=============================================================================
