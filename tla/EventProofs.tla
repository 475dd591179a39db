------------------------------- MODULE EventProofs ------------------------------
(***************************************************************************)
(* What people do with an event: Answering and Scheduling, which rest on   *)
(* the same facts about clocks and about the slots of a window.            *)
(*                                                                         *)
(* Answering holds for every set of windows, zones and feeds: the types,   *)
(* that a submission stores what the editors showed, and that reopening    *)
(* shows what is stored; and, for zones that move by what resolve probes,  *)
(* that the slots are the first readings of the daily grid.  The last is   *)
(* about the two loops of Expand: the clocks they visit ascend and are the *)
(* grid's (ClocksAscend, ClocksAreGrid), a later clock is first shown      *)
(* later (LaterIsLater), and so every turn appends (LoopInvariant).        *)
(*                                                                         *)
(* Scheduling holds for every calendar of regular events: what is stored   *)
(* of one is the time its events take by their rules, and the proposed     *)
(* slot is the earliest that is clear of it.  Merging keeps what is        *)
(* covered (MergeIsExact).  The loop of a series stands at the dates of    *)
(* equally spaced clocks (CursorTicks), jumps over nothing that lasts into *)
(* the window (JumpedIsOver) and counts as the rule does (PlainCount,      *)
(* NamedCount), so that it finds the occurrences (PlainCovers,             *)
(* NamedCovers) but for the days that OwnDay tells are lost.               *)
(***************************************************************************)
EXTENDS Answering, Scheduling, TLAPS, SequenceTheorems, FiniteSetTheorems, WellFoundedInduction

-----------------------------------------------------------------------------
(* Numbers. *)

\* A set of naturals has a least element: how recursion over the clocks of a
\* window is reasoned about.
LEMMA LeastNat ==
    ASSUME NEW T, T \subseteq Nat, T # {}
    PROVE  \E x \in T : \A y \in T : x <= y
<1> DEFINE R == OpToRel(<, Nat)
<1>1. IsWellFoundedOn(R, Nat)
  BY NatLessThanWellFounded
<1>2. \A m, n \in Nat : m < n => <<m, n>> \in R
  BY DEF OpToRel
<1> HIDE DEF R
<1>3. PICK x \in T : \A y \in T : ~(<<y, x>> \in R)
  BY <1>1, WFMin
<1>4. \A y \in T : ~(y < x)
  BY <1>2, <1>3
<1> QED BY <1>4

LEMMA MinIs ==
    ASSUME NEW T, T \subseteq Int, NEW x \in T, \A y \in T : x <= y
    PROVE  Min(T) = x
<1>1. Min(T) \in T /\ \A y \in T : Min(T) <= y
  BY DEF Min
<1>2. x \in Int /\ Min(T) \in Int
  BY <1>1
<1>3. x <= Min(T) /\ Min(T) <= x
  BY <1>1
<1> QED BY <1>2, <1>3

LEMMA MaxIs ==
    ASSUME NEW T, T \subseteq Int, NEW x \in T, \A y \in T : y <= x
    PROVE  Max(T) = x
<1>1. Max(T) \in T /\ \A y \in T : Max(T) >= y
  <2>1. \A y \in T : x >= y
    OBVIOUS
  <2> QED BY <2>1 DEF Max
<1>2. x \in Int /\ Max(T) \in Int
  BY <1>1
<1>3. x >= Max(T) /\ Max(T) >= x
  BY <1>1
<1> QED BY <1>2, <1>3

\* A finite set of numbers has a least and a greatest one.
LEMMA FiniteExtremes ==
    ASSUME NEW S, S \subseteq Int, S # {}, IsFiniteSet(S)
    PROVE  Min(S) \in S /\ Max(S) \in S /\ \A t \in S : Min(S) <= t /\ t <= Max(S)
<1> DEFINE Bounded(T) == \E x, y \in T : \A t \in T : x <= t /\ t <= y
           C == {n \in Nat : \E T \in SUBSET S : T # {} /\ Cardinality(T) = n /\ ~Bounded(T)}
<1>1. \A T \in SUBSET S : IsFiniteSet(T)
  BY FS_Subset
<1>2. ASSUME C # {} PROVE FALSE
  <2>1. PICK n \in C : \A j \in C : n <= j
    BY <1>2, LeastNat
  <2>2. PICK T \in SUBSET S : T # {} /\ Cardinality(T) = n /\ ~Bounded(T)
    BY <2>1
  <2>3. PICK x \in T : TRUE
    BY <2>2
  <2> DEFINE U == T \ {x}
  <2>4. Cardinality(U) = n - 1 /\ Cardinality(U) \in Nat
    BY <1>1, <2>2, <2>3, FS_RemoveElement, FS_CardinalityType
  <2>5. U # {}
    BY <2>2, <2>3
  <2>6. Bounded(U)
    <3>1. ~(n <= n - 1)
      OBVIOUS
    <3> HIDE DEF Bounded
    <3> QED BY <2>1, <2>4, <2>5, <3>1
  <2>7. PICK a, b \in U : \A t \in U : a <= t /\ t <= b
    BY <2>6
  <2>8. a \in Int /\ b \in Int /\ x \in Int /\ T \subseteq Int
    OBVIOUS
  <2>9. Bounded(T)
    <3>1. \A t \in T : t = x \/ (a <= t /\ t <= b)
      BY <2>7
    <3>2. PICK lo \in {a, x} : lo <= a /\ lo <= x
      BY <2>8
    <3>3. PICK hi \in {b, x} : b <= hi /\ x <= hi
      BY <2>8
    <3>4. lo \in T /\ hi \in T /\ lo \in Int /\ hi \in Int
      BY <2>8
    <3>5. ASSUME NEW t \in T PROVE lo <= t /\ t <= hi
      <4>1. t \in Int
        BY <2>8
      <4>2. CASE t = x
        BY <3>2, <3>3, <4>2
      <4>3. CASE a <= t /\ t <= b
        BY <2>8, <3>2, <3>3, <3>4, <4>1, <4>3
      <4> QED BY <3>1, <4>2, <4>3
    <3> QED BY <3>4, <3>5
  <2> QED BY <2>2, <2>9
<1>3. Cardinality(S) \in Nat
  BY FS_CardinalityType
<1>4. Bounded(S)
  <2> HIDE DEF Bounded
  <2> QED BY <1>2, <1>3
<1>5. PICK x, y \in S : \A t \in S : x <= t /\ t <= y
  BY <1>4
<1> QED BY <1>5, MinIs, MaxIs

LEMMA OfTwo ==
    ASSUME NEW x \in Int, NEW y \in Int, NEW T \in SUBSET {x, y}, T # {}
    PROVE  Min(T) \in T /\ Max(T) \in T /\ \A t \in T : Min(T) <= t /\ t <= Max(T)
<1>1. CASE T = {x, y} /\ x <= y
  BY <1>1, MinIs, MaxIs
<1>2. CASE T = {x, y} /\ ~(x <= y)
  BY <1>2, MinIs, MaxIs
<1>3. CASE T = {x}
  BY <1>3, MinIs, MaxIs
<1>4. CASE T = {y}
  BY <1>4, MinIs, MaxIs
<1> QED BY <1>1, <1>2, <1>3, <1>4

\* What division means.
LEMMA Dividing ==
    ASSUME NEW a \in Nat, NEW n \in Nat \ {0}
    PROVE  /\ a \div n \in Nat /\ a % n \in 0 .. n - 1
           /\ a = n * (a \div n) + (a % n)
OBVIOUS

\* ... and that it is the only way to write a.
LEMMA DividedOnce ==
    ASSUME NEW n \in Nat \ {0}, NEW k \in Nat, NEW r \in 0 .. n - 1
    PROVE  (n * k + r) \div n = k /\ (n * k + r) % n = r
OBVIOUS
-----------------------------------------------------------------------------
(* Clocks of a zone. *)

\* Every transition moves the offset by what the probes try.
Probed(z) == z.shift \in ProbeDeltas \cup {0}

\* The first time the clock shows c, if it ever does.
FirstShown(z, c) == IF c - z.base < z.at THEN c - z.base ELSE c - z.base - z.shift
Shown(z, c) == c - z.base < z.at \/ c - z.base - z.shift >= z.at

LEMMA ReadingsOfClock ==
    ASSUME NEW z \in Zone, NEW c \in Int
    PROVE  /\ Readings(z, c) # {} <=> Shown(z, c)
           /\ Readings(z, c) # {} => /\ FirstShown(z, c) \in Readings(z, c)
                                     /\ \A t \in Readings(z, c) : FirstShown(z, c) <= t
           /\ Readings(z, c) \subseteq Int
<1>1. z.base \in Int /\ z.at \in Int /\ z.shift \in Int
  BY DEF Zone
<1>2. \A t : t \in Readings(z, c) <=>
         \/ t = c - z.base /\ (c - z.base < z.at \/ z.shift = 0)
         \/ t = c - z.base - z.shift /\ (c - z.base - z.shift >= z.at \/ z.shift = 0)
  BY <1>1 DEF Readings, Candidates, Wall, Offset
<1> QED BY <1>1, <1>2 DEF Shown, FirstShown

\* The first readings of later clocks are later.
LEMMA LaterIsLater ==
    ASSUME NEW z \in Zone, NEW c \in Int, NEW e \in Int, c < e, Shown(z, c), Shown(z, e)
    PROVE  FirstShown(z, c) < FirstShown(z, e)
<1>1. z.base \in Int /\ z.at \in Int /\ z.shift \in Int
  BY DEF Zone
<1> QED BY <1>1 DEF FirstShown, Shown

\* time.Date returns a reading exactly when there is one.
LEMMA DateReads ==
    ASSUME NEW z \in Zone, NEW c \in Int
    PROVE  /\ DateIn(z, c) \in Int
           /\ Wall(z, DateIn(z, c)) = c <=> Readings(z, c) # {}
           /\ Readings(z, c) # {} => DateIn(z, c) \in Readings(z, c)
<1>1. z.base \in Int /\ z.at \in Int /\ z.shift \in Int
  BY DEF Zone
<1> DEFINE found == IF Readings(z, c) = {} THEN Candidates(z, c) ELSE Readings(z, c)
<1>2. found # {} /\ found \subseteq Candidates(z, c)
  BY DEF Candidates, Readings
<1>3. Min(found) \in found /\ Max(found) \in found
  <2> DEFINE x == c - z.base
             y == c - z.base - z.shift
  <2>1. x \in Int /\ y \in Int
    BY <1>1
  <2> HIDE DEF found
  <2>2. found \in SUBSET {x, y}
    BY <1>2 DEF Candidates
  <2> HIDE DEF x, y
  <2> QED BY <1>2, <2>1, <2>2, OfTwo
<1>4. DateIn(z, c) \in found
  BY <1>3 DEF DateIn
<1>5. DateIn(z, c) \in Candidates(z, c)
  BY <1>2, <1>4
<1>6. DateIn(z, c) \in Int
  BY <1>1, <1>5 DEF Candidates
<1>7. Wall(z, DateIn(z, c)) = c <=> DateIn(z, c) \in Readings(z, c)
  BY <1>5 DEF Readings
<1> QED BY <1>4, <1>6, <1>7

\* resolve: dropped if the clock never showed it, else the first time.
LEMMA ResolvesFirst ==
    ASSUME NEW z \in Zone, Probed(z), NEW c \in Int
    PROVE  /\ Kind(z, c) = "nonexistent" <=> ~Shown(z, c)
           /\ Shown(z, c) => Resolve(z, c) = FirstShown(z, c)
<1>1. z.base \in Int /\ z.at \in Int /\ z.shift \in {1, 2, 4, -1, -2, -4, 0}
  BY DEF Zone, Probed, ProbeDeltas, ProbeForward, Hour
<1>2. ProbeDeltas = {1, 2, 4, -1, -2, -4}
  BY DEF ProbeDeltas, ProbeForward, Hour
<1>3. Kind(z, c) = "nonexistent" <=> ~Shown(z, c)
  BY DateReads, ReadingsOfClock DEF Kind
<1>4. ASSUME Shown(z, c) PROVE Resolve(z, c) = FirstShown(z, c)
  <2> DEFINE d == DateIn(z, c)
             T == {d} \cup {t \in {d + x : x \in ProbeDeltas} : Wall(z, t) = c}
  <2>1. d \in Readings(z, c) /\ d \in Int
    BY <1>4, DateReads, ReadingsOfClock
  <2>2. ASSUME NEW t \in Int, Wall(z, t) = c PROVE t \in Readings(z, c)
    BY <1>1, <2>2 DEF Wall, Offset, Readings, Candidates
  <2>3. Wall(z, FirstShown(z, c)) = c /\ FirstShown(z, c) \in Int
        /\ \A t \in Readings(z, c) : FirstShown(z, c) <= t
    BY <1>4, ReadingsOfClock DEF Readings
  <2>4. d = FirstShown(z, c) \/ \E x \in ProbeDeltas : FirstShown(z, c) = d + x
    <3>1. d \in {c - z.base, c - z.base - z.shift}
      BY <2>1 DEF Readings, Candidates
    <3>2. FirstShown(z, c) \in {c - z.base, c - z.base - z.shift}
      BY DEF FirstShown
    <3> HIDE DEF d
    <3> QED BY <1>1, <1>2, <3>1, <3>2
  <2>5. T \subseteq Int
    BY <1>2, <2>1
  <2>6. FirstShown(z, c) \in T
    BY <2>3, <2>4
  <2>7. \A t \in T : t \in Readings(z, c)
    BY <2>1, <2>2, <2>5
  <2>8. Resolve(z, c) = Min(T)
    BY DEF Resolve
  <2> HIDE DEF T, d
  <2> QED BY <2>3, <2>5, <2>6, <2>7, <2>8, MinIs
<1> QED BY <1>3, <1>4

-----------------------------------------------------------------------------
(* The clocks of a window. *)

\* Windows that expand, and those among them whose zone the probes fit.
Expandable(w) == w \in Window /\ Validate(w)
Usable(w) == Expandable(w) /\ Probed(w.loc)

ClockOf(w, d, j) == (w.first + d) * Day + w.start + j * w.size

LEMMA BandHolds ==
    ASSUME NEW w, Expandable(w)
    PROVE  /\ PerDay(w) \in Nat /\ w.size \in Nat \ {0}
           /\ \A j \in Nat : j < PerDay(w) <=> w.start + j * w.size <= w.end - w.size
<1>1. w.size \in Nat \ {0} /\ w.start \in Nat /\ w.end \in Nat /\ w.end - w.start \in Nat
  BY DEF Expandable, Window, Validate, Day, Hour
<1>2. PerDay(w) = (w.end - w.start) \div w.size
  BY DEF PerDay
<1> DEFINE n == w.size
           a == w.end - w.start
           k == PerDay(w)
<1>3. n \in Nat \ {0} /\ a \in Nat /\ k = a \div n
  BY <1>1, <1>2
<1> HIDE DEF n, a, k
<1>4. k \in Nat /\ a % n \in 0 .. n - 1 /\ a = n * k + (a % n)
  BY <1>3, Dividing
<1>5. ASSUME NEW j \in Nat
      PROVE  j < k <=> (j + 1) * n <= a
  <2>1. ASSUME j < k PROVE (j + 1) * n <= a
    <3>1. \A x, y, m \in Nat : x <= y => x * m <= y * m
      OBVIOUS
    <3>2. (j + 1) * n <= k * n
      BY <1>3, <1>4, <2>1, <3>1
    <3>3. k * n = n * k /\ k * n \in Nat /\ (j + 1) * n \in Nat
      BY <1>3, <1>4
    <3> QED BY <1>3, <1>4, <3>2, <3>3
  <2>2. ASSUME ~(j < k) PROVE ~((j + 1) * n <= a)
    <3>1. \A x, y, m \in Nat : x <= y => x * m <= y * m
      OBVIOUS
    <3>2. (k + 1) * n <= (j + 1) * n
      BY <1>3, <1>4, <2>2, <3>1
    <3>3. (k + 1) * n = n * k + n /\ n * k \in Nat /\ (j + 1) * n \in Nat
      BY <1>3, <1>4
    <3> QED BY <1>3, <1>4, <3>2, <3>3
  <2> QED BY <2>1, <2>2
<1>6. ASSUME NEW j \in Nat
      PROVE  (j + 1) * n <= a <=> w.start + j * w.size <= w.end - w.size
  <2>1. (j + 1) * n = j * n + n /\ j * n \in Nat
    BY <1>3
  <2>2. a = w.end - w.start /\ n = w.size
    BY DEF a, n
  <2> QED BY <1>1, <2>1, <2>2
<1> QED BY <1>1, <1>4, <1>5, <1>6 DEF k

LEMMA ClockCount ==
    ASSUME NEW w, Expandable(w)
    PROVE  /\ Len(Clocks(w)) = (w.last - w.first + 1) * PerDay(w)
           /\ Len(Clocks(w)) \in Nat
           /\ DOMAIN Clocks(w) = 1 .. Len(Clocks(w))
<1> DEFINE p == PerDay(w)
           days == w.last - w.first + 1
<1>1. p \in Nat /\ days \in Nat
  BY BandHolds DEF Expandable, Window, Validate
<1>2. days * p \in Nat
  BY <1>1
<1>3. Clocks(w) = [k \in 1 .. days * p |->
        (w.first + (k - 1) \div p) * Day + w.start + ((k - 1) % p) * w.size]
  BY DEF Clocks
<1> HIDE DEF p, days
<1> QED BY <1>2, <1>3 DEF p, days

\* The i-th clock, by its day and its turn in the day.
LEMMA ClockAt ==
    ASSUME NEW w, Expandable(w), NEW i \in 1 .. Len(Clocks(w))
    PROVE  /\ Len(Clocks(w)) = (w.last - w.first + 1) * PerDay(w)
           /\ (i - 1) \div PerDay(w) \in 0 .. w.last - w.first
           /\ (i - 1) % PerDay(w) \in 0 .. PerDay(w) - 1
           /\ Clocks(w)[i] = ClockOf(w, (i - 1) \div PerDay(w), (i - 1) % PerDay(w))
<1> DEFINE p == PerDay(w)
           days == w.last - w.first + 1
<1>1. p \in Nat /\ days \in Nat /\ w.first \in Nat /\ w.last \in Nat
  BY BandHolds DEF Expandable, Window, Validate
<1>2. days * p \in Nat
  BY <1>1
<1>3. Len(Clocks(w)) = days * p /\ DOMAIN Clocks(w) = 1 .. days * p
  BY ClockCount
<1>4. Clocks(w)[i] = ClockOf(w, (i - 1) \div PerDay(w), (i - 1) % PerDay(w))
  <2>1. i \in 1 .. days * p
    BY <1>3
  <2> QED BY <2>1 DEF Clocks, ClockOf
<1> HIDE DEF p, days
<1>5. i \in 1 .. days * p /\ p # 0
  BY <1>1, <1>3
<1>6. i - 1 \in Nat /\ i - 1 < days * p
  BY <1>2, <1>5
<1> DEFINE q == (i - 1) \div p
<1>7. q \in Nat /\ (i - 1) % p \in 0 .. p - 1 /\ i - 1 = p * q + ((i - 1) % p)
  BY <1>1, <1>5, <1>6, Dividing
<1> HIDE DEF q
<1>8. q < days
  <2> SUFFICES ASSUME ~(q < days) PROVE FALSE
    BY <1>1, <1>7
  <2>1. \A x, y, m \in Nat : x <= y => x * m <= y * m
    OBVIOUS
  <2>2. days * p <= q * p
    BY <1>1, <1>7, <2>1
  <2>3. q * p = p * q /\ p * q \in Nat
    BY <1>1, <1>7
  <2> QED BY <1>2, <1>6, <1>7, <2>2, <2>3
<1>9. q \in 0 .. w.last - w.first
  BY <1>1, <1>7, <1>8 DEF days
<1> QED BY <1>3, <1>4, <1>7, <1>9 DEF p, days, q

\* Every clock is a whole number of half hours.
LEMMA ClockInt ==
    ASSUME NEW w, Expandable(w), NEW i \in 1 .. Len(Clocks(w))
    PROVE  Clocks(w)[i] \in Int
<1> DEFINE q == (i - 1) \div PerDay(w)
           r == (i - 1) % PerDay(w)
<1>1. w.first \in Nat /\ w.last \in Nat /\ w.start \in Nat
  <2>1. Day \in Nat
    BY DEF Day, Hour
  <2> \A a \in Nat : \A b \in 0 .. a : b \in Nat
    OBVIOUS
  <2> QED BY <2>1 DEF Expandable, Window
<1>2. q \in 0 .. w.last - w.first /\ r \in 0 .. PerDay(w) - 1 /\ Clocks(w)[i] = ClockOf(w, q, r)
  BY ClockAt
<1> HIDE DEF q, r
<1>3. w.first + q \in Int /\ r * w.size \in Int
  <2>1. PerDay(w) \in Nat /\ w.size \in Nat
    BY BandHolds
  <2>2. q \in Int /\ r \in Int
    BY <1>1, <1>2, <2>1
  <2> QED BY <1>1, <2>1, <2>2
<1>4. \A a, b, c \in Int : a * 48 + b + c \in Int
  OBVIOUS
<1>5. ClockOf(w, q, r) = (w.first + q) * 48 + w.start + r * w.size
  BY DEF ClockOf, Day, Hour
<1> QED BY <1>1, <1>2, <1>3, <1>4, <1>5

\* They are visited in order.
LEMMA ClocksAscend ==
    ASSUME NEW w, Expandable(w), NEW i \in 1 .. Len(Clocks(w)), NEW l \in 1 .. Len(Clocks(w)), i < l
    PROVE  Clocks(w)[i] \in Int /\ Clocks(w)[l] \in Int /\ Clocks(w)[i] < Clocks(w)[l]
<1> DEFINE p == PerDay(w)
           n == w.size
           qi == (i - 1) \div p
           ri == (i - 1) % p
           ql == (l - 1) \div p
           rl == (l - 1) % p
<1>a. p \in Nat /\ n \in Nat \ {0}
  BY BandHolds
<1>b. w.first \in Nat /\ w.last \in Nat /\ w.start \in Nat /\ w.end \in Nat /\ w.end <= 48
  <2>1. w.start \in 0 .. Day /\ w.end \in 0 .. Day
    BY DEF Expandable, Window
  <2>2. Day \in Nat /\ Day = 48
    BY DEF Day, Hour
  <2>3. w.start \in Nat /\ w.end \in Nat /\ w.end <= Day
    <3> \A a \in Nat : \A b \in 0 .. a : b \in Nat /\ b <= a
      OBVIOUS
    <3> QED BY <2>1, <2>2
  <2> QED BY <2>2, <2>3 DEF Expandable, Window
<1>2. /\ qi \in 0 .. w.last - w.first /\ ri \in 0 .. p - 1
      /\ ql \in 0 .. w.last - w.first /\ rl \in 0 .. p - 1
      /\ Clocks(w)[i] = ClockOf(w, qi, ri) /\ Clocks(w)[l] = ClockOf(w, ql, rl)
  BY ClockAt
<1>c. i \in Nat /\ l \in Nat /\ i - 1 \in Nat /\ l - 1 \in Nat
  OBVIOUS
<1> HIDE DEF p, n
<1>d. ri \in Nat /\ rl \in Nat /\ ri < p /\ rl < p /\ qi \in Nat /\ ql \in Nat
  <2> HIDE DEF qi, ri, ql, rl
  <2> QED BY <1>a, <1>b, <1>2
<1>3. i - 1 = p * qi + ri /\ l - 1 = p * ql + rl
  BY <1>a, <1>c, <1>d, Dividing
<1> HIDE DEF qi, ri, ql, rl
<1>e. p * qi \in Nat /\ p * ql \in Nat
  BY <1>a, <1>d
<1>4. qi < ql \/ (qi = ql /\ ri < rl)
  <2> SUFFICES ASSUME ql < qi \/ (ql = qi /\ rl <= ri) PROVE FALSE
    BY <1>d
  <2>1. CASE ql = qi /\ rl <= ri
    BY <1>c, <1>d, <1>e, <1>3, <2>1
  <2>2. CASE ql < qi
    <3>1. \A x, y, m \in Nat : x <= y => m * x <= m * y
      OBVIOUS
    <3>2. p * (ql + 1) <= p * qi
      BY <1>a, <1>d, <2>2, <3>1
    <3>3. p * (ql + 1) = p * ql + p
      BY <1>a, <1>d
    <3> QED BY <1>a, <1>c, <1>d, <1>e, <1>3, <3>2, <3>3
  <2> QED BY <2>1, <2>2
<1>5. ri * n \in Nat /\ rl * n \in Nat
  BY <1>a, <1>d
<1> DEFINE ci == ClockOf(w, qi, ri)
           cl == ClockOf(w, ql, rl)
<1>6. /\ ci = (w.first + qi) * 48 + w.start + ri * n
      /\ cl = (w.first + ql) * 48 + w.start + rl * n
  BY DEF ClockOf, Day, Hour, n
<1> HIDE DEF ci, cl
<1>f. ci \in Int /\ cl \in Int
  <2>1. \A a, b, c \in Int : a * 48 + b + c \in Int
    OBVIOUS
  <2>2. /\ w.first + qi \in Int /\ w.first + ql \in Int /\ w.start \in Int
        /\ ri * n \in Int /\ rl * n \in Int
    BY <1>b, <1>d, <1>5
  <2> QED BY <1>6, <2>1, <2>2
<1>7. CASE qi < ql
  <2>1. w.start + ri * n <= w.end - n
    BY <1>d, BandHolds DEF p, n
  <2>2. ci < (w.first + qi) * 48 + 48 /\ cl >= (w.first + ql) * 48
    <3> DEFINE x == ri * n
               y == rl * n
    <3>1. x \in Nat /\ y \in Nat /\ w.start + x <= w.end - n
          /\ ci = (w.first + qi) * 48 + w.start + x /\ cl = (w.first + ql) * 48 + w.start + y
      BY <1>5, <1>6, <2>1
    <3> DEFINE A == w.first + qi
               B == w.first + ql
               st == w.start
               en == w.end
    <3>2. A \in Nat /\ B \in Nat /\ st \in Nat /\ en \in Nat /\ en <= 48
      BY <1>b, <1>d
    <3>3. ci = A * 48 + st + x /\ cl = B * 48 + st + y /\ st + x <= en - n
      BY <3>1
    <3> HIDE DEF x, y, A, B, st, en
    <3>4. ci < A * 48 + 48 /\ cl >= B * 48
      BY <1>a, <3>1, <3>2, <3>3
    <3> QED BY <3>4 DEF A, B
  <2> QED BY <1>b, <1>d, <1>f, <1>2, <1>7, <2>2 DEF ci, cl
<1>8. CASE qi = ql /\ ri < rl
  <2>1. \A x, y, m \in Nat : x < y /\ m # 0 => x * m < y * m
    OBVIOUS
  <2>2. ri * n < rl * n
    BY <1>a, <1>d, <1>8, <2>1
  <2>3. ci < cl
    <3> DEFINE x == ri * n
               y == rl * n
    <3>1. x \in Nat /\ y \in Nat /\ x < y
          /\ ci = (w.first + qi) * 48 + w.start + x /\ cl = (w.first + qi) * 48 + w.start + y
      BY <1>5, <1>6, <1>8, <2>2
    <3> DEFINE A == (w.first + qi) * 48 + w.start
    <3>2. A \in Int
      BY <1>b, <1>d
    <3> HIDE DEF x, y, A
    <3>3. ci = A + x /\ cl = A + y
      BY <3>1 DEF A
    <3> QED BY <3>1, <3>2, <3>3
  <2> QED BY <1>f, <1>2, <2>3 DEF ci, cl
<1> QED BY <1>4, <1>7, <1>8

\* They are the clocks of the daily grid.
LEMMA ClocksAreGrid ==
    ASSUME NEW w, Expandable(w)
    PROVE  {Clocks(w)[i] : i \in 1 .. Len(Clocks(w))} = GridClocks(w)
<1> DEFINE p == PerDay(w)
           n == w.size
<1>1. /\ p \in Nat /\ n \in Nat \ {0} /\ w.first \in Nat /\ w.last \in Nat /\ w.start \in Nat
      /\ w.end \in Int /\ w.first <= w.last
  BY BandHolds DEF Expandable, Window, Validate, Day, Hour
<1>2. ASSUME NEW i \in 1 .. Len(Clocks(w))
      PROVE  Clocks(w)[i] \in GridClocks(w)
  <2> DEFINE q == (i - 1) \div p
             r == (i - 1) % p
             d == w.first + q
             m == w.start + r * n
  <2>1. q \in 0 .. w.last - w.first /\ r \in 0 .. p - 1 /\ Clocks(w)[i] = ClockOf(w, q, r)
    BY ClockAt
  <2> HIDE DEF q, r
  <2>2. d \in w.first .. w.last
    BY <1>1, <2>1
  <2>3. m \in w.start .. w.end - w.size
    <3>1. r \in Nat /\ r < p /\ r * n \in Nat
      BY <1>1, <2>1
    <3>2. w.start + r * w.size <= w.end - w.size
      BY <3>1, BandHolds
    <3> QED BY <1>1, <3>1, <3>2
  <2>4. (m - w.start) % w.size = 0
    <3>1. r \in Nat /\ 0 \in 0 .. n - 1
      BY <1>1, <2>1
    <3>2. m - w.start = n * r + 0
      BY <1>1, <3>1
    <3> HIDE DEF m, n
    <3>3. (n * r + 0) % n = 0
      BY <1>1, <3>1, DividedOnce
    <3> QED BY <3>2, <3>3 DEF n
  <2>5. Clocks(w)[i] = d * Day + m
    <3>1. ClockOf(w, q, r) = (w.first + q) * Day + w.start + r * n
      BY DEF ClockOf
    <3>2. (w.first + q) * Day \in Int /\ r * n \in Int
      BY <1>1, <2>1 DEF Day, Hour
    <3> QED BY <1>1, <2>1, <3>1, <3>2
  <2> HIDE DEF d, m
  <2> QED BY <2>2, <2>3, <2>4, <2>5 DEF GridClocks
<1>3. ASSUME NEW d \in w.first .. w.last, NEW m \in w.start .. w.end - w.size,
             (m - w.start) % w.size = 0
      PROVE  \E i \in 1 .. Len(Clocks(w)) : Clocks(w)[i] = d * Day + m
  <2> DEFINE j == (m - w.start) \div n
             q == d - w.first
             i == p * q + j + 1
  <2>1. m - w.start \in Nat
    BY <1>1
  <2>2. j \in Nat /\ m - w.start = n * j
    <3> DEFINE a == m - w.start
    <3>1. a \div n \in Nat /\ a = n * (a \div n) + (a % n) /\ a % n = 0
      <4> HIDE DEF n, a
      <4>1. a \in Nat /\ a % n = 0
        BY <1>3, <2>1 DEF a, n
      <4> QED BY <1>1, <4>1, Dividing
    <3> QED BY <1>1, <3>1
  <2> HIDE DEF j
  <2>3. m = w.start + j * w.size /\ m <= w.end - w.size
    BY <1>1, <2>1, <2>2
  <2>4. j < p
    BY <2>2, <2>3, BandHolds
  <2>5. q \in 0 .. w.last - w.first
    BY <1>1
  <2> HIDE DEF q, p
  <2>6. p * q \in Nat
    BY <1>1, <2>5
  <2>7. i \in Nat /\ i >= 1 /\ i - 1 = p * q + j
    BY <2>2, <2>6
  <2> HIDE DEF i
  <2>8. (i - 1) \div p = q /\ (i - 1) % p = j
    <3>1. p \in Nat \ {0} /\ q \in Nat /\ j \in 0 .. p - 1
      BY <1>1, <2>2, <2>4, <2>5
    <3> QED BY <2>7, <3>1, DividedOnce
  <2>9. Len(Clocks(w)) = (w.last - w.first + 1) * p
    <3>1. (w.last - w.first + 1) * p \in Nat
      <4>1. w.last - w.first + 1 \in Nat
        BY <1>1
      <4> QED BY <1>1, <4>1
    <3> QED BY <3>1 DEF Clocks, p
  <2>10. i \in 1 .. Len(Clocks(w))
    <3> DEFINE days == w.last - w.first + 1
    <3>1. days \in Nat /\ q + 1 <= days /\ q \in Nat
      BY <1>1, <2>5
    <3> HIDE DEF days
    <3>2. \A x, y, z \in Nat : x <= y => x * z <= y * z
      OBVIOUS
    <3>3. (q + 1) * p <= days * p
      BY <1>1, <3>1, <3>2
    <3>4. (q + 1) * p = p * q + p /\ days * p \in Nat
      BY <1>1, <3>1
    <3>5. i <= days * p
      BY <1>1, <2>2, <2>4, <2>6, <2>7, <3>3, <3>4
    <3> QED BY <2>7, <2>9, <3>4, <3>5 DEF days
  <2>11. Clocks(w)[i] = ClockOf(w, q, j)
    BY <2>8, <2>10, ClockAt DEF p
  <2>12. w.first + q = d
    BY <1>1 DEF q
  <2>13. ClockOf(w, q, j) = d * Day + m
    <3>1. d * Day \in Int /\ j * w.size \in Int
      BY <1>1, <2>2 DEF Day, Hour
    <3> QED BY <1>1, <2>3, <2>12, <3>1 DEF ClockOf
  <2> QED BY <2>10, <2>11, <2>13
<1> QED BY <1>2, <1>3 DEF GridClocks
-----------------------------------------------------------------------------
(* The expansion. *)

Turn(f, n, w) == IF n = 0 THEN <<>> ELSE Emit(f[n - 1], w.loc, Clocks(w)[n])

\* The loops are well defined, however many clocks they visit.
LEMMA LoopExists ==
    ASSUME NEW w, NEW m \in Nat
    PROVE  \E f : f = [n \in 0 .. m |-> Turn(f, n, w)]
<1> DEFINE Solved(i) == \E f : f = [n \in 0 .. i |-> Turn(f, n, w)]
           T == {i \in Nat : ~Solved(i)}
<1>1. Solved(0)
  <2> DEFINE f == [n \in 0 .. 0 |-> <<>>]
  <2>1. f = [n \in 0 .. 0 |-> Turn(f, n, w)]
    BY DEF Turn
  <2> QED BY <2>1
<1>2. ASSUME NEW i \in Nat, Solved(i)
      PROVE  Solved(i + 1)
  <2>1. PICK f : f = [n \in 0 .. i |-> Turn(f, n, w)]
    BY <1>2
  <2> DEFINE h == [n \in 0 .. i + 1 |->
                     IF n = i + 1 THEN Emit(f[i], w.loc, Clocks(w)[i + 1]) ELSE f[n]]
  <2>2. \A n \in 0 .. i : h[n] = f[n]
    OBVIOUS
  <2>3. ASSUME NEW n \in 0 .. i + 1
        PROVE  h[n] = Turn(h, n, w)
    <3>1. CASE n = 0
      <4>1. h[n] = f[0] /\ f[0] = <<>>
        BY <2>1, <3>1 DEF Turn
      <4> QED BY <3>1, <4>1 DEF Turn
    <3>2. CASE n \in 1 .. i
      <4>1. h[n] = f[n] /\ h[n - 1] = f[n - 1]
        BY <2>2, <3>2
      <4>2. f[n] = Emit(f[n - 1], w.loc, Clocks(w)[n])
        BY <2>1, <3>2 DEF Turn
      <4> HIDE DEF h
      <4> QED BY <3>2, <4>1, <4>2 DEF Turn
    <3>3. CASE n = i + 1
      <4>1. h[n] = Emit(f[i], w.loc, Clocks(w)[i + 1]) /\ h[i] = f[i] /\ n - 1 = i
        BY <2>2, <3>3
      <4> HIDE DEF h
      <4> QED BY <3>3, <4>1 DEF Turn
    <3> QED BY <3>1, <3>2, <3>3
  <2>4. h = [n \in 0 .. i + 1 |-> Turn(h, n, w)]
    <3>1. DOMAIN h = 0 .. i + 1 /\ h = [n \in DOMAIN h |-> h[n]]
      OBVIOUS
    <3> HIDE DEF h
    <3> QED BY <2>3, <3>1
  <2> QED BY <2>4
<1> HIDE DEF Solved
<1>3. T = {}
  <2> SUFFICES ASSUME T # {} PROVE FALSE
    OBVIOUS
  <2>1. PICK i \in T : \A j \in T : i <= j
    BY LeastNat
  <2>2. i \in Nat /\ i # 0 /\ ~Solved(i)
    BY <1>1
  <2>3. i - 1 \in Nat /\ (i - 1) + 1 = i
    BY <2>2
  <2>4. Solved(i - 1)
    BY <2>1, <2>3
  <2>5. Solved((i - 1) + 1)
    BY <1>2, <2>3, <2>4
  <2> QED BY <2>2, <2>3, <2>5
<1> QED BY <1>3 DEF Solved

Ascending(q) == \A i \in 1 .. Len(q) - 1 : q[i] < q[i + 1]

\* The first readings of the first n clocks.
FirstReadings(w, n) ==
    {FirstShown(w.loc, Clocks(w)[i]) : i \in {i \in 1 .. n : Shown(w.loc, Clocks(w)[i])}}

\* The slots after n clocks.
Emitted(q, w, n) ==
    /\ q \in Seq(Int) /\ Ascending(q)
    /\ {q[i] : i \in 1 .. Len(q)} = FirstReadings(w, n)

\* One more clock: its first reading is later than all that were emitted.
LEMMA OneMoreClock ==
    ASSUME NEW w, Usable(w), NEW n \in 1 .. Len(Clocks(w)), NEW q, Emitted(q, w, n - 1)
    PROVE  Emitted(Emit(q, w.loc, Clocks(w)[n]), w, n)
<1> DEFINE z == w.loc
           c == Clocks(w)[n]
           x == FirstShown(z, c)
<1>0. Len(Clocks(w)) \in Nat
  BY ClockCount DEF Usable
<1>1. z \in Zone /\ Probed(z) /\ c \in Int /\ n \in Nat /\ n - 1 \in Nat
  <2>1. z \in Zone /\ Probed(z)
    BY DEF Usable, Expandable, Window
  <2>2. c \in Int
    BY ClockInt DEF Usable
  <2> QED BY <1>0, <2>1, <2>2
<1>2. 1 .. n = (1 .. n - 1) \cup {n}
  BY <1>1
<1>3. CASE ~Shown(z, c)
  <2>1. Emit(q, z, c) = q
    BY <1>1, <1>3, ResolvesFirst DEF Emit
  <2>2. FirstReadings(w, n) = FirstReadings(w, n - 1)
    BY <1>2, <1>3 DEF FirstReadings
  <2> QED BY <2>1, <2>2 DEF Emitted
<1>4. CASE Shown(z, c)
  <2>1. x \in Int
    BY <1>1, <1>4, ReadingsOfClock
  <2>2. ASSUME NEW k \in 1 .. Len(q)
        PROVE  q[k] \in Int /\ q[k] < x
    <3>1. q[k] \in FirstReadings(w, n - 1) /\ q[k] \in Int
      BY DEF Emitted
    <3>2. PICK i \in 1 .. n - 1 : Shown(z, Clocks(w)[i]) /\ q[k] = FirstShown(z, Clocks(w)[i])
      BY <3>1 DEF FirstReadings
    <3>3. i \in 1 .. Len(Clocks(w)) /\ i < n
      BY <1>0, <1>1
    <3>4. Clocks(w)[i] \in Int /\ Clocks(w)[i] < c
      BY <3>3, ClocksAscend DEF Usable
    <3> QED BY <1>1, <1>4, <3>1, <3>2, <3>4, LaterIsLater
  <2>3. Emit(q, z, c) = Append(q, x)
    <3>1. Kind(z, c) # "nonexistent" /\ Resolve(z, c) = x
      BY <1>1, <1>4, ResolvesFirst
    <3>2. ~Contains(q, x)
      BY <2>1, <2>2 DEF Contains
    <3> QED BY <3>1, <3>2 DEF Emit
  <2> HIDE DEF z, c, x
  <2>4. /\ Append(q, x) \in Seq(Int) /\ Len(Append(q, x)) = Len(q) + 1 /\ Len(q) \in Nat
        /\ \A k \in 1 .. Len(q) : Append(q, x)[k] = q[k]
        /\ Append(q, x)[Len(q) + 1] = x
    BY <2>1 DEF Emitted
  <2>5. Ascending(Append(q, x))
    <3> SUFFICES ASSUME NEW k \in 1 .. Len(q)
                 PROVE  Append(q, x)[k] < Append(q, x)[k + 1]
      BY <2>4 DEF Ascending
    <3>1. CASE k = Len(q)
      BY <2>2, <2>4, <3>1
    <3>2. CASE k \in 1 .. Len(q) - 1
      BY <2>4, <3>2 DEF Emitted, Ascending
    <3> QED BY <2>4, <3>1, <3>2
  <2>6. FirstReadings(w, n) = FirstReadings(w, n - 1) \cup {x}
    BY <1>2, <1>4 DEF FirstReadings, z, c, x
  <2>7. {Append(q, x)[k] : k \in 1 .. Len(q) + 1} = {q[k] : k \in 1 .. Len(q)} \cup {x}
    <3>1. 1 .. Len(q) + 1 = (1 .. Len(q)) \cup {Len(q) + 1}
      BY <2>4
    <3> QED BY <2>4, <3>1
  <2>8. Emitted(Append(q, x), w, n)
    <3>1. {q[k] : k \in 1 .. Len(q)} = FirstReadings(w, n - 1)
      BY DEF Emitted
    <3> HIDE DEF FirstReadings
    <3> QED BY <2>4, <2>5, <2>6, <2>7, <3>1 DEF Emitted
  <2> QED BY <2>3, <2>8 DEF z, c
<1> QED BY <1>3, <1>4

\* What every turn of the loop keeps holds of the slots.
LEMMA LoopInvariant ==
    ASSUME NEW w, NEW m \in Nat, m = Len(Clocks(w)), NEW good,
           <<>> \in good[0],
           \A n \in 1 .. m : \A q \in good[n - 1] : Emit(q, w.loc, Clocks(w)[n]) \in good[n]
    PROVE  StartsOf(w) \in good[m]
<1> DEFINE starts == CHOOSE f : f = [n \in 0 .. m |-> Turn(f, n, w)]
           T == {n \in 0 .. m : starts[n] \notin good[n]}
<1>1. starts = [n \in 0 .. m |-> Turn(starts, n, w)]
  BY LoopExists
<1>2. StartsOf(w) = starts[m]
  BY DEF StartsOf, Turn
<1> HIDE DEF starts
<1>3. starts[0] = <<>>
  BY <1>1 DEF Turn
<1>4. ASSUME NEW n \in 1 .. m, starts[n - 1] \in good[n - 1]
      PROVE  starts[n] \in good[n]
  <2>1. starts[n] = Emit(starts[n - 1], w.loc, Clocks(w)[n])
    BY <1>1 DEF Turn
  <2> QED BY <1>4, <2>1
<1>5. T = {}
  <2> SUFFICES ASSUME T # {} PROVE FALSE
    OBVIOUS
  <2>1. PICK i \in T : \A j \in T : i <= j
    <3>1. T \subseteq Nat
      OBVIOUS
    <3> HIDE DEF T
    <3> QED BY <3>1, LeastNat
  <2>2. i \in 1 .. m /\ starts[i] \notin good[i]
    BY <1>3
  <2>3. i - 1 \in 0 .. m /\ ~(i <= i - 1)
    BY <2>2
  <2>4. starts[i - 1] \in good[i - 1]
    BY <2>1, <2>3
  <2> QED BY <1>4, <2>2, <2>4
<1> QED BY <1>2, <1>5

\* All of them.
LEMMA AllClocks ==
    ASSUME NEW w, Usable(w)
    PROVE  Emitted(StartsOf(w), w, Len(Clocks(w)))
<1> DEFINE m == Len(Clocks(w))
           good == [n \in 0 .. m |-> {q \in Seq(Int) : Emitted(q, w, n)}]
<1>1. m \in Nat
  BY ClockCount DEF Usable
<1>2. Emitted(<<>>, w, 0)
  BY DEF Emitted, Ascending, FirstReadings
<1>3. <<>> \in good[0]
  BY <1>1, <1>2
<1>4. ASSUME NEW n \in 1 .. m, NEW q \in good[n - 1]
      PROVE  Emit(q, w.loc, Clocks(w)[n]) \in good[n]
  <2>1. Emitted(q, w, n - 1)
    BY <1>1
  <2>2. Emitted(Emit(q, w.loc, Clocks(w)[n]), w, n)
    BY <2>1, OneMoreClock
  <2> QED BY <2>2 DEF Emitted
<1>5. \A q \in good[m] : Emitted(q, w, m)
  BY <1>1
<1> HIDE DEF good
<1>6. StartsOf(w) \in good[m]
  <2>1. \A n \in 1 .. m : \A q \in good[n - 1] : Emit(q, w.loc, Clocks(w)[n]) \in good[n]
    BY <1>4
  <2> HIDE DEF m
  <2> QED BY <1>1, <1>3, <2>1, LoopInvariant DEF m
<1> QED BY <1>5, <1>6

\* The expansion is the first readings of the daily grid.
LEMMA ExpandsExactly ==
    ASSUME NEW w, Usable(w)
    PROVE  StartsOf(w) \in Seq(Int) /\ ExactGrid(w, StartsOf(w))
<1> DEFINE q == StartsOf(w)
           z == w.loc
           G == GridClocks(w)
<1>1. /\ q \in Seq(Int) /\ Ascending(q) /\ DOMAIN q = 1 .. Len(q)
      /\ {q[i] : i \in DOMAIN q} = FirstReadings(w, Len(Clocks(w)))
  BY AllClocks DEF Emitted
<1>2. G = {Clocks(w)[i] : i \in 1 .. Len(Clocks(w))}
  BY ClocksAreGrid DEF Usable
<1>3. z \in Zone
  BY DEF Usable, Expandable, Window
<1>4. \A i \in 1 .. Len(Clocks(w)) : Clocks(w)[i] \in Int
  BY ClockInt DEF Usable
<1> HIDE DEF G, z, q
<1>5. \A c \in G : c \in Int
  BY <1>2, <1>4
<1>6. ASSUME NEW c \in G
      PROVE  /\ Readings(z, c) # {} <=> Shown(z, c)
             /\ Readings(z, c) # {} => Min(Readings(z, c)) = FirstShown(z, c)
  BY <1>3, <1>5, ReadingsOfClock, MinIs
<1>7. FirstReadings(w, Len(Clocks(w))) = {FirstShown(z, c) : c \in {c \in G : Shown(z, c)}}
  BY <1>2 DEF FirstReadings, z
<1>8. {FirstShown(z, c) : c \in {c \in G : Shown(z, c)}}
        = {Min(Readings(z, c)) : c \in {c \in G : Readings(z, c) # {}}}
  BY <1>6
<1> QED BY <1>1, <1>7, <1>8 DEF ExactGrid, Ascending, q, z, G

\* Whatever the zones, the slots are instants.
LEMMA ExpandsToInstants ==
    ASSUME NEW w, Expandable(w)
    PROVE  StartsOf(w) \in Seq(Int)
<1> DEFINE m == Len(Clocks(w))
           good == [n \in 0 .. m |-> Seq(Int)]
<1>1. m \in Nat
  BY ClockCount DEF Expandable
<1>2. ASSUME NEW n \in 1 .. m, NEW q \in Seq(Int)
      PROVE  Emit(q, w.loc, Clocks(w)[n]) \in Seq(Int)
  <2> DEFINE z == w.loc
             c == Clocks(w)[n]
             d == DateIn(z, c)
             T == {d} \cup {t \in {d + x : x \in ProbeDeltas} : Wall(z, t) = c}
  <2>1. z \in Zone /\ c \in Int
    BY ClockInt DEF Expandable, Window
  <2>2. d \in Int
    <3> HIDE DEF z, c
    <3> QED BY <2>1, DateReads
  <2> HIDE DEF d, z, c
  <2>3. T \subseteq d - 4 .. d + 4
    BY <2>2 DEF ProbeDeltas, ProbeForward, Hour
  <2>4. IsFiniteSet(T) /\ T \subseteq Int /\ T # {}
    <3> DEFINE lo == d - 4
               hi == d + 4
    <3>1. lo \in Int /\ hi \in Int /\ T \subseteq lo .. hi
      BY <2>2, <2>3
    <3>2. d \in T
      OBVIOUS
    <3> HIDE DEF T, lo, hi
    <3>3. IsFiniteSet(lo .. hi) /\ lo .. hi \subseteq Int
      BY <3>1, FS_Interval
    <3> QED BY <3>1, <3>2, <3>3, FS_Subset
  <2>5. Resolve(z, c) \in Int
    <3>1. Resolve(z, c) = Min(T)
      BY DEF Resolve, d
    <3> HIDE DEF T
    <3> QED BY <2>4, <3>1, FiniteExtremes
  <2> QED BY <2>5 DEF Emit, z, c
<1>3. <<>> \in good[0] /\ good[m] = Seq(Int)
  BY <1>1
<1>4. \A n \in 1 .. m : \A q \in good[n - 1] : Emit(q, w.loc, Clocks(w)[n]) \in good[n]
  BY <1>1, <1>2
<1> HIDE DEF good, m
<1> QED BY <1>1, <1>3, <1>4, LoopInvariant DEF m

-----------------------------------------------------------------------------
(* Answering: the inductive invariant. *)

\* The editors that hydrate makes of rows.
CoarseOf(rows, z) ==
    LET cells == {CellFor(s, z) : s \in DOMAIN Stated(rows)}
    IN  Keep([c \in cells |-> Restored(rows, z, c)],
             {c \in cells : Restored(rows, z, c) # Unmarked})
FineOf(rows) == [s \in {s \in DOMAIN rows : rows[s].source = "manual"} |-> rows[s].tier]

\* The event is none or an expanded window; nobody answers before it is there,
\* and only somebody who has joined connects a calendar.
EventFits ==
    /\ grid \in Seq(Int)
    /\ window = <<>> => grid = <<>> /\ editors = "edited" /\ tz = NoZone
    /\ window # <<>> => grid = Expand(window).starts /\ ~Rejected(window)
    /\ linked \in BOOLEAN /\ (linked => tz # NoZone)

\* The calendar only refuses, day parts only offer, and only somebody who has
\* joined has rows.
RowsFit(rows) ==
    /\ tz = NoZone => DOMAIN rows = {}
    /\ \A s \in DOMAIN rows :
          /\ rows[s].source = "calendar" => rows[s].tier = "no"
          /\ rows[s].source = "coarse" => rows[s].tier \in CoarseTiers

\* Rows that were stated come from a submission, and with one row of a day part
\* come those of the whole part, as it was read then, except the single slots.
PartsFit(rows) ==
    /\ saidIn = NoZone => DOMAIN Stated(rows) = {}
    /\ \A s \in DOMAIN rows : rows[s].source = "coarse" =>
          \A u \in SlotSet : CellFor(u, saidIn) = CellFor(s, saidIn) =>
              /\ u \in DOMAIN rows
              /\ rows[u].source = "manual" \/ rows[u] = rows[s]

\* A page that was opened and not touched shows the rows.
OpenedFits ==
    editors = "opened" => coarse = CoarseOf(stored, tz) /\ fine = FineOf(stored)

Inv ==
    /\ TypeOK /\ EventFits /\ RowsFit(stored) /\ PartsFit(stored) /\ OpenedFits
    /\ SavedAsEdited

-----------------------------------------------------------------------------
(* Answering: what the operators on rows do. *)

\* Server and page sort a slot into the same day part.
LEMMA SamePart == \A s, z : Of(s, z) = CellFor(s, z)
BY DEF Of, CellFor, BlockForHour, PageBlockForHour, AfternoonStartHour, EveningStartHour,
       AFTERNOON_START_HOUR, EVENING_START_HOUR

\* The rows that were stated, one by one.
LEMMA StatedRows ==
    ASSUME NEW rows
    PROVE  /\ DOMAIN Stated(rows) = {s \in DOMAIN rows : rows[s].source # "calendar"}
           /\ \A s \in DOMAIN Stated(rows) : Stated(rows)[s] = rows[s]
BY DEF Stated, Keep, OfCalendar

\* The rows after a calendar was connected, one by one.
LEMMA CoveredRows ==
    ASSUME NEW rows, NEW covered
    PROVE  /\ DOMAIN ApplyCalendar(rows, covered) = DOMAIN Stated(rows) \cup covered
           /\ \A s \in DOMAIN Stated(rows) : ApplyCalendar(rows, covered)[s] = rows[s]
           /\ \A s \in covered : s \notin DOMAIN Stated(rows) =>
                 ApplyCalendar(rows, covered)[s] = [tier |-> "no", source |-> "calendar"]
           /\ DOMAIN Stated(ApplyCalendar(rows, covered)) = DOMAIN Stated(rows)
<1> DEFINE r == ApplyCalendar(rows, covered)
<1>1. /\ DOMAIN r = DOMAIN Stated(rows) \cup covered
      /\ \A s \in DOMAIN Stated(rows) : r[s] = rows[s]
      /\ \A s \in covered : s \notin DOMAIN Stated(rows) =>
            r[s] = [tier |-> "no", source |-> "calendar"]
  BY DEF ApplyCalendar
<1> HIDE DEF r
<1>2. DOMAIN Stated(rows) = {s \in DOMAIN rows : rows[s].source # "calendar"}
      /\ DOMAIN Stated(r) = {s \in DOMAIN r : r[s].source # "calendar"}
  BY StatedRows
<1>3. \A s \in DOMAIN Stated(rows) : s \in DOMAIN Stated(r)
  BY <1>1, <1>2
<1>4. \A s \in DOMAIN Stated(r) : s \in DOMAIN Stated(rows)
  BY <1>1, <1>2
<1>5. DOMAIN Stated(r) = DOMAIN Stated(rows)
  BY <1>3, <1>4
<1> QED BY <1>1, <1>5 DEF r

\* The tier of a restored day part.
LEMMA RestoredTier ==
    ASSUME NEW rows, NEW z, NEW c, DOMAIN rows \subseteq SlotSet, grid \in Seq(Int)
    PROVE  LET here == {s \in DOMAIN Stated(rows) : CellFor(s, z) = c}
               said == {s \in here : rows[s].source = "coarse"}
           IN  /\ said # {} => \E s \in said : Restored(rows, z, c) = rows[s].tier
               /\ said = {} => Restored(rows, z, c) =
                     IF \E s \in here : rows[s].tier # "no" THEN "ok" ELSE Unmarked
<1> DEFINE here == {s \in DOMAIN Stated(rows) : CellFor(s, z) = c}
           said == {s \in here : rows[s].source = "coarse"}
<1>1. IsFiniteSet(SlotSet) /\ SlotSet \subseteq Int
  <2>1. SlotSet \subseteq Int /\ DOMAIN grid = 1 .. Len(grid)
    BY DEF SlotSet
  <2>2. grid \in Seq(SlotSet) /\ \A s \in SlotSet : \E n \in 1 .. Len(grid) : grid[n] = s
    BY <2>1 DEF SlotSet
  <2> QED BY <2>1, <2>2 DEF IsFiniteSet
<1>2. said \subseteq SlotSet
  BY StatedRows
<1>3. said # {} => Max(said) \in said
  <2> HIDE DEF said
  <2>1. IsFiniteSet(said) /\ said \subseteq Int
    BY <1>1, <1>2, FS_Subset
  <2> QED BY <2>1, FiniteExtremes
<1>4. Restored(rows, z, c) = IF said # {} THEN rows[Max(said)].tier
                             ELSE IF \E s \in here : rows[s].tier # "no" THEN "ok" ELSE Unmarked
  BY DEF Restored
<1> HIDE DEF said
<1> QED BY <1>3, <1>4 DEF said

\* The coarse editor that hydrate makes of rows, day part by day part.
LEMMA CoarseEditor ==
    ASSUME NEW rows, NEW z, NEW c
    PROVE  /\ c \in DOMAIN CoarseOf(rows, z) <=>
                /\ \E s \in DOMAIN Stated(rows) : CellFor(s, z) = c
                /\ Restored(rows, z, c) # Unmarked
           /\ c \in DOMAIN CoarseOf(rows, z) => CoarseOf(rows, z)[c] = Restored(rows, z, c)
BY DEF CoarseOf, Keep

\* hydrate's values have the page's types.
LEMMA HydratedTypes ==
    ASSUME NEW rows, NEW z, grid \in Seq(Int), DOMAIN rows \subseteq SlotSet,
           \A s \in DOMAIN rows : rows[s].tier \in Tiers,
           \A s \in DOMAIN rows : rows[s].source = "coarse" => rows[s].tier \in CoarseTiers
    PROVE  /\ \A c \in DOMAIN CoarseOf(rows, z) : CoarseOf(rows, z)[c] \in CoarseTiers
           /\ DOMAIN FineOf(rows) \subseteq SlotSet
           /\ \A s \in DOMAIN FineOf(rows) : FineOf(rows)[s] \in Tiers
           /\ OfCalendar(rows) \subseteq SlotSet
<1>1. ASSUME NEW c \in DOMAIN CoarseOf(rows, z)
      PROVE  CoarseOf(rows, z)[c] \in CoarseTiers
  <2> DEFINE said == {s \in {s \in DOMAIN Stated(rows) : CellFor(s, z) = c} :
                        rows[s].source = "coarse"}
  <2>1. Restored(rows, z, c) # Unmarked /\ CoarseOf(rows, z)[c] = Restored(rows, z, c)
    BY CoarseEditor
  <2>2. CASE said # {}
    <3>1. PICK s \in said : Restored(rows, z, c) = rows[s].tier
      BY <2>2, RestoredTier
    <3> QED BY <2>1, <3>1, StatedRows
  <2>3. CASE said = {}
    <3>1. Restored(rows, z, c) \in {"ok", Unmarked}
      BY <2>3, RestoredTier
    <3> QED BY <2>1, <3>1 DEF CoarseTiers
  <2> QED BY <2>2, <2>3
<1> QED BY <1>1 DEF FineOf, OfCalendar

-----------------------------------------------------------------------------
(* Answering: the steps. *)

LEMMA InvInit == Init => Inv
<1> SUFFICES ASSUME Init PROVE Inv
  OBVIOUS
<1>1. DOMAIN stored = {} /\ DOMAIN coarse = {} /\ DOMAIN fine = {} /\ grid = <<>>
  BY DEF Init, Empty, NoEvent
<1>2. TypeOK
  BY <1>1, ZonesAssumption, TapsAssumption DEF Init, NoEvent, TypeOK, OfCalendar
<1>3. EventFits
  <2>1. linked \in BOOLEAN /\ ~linked
    BY DEF Init
  <2>2. window = <<>> /\ tz = NoZone /\ editors = "edited" /\ grid \in Seq(Int)
    BY <1>1 DEF Init, NoEvent
  <2> QED BY <1>1, <2>1, <2>2 DEF EventFits
<1>4. RowsFit(stored) /\ PartsFit(stored)
  BY <1>1, StatedRows DEF RowsFit, PartsFit
<1> QED BY <1>2, <1>3, <1>4 DEF Inv, Init, OpenedFits, SavedAsEdited

\* A window is not the absence of one.
LEMMA WindowIsThere == \A w \in Window : w # <<>>
<1> SUFFICES ASSUME <<>> \in Window PROVE FALSE
  OBVIOUS
<1>1. DOMAIN <<>> = {"first", "last", "start", "end", "size", "loc"}
  BY DEF Window
<1> QED BY <1>1

LEMMA CreateStep == ASSUME Inv, NEW w \in Windows, CreateEvent(w) PROVE Inv'
<1>1. /\ window = <<>> /\ ~Rejected(w) /\ window' = w /\ grid' = Expand(w).starts
      /\ UNCHANGED <<answers, page, history>>
  BY DEF CreateEvent, Created
<1>2. UNCHANGED <<tz, stored, linked, timezone, coarse, fine, busySlots, editors, saidIn, taps>>
  BY <1>1 DEF answers, page, history
<1>3. /\ tz = NoZone /\ editors = "edited" /\ DOMAIN stored = {} /\ SlotSet = {}
  BY <1>1 DEF Inv, EventFits, RowsFit, SlotSet
<1>4. DOMAIN fine = {} /\ busySlots = {}
  BY <1>3 DEF Inv, TypeOK
<1>5. w \in Window /\ w # <<>> /\ Expandable(w)
  BY <1>1, WindowsAssumption, WindowIsThere DEF Expandable, Rejected
<1>6. grid' \in Seq(Int)
  <2>1. Expand(w).starts = StartsOf(w)
    BY DEF Expand
  <2> QED BY <1>1, <1>5, <2>1, ExpandsToInstants
<1>7. TypeOK'
  BY <1>1, <1>2, <1>3, <1>4 DEF Inv, TypeOK, OfCalendar
<1>8. EventFits'
  BY <1>1, <1>2, <1>5, <1>6 DEF Inv, EventFits
<1>9. RowsFit(stored)' /\ PartsFit(stored)'
  <2>1. DOMAIN Stated(stored) = {} /\ DOMAIN Stated(stored') = {}
    BY <1>2, <1>3, StatedRows
  <2> QED BY <1>2, <1>3, <2>1 DEF RowsFit, PartsFit
<1>10. OpenedFits' /\ SavedAsEdited'
  BY <1>2, <1>3 DEF OpenedFits, SavedAsEdited
<1> QED BY <1>7, <1>8, <1>9, <1>10 DEF Inv

\* Edits leave the event and the rows alone.
LEMMA EditStep ==
    ASSUME Inv, Edited, taps < MaxTaps, UNCHANGED <<event, answers, busySlots>>, window' # <<>>,
           timezone' \in Zones, \A c \in DOMAIN coarse' : coarse'[c] \in CoarseTiers,
           DOMAIN fine' \subseteq SlotSet, \A s \in DOMAIN fine' : fine'[s] \in Tiers
    PROVE  Inv'
<1>1. /\ UNCHANGED <<window, grid, tz, stored, linked, busySlots, saidIn>>
      /\ editors' = "edited" /\ taps' = taps + 1
  BY DEF event, answers, Edited
<1>2. SlotSet' = SlotSet
  BY <1>1 DEF SlotSet
<1>3. taps' \in 0 .. MaxTaps
  BY <1>1, TapsAssumption DEF Inv, TypeOK
<1>4. TypeOK'
  BY <1>1, <1>2, <1>3 DEF Inv, TypeOK, OfCalendar
<1>5. EventFits'
  BY <1>1 DEF Inv, EventFits
<1>6. RowsFit(stored)' /\ PartsFit(stored)'
  BY <1>1, <1>2 DEF Inv, RowsFit, PartsFit
<1> QED BY <1>1, <1>4, <1>5, <1>6 DEF Inv, OpenedFits, SavedAsEdited

\* Slots are there when there is an event.
LEMMA SlotsOfEvent == ASSUME Inv, SlotSet # {} PROVE window # <<>>
BY DEF Inv, EventFits, SlotSet

LEMMA TapCellStep == ASSUME Inv, NEW c, TapCell(c) PROVE Inv'
<1>1. /\ taps < MaxTaps /\ Edited
      /\ UNCHANGED <<event, answers, timezone, fine, busySlots>>
      /\ c \in {CellFor(s, timezone) : s \in SlotSet}
  BY DEF TapCell
<1> DEFINE next == NextCoarse(At(coarse, c, Unmarked))
<1>2. coarse' = IF next = Unmarked THEN Keep(coarse, DOMAIN coarse \ {c})
                ELSE Assign(coarse, c, next)
  BY DEF TapCell
<1>3. next \in CoarseTiers \cup {Unmarked}
  BY DEF NextCoarse, CoarseTiers
<1>4. \A k \in DOMAIN coarse : coarse[k] \in CoarseTiers
  BY DEF Inv, TypeOK
<1> HIDE DEF next
<1>5. \A k \in DOMAIN coarse' : coarse'[k] \in CoarseTiers
  BY <1>2, <1>3, <1>4 DEF Keep, Assign
<1>6. timezone' \in Zones /\ DOMAIN fine' \subseteq SlotSet
      /\ \A s \in DOMAIN fine' : fine'[s] \in Tiers
  BY <1>1 DEF Inv, TypeOK
<1>7. window # <<>> /\ window' = window
  BY <1>1, SlotsOfEvent DEF event
<1> QED BY <1>1, <1>5, <1>6, <1>7, EditStep

LEMMA TapSlotStep == ASSUME Inv, NEW s, TapSlot(s) PROVE Inv'
<1>1. /\ taps < MaxTaps /\ Edited
      /\ UNCHANGED <<event, answers, timezone, coarse, busySlots>>
      /\ s \in SlotSet /\ fine' = Assign(fine, s, NextFine(TierFor(s)))
  BY DEF TapSlot
<1>2. NextFine(TierFor(s)) \in Tiers
  BY DEF NextFine, Tiers
<1>3. DOMAIN fine \subseteq SlotSet /\ \A u \in DOMAIN fine : fine[u] \in Tiers
  BY DEF Inv, TypeOK
<1>4. DOMAIN fine' \subseteq SlotSet /\ \A u \in DOMAIN fine' : fine'[u] \in Tiers
  BY <1>1, <1>2, <1>3 DEF Assign
<1>5. timezone' \in Zones /\ \A c \in DOMAIN coarse' : coarse'[c] \in CoarseTiers
  BY <1>1 DEF Inv, TypeOK
<1>6. window # <<>> /\ window' = window
  BY <1>1, SlotsOfEvent DEF event
<1> QED BY <1>1, <1>4, <1>5, <1>6, EditStep

LEMMA ChooseStep == ASSUME Inv, NEW z \in Zones, ChooseTimezone(z) PROVE Inv'
<1>1. /\ taps < MaxTaps /\ Edited /\ timezone' = z /\ window # <<>>
      /\ UNCHANGED <<event, answers, coarse, fine, busySlots>>
  BY DEF ChooseTimezone
<1>2. /\ \A c \in DOMAIN coarse' : coarse'[c] \in CoarseTiers
      /\ DOMAIN fine' \subseteq SlotSet /\ \A s \in DOMAIN fine' : fine'[s] \in Tiers
  BY <1>1 DEF Inv, TypeOK
<1>3. window' # <<>>
  BY <1>1 DEF event
<1> QED BY <1>1, <1>2, <1>3, EditStep

\* Joining, without more, finds no rows to read in the new zone.
LEMMA JoinStep == ASSUME Inv, EnsureJoined PROVE Inv'
<1>1. /\ window # <<>> /\ tz = NoZone /\ tz' = Joined
      /\ UNCHANGED <<window, grid, stored, linked, timezone, coarse, fine, busySlots,
                     editors, saidIn, taps>>
  BY DEF EnsureJoined, event, page, history
<1>2. SlotSet' = SlotSet /\ DOMAIN stored = {}
  BY <1>1 DEF SlotSet, Inv, RowsFit
<1>3. TypeOK'
  BY <1>1, <1>2 DEF Inv, TypeOK, OfCalendar, Joined
<1>4. EventFits'
  BY <1>1, ZonesAssumption DEF Inv, EventFits, TypeOK, Joined
<1>5. RowsFit(stored)' /\ PartsFit(stored)'
  BY <1>1, <1>2 DEF Inv, RowsFit, PartsFit
<1>6. OpenedFits'
  <2> SUFFICES ASSUME editors' = "opened"
               PROVE  coarse' = CoarseOf(stored', tz') /\ fine' = FineOf(stored')
    BY DEF OpenedFits
  <2>1. coarse = CoarseOf(stored, tz) /\ fine = FineOf(stored)
    BY <1>1 DEF Inv, OpenedFits
  <2>2. CoarseOf(stored, tz) = CoarseOf(stored, tz')
    <3>1. DOMAIN Stated(stored) = {}
      BY <1>2, StatedRows
    <3> QED BY <3>1 DEF CoarseOf, Keep
  <2> QED BY <1>1, <2>1, <2>2
<1>7. SavedAsEdited'
  <2>1. \A s : TierFor(s)' = TierFor(s) /\ StoredTier(s)' = StoredTier(s)
    BY <1>1 DEF TierFor, StoredTier
  <2> QED BY <1>1, <1>2, <2>1 DEF Inv, SavedAsEdited
<1> QED BY <1>3, <1>4, <1>5, <1>6, <1>7 DEF Inv

LEMMA SubmitStep == ASSUME Inv, Submit PROVE Inv'
<1> DEFINE o == Overrides
           z == timezone
           said == {s \in SlotSet : CellFor(s, z) \in DOMAIN coarse}
<1>1. /\ window # <<>> /\ tz' = Joined /\ editors' = "saved" /\ saidIn' = timezone
      /\ UNCHANGED <<window, grid, linked, timezone, coarse, fine, busySlots, taps>>
  BY DEF Submit, event, page
<1>2. stored' = MergeCalendarRows(BuildResponses(z, [coarse |-> coarse, slots |-> o]), stored)
  BY DEF Submit, ZoneOfRequest
<1>3. /\ DOMAIN o = {s \in DOMAIN fine : At(coarse, CellFor(s, z), "no") # fine[s]}
      /\ \A s \in DOMAIN o : o[s] = fine[s]
  BY DEF Overrides, Keep
<1> HIDE DEF o
<1> HIDE DEF z
<1>4. /\ DOMAIN stored' = said \cup DOMAIN o \cup OfCalendar(stored)
      /\ \A s \in DOMAIN o : stored'[s] = [tier |-> o[s], source |-> "manual"]
      /\ \A s \in said : s \notin DOMAIN o =>
            stored'[s] = [tier |-> coarse[CellFor(s, z)], source |-> "coarse"]
      /\ \A s \in OfCalendar(stored) : s \notin DOMAIN o /\ s \notin said =>
            stored'[s] = stored[s]
  <2> DEFINE built == BuildResponses(z, [coarse |-> coarse, slots |-> o])
  <2>1. Spread(SlotSet, z, coarse) = [s \in said |-> coarse[CellFor(s, z)]]
    BY SamePart DEF Spread
  <2> HIDE DEF said
  <2>2. built = [s \in said \cup DOMAIN o |->
                   IF s \in DOMAIN o THEN [tier |-> o[s], source |-> "manual"]
                   ELSE [tier |-> coarse[CellFor(s, z)], source |-> "coarse"]]
    <3>1. built = LET tiers == Spread(SlotSet, z, coarse)
                  IN  [s \in DOMAIN tiers \cup DOMAIN o |->
                         IF s \in DOMAIN o THEN [tier |-> o[s], source |-> "manual"]
                         ELSE [tier |-> tiers[s], source |-> "coarse"]]
      BY DEF BuildResponses
    <3> HIDE DEF built
    <3> QED BY <2>1, <3>1
  <2>3. stored' = [s \in DOMAIN built \cup OfCalendar(stored) |->
                     IF s \in DOMAIN built THEN built[s] ELSE stored[s]]
    BY <1>2 DEF MergeCalendarRows
  <2> HIDE DEF built
  <2> QED BY <2>2, <2>3
<1>5. SlotSet' = SlotSet /\ said = {s \in SlotSet : CellFor(s, z) \in DOMAIN coarse}
  BY <1>1 DEF SlotSet
<1> HIDE DEF said
<1>6. /\ DOMAIN stored \subseteq SlotSet /\ DOMAIN fine \subseteq SlotSet
      /\ \A s \in DOMAIN fine : fine[s] \in Tiers
      /\ \A c \in DOMAIN coarse : coarse[c] \in CoarseTiers
      /\ timezone \in Zones /\ tz \in Zones \cup {NoZone}
      /\ \A s \in DOMAIN stored :
            stored[s] \in [tier : Tiers, source : {"coarse", "manual", "calendar"}]
  BY DEF Inv, TypeOK
<1>7. \A s \in OfCalendar(stored) :
        s \in SlotSet /\ stored[s].source = "calendar" /\ stored[s].tier = "no"
  BY <1>6 DEF Inv, RowsFit, OfCalendar
<1>8. \A s \in DOMAIN stored' :
        \/ s \in DOMAIN o /\ stored'[s] = [tier |-> fine[s], source |-> "manual"]
        \/ s \in said /\ s \notin DOMAIN o
             /\ stored'[s] = [tier |-> coarse[CellFor(s, z)], source |-> "coarse"]
        \/ s \in OfCalendar(stored) /\ s \notin DOMAIN o /\ s \notin said
             /\ stored'[s] = stored[s]
  BY <1>3, <1>4
<1>9. DOMAIN stored' \subseteq SlotSet
  BY <1>3, <1>5, <1>4, <1>6, <1>7
<1>10. \A s \in DOMAIN stored' :
          /\ stored'[s] \in [tier : Tiers, source : {"coarse", "manual", "calendar"}]
          /\ stored'[s].source = "calendar" => s \in OfCalendar(stored) /\ stored'[s].tier = "no"
          /\ stored'[s].source = "coarse" => stored'[s].tier \in CoarseTiers
  <2> SUFFICES ASSUME NEW s \in DOMAIN stored'
               PROVE  /\ stored'[s] \in [tier : Tiers, source : {"coarse", "manual", "calendar"}]
                      /\ stored'[s].source = "calendar" =>
                            s \in OfCalendar(stored) /\ stored'[s].tier = "no"
                      /\ stored'[s].source = "coarse" => stored'[s].tier \in CoarseTiers
    OBVIOUS
  <2>1. CASE s \in DOMAIN o /\ stored'[s] = [tier |-> fine[s], source |-> "manual"]
    <3>1. fine[s] \in Tiers
      BY <1>3, <1>6, <2>1
    <3> QED BY <2>1, <3>1
  <2>2. CASE s \in said /\ stored'[s] = [tier |-> coarse[CellFor(s, z)], source |-> "coarse"]
    <3>1. coarse[CellFor(s, z)] \in CoarseTiers
      BY <1>5, <1>6, <2>2
    <3>2. coarse[CellFor(s, z)] \in Tiers
      BY <3>1 DEF CoarseTiers, Tiers
    <3> QED BY <2>2, <3>1, <3>2
  <2>3. CASE s \in OfCalendar(stored) /\ stored'[s] = stored[s]
    BY <1>6, <1>7, <2>3 DEF OfCalendar
  <2> QED BY <1>8, <2>1, <2>2, <2>3
<1>11. OfCalendar(stored') \subseteq OfCalendar(stored)
  BY <1>10 DEF OfCalendar
<1>12. tz' \in Zones /\ tz' # NoZone
  BY <1>1, <1>6, ZonesAssumption DEF Joined
<1>13. TypeOK'
  BY <1>1, <1>5, <1>9, <1>10, <1>11, <1>12 DEF Inv, TypeOK
<1>14. EventFits'
  BY <1>1, <1>12 DEF Inv, EventFits
<1>15. RowsFit(stored)'
  BY <1>10, <1>12 DEF RowsFit
<1>16. PartsFit(stored)'
  <2>1. saidIn' # NoZone
    BY <1>1, <1>6, ZonesAssumption
  <2>2. ASSUME NEW s \in DOMAIN stored', stored'[s].source = "coarse",
               NEW u \in SlotSet, CellFor(u, z) = CellFor(s, z)
        PROVE  /\ u \in DOMAIN stored'
               /\ stored'[u].source = "manual" \/ stored'[u] = stored'[s]
    <3>1. s \in said /\ stored'[s] = [tier |-> coarse[CellFor(s, z)], source |-> "coarse"]
      BY <1>7, <1>8, <2>2
    <3>2. u \in said /\ u \in DOMAIN stored'
      BY <1>4, <1>5, <2>2, <3>1
    <3> QED BY <1>4, <2>2, <3>1, <3>2
  <2> QED BY <1>1, <1>5, <2>1, <2>2 DEF PartsFit, z
<1>17. OpenedFits'
  BY <1>1 DEF OpenedFits
<1>18. SavedAsEdited'
  <2> SUFFICES ASSUME NEW s \in SlotSet
               PROVE  StoredTier(s)' = TierFor(s)'
    BY <1>5 DEF SavedAsEdited
  <2> DEFINE below == At(coarse, CellFor(s, z), "no")
  <2>1. TierFor(s)' = IF s \in DOMAIN fine THEN fine[s] ELSE below
    BY <1>1 DEF TierFor, At, z
  <2>2. StoredTier(s)' = IF s \in DOMAIN stored' THEN stored'[s].tier ELSE "no"
    BY DEF StoredTier
  <2>3. s \notin DOMAIN o => TierFor(s)' = below
    BY <1>3, <2>1
  <2>4. CASE s \in DOMAIN o
    <3>1. stored'[s] = [tier |-> fine[s], source |-> "manual"] /\ s \in DOMAIN stored'
      BY <1>3, <1>4, <2>4
    <3>2. s \in DOMAIN fine
      BY <1>3, <2>4
    <3> QED BY <2>1, <2>2, <3>1, <3>2
  <2>5. CASE s \notin DOMAIN o /\ s \in said
    <3>1. below = coarse[CellFor(s, z)]
      BY <1>5, <2>5 DEF At
    <3>2. stored'[s] = [tier |-> coarse[CellFor(s, z)], source |-> "coarse"] /\ s \in DOMAIN stored'
      BY <1>4, <2>5
    <3> QED BY <2>2, <2>3, <2>5, <3>1, <3>2
  <2>6. CASE s \notin DOMAIN o /\ s \notin said
    <3>1. below = "no"
      BY <1>5, <2>6 DEF At
    <3>2. s \in DOMAIN stored' => stored'[s].tier = "no"
      BY <1>7, <1>8, <2>6
    <3> QED BY <2>2, <2>3, <2>6, <3>1, <3>2
  <2> QED BY <2>4, <2>5, <2>6
<1> QED BY <1>13, <1>14, <1>15, <1>16, <1>17, <1>18 DEF Inv

\* The editors are rebuilt from rows that fit.
LEMMA HydrateStep ==
    ASSUME Inv, window # <<>>, tz' \in Zones,
           coarse' = CoarseOf(stored', tz'), fine' = FineOf(stored'),
           busySlots' = OfCalendar(stored'),
           UNCHANGED <<event, saidIn, taps>>, timezone' \in Zones, editors' = "opened",
           DOMAIN stored' \subseteq SlotSet, OfCalendar(stored') # {} => linked', linked' \in BOOLEAN,
           \A s \in DOMAIN stored' :
              stored'[s] \in [tier : Tiers, source : {"coarse", "manual", "calendar"}],
           \A s \in DOMAIN stored' :
              /\ stored'[s].source = "calendar" => stored'[s].tier = "no"
              /\ stored'[s].source # "calendar" => s \in DOMAIN stored /\ stored'[s] = stored[s],
           DOMAIN Stated(stored) \subseteq DOMAIN Stated(stored')
    PROVE  Inv'
<1> DEFINE rows == stored'
           z == tz'
<1>1. /\ UNCHANGED <<window, grid, saidIn, taps>> /\ SlotSet' = SlotSet
      /\ coarse' = CoarseOf(rows, z) /\ fine' = FineOf(rows) /\ busySlots' = OfCalendar(rows)
  BY DEF event, SlotSet
<1>2. \A s \in DOMAIN rows :
        /\ rows[s].tier \in Tiers
        /\ rows[s].source = "coarse" => rows[s].tier \in CoarseTiers
  BY DEF Inv, RowsFit
<1>3. grid \in Seq(Int) /\ z # NoZone
  BY ZonesAssumption DEF Inv, EventFits
<1>4. /\ \A c \in DOMAIN coarse' : coarse'[c] \in CoarseTiers
      /\ DOMAIN fine' \subseteq SlotSet
      /\ \A s \in DOMAIN fine' : fine'[s] \in Tiers
      /\ busySlots' \subseteq SlotSet
  <2> HIDE DEF rows
  <2>1. DOMAIN rows \subseteq SlotSet
    BY DEF rows
  <2> QED BY <1>1, <1>2, <1>3, <2>1, HydratedTypes
<1>5. TypeOK'
  BY <1>1, <1>4 DEF Inv, TypeOK
<1>6. EventFits'
  BY <1>1, <1>3 DEF Inv, EventFits
<1>7. RowsFit(stored)'
  BY <1>2, <1>3 DEF RowsFit
<1>8. PartsFit(stored)'
  <2>0. /\ DOMAIN Stated(rows) = {s \in DOMAIN rows : rows[s].source # "calendar"}
        /\ DOMAIN Stated(stored) = {s \in DOMAIN stored : stored[s].source # "calendar"}
    BY StatedRows
  <2>1. DOMAIN Stated(rows) = DOMAIN Stated(stored)
    <3>1. \A s \in DOMAIN Stated(rows) : s \in DOMAIN Stated(stored)
      BY <2>0
    <3> QED BY <3>1
  <2>2. ASSUME NEW s \in DOMAIN rows, rows[s].source = "coarse",
               NEW u \in SlotSet, CellFor(u, saidIn) = CellFor(s, saidIn)
        PROVE  u \in DOMAIN rows /\ (rows[u].source = "manual" \/ rows[u] = rows[s])
    <3>1. s \in DOMAIN stored /\ rows[s] = stored[s]
      BY <2>2
    <3>2. u \in DOMAIN stored /\ (stored[u].source = "manual" \/ stored[u] = stored[s])
      BY <2>2, <3>1 DEF Inv, PartsFit
    <3>3. u \in DOMAIN Stated(stored)
      BY <2>0, <2>2, <3>1, <3>2
    <3>4. u \in DOMAIN rows /\ rows[u] = stored[u]
      BY <2>0, <2>1, <3>3
    <3> QED BY <3>1, <3>2, <3>4
  <2> QED BY <1>1, <2>1, <2>2 DEF Inv, PartsFit
<1>9. OpenedFits' /\ SavedAsEdited'
  BY <1>1 DEF OpenedFits, SavedAsEdited
<1> QED BY <1>5, <1>6, <1>7, <1>8, <1>9 DEF Inv

\* Opening the link changes no row.
LEMMA OpenStep == ASSUME Inv, Open PROVE Inv'
<1>1. /\ window # <<>> /\ editors' = "opened"
      /\ UNCHANGED <<event, saidIn, taps>>
      /\ UNCHANGED <<window, grid, tz, stored, linked, saidIn, taps>>
  BY DEF Open, event, answers
<1>2. /\ tz \in Zones \cup {NoZone} /\ linked \in BOOLEAN /\ timezone \in Zones
      /\ DOMAIN stored \subseteq SlotSet
      /\ OfCalendar(stored) # {} => linked
      /\ \A s \in DOMAIN stored :
            /\ stored[s] \in [tier : Tiers, source : {"coarse", "manual", "calendar"}]
            /\ stored[s].source = "calendar" => stored[s].tier = "no"
  BY DEF Inv, TypeOK, RowsFit, EventFits
<1>3. CASE tz = NoZone
  <2>1. timezone' = Detected /\ coarse' = Empty /\ fine' = Empty /\ busySlots' = {}
    BY <1>3 DEF Open
  <2>2. DOMAIN stored = {} /\ SlotSet' = SlotSet
    BY <1>1, <1>3 DEF Inv, RowsFit, SlotSet
  <2>3. DOMAIN coarse' = {} /\ DOMAIN fine' = {}
    BY <2>1 DEF Empty
  <2>4. TypeOK'
    BY <1>1, <2>1, <2>2, <2>3, ZonesAssumption DEF Inv, TypeOK, OfCalendar
  <2>5. EventFits'
    BY <1>1 DEF Inv, EventFits
  <2>6. RowsFit(stored)' /\ PartsFit(stored)'
    BY <1>1, <2>2 DEF Inv, RowsFit, PartsFit
  <2>7. OpenedFits'
    <3>1. DOMAIN Stated(stored) = {}
      BY <2>2, StatedRows
    <3>2. CoarseOf(stored, tz) = Empty
      BY <3>1 DEF CoarseOf, Keep, Empty
    <3>3. FineOf(stored) = Empty
      BY <2>2 DEF FineOf, Empty
    <3> QED BY <1>1, <2>1, <3>2, <3>3 DEF OpenedFits
  <2>8. SavedAsEdited'
    BY <1>1 DEF SavedAsEdited
  <2> QED BY <2>4, <2>5, <2>6, <2>7, <2>8 DEF Inv
<1>4. CASE tz # NoZone
  <2>1. /\ timezone' = tz /\ coarse' = CoarseOf(stored, tz)
        /\ fine' = FineOf(stored) /\ busySlots' = OfCalendar(stored)
    BY <1>4 DEF Open, Hydrate, CoarseOf, FineOf
  <2>2. /\ tz' \in Zones /\ timezone' \in Zones /\ linked' \in BOOLEAN
        /\ coarse' = CoarseOf(stored', tz') /\ fine' = FineOf(stored')
        /\ busySlots' = OfCalendar(stored')
    BY <1>1, <1>2, <1>4, <2>1
  <2>3. /\ DOMAIN stored' \subseteq SlotSet
        /\ OfCalendar(stored') # {} => linked'
        /\ \A s \in DOMAIN stored' :
              stored'[s] \in [tier : Tiers, source : {"coarse", "manual", "calendar"}]
        /\ \A s \in DOMAIN stored' :
              /\ stored'[s].source = "calendar" => stored'[s].tier = "no"
              /\ stored'[s].source # "calendar" => s \in DOMAIN stored /\ stored'[s] = stored[s]
        /\ DOMAIN Stated(stored) \subseteq DOMAIN Stated(stored')
    <3>1. stored' = stored /\ linked' = linked
      BY <1>1
    <3>2. Stated(stored') = Stated(stored) /\ OfCalendar(stored') = OfCalendar(stored)
      BY <3>1
    <3> QED BY <1>2, <3>1, <3>2
  <2> QED BY <1>1, <2>2, <2>3, HydrateStep
<1> QED BY <1>3, <1>4

\* A seat that is claimed has no rows yet.
LEMMA SeatStep == ASSUME Inv, NEW z \in Zones, ClaimSeat(z) PROVE Inv'
<1>1. /\ window # <<>> /\ editors' = "opened" /\ tz = NoZone /\ tz' = z /\ timezone' = z
      /\ UNCHANGED <<event, saidIn, taps>> /\ stored' = stored /\ linked' = linked
      /\ UNCHANGED <<window, grid>>
  BY DEF ClaimSeat, event
<1>2. DOMAIN stored = {} /\ linked \in BOOLEAN
  BY <1>1 DEF Inv, RowsFit, EventFits
<1>3. /\ coarse' = CoarseOf(stored', tz') /\ fine' = FineOf(stored')
      /\ busySlots' = OfCalendar(stored')
  <2>1. coarse' = CoarseOf(stored, z) /\ fine' = FineOf(stored) /\ busySlots' = OfCalendar(stored)
    BY DEF ClaimSeat, Hydrate, CoarseOf, FineOf
  <2>2. OfCalendar(stored') = OfCalendar(stored)
    BY <1>1 DEF OfCalendar
  <2> QED BY <1>1, <2>1, <2>2
<1>4. /\ DOMAIN stored' = {} /\ OfCalendar(stored') = {} /\ DOMAIN Stated(stored) = {}
      /\ tz' \in Zones /\ timezone' \in Zones /\ linked' \in BOOLEAN
  BY <1>1, <1>2, StatedRows DEF OfCalendar
<1> QED BY <1>1, <1>3, <1>4, HydrateStep

LEMMA LinkStep == ASSUME Inv, NEW blocks \in Feeds, LinkCalendar(blocks) PROVE Inv'
<1> DEFINE covered == CoveredBy(blocks)
<1>1. /\ grid # <<>> /\ tz' = Joined /\ linked' = TRUE /\ editors' = "opened"
      /\ stored' = ApplyCalendar(stored, covered)
      /\ coarse' = CoarseOf(stored', Joined) /\ fine' = FineOf(stored')
      /\ busySlots' = OfCalendar(stored')
      /\ UNCHANGED <<event, timezone, saidIn, taps>>
  BY DEF LinkCalendar, Hydrate, CoarseOf, FineOf
<1>2. covered \subseteq SlotSet
  BY DEF CoveredBy
<1> HIDE DEF covered
<1>3. /\ DOMAIN stored' = DOMAIN Stated(stored) \cup covered
      /\ \A s \in DOMAIN Stated(stored) : stored'[s] = stored[s]
      /\ \A s \in covered : s \notin DOMAIN Stated(stored) =>
            stored'[s] = [tier |-> "no", source |-> "calendar"]
      /\ DOMAIN Stated(stored') = DOMAIN Stated(stored)
  <2> DEFINE r == ApplyCalendar(stored, covered)
  <2>1. /\ DOMAIN r = DOMAIN Stated(stored) \cup covered
        /\ \A s \in DOMAIN Stated(stored) : r[s] = stored[s]
        /\ \A s \in covered : s \notin DOMAIN Stated(stored) =>
              r[s] = [tier |-> "no", source |-> "calendar"]
        /\ DOMAIN Stated(r) = DOMAIN Stated(stored)
    BY CoveredRows
  <2> HIDE DEF r
  <2>2. stored' = r
    BY <1>1 DEF r
  <2> QED BY <2>1, <2>2
<1>4. DOMAIN Stated(stored) = {s \in DOMAIN stored : stored[s].source # "calendar"}
  BY StatedRows
<1>5. /\ DOMAIN stored \subseteq SlotSet /\ timezone \in Zones /\ tz \in Zones \cup {NoZone}
      /\ \A s \in DOMAIN stored :
            stored[s] \in [tier : Tiers, source : {"coarse", "manual", "calendar"}]
  BY DEF Inv, TypeOK
<1>6. \A s \in DOMAIN stored' :
        \/ s \in DOMAIN stored /\ stored'[s] = stored[s] /\ stored[s].source # "calendar"
        \/ stored'[s] = [tier |-> "no", source |-> "calendar"]
  BY <1>3, <1>4
<1>7. DOMAIN stored' \subseteq SlotSet
  BY <1>2, <1>3, <1>4, <1>5
<1>8. \A s \in DOMAIN stored' :
        /\ stored'[s] \in [tier : Tiers, source : {"coarse", "manual", "calendar"}]
        /\ stored'[s].source = "calendar" => stored'[s].tier = "no"
        /\ stored'[s].source # "calendar" => s \in DOMAIN stored /\ stored'[s] = stored[s]
  BY <1>5, <1>6 DEF Tiers
<1>9. Joined \in Zones
  BY <1>5 DEF Joined
<1>10. window # <<>>
  BY <1>1 DEF Inv, EventFits
<1> QED BY <1>1, <1>3, <1>5, <1>7, <1>8, <1>9, <1>10, HydrateStep

LEMMA UnlinkStep == ASSUME Inv, UnlinkCalendar PROVE Inv'
<1>1. /\ linked /\ linked' = FALSE /\ editors' = "opened"
      /\ stored' = Stated(stored)
      /\ coarse' = CoarseOf(stored', tz) /\ fine' = FineOf(stored')
      /\ busySlots' = OfCalendar(stored')
      /\ UNCHANGED <<event, tz, timezone, saidIn, taps>>
  BY DEF UnlinkCalendar, Hydrate, CoarseOf, FineOf
<1>2. /\ DOMAIN stored' = {s \in DOMAIN stored : stored[s].source # "calendar"}
      /\ \A s \in DOMAIN stored' : stored'[s] = stored[s]
      /\ DOMAIN Stated(stored) = {s \in DOMAIN stored : stored[s].source # "calendar"}
      /\ DOMAIN Stated(stored') = {s \in DOMAIN stored' : stored'[s].source # "calendar"}
  BY <1>1, StatedRows
<1>3. /\ DOMAIN stored \subseteq SlotSet /\ timezone \in Zones /\ tz \in Zones \cup {NoZone}
      /\ \A s \in DOMAIN stored :
            stored[s] \in [tier : Tiers, source : {"coarse", "manual", "calendar"}]
  BY DEF Inv, TypeOK
<1>4. OfCalendar(stored') = {}
  BY <1>2 DEF OfCalendar
<1>5. tz \in Zones /\ window # <<>>
  BY <1>1, <1>3 DEF Inv, EventFits
<1> QED BY <1>1, <1>2, <1>3, <1>4, <1>5, HydrateStep

LEMMA InvStep == Inv /\ [Next]_vars => Inv'
<1> SUFFICES ASSUME Inv, [Next]_vars PROVE Inv'
  OBVIOUS
<1>1. CASE \E w \in Windows : CreateEvent(w)
  BY <1>1, CreateStep
<1>2. CASE \E s \in SlotSet : TapCell(CellFor(s, timezone))
  BY <1>2, TapCellStep
<1>3. CASE \E s \in SlotSet : TapSlot(s)
  BY <1>3, TapSlotStep
<1>4. CASE \E z \in Zones : ChooseTimezone(z) \/ ClaimSeat(z)
  BY <1>4, ChooseStep, SeatStep
<1>5. CASE \E blocks \in Feeds : LinkCalendar(blocks)
  BY <1>5, LinkStep
<1>6. CASE EnsureJoined
  BY <1>6, JoinStep
<1>7. CASE Submit
  BY <1>7, SubmitStep
<1>8. CASE Open
  BY <1>8, OpenStep
<1>9. CASE UnlinkCalendar
  BY <1>9, UnlinkStep
<1>10. CASE UNCHANGED vars
  <2>1. UNCHANGED <<window, grid, tz, stored, linked, timezone, coarse, fine, busySlots,
                    editors, saidIn, taps>>
    BY <1>10 DEF vars, event, answers, page, history
  <2> USE <2>1
  <2>2. TypeOK' /\ EventFits'
    BY DEF Inv, TypeOK, EventFits, SlotSet, OfCalendar
  <2>3. RowsFit(stored)' /\ PartsFit(stored)' /\ OpenedFits'
    BY DEF Inv, RowsFit, PartsFit, OpenedFits, SlotSet
  <2>4. SavedAsEdited'
    <3>1. \A s : TierFor(s)' = TierFor(s) /\ StoredTier(s)' = StoredTier(s)
      BY DEF TierFor, StoredTier
    <3> QED BY <3>1 DEF Inv, SavedAsEdited, SlotSet
  <2> QED BY <2>2, <2>3, <2>4 DEF Inv
<1> QED BY <1>1, <1>2, <1>3, <1>4, <1>5, <1>6, <1>7, <1>8, <1>9, <1>10 DEF Next

LEMMA Invariance == Spec => []Inv
BY InvInit, InvStep, PTL DEF Spec

-----------------------------------------------------------------------------
(* Answering: the theorems. *)

\* The page and the stored answers have their types, whatever the windows, the
\* zones and the feeds.
THEOREM AnsweringTypes == Spec => []TypeOK
<1>1. Inv => TypeOK
  BY DEF Inv
<1> QED BY <1>1, Invariance, PTL

LEMMA GridFits == ASSUME \A w \in Windows : Probed(w.loc) PROVE Inv => GridIsExact
<1> SUFFICES ASSUME Inv, window # <<>>
             PROVE  ExactGrid(window, grid) /\ Len(grid) <= MaxSlots
  BY DEF GridIsExact
<1>1. window \in Windows /\ grid = Expand(window).starts /\ ~Rejected(window) /\ grid \in Seq(Int)
  BY DEF Inv, TypeOK, EventFits
<1>2. Usable(window)
  BY <1>1, WindowsAssumption DEF Usable, Expandable, Rejected
<1>3. grid = StartsOf(window)
  BY <1>1 DEF Expand
<1>4. ExactGrid(window, grid)
  BY <1>2, <1>3, ExpandsExactly
<1>5. Len(grid) <= MaxSlots
  <2>1. Len(grid) \in Nat /\ ~(Len(grid) > MaxSlots)
    BY <1>1 DEF Rejected
  <2> QED BY <2>1, MaxSlotsAssumption
<1> QED BY <1>4, <1>5

\* An event's slots are exactly the first readings of its daily grid: for every
\* window and every zone whose clock moves by what the probes try, however many
\* dates and however small the slots.
THEOREM GridIsExactAlways ==
    ASSUME \A w \in Windows : Probed(w.loc)
    PROVE  Spec => []GridIsExact
<1>1. Inv => GridIsExact
  BY GridFits
<1> QED BY <1>1, Invariance, PTL

\* What a submission stores is what the editors showed, in whatever zone the
\* page is.
THEOREM SubmissionKeepsEdits == Spec => []SavedAsEdited
<1>1. Inv => SavedAsEdited
  BY DEF Inv
<1> QED BY <1>1, Invariance, PTL

LEMMA ReopenFits == Inv => ReopenKeepsAnswers
<1> SUFFICES ASSUME Inv, editors = "opened", tz # NoZone, timezone = tz, saidIn \in {tz, NoZone},
                    NEW s \in SlotSet, Implied(s)
             PROVE  TierFor(s) = StoredTier(s)
  BY DEF ReopenKeepsAnswers
<1> DEFINE c == CellFor(s, tz)
           here == {u \in DOMAIN Stated(stored) : CellFor(u, tz) = c}
           said == {u \in here : stored[u].source = "coarse"}
<1>1. coarse = CoarseOf(stored, tz) /\ fine = FineOf(stored)
  BY DEF Inv, OpenedFits
<1>2. DOMAIN Stated(stored) = {u \in DOMAIN stored : stored[u].source # "calendar"}
  BY StatedRows
<1>3. /\ DOMAIN fine = {u \in DOMAIN stored : stored[u].source = "manual"}
      /\ \A u \in DOMAIN fine : fine[u] = stored[u].tier
  BY <1>1 DEF FineOf
<1>4. TierFor(s) = IF s \in DOMAIN fine THEN fine[s]
                   ELSE IF c \in DOMAIN coarse THEN coarse[c] ELSE "no"
  BY DEF TierFor, At
<1>5. StoredTier(s) = IF s \in DOMAIN stored THEN stored[s].tier ELSE "no"
  BY DEF StoredTier
<1>6. /\ c \in DOMAIN coarse <=> here # {} /\ Restored(stored, tz, c) # Unmarked
      /\ c \in DOMAIN coarse => coarse[c] = Restored(stored, tz, c)
  BY <1>1, CoarseEditor
<1>7. /\ said # {} => \E u \in said : Restored(stored, tz, c) = stored[u].tier
      /\ said = {} => Restored(stored, tz, c) =
            IF \E u \in here : stored[u].tier # "no" THEN "ok" ELSE Unmarked
  BY RestoredTier DEF Inv, TypeOK, EventFits
\* With one row of the day part come all of them.
<1>8. \A u \in said :
        /\ s \in DOMAIN stored
        /\ stored[s].source = "manual" \/ stored[s] = stored[u]
        /\ stored[u].tier \in CoarseTiers
  <2> SUFFICES ASSUME NEW u \in said
               PROVE  /\ s \in DOMAIN stored
                      /\ stored[s].source = "manual" \/ stored[s] = stored[u]
                      /\ stored[u].tier \in CoarseTiers
    OBVIOUS
  <2>1. u \in DOMAIN Stated(stored) /\ stored[u].source = "coarse" /\ CellFor(u, tz) = c
    OBVIOUS
  <2>2. saidIn = tz
    BY <2>1 DEF Inv, PartsFit
  <2>3. u \in DOMAIN stored
    BY <1>2, <2>1
  <2> QED BY <2>1, <2>2, <2>3 DEF Inv, PartsFit, RowsFit
<1>9. CASE s \in DOMAIN fine
  BY <1>3, <1>4, <1>5, <1>9
<1>10. CASE s \in DOMAIN stored /\ stored[s].source = "coarse"
  <2>1. s \in said /\ s \in here
    BY <1>2, <1>10
  <2>2. PICK u \in said : Restored(stored, tz, c) = stored[u].tier
    BY <1>7, <2>1
  <2>3. Restored(stored, tz, c) = stored[s].tier /\ stored[s].tier \in CoarseTiers
    BY <1>8, <1>10, <2>2
  <2>4. c \in DOMAIN coarse
    BY <1>6, <2>1, <2>3 DEF CoarseTiers, Unmarked
  <2> QED BY <1>3, <1>4, <1>5, <1>6, <1>10, <2>3, <2>4
<1>11. CASE s \in DOMAIN stored => stored[s].source = "calendar"
  <2>1. s \notin DOMAIN fine /\ s \notin here
    BY <1>2, <1>3, <1>11
  <2>2. StoredTier(s) = "no"
    BY <1>5, <1>11 DEF Inv, RowsFit
  <2>3. said = {}
    BY <1>8, <1>11
  <2>4. \A u \in here : stored[u].source = "coarse" \/ stored[u].tier = "no"
    BY <2>1 DEF Implied
  <2>5. Restored(stored, tz, c) = Unmarked
    BY <1>7, <2>3, <2>4
  <2> QED BY <1>4, <1>6, <2>1, <2>2, <2>5
<1>12. s \in DOMAIN stored => stored[s].source \in {"coarse", "manual", "calendar"}
  BY DEF Inv, TypeOK
<1> QED BY <1>3, <1>9, <1>10, <1>11, <1>12

\* Reopening the link in the zone of the last submission shows what is stored,
\* although the page keeps no editors of its own and the zone of a submission
\* is not stored with it.
THEOREM ReopeningKeepsAnswers == Spec => []ReopenKeepsAnswers
BY Invariance, ReopenFits, PTL

-----------------------------------------------------------------------------
(* Merging. *)

\* Intervals that last.
Span == {i \in [start : Int, end : Int] : i.start < i.end}
Covered(spans, t) == \E i \in spans : i.start <= t /\ t < i.end
CoveredIn(q, t) == \E i \in DOMAIN q : q[i].start <= t /\ t < q[i].end
Apart(q) == \A i \in 1 .. Len(q) - 1 : q[i].end < q[i + 1].start

\* What Merge sorts has a first interval.
LEMMA EarliestIs ==
    ASSUME NEW S \in SUBSET Span, IsFiniteSet(S), S # {}
    PROVE  Earliest(S) \in S /\ \A b \in S : Earliest(S).start <= b.start
<1> DEFINE Led(T) == \E a \in T : \A b \in T : ~Before(b, a)
           C == {n \in Nat : \E T \in SUBSET S : T # {} /\ Cardinality(T) = n /\ ~Led(T)}
<1>1. \A T \in SUBSET S : IsFiniteSet(T)
  BY FS_Subset
<1>2. \A a \in S : a.start \in Int /\ a.end \in Int
  BY DEF Span
<1>3. ASSUME C # {} PROVE FALSE
  <2>1. PICK n \in C : \A j \in C : n <= j
    BY <1>3, LeastNat
  <2>2. PICK T \in SUBSET S : T # {} /\ Cardinality(T) = n /\ ~Led(T)
    BY <2>1
  <2>3. PICK x \in T : TRUE
    BY <2>2
  <2> DEFINE U == T \ {x}
  <2>4. Cardinality(U) = n - 1 /\ Cardinality(U) \in Nat
    BY <1>1, <2>2, <2>3, FS_RemoveElement, FS_CardinalityType
  <2>5. U # {}
    <3>1. ASSUME U = {} PROVE FALSE
      <4>1. T = {x}
        BY <2>3, <3>1
      <4> QED BY <1>2, <2>2, <4>1 DEF Before
    <3> QED BY <3>1
  <2>6. Led(U)
    <3>1. ~(n <= n - 1)
      OBVIOUS
    <3> HIDE DEF Led
    <3> QED BY <2>1, <2>4, <2>5, <3>1
  <2>7. PICK a \in U : \A b \in U : ~Before(b, a)
    BY <2>6
  <2>8. \A b \in T : b = x \/ b \in U
    OBVIOUS
  <2>9. CASE Before(x, a)
    <3>1. \A b \in T : ~Before(b, x)
      BY <1>2, <2>7, <2>8, <2>9 DEF Before
    <3> QED BY <2>2, <3>1
  <2>10. CASE ~Before(x, a)
    <3>1. \A b \in T : ~Before(b, a)
      BY <2>7, <2>8, <2>10
    <3> QED BY <2>2, <3>1
  <2> QED BY <2>9, <2>10
<1>4. Cardinality(S) \in Nat
  BY FS_CardinalityType
<1>5. Led(S)
  <2> HIDE DEF Led
  <2> QED BY <1>3, <1>4
<1>6. Earliest(S) \in S /\ \A b \in S : ~Before(b, Earliest(S))
  BY <1>5 DEF Earliest
<1> QED BY <1>2, <1>6 DEF Before

\* What the loop keeps: its intervals are apart and cover what was taken from
\* the sorted ones, and none that is left begins before the last of them.
Merging(turn, spans, n) ==
    /\ turn = [out |-> turn.out, rest |-> turn.rest]
    /\ turn.out \in Seq(Span) /\ Apart(turn.out)
    /\ turn.rest \in SUBSET spans /\ Cardinality(turn.rest) = Cardinality(spans) - n
    /\ \A t \in Int : CoveredIn(turn.out, t) <=> Covered(spans \ turn.rest, t)
    /\ turn.out # <<>> => \A b \in turn.rest : turn.out[Len(turn.out)].start <= b.start

\* One interval more.
LEMMA Joining ==
    ASSUME NEW out \in Seq(Span), Apart(out), NEW cur \in Span,
           out # <<>> => out[Len(out)].start <= cur.start
    PROVE  /\ Join(out, cur) \in Seq(Span) /\ Apart(Join(out, cur)) /\ Join(out, cur) # <<>>
           /\ Join(out, cur)[Len(Join(out, cur))].start <= cur.start
           /\ \A t \in Int : CoveredIn(Join(out, cur), t) <=>
                  CoveredIn(out, t) \/ (cur.start <= t /\ t < cur.end)
<1> DEFINE n == Len(out)
           J == Join(out, cur)
<1>0. n \in Nat /\ DOMAIN out = 1 .. n /\ cur.start \in Int /\ cur.end \in Int
      /\ \A i \in 1 .. n : out[i] \in Span /\ out[i].start \in Int /\ out[i].end \in Int
  <2>1. n \in Nat /\ DOMAIN out = 1 .. n /\ \A i \in 1 .. n : out[i] \in Span
    OBVIOUS
  <2>2. \A x \in Span : x.start \in Int /\ x.end \in Int
    BY DEF Span
  <2> HIDE DEF n
  <2> QED BY <2>1, <2>2
<1>1. CASE out = <<>> \/ cur.start > Last(out).end
  <2>1. J = Append(out, cur)
    BY <1>1 DEF Join
  <2>2. /\ J \in Seq(Span) /\ Len(J) = n + 1 /\ DOMAIN J = 1 .. n + 1
        /\ J[n + 1] = cur /\ \A i \in 1 .. n : J[i] = out[i]
    BY <2>1
  <2> HIDE DEF J
  <2>3. Apart(J)
    <3> SUFFICES ASSUME NEW i \in 1 .. n PROVE J[i].end < J[i + 1].start
      BY <1>0, <2>2 DEF Apart
    <3>1. CASE i = n
      <4>1. cur.start > out[n].end
        BY <1>0, <1>1, <3>1 DEF Last
      <4> QED BY <1>0, <2>2, <3>1, <4>1
    <3>2. CASE i \in 1 .. n - 1
      <4>1. J[i] = out[i] /\ J[i + 1] = out[i + 1] /\ out[i].end < out[i + 1].start
        BY <1>0, <2>2, <3>2 DEF Apart
      <4> QED BY <4>1
    <3>3. n \in Nat
      BY <1>0
    <3>4. i = n \/ i \in 1 .. n - 1
      BY <3>3
    <3> QED BY <3>1, <3>2, <3>4
  <2>4. 1 .. n + 1 = (1 .. n) \cup {n + 1}
    BY <1>0
  <2>5. ASSUME NEW t \in Int
        PROVE  CoveredIn(J, t) <=> CoveredIn(out, t) \/ (cur.start <= t /\ t < cur.end)
    BY <1>0, <2>2, <2>4 DEF CoveredIn
  <2>6. J # <<>> /\ J[Len(J)] = cur /\ cur.start <= cur.start
    BY <1>0, <2>2
  <2> QED BY <2>2, <2>3, <2>5, <2>6 DEF J
<1>2. CASE ~(out = <<>> \/ cur.start > Last(out).end)
  <2>1. n \in Nat \ {0} /\ n \in 1 .. n /\ Last(out) = out[n] /\ out # <<>>
    BY <1>0, <1>2 DEF Last
  <2>2. out[n].start <= cur.start /\ cur.start <= out[n].end
    BY <1>0, <1>2, <2>1
  <2>3. CASE ~(cur.end > out[n].end)
    <3>1. J = out
      BY <1>2, <2>1, <2>3 DEF Join
    <3>2. ASSUME NEW t \in Int, cur.start <= t, t < cur.end
          PROVE  CoveredIn(out, t)
      BY <1>0, <2>1, <2>2, <2>3, <3>2 DEF CoveredIn
    <3> QED BY <2>1, <2>2, <3>1, <3>2
  <2>4. CASE cur.end > out[n].end
    <3> DEFINE last == [start |-> out[n].start, end |-> cur.end]
    <3>1. J = [out EXCEPT ![n].end = cur.end]
      BY <1>2, <2>1, <2>4 DEF Join
    <3>2. out[n] = [start |-> out[n].start, end |-> out[n].end]
      BY <1>0, <2>1 DEF Span
    <3>3. [out[n] EXCEPT !.end = cur.end] = last
      BY <3>2
    <3>4. J = [out EXCEPT ![n] = last]
      BY <3>1, <3>3
    <3>5. last \in Span
      <4>1. out[n].start < out[n].end
        BY <1>0, <2>1 DEF Span
      <4>2. out[n].start < cur.end /\ out[n].start \in Int /\ cur.end \in Int
        BY <1>0, <2>1, <2>4, <4>1
      <4> QED BY <4>2 DEF Span
    <3>6. /\ J \in Seq(Span) /\ Len(J) = n /\ DOMAIN J = 1 .. n
          /\ J[n] = last /\ \A i \in 1 .. n - 1 : J[i] = out[i]
      BY <1>0, <2>1, <3>4, <3>5
    <3>7. last.start = out[n].start /\ last.end = cur.end
      OBVIOUS
    <3> HIDE DEF J, last
    <3>8. Apart(J)
      <4> SUFFICES ASSUME NEW i \in 1 .. n - 1 PROVE J[i].end < J[i + 1].start
        BY <3>6 DEF Apart
      <4>1. out[i].end < out[i + 1].start
        BY DEF Apart
      <4>2. J[i] = out[i]
        BY <3>6
      <4>3. J[i + 1].start = out[i + 1].start
        <5>1. CASE i = n - 1
          BY <1>0, <3>6, <3>7, <5>1
        <5>2. CASE i \in 1 .. n - 2
          BY <1>0, <3>6, <5>2
        <5>3. n \in Nat
          BY <1>0
        <5>4. i = n - 1 \/ i \in 1 .. n - 2
          BY <5>3
        <5> QED BY <5>1, <5>2, <5>4
      <4> QED BY <4>1, <4>2, <4>3
    <3>9. ASSUME NEW t \in Int
          PROVE  CoveredIn(J, t) <=> CoveredIn(out, t) \/ (cur.start <= t /\ t < cur.end)
      <4>1. 1 .. n = (1 .. n - 1) \cup {n}
        BY <1>0, <2>1
      <4>2. CoveredIn(J, t) <=> (\E i \in 1 .. n - 1 : out[i].start <= t /\ t < out[i].end)
                                \/ (out[n].start <= t /\ t < cur.end)
        BY <3>6, <3>7, <4>1 DEF CoveredIn
      <4>3. CoveredIn(out, t) <=> (\E i \in 1 .. n - 1 : out[i].start <= t /\ t < out[i].end)
                                \/ (out[n].start <= t /\ t < out[n].end)
        BY <1>0, <4>1 DEF CoveredIn
      <4>4. (out[n].start <= t /\ t < cur.end) <=>
               (out[n].start <= t /\ t < out[n].end) \/ (cur.start <= t /\ t < cur.end)
        BY <1>0, <2>1, <2>2, <2>4
      <4> QED BY <4>2, <4>3, <4>4
    <3>10. J # <<>>
      BY <2>1, <3>6
    <3>11. J[Len(J)].start <= cur.start
      BY <2>2, <3>6, <3>7
    <3> QED BY <3>6, <3>8, <3>9, <3>10, <3>11 DEF J
  <2> QED BY <1>0, <2>1, <2>3, <2>4
<1> QED BY <1>1, <1>2

Taking(prior) ==
    LET cur == Earliest(prior.rest)
    IN  [out |-> Join(prior.out, cur), rest |-> prior.rest \ {cur}]

LEMMA MergingOn ==
    ASSUME NEW spans \in SUBSET Span, IsFiniteSet(spans),
           NEW n \in 1 .. Cardinality(spans), NEW turn, Merging(turn, spans, n - 1)
    PROVE  Merging(Taking(turn), spans, n)
<1> DEFINE out == turn.out
           rest == turn.rest
           cur == Earliest(rest)
<1>1. Cardinality(spans) \in Nat
  BY FS_CardinalityType
<1>2. IsFiniteSet(rest) /\ rest \in SUBSET Span /\ Cardinality(rest) = Cardinality(spans) - (n - 1)
  BY FS_Subset DEF Merging
<1>3. rest # {}
  BY <1>1, <1>2, FS_EmptySet
<1>4. cur \in rest /\ \A b \in rest : cur.start <= b.start
  BY <1>2, <1>3, EarliestIs
<1>5. Cardinality(rest \ {cur}) = Cardinality(spans) - n
  <2>1. Cardinality(rest \ {cur}) = Cardinality(rest) - 1
    BY <1>2, <1>4, FS_RemoveElement
  <2> QED BY <1>1, <1>2, <2>1
<1>6. cur \in Span /\ cur \in spans /\ \A b \in rest : b.start \in Int
  BY <1>2, <1>4 DEF Merging, Span
<1> HIDE DEF cur
<1>7. /\ Join(out, cur) \in Seq(Span) /\ Apart(Join(out, cur)) /\ Join(out, cur) # <<>>
      /\ Join(out, cur)[Len(Join(out, cur))].start <= cur.start
      /\ \A t \in Int : CoveredIn(Join(out, cur), t) <=>
                  CoveredIn(out, t) \/ (cur.start <= t /\ t < cur.end)
  BY <1>4, <1>6, Joining DEF Merging
<1>8. \A t \in Int : CoveredIn(Join(out, cur), t) <=> Covered(spans \ (rest \ {cur}), t)
  <2>1. spans \ (rest \ {cur}) = (spans \ rest) \cup {cur}
    BY <1>6
  <2>2. \A t \in Int : CoveredIn(out, t) <=> Covered(spans \ rest, t)
    BY DEF Merging
  <2>3. \A t \in Int : Covered((spans \ rest) \cup {cur}, t) <=>
              Covered(spans \ rest, t) \/ (cur.start <= t /\ t < cur.end)
    BY DEF Covered
  <2> HIDE DEF rest, out
  <2> QED BY <1>7, <2>1, <2>2, <2>3
<1>9. \A b \in rest \ {cur} : Join(out, cur)[Len(Join(out, cur))].start <= b.start
  <2> DEFINE J == Join(out, cur)
  <2>1. Len(J) \in Nat /\ Len(J) # 0
    BY <1>7
  <2>2. J[Len(J)].start \in Int
    <3>1. J[Len(J)] \in Span
      BY <1>7, <2>1
    <3> QED BY <3>1 DEF Span
  <2> QED BY <1>4, <1>6, <1>7, <2>2 DEF Span
<1>10. Taking(turn) = [out |-> Join(out, cur), rest |-> rest \ {cur}]
  BY DEF Taking, cur
<1>11. rest \ {cur} \in SUBSET spans
  BY DEF Merging
<1> DEFINE next == [out |-> Join(out, cur), rest |-> rest \ {cur}]
<1>12. next.out = Join(out, cur) /\ next.rest = rest \ {cur} /\ next = [out |-> next.out, rest |-> next.rest]
  OBVIOUS
<1> HIDE DEF next, rest, out
<1>13. Merging(next, spans, n)
  BY <1>5, <1>7, <1>8, <1>9, <1>11, <1>12 DEF Merging
<1> QED BY <1>10, <1>13 DEF next

MergeTurn(f, n, spans) == IF n = 0 THEN [out |-> <<>>, rest |-> spans] ELSE Taking(f[n - 1])

\* Merge's loop is well defined, however many intervals there are.
LEMMA MergeExists ==
    ASSUME NEW spans, NEW m \in Nat
    PROVE  \E f : f = [n \in 0 .. m |-> MergeTurn(f, n, spans)]
<1> DEFINE Solved(i) == \E f : f = [n \in 0 .. i |-> MergeTurn(f, n, spans)]
           T == {i \in Nat : ~Solved(i)}
<1>1. Solved(0)
  <2> DEFINE f == [n \in 0 .. 0 |-> [out |-> <<>>, rest |-> spans]]
  <2>1. f = [n \in 0 .. 0 |-> MergeTurn(f, n, spans)]
    BY DEF MergeTurn
  <2> QED BY <2>1
<1>2. ASSUME NEW i \in Nat, Solved(i)
      PROVE  Solved(i + 1)
  <2>1. PICK f : f = [n \in 0 .. i |-> MergeTurn(f, n, spans)]
    BY <1>2
  <2> DEFINE h == [n \in 0 .. i + 1 |-> IF n = i + 1 THEN Taking(f[i]) ELSE f[n]]
  <2>2. \A n \in 0 .. i : h[n] = f[n]
    OBVIOUS
  <2>3. ASSUME NEW n \in 0 .. i + 1
        PROVE  h[n] = MergeTurn(h, n, spans)
    <3>1. CASE n = 0
      <4>1. h[n] = f[0] /\ f[0] = [out |-> <<>>, rest |-> spans]
        BY <2>1, <3>1 DEF MergeTurn
      <4> QED BY <3>1, <4>1 DEF MergeTurn
    <3>2. CASE n \in 1 .. i
      <4>1. h[n] = f[n] /\ h[n - 1] = f[n - 1]
        BY <2>2, <3>2
      <4>2. f[n] = Taking(f[n - 1])
        BY <2>1, <3>2 DEF MergeTurn
      <4> HIDE DEF h
      <4> QED BY <3>2, <4>1, <4>2 DEF MergeTurn
    <3>3. CASE n = i + 1
      <4>1. h[n] = Taking(f[i]) /\ h[i] = f[i] /\ n - 1 = i
        BY <2>2, <3>3
      <4> HIDE DEF h
      <4> QED BY <3>3, <4>1 DEF MergeTurn
    <3> QED BY <3>1, <3>2, <3>3
  <2>4. h = [n \in 0 .. i + 1 |-> MergeTurn(h, n, spans)]
    <3>1. DOMAIN h = 0 .. i + 1 /\ h = [n \in DOMAIN h |-> h[n]]
      OBVIOUS
    <3> HIDE DEF h
    <3> QED BY <2>3, <3>1
  <2> QED BY <2>4
<1> HIDE DEF Solved
<1>3. T = {}
  <2> SUFFICES ASSUME T # {} PROVE FALSE
    OBVIOUS
  <2>1. PICK i \in T : \A j \in T : i <= j
    BY LeastNat
  <2>2. i \in Nat /\ i # 0 /\ ~Solved(i)
    BY <1>1
  <2>3. i - 1 \in Nat /\ (i - 1) + 1 = i
    BY <2>2
  <2>4. Solved(i - 1)
    BY <2>1, <2>3
  <2>5. Solved((i - 1) + 1)
    BY <1>2, <2>3, <2>4
  <2> QED BY <2>2, <2>3, <2>5
<1> QED BY <1>3 DEF Solved

\* Merge covers exactly what the intervals cover, and its own are in order and
\* apart: every overlap and abutment is joined, for any number of intervals.
THEOREM MergeIsExact ==
    ASSUME NEW spans \in SUBSET Span, IsFiniteSet(spans)
    PROVE  /\ Merge(spans) \in Seq(Span) /\ Apart(Merge(spans))
           /\ \A t \in Int : CoveredIn(Merge(spans), t) <=> Covered(spans, t)
<1> DEFINE m == Cardinality(spans)
           turn == CHOOSE f : f = [n \in 0 .. m |-> MergeTurn(f, n, spans)]
           T == {n \in 0 .. m : ~Merging(turn[n], spans, n)}
<1>0. m \in Nat
  BY FS_CardinalityType
<1>1. turn = [n \in 0 .. m |-> MergeTurn(turn, n, spans)]
  <2> HIDE DEF m
  <2> QED BY <1>0, MergeExists
<1>2. Merge(spans) = turn[m].out
  BY DEF Merge, MergeTurn, Taking
<1> HIDE DEF turn, m
<1>3. Merging(turn[0], spans, 0)
  <2>1. turn[0] = [out |-> <<>>, rest |-> spans]
    BY <1>0, <1>1 DEF MergeTurn
  <2>2. spans \ spans = {} /\ m - 0 = m
    BY <1>0
  <2> QED BY <2>1, <2>2 DEF Merging, Apart, CoveredIn, Covered, m
<1>4. ASSUME NEW n \in 1 .. m, Merging(turn[n - 1], spans, n - 1)
      PROVE  Merging(turn[n], spans, n)
  <2>1. turn[n] = Taking(turn[n - 1])
    BY <1>0, <1>1 DEF MergeTurn
  <2> QED BY <1>4, <2>1, MergingOn DEF m
<1>5. T = {}
  <2> SUFFICES ASSUME T # {} PROVE FALSE
    OBVIOUS
  <2>1. PICK i \in T : \A j \in T : i <= j
    <3>1. T \subseteq Nat
      OBVIOUS
    <3> HIDE DEF T
    <3> QED BY <3>1, LeastNat
  <2>2. i \in 1 .. m /\ ~Merging(turn[i], spans, i)
    BY <1>3
  <2>3. i - 1 \in 0 .. m /\ ~(i <= i - 1)
    BY <1>0, <2>2
  <2>4. Merging(turn[i - 1], spans, i - 1)
    BY <2>1, <2>3
  <2> QED BY <1>4, <2>2, <2>4
<1>6. Merging(turn[m], spans, m)
  BY <1>0, <1>5
<1>7. turn[m].rest = {}
  <2>1. Cardinality(turn[m].rest) = 0 /\ IsFiniteSet(turn[m].rest)
    BY <1>0, <1>6, FS_Subset DEF Merging, m
  <2> QED BY <2>1, FS_EmptySet
<1>8. spans \ turn[m].rest = spans
  BY <1>7
<1> QED BY <1>2, <1>6, <1>8 DEF Merging

-----------------------------------------------------------------------------
(* Dates and clocks. *)

\* Which reading time.Date takes: the last, or the first.
LEMMA DateIsExtreme ==
    ASSUME NEW z \in Zone, NEW c \in Int, NEW t \in Readings(z, c)
    PROVE  IF z.late THEN t <= DateIn(z, c) ELSE DateIn(z, c) <= t
<1>1. z.base \in Int /\ z.shift \in Int
  BY DEF Zone
<1>2. c - z.base \in Int /\ c - z.base - z.shift \in Int
  BY <1>1
<1>3. Readings(z, c) \in SUBSET {c - z.base, c - z.base - z.shift} /\ Readings(z, c) # {}
  BY DEF Readings, Candidates
<1>4. Min(Readings(z, c)) <= t /\ t <= Max(Readings(z, c))
  <2> DEFINE x == c - z.base
             y == c - z.base - z.shift
  <2>1. x \in Int /\ y \in Int /\ Readings(z, c) \in SUBSET {x, y}
    BY <1>2, <1>3
  <2> HIDE DEF x, y
  <2> QED BY <1>3, <2>1, OfTwo
<1> QED BY <1>3, <1>4 DEF DateIn

\* A later clock is a later date, whichever reading is taken of each.
LEMMA DatesAscend ==
    ASSUME NEW z \in Zone, NEW c \in Int, NEW d \in Int, c < d,
           Readings(z, c) # {}, Readings(z, d) # {}
    PROVE  DateIn(z, c) < DateIn(z, d)
<1>1. z.base \in Int /\ z.at \in Int /\ z.shift \in Int
  BY DEF Zone
<1> DEFINE t == DateIn(z, c)
           u == DateIn(z, d)
<1>2. /\ t \in Int /\ t = c - Offset(z, t) /\ u \in Int /\ u = d - Offset(z, u)
  <2>1. t \in Int /\ u \in Int /\ Wall(z, t) = c /\ Wall(z, u) = d
    BY DateReads
  <2> HIDE DEF t, u
  <2> QED BY <1>1, <2>1 DEF Wall, Offset
<1>3. SUFFICES ASSUME u <= t PROVE FALSE
  BY <1>2
<1> HIDE DEF t, u
<1>4. u < z.at /\ z.at <= t /\ u = d - z.base /\ t = c - z.base - z.shift
  BY <1>1, <1>2, <1>3 DEF Offset
<1>5. c - z.base \in Readings(z, c) /\ d - z.base - z.shift \in Readings(z, d)
  BY <1>1, <1>4 DEF Readings, Candidates, Wall, Offset
<1>6. CASE z.late
  BY <1>1, <1>4, <1>5, <1>6, DateIsExtreme DEF u
<1>7. CASE ~z.late
  BY <1>1, <1>4, <1>5, <1>7, DateIsExtreme DEF t
<1> QED BY <1>6, <1>7

\* The offset moves by the shift, once.
LEMMA OffsetsDiffer ==
    ASSUME NEW z \in Zone, NEW t \in Int, NEW u \in Int
    PROVE  /\ Wall(z, t) \in Int
           /\ Wall(z, u) - Wall(z, t) \in {u - t, u - t + z.shift, u - t - z.shift}
BY DEF Zone, Wall, Offset

\* time.Date is never further from a clock than the shift, shown or not.
LEMMA DatesNear ==
    ASSUME NEW z \in Zone, NEW c \in Int, NEW d \in Int
    PROVE  DateIn(z, d) - DateIn(z, c) \in {d - c, d - c + z.shift, d - c - z.shift}
<1>1. z.base \in Int /\ z.shift \in Int
  BY DEF Zone
<1>2. ASSUME NEW x \in Int PROVE DateIn(z, x) \in {x - z.base, x - z.base - z.shift}
  <2> DEFINE found == IF Readings(z, x) = {} THEN Candidates(z, x) ELSE Readings(z, x)
  <2>1. found # {} /\ found \in SUBSET {x - z.base, x - z.base - z.shift}
    BY DEF Candidates, Readings
  <2>2. x - z.base \in Int /\ x - z.base - z.shift \in Int
    BY <1>1
  <2> HIDE DEF found
  <2>3. Min(found) \in found /\ Max(found) \in found
    <3> DEFINE v == x - z.base
               y == x - z.base - z.shift
    <3>1. v \in Int /\ y \in Int /\ found \in SUBSET {v, y}
      BY <2>1, <2>2
    <3> HIDE DEF v, y
    <3> QED BY <2>1, <3>1, OfTwo
  <2> QED BY <2>1, <2>3 DEF DateIn, found
<1>3. DateIn(z, c) \in {c - z.base, c - z.base - z.shift} /\ DateIn(z, d) \in {d - z.base, d - z.base - z.shift}
  BY <1>2
<1> QED BY <1>1, <1>3

\* Arithmetic the provers need to be told of.
LEMMA Multiples ==
    ASSUME NEW q \in Nat \ {0}, NEW j \in Nat, NEW k \in Nat
    PROVE  /\ j * q \in Nat /\ (j + k) * q = j * q + k * q
           /\ j < k => j * q + q <= k * q
OBVIOUS
LEMMA DividingInt ==
    ASSUME NEW a \in Int, NEW n \in Nat \ {0}
    PROVE  /\ a \div n \in Int /\ a % n \in 0 .. n - 1
           /\ a = n * (a \div n) + (a % n)
OBVIOUS

-----------------------------------------------------------------------------
(* Series without named days. *)

\* The clocks of a series, and the instants they stand for.
Clock(e, k) == First(e) + k * (Period(e.rule) * Day)
Tick(e, k) == DateIn(e.loc, Clock(e, k))

\* Begins at what time.Date makes of its clock, in a zone that never moved by a
\* day, and is never skipped.
Steady(e) ==
    /\ e \in VEvent /\ e.rule \in Recurrence
    /\ e.start = DateIn(e.loc, First(e))
    /\ -Day < e.loc.shift /\ e.loc.shift < Day
    /\ Unskipped(e)

\* The numbers of a series.
LEMMA SeriesTypes ==
    ASSUME NEW e, Steady(e)
    PROVE  /\ e.loc \in Zone /\ e.start \in Int /\ First(e) \in Int
           /\ Period(e.rule) \in Nat \ {0} /\ Period(e.rule) * Day \in Nat \ {0}
           /\ e.rule.count \in Nat /\ e.rule.byDay \in Seq(0 .. 6) /\ Duration(e) \in Nat
           /\ e.loc.shift \in Int /\ Day = 48 /\ Period(e.rule) * Day >= Day
<1>1. e.loc \in Zone /\ e.start \in Int /\ e.rule \in Recurrence
      /\ e.dtend \in Int \cup {Never} /\ e.duration \in Int \cup {Never}
  BY DEF Steady, VEvent
<1>2. e.rule.count \in Nat /\ e.rule.byDay \in Seq(0 .. 6) /\ e.rule.interval \in Nat \ {0}
  BY <1>1 DEF Recurrence
<1>3. Period(e.rule) \in Nat \ {0}
  BY <1>2 DEF Period
<1>4. Day = 48
  BY DEF Day, Hour
<1>5. First(e) \in Int
  BY <1>1, OffsetsDiffer DEF First
<1>6. Duration(e) \in Nat
  <2>1. CASE e.dtend # Never /\ e.dtend > e.start
    BY <1>1, <2>1 DEF Duration
  <2>2. CASE ~(e.dtend # Never /\ e.dtend > e.start)
    BY <1>1, <1>4, <2>2 DEF Duration
  <2> QED BY <2>1, <2>2
<1>7. e.loc.shift \in Int
  BY <1>1 DEF Zone
<1> QED BY <1>1, <1>2, <1>3, <1>4, <1>5, <1>6, <1>7

\* Days are counted from no later than the start.
LEMMA SinceIs ==
    ASSUME NEW e, Steady(e)
    PROVE  /\ Since(e) \in Int /\ Since(e) <= First(e)
           /\ e.rule.byDay # <<>> => Since(e) = First(e) - ((First(e) \div 48) % 7) * 48
<1>1. First(e) \in Int /\ Day = 48
  BY SeriesTypes
<1>2. DayOf(e.loc, e.start) = First(e) \div 48
  BY <1>1 DEF DayOf, First
<1> DEFINE c == First(e)
<1>3. Since(e) = IF e.rule.byDay = <<>> THEN c ELSE c - ((c \div 48) % 7) * 48
  BY <1>1, <1>2 DEF Since
<1> HIDE DEF c
<1>4. (c \div 48) % 7 \in 0 .. 6
  <2>1. c \div 48 \in Int
    BY <1>1 DEF c
  <2> QED BY <2>1
<1> QED BY <1>1, <1>3, <1>4 DEF c

\* A clock the series can stand at, or be counted from, was shown.
LEMMA NotSkipped ==
    ASSUME NEW e, Steady(e), NEW c \in Int, c >= Since(e), (c - First(e)) % Day = 0,
           e.rule.byDay = <<>> => (c - First(e)) % (Period(e.rule) * Day) = 0
    PROVE  Readings(e.loc, c) # {}
<1>1. c \notin Gap(e.loc)
  BY DEF Steady, Unskipped
<1>2. e.loc \in Zone /\ e.loc.base \in Int /\ e.loc.at \in Int /\ e.loc.shift \in Int
  BY SeriesTypes DEF Zone
<1>3. Shown(e.loc, c)
  <2> DEFINE base == e.loc.base
             at == e.loc.at
             shift == e.loc.shift
  <2>1. c \notin at + base .. at + base + shift - 1
    BY <1>1 DEF Gap
  <2>2. base \in Int /\ at \in Int /\ shift \in Int
    BY <1>2
  <2> HIDE DEF base, at, shift
  <2>3. c - base < at \/ c - base - shift >= at
    BY <2>1, <2>2
  <2> QED BY <2>3 DEF Shown, base, at, shift
<1> QED BY <1>2, <1>3, ReadingsOfClock

\* The ticks of a series ascend, a period apart but for what the clock jumps.
LEMMA Ticks ==
    ASSUME NEW e, Steady(e), NEW k \in Nat
    PROVE  /\ Clock(e, k) \in Int /\ Clock(e, k) >= First(e) /\ Readings(e.loc, Clock(e, k)) # {}
           /\ Tick(e, k) \in Int /\ Wall(e.loc, Tick(e, k)) = Clock(e, k)
           /\ \A j \in Nat : j < k => /\ Clock(e, j) < Clock(e, k) /\ Tick(e, j) < Tick(e, k)
           /\ Tick(e, 0) = e.start
           /\ Tick(e, k) - e.start \in {k * (Period(e.rule) * Day),
                  k * (Period(e.rule) * Day) + e.loc.shift, k * (Period(e.rule) * Day) - e.loc.shift}
<1> DEFINE PD == Period(e.rule) * Day
           c0 == First(e)
<1>1. c0 \in Int /\ PD \in Nat \ {0} /\ e.loc \in Zone /\ Day = 48 /\ Period(e.rule) \in Nat \ {0}
  BY SeriesTypes
<1>2. ASSUME NEW n \in Nat
      PROVE  /\ Clock(e, n) = c0 + n * PD /\ n * PD \in Nat /\ Clock(e, n) \in Int
             /\ Clock(e, n) >= c0 /\ Readings(e.loc, Clock(e, n)) # {}
  <2>1. Clock(e, n) = c0 + n * PD
    BY DEF Clock
  <2>2. n * PD \in Nat /\ (n * PD) % PD = 0
    <3> HIDE DEF PD
    <3>1. n * PD = PD * n + 0 /\ n * PD \in Nat
      BY <1>1
    <3>2. 0 \in 0 .. PD - 1
      BY <1>1
    <3> QED BY <1>1, <3>1, <3>2, DividedOnce
  <2>3. (n * PD) % Day = 0
    <3> DEFINE m == n * Period(e.rule)
    <3>1. m \in Nat
      BY <1>1
    <3>2. n * PD = m * Day
      BY <1>1
    <3> HIDE DEF m, PD
    <3> QED BY <1>1, <3>1, <3>2
  <2> HIDE DEF PD, c0
  <2>4. Clock(e, n) \in Int /\ Clock(e, n) >= c0 /\ Clock(e, n) - c0 = n * PD
    BY <1>1, <2>1, <2>2
  <2>5. Readings(e.loc, Clock(e, n)) # {}
    <3>1. Clock(e, n) >= Since(e)
      <4>1. Since(e) \in Int /\ Since(e) <= c0
        BY SinceIs DEF c0
      <4> QED BY <1>1, <2>4, <4>1
    <3> QED BY <2>2, <2>3, <2>4, <3>1, NotSkipped DEF PD, c0
  <2> QED BY <2>1, <2>2, <2>4, <2>5
<1>3. \A n \in Nat : Tick(e, n) \in Int /\ Wall(e.loc, Tick(e, n)) = Clock(e, n)
  BY <1>1, <1>2, DateReads DEF Tick
<1>4. ASSUME NEW j \in Nat, j < k
      PROVE  Clock(e, j) < Clock(e, k) /\ Tick(e, j) < Tick(e, k)
  <2> HIDE DEF PD
  <2>1. j * PD + PD <= k * PD
    BY <1>1, <1>4, Multiples
  <2>2. Clock(e, j) < Clock(e, k)
    <3>1. /\ Clock(e, j) = c0 + j * PD /\ Clock(e, k) = c0 + k * PD
          /\ j * PD \in Int /\ k * PD \in Int
      BY <1>2
    <3> DEFINE a == j * PD
               b == k * PD
    <3>2. a \in Int /\ b \in Int /\ a + PD <= b /\ Clock(e, j) = c0 + a /\ Clock(e, k) = c0 + b
      BY <2>1, <3>1
    <3> HIDE DEF a, b, c0
    <3> QED BY <1>1, <3>2
  <2> QED BY <1>1, <1>2, <2>2, DatesAscend DEF Tick
<1>5. Clock(e, 0) = c0 /\ Tick(e, 0) = e.start
  BY <1>1 DEF Clock, Tick, Steady
<1>6. Tick(e, k) - e.start \in {k * PD, k * PD + e.loc.shift, k * PD - e.loc.shift}
  <2>1. Tick(e, k) - Tick(e, 0) \in {Clock(e, k) - c0, Clock(e, k) - c0 + e.loc.shift, Clock(e, k) - c0 - e.loc.shift}
    BY <1>1, <1>2, <1>5, DatesNear DEF Tick
  <2>2. Clock(e, k) - c0 = k * PD
    <3> HIDE DEF PD, c0
    <3> QED BY <1>1, <1>2
  <2> QED BY <1>5, <2>1, <2>2
<1> QED BY <1>2, <1>3, <1>4, <1>5, <1>6

\* Where the fast-forward lands: so many periods on.
JumpCount(e, from) ==
    LET n == (from - e.start) \div (Period(e.rule) * Day) - 3
    IN  IF e.rule.count = 0 /\ e.rule.byDay = <<>> /\ n > 0 THEN n ELSE 0

\* The fast-forward lands at least three periods before the window.
LEMMA JumpLands ==
    ASSUME NEW e, Steady(e), NEW from \in Int
    PROVE  /\ JumpCount(e, from) \in Nat
           /\ JumpCount(e, from) # 0 => e.rule.count = 0 /\ e.rule.byDay = <<>>
           /\ Jumped(e, from) = IF JumpCount(e, from) = 0 THEN e.start ELSE Tick(e, JumpCount(e, from))
           /\ JumpCount(e, from) # 0 =>
                (JumpCount(e, from) + 3) * (Period(e.rule) * Day) <= from - e.start
<1> DEFINE PD == Period(e.rule) * Day
           n == (from - e.start) \div PD - 3
           P == Period(e.rule)
<1>1. PD \in Nat \ {0} /\ e.start \in Int /\ P \in Nat \ {0} /\ Day \in Int
  BY SeriesTypes
<1>2. n \in Int /\ (n + 3) * PD <= from - e.start
  <2> DEFINE a == from - e.start
  <2>1. a \in Int
    BY <1>1
  <2> HIDE DEF PD, a
  <2>2. a \div PD \in Int /\ PD * (a \div PD) <= a
    BY <1>1, <2>1, DividingInt
  <2>3. n + 3 = a \div PD /\ n \in Int
    BY <2>2 DEF a
  <2> QED BY <1>1, <2>2, <2>3 DEF a
<1>3. n > 0 => AddDays(e.loc, e.start, n * P) = Tick(e, n)
  <2> HIDE DEF n
  <2>1. n > 0 => (n * P) * Day = n * PD
    BY <1>1, <1>2
  <2> QED BY <2>1 DEF AddDays, Tick, Clock, First
<1> QED BY <1>1, <1>2, <1>3 DEF JumpCount, Jumped

\* The loop variable, at each of its steps.
LEMMA CursorTicks ==
    ASSUME NEW e, Steady(e), NEW from \in Int
    PROVE  Cursor(e, from) = [step \in 0 .. MaxOccurrences - 1 |-> Tick(e, JumpCount(e, from) + step)]
<1> DEFINE J == JumpCount(e, from)
           PD == Period(e.rule) * Day
           P == Period(e.rule)
           first == Jumped(e, from)
           M == MaxOccurrences
           skipped == {step \in 1 .. M - 1 :
                      Readings(e.loc, Wall(e.loc, first) + step * P * Day) = {}}
<1>0. J \in Nat /\ PD \in Nat \ {0} /\ P \in Nat \ {0} /\ Day \in Nat /\ M \in Nat \ {0} /\ e.loc \in Zone
      /\ First(e) \in Int
  <2>1. Day \in Nat
    BY DEF Day, Hour
  <2> QED BY <2>1, JumpLands, SeriesTypes, MaxOccurrencesAssumption
<1>1. first = Tick(e, J) /\ Wall(e.loc, first) = Clock(e, J)
  BY <1>0, JumpLands, Ticks
<1>2. ASSUME NEW step \in Nat
      PROVE  /\ Wall(e.loc, first) + (step * P) * Day = Clock(e, J + step)
             /\ AddDays(e.loc, first, step * P) = Tick(e, J + step)
  <2>1. (step * P) * Day = step * PD
    BY <1>0
  <2> HIDE DEF J, PD
  <2>2. (J + step) * PD = J * PD + step * PD /\ J * PD \in Nat /\ step * PD \in Nat
    BY <1>0, Multiples
  <2>3. Clock(e, J + step) = First(e) + (J + step) * PD /\ Clock(e, J) = First(e) + J * PD
    BY DEF Clock, PD
  <2>4. Clock(e, J) + step * PD = Clock(e, J + step)
    BY <1>0, <2>2, <2>3
  <2> QED BY <1>1, <2>1, <2>4 DEF AddDays, Tick
<1>3. skipped = {}
  <2>1. ASSUME NEW step \in 1 .. M - 1 PROVE Readings(e.loc, Wall(e.loc, first) + step * P * Day) # {}
    <3>1. step \in Nat /\ J + step \in Nat
      BY <1>0
    <3> HIDE DEF J
    <3> QED BY <1>2, <3>1, Ticks
  <2> QED BY <2>1
<1>4. Cursor(e, from) = [step \in 0 .. M - 1 |->
          IF step <= M THEN AddDays(e.loc, first, step * P)
          ELSE AddDays(e.loc, AddDays(e.loc, first, M * P), (step - M) * P)]
  BY <1>3 DEF Cursor
<1>5. \A step \in 0 .. M - 1 : step <= M /\ step \in Nat
  BY <1>0
<1> HIDE DEF M, first, J
<1> QED BY <1>2, <1>4, <1>5 DEF J, M

\* The clocks a plain rule names, and how many there are before each.
LEMMA PlainClocks ==
    ASSUME NEW e, Steady(e), e.rule.byDay = <<>>, NEW to \in Int
    PROVE  RuleClocks(e, to) = {Clock(e, k) : k \in {k \in Nat : Clock(e, k) \div Day <= DayOf(e.loc, to) + 1}}
<1> DEFINE c0 == First(e)
           P == Period(e.rule)
           d0 == c0 \div Day
           h == c0 % Day
           X == DayOf(e.loc, to) + 1
           days == DayOf(e.loc, e.start) .. X
           on(d) == (d - d0) % P = 0
           RC == {c \in {d * Day + h : d \in {d \in days : on(d)}} : c >= c0}
           ticks == {Clock(e, k) : k \in {k \in Nat : Clock(e, k) \div Day <= X}}
<1>1. c0 \in Int /\ P \in Nat \ {0} /\ Day = 48
  BY SeriesTypes
<1>2. RuleClocks(e, to) = RC
  <2>1. e.rule.freq # ""
    BY DEF Steady, Recurrence
  <2>2. {e.rule.byDay[i] : i \in DOMAIN e.rule.byDay} = {}
    OBVIOUS
  <2> QED BY <2>1, <2>2 DEF RuleClocks, First
<1>3. X \in Int /\ days = d0 .. X
  <2>1. Wall(e.loc, to) \in Int
    BY SeriesTypes, OffsetsDiffer
  <2> QED BY <1>1, <2>1 DEF DayOf, First
<1>4. d0 \in Int /\ h \in 0 .. 47 /\ c0 = 48 * d0 + h
  <2> HIDE DEF c0
  <2> QED BY <1>1
<1>5. \A k \in Nat : Clock(e, k) = c0 + k * (P * 48) /\ k * P \in Nat
  BY <1>1 DEF Clock
<1> HIDE DEF c0, P, d0, h, X, days
<1>6. ASSUME NEW c \in RC PROVE c \in ticks
  <2>1. PICK d \in days : on(d) /\ c = d * Day + h
    OBVIOUS
  <2>2. d \in Int /\ d - d0 \in Nat /\ d <= X
    BY <1>3, <1>4
  <2> DEFINE q == (d - d0) \div P
  <2>3. q \in Nat /\ d - d0 = P * q
    <3> DEFINE a == d - d0
    <3>1. a \in Nat /\ a % P = 0
      BY <2>1, <2>2
    <3> HIDE DEF a
    <3>2. a \div P \in Nat /\ a = P * (a \div P) + 0
      BY <1>1, <3>1, Dividing
    <3>3. P * (a \div P) \in Int
      BY <1>1, <3>2
    <3> QED BY <3>1, <3>2, <3>3 DEF a
  <2> HIDE DEF q
  <2>4. q * (P * 48) = 48 * (P * q)
    BY <1>1, <2>3
  <2>5. Clock(e, q) = c
    <3> DEFINE m == P * q
    <3>1. m \in Int /\ m = d - d0 /\ q * (P * 48) = 48 * m
      BY <2>2, <2>3, <2>4
    <3> HIDE DEF m
    <3>2. c = 48 * d + h
      BY <1>1, <1>4, <2>1, <2>2
    <3> QED BY <1>4, <1>5, <2>2, <2>3, <3>1, <3>2
  <2>6. c \div Day = d
    BY <1>1, <1>4, <2>1, <2>2
  <2> QED BY <2>2, <2>3, <2>5, <2>6
<1>7. ASSUME NEW c \in ticks PROVE c \in RC
  <2>1. PICK k \in Nat : c = Clock(e, k) /\ Clock(e, k) \div Day <= X
    OBVIOUS
  <2> DEFINE m == k * P
  <2>2. m \in Nat /\ m % P = 0 /\ k * (P * 48) = 48 * m
    <3>1. m \in Nat /\ k * (P * 48) = 48 * m /\ m = P * k + 0
      BY <1>1
    <3>2. 0 \in 0 .. P - 1
      BY <1>1
    <3>3. (P * k + 0) % P = 0
      BY <1>1, <3>2, DividedOnce
    <3> QED BY <3>1, <3>3
  <2> HIDE DEF m
  <2> DEFINE d == d0 + m
  <2>3. c = c0 + 48 * m
    BY <1>5, <2>1, <2>2
  <2>4. c = d * Day + h /\ d \in Int /\ c >= c0
    BY <1>1, <1>4, <2>2, <2>3
  <2>5. c \div Day = d
    BY <1>1, <1>4, <2>4
  <2>6. d \in days /\ on(d)
    <3>1. d - d0 = m
      BY <1>4, <2>2
    <3>2. d <= X /\ d >= d0
      BY <1>4, <2>1, <2>2, <2>5
    <3> QED BY <1>3, <1>4, <2>2, <2>4, <3>1, <3>2
  <2> HIDE DEF d
  <2> QED BY <2>4, <2>6
<1>8. RC = ticks
  BY <1>6, <1>7
<1> QED BY <1>2, <1>8 DEF X

\* The k-th clock has k before it, which COUNT compares with.
LEMMA PlainCount ==
    ASSUME NEW e, Steady(e), e.rule.byDay = <<>>, NEW to \in Int, NEW k \in Nat,
           Clock(e, k) \div Day <= DayOf(e.loc, to) + 1
    PROVE  Cardinality({b \in RuleClocks(e, to) : b < Clock(e, k)}) = k
<1> DEFINE S == {b \in RuleClocks(e, to) : b < Clock(e, k)}
           f == [i \in 1 .. k |-> Clock(e, i - 1)]
           X == DayOf(e.loc, to) + 1
<1>1. \A n \in Nat : Clock(e, n) \in Int /\ \A j \in Nat : j < n => Clock(e, j) < Clock(e, n)
  BY Ticks
<1>2. X \in Int /\ Day = 48
  <2>1. Wall(e.loc, to) \in Int /\ Day = 48
    BY SeriesTypes, OffsetsDiffer
  <2> QED BY <2>1 DEF DayOf
<1>3. ASSUME NEW j \in Nat, j < k PROVE Clock(e, j) \div Day <= X
  <2> DEFINE a == Clock(e, j)
             b == Clock(e, k)
  <2>1. a \in Int /\ b \in Int /\ a < b /\ b \div Day <= X
    BY <1>1, <1>3
  <2> HIDE DEF a, b, X
  <2> QED BY <1>2, <2>1 DEF a
<1>4. \A c : c \in S <=> \E j \in 0 .. k - 1 : c = Clock(e, j)
  <2>1. ASSUME NEW j \in Nat PROVE Clock(e, j) < Clock(e, k) <=> j < k
    BY <1>1
  <2> HIDE DEF X
  <2> QED BY <1>3, <2>1, PlainClocks DEF X
<1>5. f \in [1 .. k -> S]
  <2>1. ASSUME NEW i \in 1 .. k PROVE Clock(e, i - 1) \in S
    <3>1. i - 1 \in 0 .. k - 1
      OBVIOUS
    <3> HIDE DEF S
    <3> QED BY <1>4, <3>1
  <2> HIDE DEF S
  <2> QED BY <2>1
<1>6. \A i, j \in 1 .. k : f[i] = f[j] => i = j
  <2>1. ASSUME NEW i \in 1 .. k, NEW j \in 1 .. k, i # j PROVE f[i] # f[j]
    <3>1. i - 1 \in Nat /\ j - 1 \in Nat /\ (i - 1 < j - 1 \/ j - 1 < i - 1)
      BY <2>1
    <3>2. Clock(e, i - 1) # Clock(e, j - 1)
      <4> DEFINE a == i - 1
                 b == j - 1
      <4>1. a \in Nat /\ b \in Nat /\ (a < b \/ b < a)
        BY <3>1
      <4> HIDE DEF a, b
      <4>2. Clock(e, a) < Clock(e, b) \/ Clock(e, b) < Clock(e, a)
        BY <1>1, <4>1
      <4>3. Clock(e, a) \in Int /\ Clock(e, b) \in Int
        BY <1>1, <4>1
      <4>4. Clock(e, a) # Clock(e, b)
        BY <4>2, <4>3
      <4> QED BY <4>4 DEF a, b
    <3> QED BY <3>2
  <2> QED BY <2>1
<1>7. \A x \in S : \E i \in 1 .. k : f[i] = x
  <2> SUFFICES ASSUME NEW x \in S PROVE \E i \in 1 .. k : f[i] = x
    OBVIOUS
  <2>1. PICK j \in 0 .. k - 1 : x = Clock(e, j)
    BY <1>4
  <2>2. j + 1 \in 1 .. k /\ (j + 1) - 1 = j
    OBVIOUS
  <2> HIDE DEF S
  <2> QED BY <2>1, <2>2
<1> HIDE DEF S, f
<1>8. Cardinality(S) = k
  <2>1. f \in Bijection(1 .. k, S)
    BY <1>5, <1>6, <1>7 DEF Bijection, Injection, IsInjective, Surjection
  <2>2. ExistsBijection(1 .. k, S)
    BY <2>1 DEF ExistsBijection
  <2> QED BY <2>2, FS_CountingElements
<1> QED BY <1>8 DEF S

\* What begins before the window is over begins on one of its days, or a day
\* later on the clock when that jumps.
LEMMA WithinDays ==
    ASSUME NEW z \in Zone, -Day < z.shift, z.shift < Day, NEW s \in Int, NEW to \in Int, s < to
    PROVE  DayOf(z, s) <= DayOf(z, to) + 1
<1> DEFINE a == Wall(z, s)
           b == Wall(z, to)
<1>1. a \in Int /\ b \in Int /\ b - a \in {to - s, to - s + z.shift, to - s - z.shift}
  BY OffsetsDiffer
<1>2. z.shift \in Int /\ Day = 48
  BY DEF Zone, Day, Hour
<1> HIDE DEF a, b
<1>3. a < b + 48
  BY <1>1, <1>2
<1>4. a \div 48 <= (b \div 48) + 1
  BY <1>1, <1>3
<1> QED BY <1>2, <1>4 DEF DayOf, a, b

\* A step is made until the series or the window is over.
LEMMA StepsMade ==
    ASSUME NEW e, Steady(e), NEW from \in Int, NEW to \in Int,
           NEW step \in 0 .. MaxOccurrences - 1
    PROVE  /\ step \in StepsOf(e, from, to) <=>
                  /\ Tick(e, JumpCount(e, from) + step) <= to
                  /\ e.rule.until # Never => Tick(e, JumpCount(e, from) + step) <= e.rule.until
           /\ Cursor(e, from)[step] = Tick(e, JumpCount(e, from) + step)
<1> DEFINE J == JumpCount(e, from)
<1>1. Cursor(e, from) = [n \in 0 .. MaxOccurrences - 1 |-> Tick(e, J + n)]
  BY CursorTicks
<1> HIDE DEF J
<1>2. Cursor(e, from)[step] = Tick(e, J + step)
  BY <1>1
<1> QED BY <1>2 DEF StepsOf, J

\* What the fast-forward jumps over is over before the window begins.
LEMMA JumpedIsOver ==
    ASSUME NEW e, Steady(e), e.rule.byDay = <<>>, NEW from \in Int,
           e.rule.count = 0 => Duration(e) <= 3 * (Period(e.rule) * Day),
           NEW k \in Nat, k < JumpCount(e, from)
    PROVE  Tick(e, k) + Duration(e) <= from
<1> DEFINE PD == Period(e.rule) * Day
           J == JumpCount(e, from)
           D == Duration(e)
           x == k * PD
           y == J * PD
           s == e.loc.shift
<1>1. PD \in Nat \ {0} /\ PD >= Day /\ e.start \in Int /\ D \in Nat /\ s \in Int /\ -Day < s /\ s < Day /\ Day \in Int
  BY SeriesTypes DEF Steady
<1>2. J \in Nat /\ e.rule.count = 0 /\ (J + 3) * PD <= from - e.start
  <2>1. J \in Nat /\ J # 0
    BY JumpLands
  <2> QED BY <2>1, JumpLands
<1>3. D <= 3 * PD
  BY <1>2
<1>4. Tick(e, k) \in Int /\ Tick(e, k) - e.start \in {x, x + s, x - s}
  BY Ticks
<1> HIDE DEF PD, J, D, s
<1>5. x \in Nat /\ y \in Nat /\ x + PD <= y
  BY <1>1, <1>2, Multiples DEF J
<1>6. (J + 3) * PD = y + 3 * PD
  BY <1>1, <1>2, Multiples
<1> HIDE DEF x, y
<1>7. Tick(e, k) <= e.start + x + Day
  BY <1>1, <1>4, <1>5
<1>8. y + 3 * PD <= from - e.start
  BY <1>2, <1>6
<1> QED BY <1>1, <1>3, <1>4, <1>5, <1>7, <1>8 DEF D

\* A plain rule: the loop finds what of the window its occurrences take.
LEMMA PlainCovers ==
    ASSUME NEW e, Steady(e), e.rule.byDay = <<>>, NEW from \in Int, NEW to \in Int,
           e.rule.count = 0 => Duration(e) <= 3 * (Period(e.rule) * Day),
           EndsByItself(e, from, to), NEW t \in from .. to - 1
    PROVE  (\E s \in Starts(e, from, to) : s <= t /\ t < s + Duration(e))
             <=> (\E s \in Occurrences(e, to) : ~Lost(e, s, to) /\ s <= t /\ t < s + Duration(e))
<1> DEFINE J == JumpCount(e, from)
           D == Duration(e)
           Fits(k) == e.rule.until # Never => Tick(e, k) <= e.rule.until
           Counted(k) == e.rule.count # 0 => k < e.rule.count
           M == MaxOccurrences
           X == DayOf(e.loc, to) + 1
<1>0. J \in Nat /\ D \in Nat /\ M \in Nat \ {0} /\ t \in Int /\ from <= t /\ t < to /\ e.rule.count \in Nat
      /\ e.loc \in Zone /\ -Day < e.loc.shift /\ e.loc.shift < Day
      /\ (e.rule.until = Never \/ e.rule.until \in Int)
  <2>1. e.rule.until \in Int \cup {Never}
    BY DEF Steady, Recurrence
  <2>2. J \in Nat /\ D \in Nat /\ e.rule.count \in Nat /\ e.loc \in Zone
    BY JumpLands, SeriesTypes
  <2> QED BY <2>1, <2>2, MaxOccurrencesAssumption DEF Steady
<1>1. e.rule.freq # ""
  BY DEF Steady, Recurrence
<1>2. \A k \in Nat : /\ Tick(e, k) \in Int /\ Wall(e.loc, Tick(e, k)) = Clock(e, k) /\ Clock(e, k) \in Int
                     /\ \A j \in Nat : j < k => Tick(e, j) < Tick(e, k)
  BY Ticks
<1>3. \A s : s \in Starts(e, from, to) <=>
         \E step \in StepsOf(e, from, to) :
             s = Tick(e, J + step) /\ (e.rule.count # 0 => step < e.rule.count) /\ s \notin e.exdates
  <2>1. \A step \in StepsOf(e, from, to) : step \in 0 .. M - 1
    BY DEF StepsOf
  <2>2. \A step \in StepsOf(e, from, to) : Cursor(e, from)[step] = Tick(e, J + step)
    BY <2>1, StepsMade
  <2>3. Starts(e, from, to) = PlainStarts(e, from, to) \ e.exdates
    BY <1>1 DEF Starts
  <2> HIDE DEF J
  <2> QED BY <2>2, <2>3 DEF PlainStarts
<1>4. \A s : s \in Occurrences(e, to) <=>
         \E k \in Nat : s = Tick(e, k) /\ Clock(e, k) \div Day <= X /\ Counted(k) /\ Fits(k) /\ s \notin e.exdates
  <2> DEFINE RC == RuleClocks(e, to)
             count(c) == e.rule.count # 0 => Cardinality({b \in RC : b < c}) < e.rule.count
             starts == {DateIn(e.loc, c) : c \in {c \in RC : count(c)}}
  <2>1. Occurrences(e, to) = {s \in starts : e.rule.until # Never => s <= e.rule.until} \ e.exdates
    BY <1>1 DEF Occurrences
  <2>2. RC = {Clock(e, k) : k \in {k \in Nat : Clock(e, k) \div Day <= X}}
    BY PlainClocks
  <2>3. \A k \in Nat : Clock(e, k) \div Day <= X => (count(Clock(e, k)) <=> Counted(k))
    BY PlainCount
  <2> HIDE DEF RC, count, X
  <2>4. \A s : s \in starts <=> \E k \in Nat : s = Tick(e, k) /\ Clock(e, k) \div Day <= X /\ Counted(k)
    BY <2>2, <2>3 DEF Tick
  <2> HIDE DEF starts
  <2> QED BY <2>1, <2>4
<1>5. \A s : ~Lost(e, s, to)
  BY DEF Lost
<1>6. ASSUME NEW s \in Starts(e, from, to), s <= t, t < s + D
      PROVE  s \in Occurrences(e, to)
  <2>1. PICK step \in StepsOf(e, from, to) :
             s = Tick(e, J + step) /\ (e.rule.count # 0 => step < e.rule.count) /\ s \notin e.exdates
    BY <1>3
  <2>2. step \in 0 .. M - 1
    BY DEF StepsOf
  <2> DEFINE k == J + step
  <2>3. k \in Nat /\ (e.rule.count # 0 => J = 0)
    <3>1. e.rule.count # 0 => J = 0
      BY JumpLands
    <3> HIDE DEF J
    <3> QED BY <1>0, <2>2, <3>1
  <2>4. Counted(k)
    BY <1>0, <2>1, <2>2, <2>3
  <2>5. Fits(k) /\ s = Tick(e, k)
    BY <2>1, <2>2, StepsMade
  <2> HIDE DEF k, J, D
  <2>6. s \in Int /\ s < to
    BY <1>0, <1>2, <1>6, <2>3, <2>5
  <2>7. DayOf(e.loc, s) <= X
    BY <1>0, <2>6, WithinDays
  <2>8. Clock(e, k) \div Day <= X
    BY <1>2, <2>3, <2>5, <2>7 DEF DayOf
  <2> QED BY <1>4, <2>1, <2>3, <2>4, <2>5, <2>8
<1>7. ASSUME NEW s \in Occurrences(e, to), s <= t, t < s + D
      PROVE  s \in Starts(e, from, to)
  <2>1. PICK k \in Nat : s = Tick(e, k) /\ Counted(k) /\ Fits(k) /\ s \notin e.exdates
    BY <1>4
  <2>2. s \in Int /\ s <= to
    BY <1>0, <1>2, <1>7, <2>1
  <2>3. ~(k < J)
    <3>1. k < J => Tick(e, k) + D <= from
      BY JumpedIsOver
    <3> HIDE DEF J, D
    <3> QED BY <1>0, <1>7, <2>1, <2>2, <3>1
  <2> DEFINE step == k - J
  <2>4. step \in Nat /\ J + step = k
    <3> HIDE DEF J
    <3> QED BY <1>0, <2>3
  <2>5. step < M
    <3> SUFFICES ASSUME ~(step < M) PROVE FALSE
      OBVIOUS
    <3>1. CASE MaxOccurrences - 1 \notin StepsOf(e, from, to)
      <4> DEFINE last == M - 1
                 n == J + last
      <4>1. last \in 0 .. M - 1 /\ n \in Nat /\ n < k
        <5> HIDE DEF J
        <5> QED BY <1>0, <2>4
      <4>2. Tick(e, n) < s /\ Tick(e, n) \in Int
        <5> HIDE DEF n
        <5> QED BY <1>2, <2>1, <4>1
      <4>3. last \in StepsOf(e, from, to) <=>
                Tick(e, n) <= to /\ (e.rule.until # Never => Tick(e, n) <= e.rule.until)
        BY <4>1, StepsMade
      <4> HIDE DEF n, J
      <4> QED BY <1>0, <2>1, <2>2, <3>1, <4>2, <4>3
    <3>2. CASE e.rule.count \in 1 .. MaxOccurrences
      <4>1. J = 0 /\ k < e.rule.count
        <5>1. e.rule.count # 0 => J = 0
          BY JumpLands
        <5> HIDE DEF J
        <5> QED BY <1>0, <2>1, <3>2, <5>1
      <4> HIDE DEF J
      <4> QED BY <1>0, <2>4, <3>2, <4>1
    <3> QED BY <3>1, <3>2 DEF EndsByItself
  <2>6. step \in 0 .. M - 1
    <3> HIDE DEF step
    <3> QED BY <1>0, <2>4, <2>5
  <2> HIDE DEF step
  <2>7. step \in StepsOf(e, from, to)
    BY <2>1, <2>2, <2>4, <2>6, StepsMade
  <2>8. e.rule.count # 0 => step < e.rule.count
    <3>1. e.rule.count # 0 => J = 0
      BY JumpLands
    <3> HIDE DEF J
    <3> QED BY <1>0, <2>1, <2>4, <3>1
  <2> QED BY <1>3, <2>1, <2>4, <2>7, <2>8
<1> QED BY <1>5, <1>6, <1>7

-----------------------------------------------------------------------------
(* Weekly series on named days. *)

\* A weekly rule on named days.
Weekly(e) == Steady(e) /\ e.rule.byDay # <<>> /\ e.rule.freq = "WEEKLY"

\* The Sunday of its k-th week, and the i-th named day of it.
Week(e, k) == SundayOf(e.loc, e.start) + 7 * (k * e.rule.interval)
NamedDay(e, k, i) == Week(e, k) + e.rule.byDay[i]
NamedClock(e, k, i) == NamedDay(e, k, i) * Day + (First(e) % Day)
NamedDate(e, k, i) == DateIn(e.loc, NamedClock(e, k, i))

\* The numbers of a weekly series.
LEMMA WeekTypes ==
    ASSUME NEW e, Weekly(e)
    PROVE  /\ First(e) \in Int /\ First(e) \div 48 \in Int /\ First(e) % 48 \in 0 .. 47 /\ Day = 48
           /\ First(e) = 48 * (First(e) \div 48) + (First(e) % 48)
           /\ (First(e) \div 48) % 7 \in 0 .. 6
           /\ SundayOf(e.loc, e.start) \in Int /\ SundayOf(e.loc, e.start) % 7 = 0
           /\ SundayOf(e.loc, e.start) + ((First(e) \div 48) % 7) = First(e) \div 48
           /\ e.rule.interval \in Nat \ {0} /\ Period(e.rule) = 7 * e.rule.interval
           /\ DayOf(e.loc, e.start) = First(e) \div 48
           /\ \A i \in DOMAIN e.rule.byDay : e.rule.byDay[i] \in 0 .. 6
<1> DEFINE c == First(e)
<1>1. c \in Int /\ Day = 48 /\ e.rule.byDay \in Seq(0 .. 6)
  BY SeriesTypes DEF Weekly
<1>2. DayOf(e.loc, e.start) = c \div 48
  BY <1>1 DEF DayOf, First
<1>3. e.rule.interval \in Nat \ {0}
  BY DEF Weekly, Steady, Recurrence
<1>4. Period(e.rule) = 7 * e.rule.interval
  BY <1>3 DEF Weekly, Period
<1> HIDE DEF c
<1>5. c \div 48 \in Int /\ c % 48 \in 0 .. 47 /\ c = 48 * (c \div 48) + (c % 48)
  BY <1>1
<1> DEFINE d == c \div 48
<1>6. SundayOf(e.loc, e.start) = d - (d % 7)
  BY <1>2 DEF SundayOf
<1>7. d \in Int
  BY <1>5
<1> HIDE DEF d
<1>8. d - (d % 7) \in Int /\ (d - (d % 7)) % 7 = 0 /\ d % 7 \in 0 .. 6 /\ (d - (d % 7)) + (d % 7) = d
  BY <1>7
<1>9. \A i \in DOMAIN e.rule.byDay : e.rule.byDay[i] \in 0 .. 6
  BY <1>1
<1> QED BY <1>1, <1>2, <1>3, <1>4, <1>5, <1>6, <1>8, <1>9 DEF c, d

\* The weeks of a series, and its own weekday in each.
LEMMA Weeks ==
    ASSUME NEW e, Weekly(e), NEW k \in Nat
    PROVE  /\ Week(e, k) \in Int /\ Week(e, k) % 7 = 0
           /\ Week(e, k) >= SundayOf(e.loc, e.start)
           /\ \A j \in Nat : j < k => Week(e, j) + 7 <= Week(e, k)
           /\ k > 0 => Week(e, k) >= SundayOf(e.loc, e.start) + 7
           /\ Clock(e, k) = (Week(e, k) + ((First(e) \div 48) % 7)) * 48 + (First(e) % 48)
           /\ SundayOf(e.loc, Tick(e, k)) = Week(e, k)
<1> DEFINE I == e.rule.interval
           v == k * I
           S == SundayOf(e.loc, e.start)
           c == First(e)
           d == c \div 48
           h == c % 48
           w == d % 7
<1>1. c \in Int /\ d \in Int /\ h \in 0 .. 47 /\ c = 48 * d + h /\ w \in 0 .. 6 /\ S \in Int /\ S % 7 = 0
      /\ S + w = d /\ I \in Nat \ {0} /\ Period(e.rule) = 7 * I /\ Day = 48
  BY WeekTypes
<1>2. v \in Nat /\ \A j \in Nat : j < k => j * I \in Nat /\ j * I + I <= v
  <2> HIDE DEF I
  <2> QED BY <1>1, Multiples
<1>3. \A j : Week(e, j) = S + 7 * (j * I)
  BY DEF Week
<1>4. Clock(e, k) = c + 7 * 48 * v
  <2>1. Clock(e, k) = c + k * (Period(e.rule) * Day)
    BY DEF Clock
  <2>2. k * ((7 * I) * 48) = 7 * 48 * v
    BY <1>1
  <2> QED BY <1>1, <2>1, <2>2
<1>5. k > 0 => v >= 1
  <2> HIDE DEF I
  <2>1. k > 0 => 0 * I + I <= v
    BY <1>2
  <2>2. 0 * I = 0
    BY <1>1
  <2> HIDE DEF v
  <2> QED BY <1>1, <1>2, <2>1, <2>2
<1>6. \A j \in Nat : j < k => Week(e, j) + 7 <= Week(e, k)
  <2> SUFFICES ASSUME NEW j \in Nat, j < k PROVE Week(e, j) + 7 <= Week(e, k)
    OBVIOUS
  <2> DEFINE u == j * I
  <2>1. u \in Nat /\ u + I <= v /\ Week(e, j) = S + 7 * u /\ Week(e, k) = S + 7 * v
    BY <1>2, <1>3
  <2> HIDE DEF u, v, I, S
  <2> QED BY <1>1, <1>2, <2>1
<1>7. Week(e, k) = S + 7 * v
  BY <1>3
<1>8. Wall(e.loc, Tick(e, k)) = Clock(e, k)
  BY Ticks DEF Weekly
<1> HIDE DEF v, I, S, c, d, h, w
<1>9. Week(e, k) \in Int /\ Week(e, k) % 7 = 0 /\ Week(e, k) >= S /\ (k > 0 => Week(e, k) >= S + 7)
  BY <1>1, <1>2, <1>5, <1>7
<1>10. Clock(e, k) = (Week(e, k) + w) * 48 + h
  BY <1>1, <1>2, <1>4, <1>7
<1>11. SundayOf(e.loc, Tick(e, k)) = Week(e, k)
  <2>1. DayOf(e.loc, Tick(e, k)) = Week(e, k) + w
    <3> DEFINE x == Week(e, k) + w
    <3>1. x \in Int /\ Wall(e.loc, Tick(e, k)) = 48 * x + h
      BY <1>1, <1>8, <1>9, <1>10
    <3> HIDE DEF x
    <3>2. (48 * x + h) \div 48 = x
      BY <1>1, <3>1
    <3> QED BY <1>1, <3>1, <3>2 DEF DayOf, x
  <2>2. (Week(e, k) + w) % 7 = w
    BY <1>1, <1>9
  <2> QED BY <1>1, <1>9, <2>1, <2>2 DEF SundayOf
<1> QED BY <1>6, <1>9, <1>10, <1>11 DEF S, d, w, h, c

\* The clocks of the named days.
LEMMA NamedClocks ==
    ASSUME NEW e, Weekly(e), NEW k \in Nat, NEW i \in DOMAIN e.rule.byDay
    PROVE  /\ NamedDay(e, k, i) \in Int /\ NamedClock(e, k, i) \in Int /\ NamedDate(e, k, i) \in Int
           /\ e.rule.byDay[i] \in 0 .. 6
           /\ Week(e, k) <= NamedDay(e, k, i) /\ NamedDay(e, k, i) <= Week(e, k) + 6
           /\ NamedDay(e, k, i) % 7 = e.rule.byDay[i]
           /\ NamedClock(e, k, i) \div 48 = NamedDay(e, k, i)
           /\ NamedClock(e, k, i) = NamedDay(e, k, i) * 48 + (First(e) % 48)
           /\ NamedClock(e, k, i) >= First(e) =>
                 /\ Readings(e.loc, NamedClock(e, k, i)) # {}
                 /\ Wall(e.loc, NamedDate(e, k, i)) = NamedClock(e, k, i)
           /\ NamedClock(e, k, i) >= First(e) <=> NamedDate(e, k, i) >= e.start
<1> DEFINE W == Week(e, k)
           b == e.rule.byDay[i]
           n == NamedDay(e, k, i)
           c == First(e)
           d == c \div 48
           h == c % 48
           m == NamedClock(e, k, i)
<1>1. c \in Int /\ d \in Int /\ h \in 0 .. 47 /\ c = 48 * d + h /\ b \in 0 .. 6 /\ Day = 48
  BY WeekTypes
<1>2. W \in Int /\ W % 7 = 0 /\ n = W + b /\ m = n * 48 + h
  BY <1>1, Weeks DEF NamedDay, NamedClock
<1>3. e.loc \in Zone /\ -48 < e.loc.shift /\ e.loc.shift < 48 /\ e.start \in Int /\ Steady(e) /\ e.loc.shift \in Int
      /\ e.start = DateIn(e.loc, c) /\ e.rule.byDay # <<>>
  BY <1>1, SeriesTypes DEF Weekly, Steady
<1>0. Since(e) \in Int /\ Since(e) <= c
  BY <1>3, SinceIs
<1> HIDE DEF W, b, n, c, d, h, m
<1>4. n \in Int /\ n % 7 = b /\ W <= n /\ n <= W + 6 /\ m \in Int /\ m \div 48 = n
  BY <1>1, <1>2
<1>5. NamedDate(e, k, i) \in Int
  BY <1>3, <1>4, DateReads DEF NamedDate, m
<1>6. (m - c) % 48 = 0
  BY <1>1, <1>2, <1>4
<1>7. m >= c => Readings(e.loc, m) # {} /\ Wall(e.loc, DateIn(e.loc, m)) = m
  <2>1. m >= c => Readings(e.loc, m) # {}
    <3>1. m >= c => m >= Since(e)
      BY <1>1, <1>4, <1>0
    <3> QED BY <1>1, <1>3, <1>4, <1>6, <3>1, NotSkipped DEF c
  <2> QED BY <1>3, <1>4, <2>1, DateReads
<1>8. Readings(e.loc, c) # {}
  <2>1. (c - c) % 48 = 0 /\ c >= Since(e)
    BY <1>1, <1>0
  <2> QED BY <1>1, <1>3, <2>1, NotSkipped DEF c
<1>9. m >= c <=> DateIn(e.loc, m) >= e.start
  <2>1. CASE m = c
    BY <1>1, <1>3, <2>1
  <2>2. CASE c < m
    <3>1. DateIn(e.loc, c) < DateIn(e.loc, m)
      BY <1>1, <1>3, <1>4, <1>7, <1>8, <2>2, DatesAscend
    <3> QED BY <1>1, <1>3, <1>4, <1>5, <2>2, <3>1 DEF NamedDate, m
  <2>3. CASE m < c
    <3>1. m <= c - 48
      BY <1>1, <1>2, <1>4, <2>3
    <3>2. DateIn(e.loc, c) - DateIn(e.loc, m) \in {c - m, c - m + e.loc.shift, c - m - e.loc.shift}
      BY <1>1, <1>3, <1>4, DatesNear
    <3>3. DateIn(e.loc, m) \in Int
      BY <1>3, <1>4, DateReads
    <3>4. DateIn(e.loc, m) < e.start
      <4> DEFINE u == DateIn(e.loc, m)
                 z == e.loc.shift
                 t == e.start
      <4>1. t - u \in {c - m, c - m + z, c - m - z}
        BY <1>3, <3>2
      <4>2. u \in Int /\ t \in Int /\ z \in Int /\ -48 < z /\ z < 48
        BY <1>3, <3>3
      <4> HIDE DEF u, z, t
      <4>3. u < t
        BY <1>1, <1>4, <3>1, <4>1, <4>2
      <4> QED BY <4>3 DEF u, t
    <3> QED BY <1>1, <1>3, <1>4, <2>3, <3>3, <3>4
  <2> QED BY <1>1, <1>4, <2>1, <2>2, <2>3
<1> QED BY <1>1, <1>2, <1>4, <1>5, <1>7, <1>9 DEF NamedDate, W, b, n, c, h, m

\* The clocks a rule on named days names are those of its weeks.
LEMMA NamedRuleClocks ==
    ASSUME NEW e, Weekly(e), NEW to \in Int
    PROVE  \A c : c \in RuleClocks(e, to) <=>
               \E k \in Nat, i \in DOMAIN e.rule.byDay :
                   /\ c = NamedClock(e, k, i) /\ c >= First(e)
                   /\ NamedDay(e, k, i) <= DayOf(e.loc, to) + 1
<1> DEFINE c0 == First(e)
           d0 == c0 \div 48
           h == c0 % 48
           I == e.rule.interval
           S == SundayOf(e.loc, e.start)
           X == DayOf(e.loc, to) + 1
           named == {e.rule.byDay[i] : i \in DOMAIN e.rule.byDay}
           days == d0 .. X
           on(d) == d % 7 \in named /\ ((d - S) \div 7) % I = 0
           RC == {c \in {d * Day + h : d \in {d \in days : on(d)}} : c >= c0}
<1>1. /\ c0 \in Int /\ d0 \in Int /\ h \in 0 .. 47 /\ c0 = 48 * d0 + h /\ S \in Int /\ S % 7 = 0
      /\ d0 % 7 \in 0 .. 6 /\ S + (d0 % 7) = d0 /\ I \in Nat \ {0} /\ Day = 48
      /\ DayOf(e.loc, e.start) = d0
  BY WeekTypes
<1>2. X \in Int
  <2>1. Wall(e.loc, to) \in Int
    BY SeriesTypes, OffsetsDiffer DEF Weekly
  <2> QED BY <1>1, <2>1 DEF DayOf
<1>3. RuleClocks(e, to) = RC
  <2>1. e.rule.freq # ""
    BY DEF Weekly
  <2>2. named # {}
    <3>1. e.rule.byDay \in Seq(0 .. 6) /\ e.rule.byDay # <<>>
      BY SeriesTypes DEF Weekly
    <3>2. 1 \in DOMAIN e.rule.byDay
      BY <3>1
    <3>3. e.rule.byDay[1] \in named
      BY <3>2
    <3> QED BY <3>3
  <2>3. Wall(e.loc, e.start) = c0 /\ c0 % Day = h
    BY <1>1 DEF First
  <2> QED BY <1>1, <2>1, <2>2, <2>3 DEF RuleClocks
<1>4. \A k \in Nat : Week(e, k) = S + 7 * (k * I) /\ k * I \in Nat
  <2>1. \A k \in Nat : k * I \in Nat
    <3> HIDE DEF I
    <3> QED BY <1>1
  <2> QED BY <2>1 DEF Week
<1>5. \A k \in Nat, i \in DOMAIN e.rule.byDay :
        /\ NamedDay(e, k, i) \in Int /\ NamedDay(e, k, i) % 7 = e.rule.byDay[i]
        /\ NamedDay(e, k, i) = Week(e, k) + e.rule.byDay[i] /\ e.rule.byDay[i] \in 0 .. 6
        /\ NamedClock(e, k, i) = NamedDay(e, k, i) * 48 + h
  BY NamedClocks DEF NamedDay
<1> HIDE DEF c0, d0, h, I, S, X
<1>6. ASSUME NEW c \in RC
      PROVE  \E k \in Nat, i \in DOMAIN e.rule.byDay :
                   c = NamedClock(e, k, i) /\ c >= c0 /\ NamedDay(e, k, i) <= X
  <2>1. PICK d \in days : on(d) /\ c = d * Day + h
    OBVIOUS
  <2>2. PICK i \in DOMAIN e.rule.byDay : e.rule.byDay[i] = d % 7
    BY <2>1
  <2> DEFINE q == (d - S) \div 7
  <2>3. d \in Int /\ d >= d0 /\ d <= X /\ d0 >= S
    BY <1>1, <1>2, <2>1
  <2>4. q \in Nat /\ d = S + 7 * q + (d % 7)
    BY <1>1, <2>3
  <2>5. q % I = 0
    BY <2>1
  <2> HIDE DEF q
  <2>6. PICK k \in Nat : k * I = q
    <3>1. q \div I \in Nat /\ q = I * (q \div I) + 0
      BY <1>1, <2>4, <2>5, Dividing
    <3>2. (q \div I) * I = q
      <4> DEFINE k == q \div I
      <4>1. k \in Nat /\ q = I * k + 0
        BY <3>1
      <4> HIDE DEF k
      <4>2. k * I = q
        BY <1>1, <4>1
      <4> QED BY <4>2 DEF k
    <3> QED BY <3>1, <3>2
  <2>7. NamedDay(e, k, i) = d
    BY <1>1, <1>4, <1>5, <2>2, <2>3, <2>4, <2>6
  <2>8. c = NamedClock(e, k, i)
    BY <1>1, <1>5, <2>1, <2>7
  <2> QED BY <2>3, <2>7, <2>8
<1>7. ASSUME NEW k \in Nat, NEW i \in DOMAIN e.rule.byDay, NEW c,
             c = NamedClock(e, k, i), c >= c0, NamedDay(e, k, i) <= X
      PROVE  c \in RC
  <2> DEFINE d == NamedDay(e, k, i)
             v == k * I
             b == e.rule.byDay[i]
  <2>1. v \in Nat /\ b \in 0 .. 6 /\ d = S + 7 * v + b /\ d % 7 = b /\ d \in Int /\ c = d * 48 + h
    BY <1>1, <1>4, <1>5, <1>7
  <2>2. v % I = 0
    <3>1. v = I * k + 0
      BY <1>1
    <3>2. 0 \in 0 .. I - 1
      BY <1>1
    <3> HIDE DEF v
    <3> QED BY <1>1, <3>1, <3>2, DividedOnce
  <2>3. b \in named
    OBVIOUS
  <2> HIDE DEF d, v, b
  <2>4. (d - S) \div 7 = v
    BY <1>1, <2>1
  <2>5. d >= d0
    BY <1>1, <1>7, <2>1
  <2>6. d \in days /\ on(d)
    <3>1. d <= X
      BY <1>7 DEF d
    <3> HIDE DEF named
    <3> QED BY <1>1, <1>2, <2>1, <2>2, <2>3, <2>4, <2>5, <3>1
  <2> HIDE DEF days, on
  <2> QED BY <1>1, <1>7, <2>1, <2>6
<1> HIDE DEF RC
<1> QED BY <1>3, <1>6, <1>7 DEF c0, X

\* The day that decides whether a named one is lost is the step's own.
LEMMA OwnDay ==
    ASSUME NEW e, Weekly(e), NEW k \in Nat, NEW i \in DOMAIN e.rule.byDay,
           NamedClock(e, k, i) >= First(e), NEW to
    PROVE  /\ SeriesDay(e, NamedDate(e, k, i)) = Tick(e, k)
           /\ Lost(e, NamedDate(e, k, i), to) <=>
                 Tick(e, k) > to \/ (e.rule.until # Never /\ Tick(e, k) > e.rule.until)
<1> DEFINE W == Week(e, k)
           b == e.rule.byDay[i]
           d0 == First(e) \div 48
           h == First(e) % 48
           s == NamedDate(e, k, i)
           n == NamedDay(e, k, i)
<1>1. /\ W \in Int /\ W % 7 = 0 /\ Clock(e, k) = (W + (d0 % 7)) * 48 + h
      /\ Day = 48 /\ DayOf(e.loc, e.start) = d0
  BY Weeks, WeekTypes
<1>2. /\ b \in 0 .. 6 /\ n = W + b /\ n \in Int
      /\ Wall(e.loc, s) = NamedClock(e, k, i) /\ NamedClock(e, k, i) \div 48 = n
  BY NamedClocks DEF NamedDay
<1>3. DayOf(e.loc, s) = n
  BY <1>1, <1>2 DEF DayOf
<1> HIDE DEF W, b, n
<1>4. SundayOf(e.loc, s) = W
  <2>1. n - (n % 7) = W
    BY <1>1, <1>2
  <2> QED BY <1>3, <2>1 DEF SundayOf
<1>5. Wall(e.loc, e.start) % Day = h
  BY <1>1 DEF First
<1> HIDE DEF d0, h, s
<1>6. SeriesDay(e, s) = Tick(e, k)
  BY <1>1, <1>4, <1>5 DEF SeriesDay, Tick
<1> QED BY <1>6 DEF Lost, Weekly, s

\* Going back to Sunday and on to the i-th named day comes out on that day: both
\* clocks on the way were shown.
LEMMA NamedOnWeek ==
    ASSUME NEW e, Weekly(e), NEW k \in Nat, NEW i \in DOMAIN e.rule.byDay
    PROVE  Named(e, Tick(e, k), i) = NamedDate(e, k, i)
<1> DEFINE W == Week(e, k)
           b == e.rule.byDay[i]
           c == First(e)
           d == c \div 48
           h == c % 48
           w == d % 7
           sunday == W * 48 + h
           m == NamedClock(e, k, i)
<1>1. /\ c \in Int /\ d \in Int /\ h \in 0 .. 47 /\ c = 48 * d + h /\ w \in 0 .. 6 /\ Day = 48
      /\ SundayOf(e.loc, e.start) \in Int /\ SundayOf(e.loc, e.start) + w = d
  BY WeekTypes
<1>2. /\ W \in Int /\ W >= SundayOf(e.loc, e.start) /\ Clock(e, k) = (W + w) * 48 + h
      /\ SundayOf(e.loc, Tick(e, k)) = W /\ W % 7 = 0
  BY Weeks
<1>3. b \in 0 .. 6 /\ m = (W + b) * 48 + h
  BY NamedClocks DEF NamedDay
<1>4. /\ Steady(e) /\ e.loc \in Zone /\ e.rule.byDay # <<>>
      /\ Since(e) = c - w * 48
  BY SeriesTypes, SinceIs DEF Weekly
<1>5. Wall(e.loc, Tick(e, k)) = Clock(e, k)
  BY Ticks, <1>4
<1> HIDE DEF W, b, c, d, h, w, m
<1>6. DayOf(e.loc, Tick(e, k)) % 7 = w
  <2> DEFINE x == W + w
  <2>1. x \in Int /\ Wall(e.loc, Tick(e, k)) = 48 * x + h
    BY <1>1, <1>2, <1>5
  <2>2. x % 7 = w
    BY <1>1, <1>2
  <2> HIDE DEF x
  <2>3. (48 * x + h) \div 48 = x
    BY <1>1, <2>1
  <2> QED BY <1>1, <2>1, <2>2, <2>3 DEF DayOf
<1>7. WeekStart(e.loc, Tick(e, k)) = DateIn(e.loc, sunday)
  <2>1. (W + w) * 48 + h + (-w) * 48 = sunday
    BY <1>1, <1>2
  <2> QED BY <1>1, <1>2, <1>5, <1>6, <2>1 DEF WeekStart, AddDays
<1>8. Readings(e.loc, sunday) # {} /\ sunday \in Int
  <2>1. sunday \in Int /\ sunday >= c - w * 48 /\ (sunday - c) % 48 = 0
    BY <1>1, <1>2
  <2> HIDE DEF sunday
  <2> QED BY <1>1, <1>4, <2>1, NotSkipped DEF c
<1>9. Wall(e.loc, DateIn(e.loc, sunday)) = sunday
  BY <1>4, <1>8, DateReads
<1>10. AddDays(e.loc, DateIn(e.loc, sunday), b) = DateIn(e.loc, m)
  <2>1. sunday + b * 48 = m
    BY <1>1, <1>2, <1>3
  <2> QED BY <1>1, <1>9, <2>1 DEF AddDays
<1>11. m \in Int /\ m >= c - w * 48 /\ (m - c) % 48 = 0 /\ m \div 48 = W + b
  <2>1. m \in Int /\ m >= c - w * 48 /\ (m - c) % 48 = 0
    BY <1>1, <1>2, <1>3
  <2> DEFINE x == W + b
  <2>2. x \in Int /\ m = 48 * x + h
    BY <1>1, <1>2, <1>3
  <2> HIDE DEF x
  <2>3. m \div 48 = x
    BY <1>1, <2>2
  <2> QED BY <2>1, <2>3 DEF x
<1>12. Wall(e.loc, DateIn(e.loc, m)) = m
  <2>1. Readings(e.loc, m) # {}
    BY <1>1, <1>4, <1>11, NotSkipped DEF c
  <2> QED BY <1>4, <1>11, <2>1, DateReads
<1>13. Named(e, Tick(e, k), i) = DateIn(e.loc, m)
  <2>1. DayOf(e.loc, DateIn(e.loc, m)) = W + b
    BY <1>1, <1>11, <1>12 DEF DayOf
  <2>2. Wall(e.loc, e.start) % Day = h
    BY <1>1 DEF First, h, c
  <2>3. (W + b) * Day + h = m
    BY <1>1, <1>3
  <2> QED BY <1>7, <1>10, <2>1, <2>2, <2>3 DEF Named, b
<1> QED BY <1>13 DEF NamedDate, m

\* What the loop makes of the i-th named day at a step.
LEMMA NamedAt ==
    ASSUME NEW e, Weekly(e), NEW from \in Int, NEW k \in 0 .. MaxOccurrences - 1, NEW i \in DOMAIN e.rule.byDay
    PROVE  /\ Cursor(e, from)[k] = Tick(e, k)
           /\ Named(e, Cursor(e, from)[k], i) = NamedDate(e, k, i)
<1>1. JumpCount(e, from) = 0
  BY JumpLands DEF Weekly
<1>2. k \in Nat /\ 0 + k = k
  BY MaxOccurrencesAssumption
<1>3. Cursor(e, from)[k] = Tick(e, k)
  BY <1>1, <1>2, StepsMade DEF Weekly
<1>4. Named(e, Tick(e, k), i) = NamedDate(e, k, i)
  BY <1>2, NamedOnWeek
<1> QED BY <1>3, <1>4

\* The order of the loop is that of the clocks, when the days are named in order.
Sooner(c, d) == c[1] < d[1] \/ (c[1] = d[1] /\ c[2] < d[2])

LEMMA NamedOrder ==
    ASSUME NEW e, Weekly(e), InOrder(e.rule.byDay),
           NEW j \in Nat, NEW k \in Nat, NEW i \in DOMAIN e.rule.byDay, NEW l \in DOMAIN e.rule.byDay
    PROVE  /\ NamedDay(e, j, i) < NamedDay(e, k, l) <=> j < k \/ (j = k /\ i < l)
           /\ NamedClock(e, j, i) < NamedClock(e, k, l) <=> j < k \/ (j = k /\ i < l)
           /\ NamedClock(e, j, i) = NamedClock(e, k, l) => j = k /\ i = l
<1> DEFINE b == e.rule.byDay[i]
           c == e.rule.byDay[l]
           V == Week(e, j)
           W == Week(e, k)
           x == NamedDay(e, j, i)
           y == NamedDay(e, k, l)
           h == First(e) % 48
           m == NamedClock(e, j, i)
           n == NamedClock(e, k, l)
<1>1. i \in Int /\ l \in Int
  <2>1. e.rule.byDay \in Seq(0 .. 6)
    BY SeriesTypes DEF Weekly
  <2>2. DOMAIN e.rule.byDay = 1 .. Len(e.rule.byDay)
    BY <2>1
  <2> QED BY <2>2
<1>2. b \in 0 .. 6 /\ c \in 0 .. 6 /\ (i < l => b < c) /\ (l < i => c < b)
  BY <1>1, NamedClocks DEF InOrder
<1>3. V \in Int /\ W \in Int /\ (j < k => V + 7 <= W) /\ (k < j => W + 7 <= V) /\ (j = k => V = W)
  BY Weeks
<1>4. x = V + b /\ y = W + c
  BY DEF NamedDay
<1>5. m = x * 48 + h /\ n = y * 48 + h /\ h \in 0 .. 47
  BY NamedClocks, WeekTypes
<1> HIDE DEF b, c, V, W, x, y, h, m, n
<1>6. x \in Int /\ y \in Int /\ h \in Int
  BY <1>2, <1>3, <1>4, <1>5
<1>7. /\ x < y <=> j < k \/ (j = k /\ i < l)
      /\ x = y => j = k /\ i = l
  <2>1. CASE j < k
    BY <1>2, <1>3, <1>4, <2>1
  <2>2. CASE k < j
    BY <1>2, <1>3, <1>4, <2>2
  <2>3. CASE j = k
    <3>1. CASE i < l
      BY <1>1, <1>2, <1>3, <1>4, <2>3, <3>1
    <3>2. CASE l < i
      BY <1>1, <1>2, <1>3, <1>4, <2>3, <3>2
    <3>3. CASE i = l
      <4>1. b = c
        BY <3>3 DEF b, c
      <4> QED BY <1>1, <1>2, <1>3, <1>4, <2>3, <3>3, <4>1
    <3> QED BY <1>1, <3>1, <3>2, <3>3
  <2> QED BY <2>1, <2>2, <2>3
<1>8. (m < n <=> x < y) /\ (m = n => x = y)
  BY <1>5, <1>6
<1> QED BY <1>7, <1>8 DEF x, y, m, n

\* The named days the loop emits, and the clocks of the rule before one.
EmittedDays(e, from, to) ==
    {c \in StepsOf(e, from, to) \X DOMAIN e.rule.byDay :
        /\ NamedDate(e, c[1], c[2]) >= e.start
        /\ e.rule.until # Never => NamedDate(e, c[1], c[2]) <= e.rule.until}
Smaller(e, to, k, i) == {b \in RuleClocks(e, to) : b < NamedClock(e, k, i)}

LEMMA SmallerFinite ==
    ASSUME NEW e, Weekly(e), NEW to \in Int, NEW k \in Nat, NEW i \in DOMAIN e.rule.byDay
    PROVE  IsFiniteSet(Smaller(e, to, k, i))
<1> DEFINE m == NamedClock(e, k, i)
           S == Smaller(e, to, k, i)
           c == First(e)
<1>1. m \in Int /\ c \in Int
  BY NamedClocks, WeekTypes
<1>2. \A b \in S : b \in Int /\ c <= b /\ b < m
  <2> SUFFICES ASSUME NEW b \in S PROVE b \in Int /\ c <= b /\ b < m
    OBVIOUS
  <2>1. b \in RuleClocks(e, to) /\ b < m
    BY DEF Smaller
  <2>2. PICK j \in Nat, l \in DOMAIN e.rule.byDay : b = NamedClock(e, j, l) /\ b >= c
    BY <2>1, NamedRuleClocks
  <2> QED BY <1>1, <2>1, <2>2, NamedClocks
<1> HIDE DEF m, S, c
<1>3. S \in SUBSET (c .. m - 1)
  BY <1>1, <1>2
<1>4. IsFiniteSet(c .. m - 1)
  BY <1>1, FS_Interval
<1>5. IsFiniteSet(S)
  BY <1>3, <1>4, FS_Subset
<1> QED BY <1>5 DEF S

\* COUNT counts the same days in the loop and in the rule.
LEMMA NamedCount ==
    ASSUME NEW e, Weekly(e), InOrder(e.rule.byDay), NEW from \in Int, NEW to \in Int,
           NEW k \in StepsOf(e, from, to), NEW i \in DOMAIN e.rule.byDay,
           NamedClock(e, k, i) >= First(e),
           e.rule.until # Never => NamedDate(e, k, i) <= e.rule.until,
           NamedDay(e, k, i) <= DayOf(e.loc, to) + 1
    PROVE  Cardinality({d \in EmittedDays(e, from, to) : Sooner(d, <<k, i>>)}) = Cardinality(Smaller(e, to, k, i))
<1> DEFINE before == {d \in EmittedDays(e, from, to) : Sooner(d, <<k, i>>)}
           T == Smaller(e, to, k, i)
           g == [d \in before |-> NamedClock(e, d[1], d[2])]
           X == DayOf(e.loc, to) + 1
           DD == DOMAIN e.rule.byDay
           c == First(e)
           m == NamedClock(e, k, i)
           M == MaxOccurrences
<1>1. k \in 0 .. M - 1 /\ k \in Nat /\ M \in Nat \ {0}
  BY MaxOccurrencesAssumption DEF StepsOf
<1>2. X \in Int /\ c \in Int /\ e.start \in Int /\ e.rule.until \in Int \cup {Never}
      /\ e.loc \in Zone /\ JumpCount(e, from) = 0
  <2>1. Wall(e.loc, to) \in Int /\ Day = 48
    BY SeriesTypes, OffsetsDiffer DEF Weekly
  <2>2. X \in Int
    BY <2>1 DEF DayOf
  <2>3. e.rule.until \in Int \cup {Never}
    BY DEF Weekly, Steady, Recurrence
  <2>4. JumpCount(e, from) = 0
    BY JumpLands DEF Weekly
  <2> QED BY <2>2, <2>3, <2>4, SeriesTypes DEF Weekly
<1>3. \A d : d \in before <=>
        /\ d \in StepsOf(e, from, to) \X DD /\ d[1] \in Nat /\ d[2] \in DD /\ d = <<d[1], d[2]>>
        /\ NamedDate(e, d[1], d[2]) >= e.start
        /\ e.rule.until # Never => NamedDate(e, d[1], d[2]) <= e.rule.until
        /\ d[1] < k \/ (d[1] = k /\ d[2] < i)
  <2>1. \A d \in StepsOf(e, from, to) \X DD : d[1] \in Nat /\ d[2] \in DD /\ d = <<d[1], d[2]>>
    BY <1>1 DEF StepsOf
  <2> QED BY <2>1 DEF EmittedDays, Sooner
<1>4. \A b : b \in T <=> b < m /\ \E j \in Nat, l \in DD :
                             b = NamedClock(e, j, l) /\ b >= c /\ NamedDay(e, j, l) <= X
  BY NamedRuleClocks DEF Smaller
<1>5. ASSUME NEW j \in Nat, NEW l \in DD
      PROVE  /\ NamedClock(e, j, l) \in Int /\ NamedDay(e, j, l) \in Int /\ NamedDate(e, j, l) \in Int
             /\ NamedClock(e, j, l) >= c <=> NamedDate(e, j, l) >= e.start
             /\ NamedClock(e, j, l) >= c => Readings(e.loc, NamedClock(e, j, l)) # {}
             /\ NamedDay(e, j, l) < NamedDay(e, k, i) <=> j < k \/ (j = k /\ l < i)
             /\ NamedClock(e, j, l) < m <=> j < k \/ (j = k /\ l < i)
  BY <1>1, NamedClocks, NamedOrder
<1>6. NamedDay(e, k, i) \in Int /\ m \in Int /\ NamedDate(e, k, i) \in Int /\ NamedDay(e, k, i) <= X
      /\ m >= c /\ (e.rule.until # Never => NamedDate(e, k, i) <= e.rule.until)
      /\ NamedDate(e, k, i) = DateIn(e.loc, m) /\ Readings(e.loc, m) # {}
  BY <1>1, <1>5 DEF NamedDate
<1> HIDE DEF X, DD, before, T, m, c
<1>7. \A d \in before : NamedClock(e, d[1], d[2]) \in T
  <2> SUFFICES ASSUME NEW d \in before PROVE NamedClock(e, d[1], d[2]) \in T
    OBVIOUS
  <2> DEFINE j == d[1]
             l == d[2]
  <2>1. /\ j \in Nat /\ l \in DD /\ NamedDate(e, j, l) >= e.start
        /\ j < k \/ (j = k /\ l < i)
    BY <1>3
  <2> HIDE DEF j, l
  <2>2. NamedClock(e, j, l) >= c /\ NamedClock(e, j, l) < m /\ NamedDay(e, j, l) <= X
    BY <1>2, <1>5, <1>6, <2>1
  <2>3. NamedClock(e, j, l) \in T
    BY <1>4, <2>1, <2>2
  <2> QED BY <2>3 DEF j, l
<1>8. \A d, f \in before : NamedClock(e, d[1], d[2]) = NamedClock(e, f[1], f[2]) => d = f
  <2> SUFFICES ASSUME NEW d \in before, NEW f \in before,
                      NamedClock(e, d[1], d[2]) = NamedClock(e, f[1], f[2])
               PROVE  d = f
    OBVIOUS
  <2>1. /\ d[1] \in Nat /\ d[2] \in DD /\ d = <<d[1], d[2]>>
        /\ f[1] \in Nat /\ f[2] \in DD /\ f = <<f[1], f[2]>>
    BY <1>3
  <2>2. d[1] = f[1] /\ d[2] = f[2]
    BY <2>1, NamedOrder DEF DD
  <2> QED BY <2>1, <2>2
<1>9. ASSUME NEW b \in T
      PROVE  \E d \in before : NamedClock(e, d[1], d[2]) = b
  <2>1. PICK j \in Nat, l \in DD : b = NamedClock(e, j, l) /\ b >= c /\ b < m
    BY <1>4
  <2>2. j < k \/ (j = k /\ l < i)
    BY <1>5, <2>1
  <2>3. j \in 0 .. M - 1
    BY <1>1, <2>2
  <2>4. j \in StepsOf(e, from, to)
    <3>1. \A n \in 0 .. M - 1 :
             n \in StepsOf(e, from, to) <=>
                Tick(e, n) <= to /\ (e.rule.until # Never => Tick(e, n) <= e.rule.until)
      <4> SUFFICES ASSUME NEW n \in 0 .. M - 1
                   PROVE  n \in StepsOf(e, from, to) <=>
                             Tick(e, n) <= to /\ (e.rule.until # Never => Tick(e, n) <= e.rule.until)
        OBVIOUS
      <4>1. 0 + n = n
        OBVIOUS
      <4> QED BY <1>2, <4>1, StepsMade DEF Weekly
    <3>2. Tick(e, j) \in Int /\ Tick(e, k) \in Int /\ (j = k \/ Tick(e, j) < Tick(e, k))
      BY <1>1, <2>2, Ticks DEF Weekly
    <3>3. Tick(e, k) <= to /\ (e.rule.until # Never => Tick(e, k) <= e.rule.until)
      BY <1>1, <3>1
    <3>4. Tick(e, j) <= to /\ (e.rule.until # Never => Tick(e, j) <= e.rule.until)
      BY <1>2, <3>2, <3>3
    <3> QED BY <2>3, <3>1, <3>4
  <2>5. NamedDate(e, j, l) >= e.start
    BY <1>5, <2>1
  <2>6. NamedDate(e, j, l) < NamedDate(e, k, i)
    BY <1>2, <1>5, <1>6, <2>1, DatesAscend DEF NamedDate
  <2>7. e.rule.until # Never => NamedDate(e, j, l) <= e.rule.until
    BY <1>2, <1>5, <1>6, <2>6
  <2> DEFINE d == <<j, l>>
  <2>8. d \in StepsOf(e, from, to) \X DD /\ d[1] = j /\ d[2] = l
    BY <2>4
  <2> HIDE DEF d
  <2>9. d \in before
    BY <1>3, <2>2, <2>5, <2>7, <2>8 DEF d
  <2> QED BY <2>1, <2>8, <2>9
<1>10. IsFiniteSet(T)
  BY <1>1, SmallerFinite DEF T
<1>11. g \in [before -> T]
  BY <1>7
<1>12. \A d \in before : g[d] = NamedClock(e, d[1], d[2])
  OBVIOUS
<1> HIDE DEF g
<1>13. g \in Injection(before, T)
  BY <1>8, <1>11, <1>12 DEF Injection, IsInjective
<1>14. g \in Surjection(before, T)
  BY <1>9, <1>11, <1>12 DEF Surjection
<1>15. Cardinality(before) = Cardinality(T)
  BY <1>10, <1>13, <1>14, FS_Injection
<1> QED BY <1>15 DEF before, T

\* Every week but the first has a named day: what a later step emits is late.
LEMMA NamedLate ==
    ASSUME NEW e, Weekly(e), NEW to \in Int, NEW k \in Nat \ {0},
           NEW i \in DOMAIN e.rule.byDay, NamedDay(e, k, i) <= DayOf(e.loc, to) + 1
    PROVE  Cardinality(Smaller(e, to, k, i)) >= k - 1
<1> DEFINE T == Smaller(e, to, k, i)
           S == 1 .. k - 1
           g == [j \in S |-> NamedClock(e, j, 1)]
           X == DayOf(e.loc, to) + 1
           c == First(e)
           h == c % 48
           m == NamedClock(e, k, i)
           DD == DOMAIN e.rule.byDay
<1>1. 1 \in DD
  <2>1. e.rule.byDay \in Seq(0 .. 6) /\ e.rule.byDay # <<>>
    BY SeriesTypes DEF Weekly
  <2> QED BY <2>1
<1>2. X \in Int /\ c \in Int /\ h \in 0 .. 47
  <2>1. Wall(e.loc, to) \in Int /\ Day = 48
    BY SeriesTypes, OffsetsDiffer DEF Weekly
  <2> QED BY <2>1, WeekTypes DEF DayOf
<1>3. \A b : b \in T <=> b < m /\ \E j \in Nat, l \in DD :
                             b = NamedClock(e, j, l) /\ b >= c /\ NamedDay(e, j, l) <= X
  BY NamedRuleClocks DEF Smaller
<1>4. ASSUME NEW j \in Nat, j < k, NEW l \in DD
      PROVE  NamedDay(e, j, l) < NamedDay(e, k, i) /\ NamedClock(e, j, l) < m /\ NamedDay(e, j, l) <= X
  <2> DEFINE x == NamedDay(e, j, l)
             y == NamedDay(e, k, i)
  <2>1. /\ x \in Int /\ x <= Week(e, j) + 6 /\ NamedClock(e, j, l) = x * 48 + h
        /\ y \in Int /\ Week(e, k) <= y /\ m = y * 48 + h
        /\ Week(e, j) \in Int /\ Week(e, k) \in Int
    BY NamedClocks, Weeks
  <2>2. Week(e, j) + 7 <= Week(e, k)
    BY <1>4, Weeks
  <2>3. y <= X
    OBVIOUS
  <2> HIDE DEF x, y, h, m, X
  <2>4. x < y
    BY <2>1, <2>2
  <2>5. x * 48 + h < y * 48 + h /\ x <= X
    BY <1>2, <2>1, <2>3, <2>4
  <2> QED BY <2>1, <2>4, <2>5 DEF x, y
<1>5. ASSUME NEW j \in S PROVE NamedClock(e, j, 1) \in T
  <2>1. j \in Nat /\ j > 0 /\ j < k
    OBVIOUS
  <2>2. NamedClock(e, j, 1) >= c
    <3> DEFINE x == NamedDay(e, j, 1)
               d == c \div 48
               Sun == SundayOf(e.loc, e.start)
    <3>1. /\ x \in Int /\ Week(e, j) <= x /\ NamedClock(e, j, 1) = x * 48 + h
          /\ Week(e, j) >= Sun + 7 /\ Week(e, j) \in Int
      BY <1>1, <2>1, NamedClocks, Weeks
    <3>2. d \in Int /\ c = 48 * d + h /\ Sun \in Int /\ d % 7 \in 0 .. 6 /\ Sun + (d % 7) = d
      BY WeekTypes
    <3> HIDE DEF x, d, h, Sun, c
    <3> QED BY <1>2, <3>1, <3>2
  <2> HIDE DEF T, m, X
  <2> QED BY <1>1, <1>3, <1>4, <2>1, <2>2
<1>6. ASSUME NEW j \in S, NEW l \in S, j < l PROVE NamedClock(e, j, 1) # NamedClock(e, l, 1)
  <2> DEFINE x == NamedDay(e, j, 1)
             y == NamedDay(e, l, 1)
             V == Week(e, j)
             W == Week(e, l)
  <2>1. j \in Nat /\ l \in Nat /\ 1 \in DD
    BY <1>1
  <2>2. /\ x \in Int /\ x <= V + 6 /\ NamedClock(e, j, 1) = x * 48 + h
        /\ y \in Int /\ W <= y /\ NamedClock(e, l, 1) = y * 48 + h
        /\ V \in Int /\ W \in Int
    BY <2>1, NamedClocks, Weeks
  <2>3. V + 7 <= W
    BY <1>6, <2>1, Weeks
  <2> HIDE DEF x, y, V, W, h
  <2>4. x < y
    BY <2>2, <2>3
  <2> QED BY <1>2, <2>2, <2>4
<1>7. IsFiniteSet(T)
  BY SmallerFinite
<1> HIDE DEF T
<1>8. g \in [S -> T]
  BY <1>5
<1>9. \A j, l \in S : g[j] = g[l] => j = l
  <2> SUFFICES ASSUME NEW j \in S, NEW l \in S, j # l PROVE g[j] # g[l]
    OBVIOUS
  <2>1. j < l \/ l < j
    OBVIOUS
  <2>2. g[j] = NamedClock(e, j, 1) /\ g[l] = NamedClock(e, l, 1)
    OBVIOUS
  <2> HIDE DEF g, S
  <2> QED BY <1>6, <2>1, <2>2
<1> HIDE DEF g
<1>10. g \in Injection(S, T)
  BY <1>8, <1>9 DEF Injection, IsInjective
<1>11. Cardinality(S) <= Cardinality(T)
  BY <1>7, <1>10, FS_Injection
<1>12. Cardinality(S) = k - 1
  <2>1. 1 \in Int /\ k - 1 \in Int
    OBVIOUS
  <2>2. Cardinality(S) = IF 1 > k - 1 THEN 0 ELSE (k - 1) - 1 + 1
    BY <2>1, FS_Interval
  <2> QED BY <2>1, <2>2
<1>13. Cardinality(T) \in Nat
  BY <1>7, FS_CardinalityType
<1> QED BY <1>11, <1>12, <1>13 DEF T

\* Named days: the loop finds what of the window its occurrences take, but for
\* the lost ones.
LEMMA NamedCovers ==
    ASSUME NEW e, Weekly(e), e.rule.count = 0 \/ InOrder(e.rule.byDay),
           NEW from \in Int, NEW to \in Int,
           EndsByItself(e, from, to), NEW t \in from .. to - 1
    PROVE  (\E s \in Starts(e, from, to) : s <= t /\ t < s + Duration(e))
             <=> (\E s \in Occurrences(e, to) : ~Lost(e, s, to) /\ s <= t /\ t < s + Duration(e))
<1> DEFINE D == Duration(e)
           M == MaxOccurrences
           X == DayOf(e.loc, to) + 1
           DD == DOMAIN e.rule.byDay
           All == EmittedDays(e, from, to)
           Earlier(c) == {d \in All : Sooner(d, c)}
           Until(s) == e.rule.until # Never => s <= e.rule.until
<1>0. D \in Nat /\ M \in Nat \ {0} /\ t \in Int /\ from <= t /\ t < to /\ e.rule.count \in Nat
      /\ e.loc \in Zone /\ -Day < e.loc.shift /\ e.loc.shift < Day /\ e.start \in Int /\ First(e) \in Int
      /\ Day = 48
  BY SeriesTypes, MaxOccurrencesAssumption DEF Weekly, Steady
<1>1. e.rule.freq # "" /\ e.rule.byDay # <<>>
  BY DEF Weekly
<1>2. e.rule.until \in Int \cup {Never}
  BY DEF Weekly, Steady, Recurrence
<1>3. \A k \in 0 .. M - 1 :
        k \in StepsOf(e, from, to) <=> Tick(e, k) <= to /\ Until(Tick(e, k))
  <2> SUFFICES ASSUME NEW k \in 0 .. M - 1
               PROVE  k \in StepsOf(e, from, to) <=> Tick(e, k) <= to /\ Until(Tick(e, k))
    OBVIOUS
  <2>1. JumpCount(e, from) = 0
    BY JumpLands DEF Weekly
  <2>2. 0 + k = k
    OBVIOUS
  <2> QED BY <2>1, <2>2, StepsMade DEF Weekly
<1>4. \A s : s \in Starts(e, from, to) <=>
        \E c \in All : /\ s = NamedDate(e, c[1], c[2]) /\ s \notin e.exdates
                       /\ e.rule.count # 0 => Cardinality(Earlier(c)) < e.rule.count
  <2> DEFINE at(c) == Named(e, Cursor(e, from)[c[1]], c[2])
             all == {c \in StepsOf(e, from, to) \X DD :
                       /\ at(c) >= e.start
                       /\ e.rule.until # Never => at(c) <= e.rule.until}
             before(c) == {d \in all : d[1] < c[1] \/ (d[1] = c[1] /\ d[2] < c[2])}
  <2>1. \A c \in StepsOf(e, from, to) \X DD : at(c) = NamedDate(e, c[1], c[2])
    <3>1. \A c \in StepsOf(e, from, to) \X DD : c[1] \in 0 .. M - 1 /\ c[2] \in DD
      BY DEF StepsOf
    <3> QED BY <3>1, NamedAt
  <2> HIDE DEF at
  <2>2. all = All
    BY <2>1 DEF EmittedDays
  <2>3. \A c : before(c) = Earlier(c)
    BY <2>2 DEF Sooner
  <2>4. \A c \in All : at(c) = NamedDate(e, c[1], c[2])
    BY <2>1 DEF EmittedDays
  <2>5. NamedStarts(e, from, to) = {at(c) : c \in {c \in all : e.rule.count # 0 => Cardinality(before(c)) < e.rule.count}}
    BY DEF NamedStarts, at
  <2>6. Starts(e, from, to) = NamedStarts(e, from, to) \ e.exdates
    BY <1>1 DEF Starts
  <2> HIDE DEF all, before, All, Earlier
  <2> QED BY <2>2, <2>3, <2>4, <2>5, <2>6
<1>5. \A s : s \in Occurrences(e, to) <=>
        \E k \in Nat, i \in DD :
            /\ s = NamedDate(e, k, i) /\ s \notin e.exdates
            /\ NamedClock(e, k, i) >= First(e) /\ NamedDay(e, k, i) <= X
            /\ e.rule.count # 0 => Cardinality(Smaller(e, to, k, i)) < e.rule.count
            /\ Until(s)
  <2> DEFINE RC == RuleClocks(e, to)
             count(c) == e.rule.count # 0 => Cardinality({b \in RC : b < c}) < e.rule.count
             starts == {DateIn(e.loc, c) : c \in {c \in RC : count(c)}}
  <2>1. Occurrences(e, to) = {s \in starts : Until(s)} \ e.exdates
    BY <1>1 DEF Occurrences
  <2>2. \A c : c \in RC <=> \E k \in Nat, i \in DD :
            c = NamedClock(e, k, i) /\ c >= First(e) /\ NamedDay(e, k, i) <= X
    BY NamedRuleClocks
  <2>3. \A k, i : {b \in RC : b < NamedClock(e, k, i)} = Smaller(e, to, k, i)
    BY DEF Smaller
  <2>4. \A k, i : count(NamedClock(e, k, i)) <=>
            (e.rule.count # 0 => Cardinality(Smaller(e, to, k, i)) < e.rule.count)
    BY <2>3
  <2> HIDE DEF RC, count, X
  <2>5. \A s : s \in starts <=>
            \E k \in Nat, i \in DD :
               /\ s = NamedDate(e, k, i)
               /\ NamedClock(e, k, i) >= First(e) /\ NamedDay(e, k, i) <= X
               /\ e.rule.count # 0 => Cardinality(Smaller(e, to, k, i)) < e.rule.count
    BY <2>2, <2>4 DEF NamedDate
  <2> HIDE DEF starts
  <2> QED BY <2>1, <2>5
<1> HIDE DEF D, X
<1>6. ASSUME NEW s \in Starts(e, from, to), s <= t, t < s + D
      PROVE  s \in Occurrences(e, to) /\ ~Lost(e, s, to)
  <2>1. PICK c \in All : /\ s = NamedDate(e, c[1], c[2]) /\ s \notin e.exdates
                         /\ e.rule.count # 0 => Cardinality(Earlier(c)) < e.rule.count
    BY <1>4
  <2> DEFINE k == c[1]
             i == c[2]
  <2>2. /\ k \in StepsOf(e, from, to) /\ i \in DD /\ c = <<k, i>>
        /\ s >= e.start /\ Until(s)
    BY <2>1 DEF EmittedDays
  <2>3. k \in 0 .. M - 1 /\ k \in Nat
    BY <2>2 DEF StepsOf
  <2> HIDE DEF k, i
  <2>4. s = NamedDate(e, k, i)
    BY <2>1 DEF k, i
  <2>5. /\ NamedClock(e, k, i) >= First(e) /\ s \in Int
        /\ Wall(e.loc, s) = NamedClock(e, k, i)
        /\ NamedClock(e, k, i) \div 48 = NamedDay(e, k, i)
    BY <2>2, <2>3, <2>4, NamedClocks
  <2>6. NamedDay(e, k, i) <= X
    <3>1. s < to
      BY <1>0, <1>6, <2>5
    <3>2. DayOf(e.loc, s) <= X
      BY <1>0, <2>5, <3>1, WithinDays DEF X
    <3> QED BY <1>0, <2>5, <3>2 DEF DayOf
  <2>7. e.rule.count # 0 => Cardinality(Smaller(e, to, k, i)) < e.rule.count
    <3> SUFFICES ASSUME e.rule.count # 0
                 PROVE  Cardinality(Smaller(e, to, k, i)) < e.rule.count
      OBVIOUS
    <3>1. InOrder(e.rule.byDay)
      OBVIOUS
    <3>2. Cardinality(Earlier(<<k, i>>)) = Cardinality(Smaller(e, to, k, i))
      BY <2>2, <2>4, <2>5, <2>6, <3>1, NamedCount DEF X
    <3> QED BY <2>1, <2>2, <3>2
  <2>8. s \in Occurrences(e, to)
    BY <1>5, <2>1, <2>2, <2>3, <2>4, <2>5, <2>6, <2>7
  <2>9. ~Lost(e, s, to)
    <3>1. Tick(e, k) <= to /\ Until(Tick(e, k)) /\ Tick(e, k) \in Int
      BY <1>3, <2>2, <2>3, Ticks DEF Weekly
    <3>2. Lost(e, s, to) <=> Tick(e, k) > to \/ (e.rule.until # Never /\ Tick(e, k) > e.rule.until)
      BY <2>2, <2>3, <2>4, <2>5, OwnDay
    <3> QED BY <1>0, <1>2, <3>1, <3>2
  <2> QED BY <2>8, <2>9
<1>7. ASSUME NEW s \in Occurrences(e, to), ~Lost(e, s, to), s <= t, t < s + D
      PROVE  s \in Starts(e, from, to)
  <2>1. PICK k \in Nat, i \in DD :
            /\ s = NamedDate(e, k, i) /\ s \notin e.exdates
            /\ NamedClock(e, k, i) >= First(e) /\ NamedDay(e, k, i) <= X
            /\ e.rule.count # 0 => Cardinality(Smaller(e, to, k, i)) < e.rule.count
            /\ Until(s)
    BY <1>5
  <2>2. Tick(e, k) \in Int /\ Tick(e, k) <= to /\ Until(Tick(e, k))
    <3>1. Tick(e, k) \in Int
      BY Ticks DEF Weekly
    <3>2. Lost(e, s, to) <=> Tick(e, k) > to \/ (e.rule.until # Never /\ Tick(e, k) > e.rule.until)
      BY <2>1, OwnDay
    <3> QED BY <1>0, <1>2, <1>7, <3>1, <3>2
  <2>3. k < M
    <3> SUFFICES ASSUME k >= M PROVE FALSE
      BY <1>0
    <3>1. CASE MaxOccurrences - 1 \notin StepsOf(e, from, to)
      <4> DEFINE last == M - 1
      <4>1. last \in 0 .. M - 1 /\ last \in Nat /\ last < k
        BY <1>0
      <4>2. Tick(e, last) \in Int /\ Tick(e, last) < Tick(e, k)
        BY <4>1, Ticks DEF Weekly
      <4>3. Tick(e, last) <= to /\ Until(Tick(e, last))
        BY <1>0, <1>2, <2>2, <4>2
      <4> QED BY <1>3, <3>1, <4>1, <4>3
    <3>2. CASE e.rule.count \in 1 .. M - 1
      <4>1. k \in Nat \ {0}
        BY <1>0
      <4>2. Cardinality(Smaller(e, to, k, i)) >= k - 1
        BY <2>1, <4>1, NamedLate DEF X
      <4>3. Cardinality(Smaller(e, to, k, i)) \in Nat
        BY SmallerFinite, FS_CardinalityType
      <4> HIDE DEF Until
      <4> QED BY <1>0, <2>1, <3>2, <4>2, <4>3
    <3> QED BY <1>1, <3>1, <3>2 DEF EndsByItself
  <2>4. k \in StepsOf(e, from, to)
    BY <1>0, <1>3, <2>2, <2>3
  <2>5. s >= e.start
    BY <2>1, NamedClocks
  <2> DEFINE c == <<k, i>>
  <2>6. c \in All /\ s = NamedDate(e, c[1], c[2])
    BY <2>1, <2>4, <2>5 DEF EmittedDays
  <2>7. e.rule.count # 0 => Cardinality(Earlier(c)) < e.rule.count
    <3> SUFFICES ASSUME e.rule.count # 0
                 PROVE  Cardinality(Earlier(c)) < e.rule.count
      OBVIOUS
    <3>1. InOrder(e.rule.byDay)
      OBVIOUS
    <3>2. Cardinality(Earlier(c)) = Cardinality(Smaller(e, to, k, i))
      BY <2>1, <2>4, <3>1, NamedCount DEF X
    <3> QED BY <2>1, <3>2
  <2> HIDE DEF c, All, Earlier
  <2> QED BY <1>4, <2>1, <2>6, <2>7
<1> QED BY <1>6, <1>7 DEF D

-----------------------------------------------------------------------------
(* Calendars. *)

\* What an event starts, its rule names.
LEMMA EventStarts ==
    ASSUME NEW from \in Int, NEW to \in Int, NEW e, Regular(e, from, to), NEW t \in from .. to - 1
    PROVE  (\E s \in Starts(e, from, to) : s <= t /\ t < s + Duration(e))
             <=> (\E s \in Occurrences(e, to) : ~Lost(e, s, to) /\ s <= t /\ t < s + Duration(e))
<1>1. CASE e.rule = None
  <2>1. e.rule.freq = "" /\ e.rule.byDay = <<>> /\ e.rule.count = 0
    <3>1. None.freq = "" /\ None.byDay = <<>> /\ None.count = 0
      BY DEF None
    <3> QED BY <1>1, <3>1
  <2>2. Starts(e, from, to) = {e.start}
    BY <2>1 DEF Starts
  <2>3. \A s : ~Lost(e, s, to)
    BY <2>1 DEF Lost
  <2>4. RuleClocks(e, to) = {First(e)}
    BY <2>1 DEF RuleClocks, First
  <2>5. Occurrences(e, to) = {e.start}
    BY <2>1, <2>4 DEF Occurrences, Regular
  <2> QED BY <2>2, <2>3, <2>5
<1>2. CASE e.rule # None
  <2>1. e.rule \in Recurrence
    BY <1>2 DEF Regular, VEvent
  <2>2. Steady(e) /\ EndsByItself(e, from, to)
    BY <1>2, <2>1 DEF Regular, Steady
  <2>3. CASE e.rule.byDay = <<>>
    <3>1. e.rule.count = 0 => Duration(e) <= 3 * (Period(e.rule) * Day)
      BY <1>2, <2>3 DEF Regular
    <3> QED BY <2>2, <2>3, <3>1, PlainCovers
  <2>4. CASE e.rule.byDay # <<>>
    <3>1. Weekly(e) /\ (e.rule.count = 0 \/ InOrder(e.rule.byDay))
      BY <1>2, <2>2, <2>4 DEF Regular, Weekly
    <3> QED BY <2>2, <3>1, NamedCovers
  <2> QED BY <2>3, <2>4
<1> QED BY <1>1, <1>2

\* An event begins at instants.
LEMMA EventTypes ==
    ASSUME NEW from \in Int, NEW to \in Int, NEW e, Regular(e, from, to)
    PROVE  Duration(e) \in Nat /\ Starts(e, from, to) \subseteq Int
<1>1. Duration(e) \in Nat
  <2>1. /\ e.start \in Int /\ e.dtend \in Int \cup {Never} /\ e.duration \in Int \cup {Never}
        /\ Day = 48
    BY DEF Regular, VEvent, Day, Hour
  <2>2. CASE e.dtend # Never /\ e.dtend > e.start
    BY <2>1, <2>2 DEF Duration
  <2>3. CASE ~(e.dtend # Never /\ e.dtend > e.start)
    BY <2>1, <2>3 DEF Duration
  <2> QED BY <2>2, <2>3
<1>2. CASE e.rule = None
  <2>1. e.rule.freq = ""
    <3>1. None.freq = ""
      BY DEF None
    <3> QED BY <1>2, <3>1
  <2>2. Starts(e, from, to) = {e.start}
    BY <2>1 DEF Starts
  <2> QED BY <1>1, <2>2 DEF Regular, VEvent
<1>3. CASE e.rule # None
  <2>1. e.rule \in Recurrence
    BY <1>3 DEF Regular, VEvent
  <2>2. Steady(e)
    BY <1>3, <2>1 DEF Regular, Steady
  <2>3. e.rule.freq # ""
    BY <2>1 DEF Recurrence
  <2>4. CASE e.rule.byDay = <<>>
    <3>1. \A step \in StepsOf(e, from, to) : Cursor(e, from)[step] \in Int
      <4> SUFFICES ASSUME NEW step \in StepsOf(e, from, to) PROVE Cursor(e, from)[step] \in Int
        OBVIOUS
      <4>1. step \in 0 .. MaxOccurrences - 1 /\ step \in Nat
        BY MaxOccurrencesAssumption DEF StepsOf
      <4>2. JumpCount(e, from) \in Nat
        BY <2>2, JumpLands
      <4>3. JumpCount(e, from) + step \in Nat
        BY <4>1, <4>2
      <4>4. Cursor(e, from)[step] = Tick(e, JumpCount(e, from) + step)
        BY <2>2, <4>1, StepsMade
      <4> QED BY <2>2, <4>3, <4>4, Ticks
    <3>2. Starts(e, from, to) \subseteq PlainStarts(e, from, to)
      BY <2>3, <2>4 DEF Starts
    <3> QED BY <1>1, <3>1, <3>2 DEF PlainStarts
  <2>5. CASE e.rule.byDay # <<>>
    <3>1. Weekly(e)
      BY <1>3, <2>2, <2>5 DEF Regular, Weekly
    <3>2. \A c \in StepsOf(e, from, to) \X DOMAIN e.rule.byDay :
             Named(e, Cursor(e, from)[c[1]], c[2]) \in Int
      <4> SUFFICES ASSUME NEW k \in StepsOf(e, from, to), NEW i \in DOMAIN e.rule.byDay
                   PROVE  Named(e, Cursor(e, from)[k], i) \in Int
        OBVIOUS
      <4>1. k \in 0 .. MaxOccurrences - 1 /\ k \in Nat
        BY MaxOccurrencesAssumption DEF StepsOf
      <4>2. Named(e, Cursor(e, from)[k], i) = NamedDate(e, k, i)
        BY <3>1, <4>1, NamedAt
      <4> QED BY <3>1, <4>1, <4>2, NamedClocks
    <3>3. Starts(e, from, to) \subseteq NamedStarts(e, from, to)
      BY <2>3, <2>5 DEF Starts
    <3>4. NamedStarts(e, from, to) \subseteq
             {Named(e, Cursor(e, from)[c[1]], c[2]) : c \in StepsOf(e, from, to) \X DOMAIN e.rule.byDay}
      BY DEF NamedStarts
    <3> QED BY <1>1, <3>2, <3>3, <3>4
  <2> QED BY <2>4, <2>5
<1> QED BY <1>2, <1>3

\* The intervals of an event.
LEMMA EventCovers ==
    ASSUME NEW from \in Int, NEW to \in Int, NEW e, Regular(e, from, to)
    PROVE  /\ Intervals(e, from, to) \in SUBSET Span /\ IsFiniteSet(Intervals(e, from, to))
           /\ \A t \in from .. to - 1 :
                 Covered(Intervals(e, from, to), t) <=>
                     /\ ~e.free
                     /\ \E s \in Occurrences(e, to) :
                           ~Lost(e, s, to) /\ s <= t /\ t < s + Duration(e)
<1> DEFINE D == Duration(e)
           S == Starts(e, from, to)
           in == {s \in S : s < to /\ from < s + D}
           f == [s \in in |-> [start |-> s, end |-> s + D]]
           I == Intervals(e, from, to)
<1>1. D \in Nat /\ S \subseteq Int
  BY EventTypes
<1>2. \A t \in from .. to - 1 :
         (\E s \in S : s <= t /\ t < s + D)
             <=> (\E s \in Occurrences(e, to) : ~Lost(e, s, to) /\ s <= t /\ t < s + D)
  BY EventStarts
<1>3. I = IF e.free \/ D = 0 THEN {}
          ELSE {i \in {[start |-> s, end |-> s + D] : s \in S} :
                   Overlaps(i, [start |-> from, end |-> to])}
  BY DEF Intervals
<1> HIDE DEF I, D, S
<1>4. CASE e.free \/ D = 0
  <2>1. I = {}
    BY <1>3, <1>4
  <2>2. \A t, s \in Int : D = 0 => ~(s <= t /\ t < s + D)
    BY <1>1
  <2>3. IsFiniteSet({})
    BY FS_EmptySet
  <2>4. \A t \in from .. to - 1 : ~(~e.free /\ \E s \in S : s <= t /\ t < s + D)
    BY <1>1, <1>4, <2>2
  <2> QED BY <1>2, <2>1, <2>3, <2>4 DEF I, D, Covered
<1>5. CASE ~(e.free \/ D = 0)
  <2>1. I = {[start |-> s, end |-> s + D] : s \in in}
    BY <1>3, <1>5 DEF Overlaps
  <2>2. IsFiniteSet(in)
    <3>1. \A s \in in : s \in from - D .. to
      <4> SUFFICES ASSUME NEW s \in in PROVE s \in from - D .. to
        OBVIOUS
      <4>1. s \in Int /\ s < to /\ from < s + D
        BY <1>1
      <4> QED BY <1>1, <4>1
    <3>2. IsFiniteSet(from - D .. to)
      <4>1. from - D \in Int
        BY <1>1
      <4> QED BY <4>1, FS_Interval
    <3>3. in \in SUBSET (from - D .. to)
      BY <3>1
    <3> QED BY <3>2, <3>3, FS_Subset
  <2>3. IsFiniteSet(I)
    <3>1. f \in Surjection(in, I)
      BY <2>1 DEF Surjection
    <3> QED BY <2>2, <3>1, FS_Surjection
  <2>4. I \in SUBSET Span
    <3>1. \A s \in Int : [start |-> s, end |-> s + D] \in Span
      BY <1>1, <1>5 DEF Span
    <3>2. in \subseteq Int
      BY <1>1
    <3> QED BY <2>1, <3>1, <3>2
  <2>5. \A t \in from .. to - 1 : Covered(I, t) <=> \E s \in S : s <= t /\ t < s + D
    <3> SUFFICES ASSUME NEW t \in from .. to - 1
                 PROVE  Covered(I, t) <=> \E s \in S : s <= t /\ t < s + D
      OBVIOUS
    <3>1. Covered(I, t) <=> \E s \in in : s <= t /\ t < s + D
      <4>1. \A s : [start |-> s, end |-> s + D].start = s /\ [start |-> s, end |-> s + D].end = s + D
        OBVIOUS
      <4> HIDE DEF in
      <4> QED BY <2>1, <4>1 DEF Covered
    <3>2. \A s \in S : s <= t /\ t < s + D => s \in in
      BY <1>1
    <3> QED BY <3>1, <3>2
  <2> QED BY <1>2, <1>5, <2>3, <2>4, <2>5 DEF I, D
<1> QED BY <1>4, <1>5

\* Parse stores what a feed's events say, over the window.
LEMMA ParseCovers ==
    ASSUME NEW from \in Int, NEW to \in Int, NEW feed, IsFiniteSet(feed),
           \A e \in feed : Regular(e, from, to)
    PROVE  /\ Parse(feed, from, to) \in Seq(Span) /\ Apart(Parse(feed, from, to))
           /\ \A t \in from .. to - 1 :
                 CoveredIn(Parse(feed, from, to), t) <=>
                     \E e \in feed : ~e.free /\ \E s \in Occurrences(e, to) :
                         ~Lost(e, s, to) /\ s <= t /\ t < s + Duration(e)
<1> DEFINE each == {Intervals(e, from, to) : e \in feed}
           spans == UNION each
           f == [e \in feed |-> Intervals(e, from, to)]
<1>1. \A e \in feed : Intervals(e, from, to) \in SUBSET Span /\ IsFiniteSet(Intervals(e, from, to))
  BY EventCovers
<1>2. spans \in SUBSET Span /\ IsFiniteSet(spans)
  <2>1. f \in Surjection(feed, each)
    BY DEF Surjection
  <2>2. IsFiniteSet(each)
    BY <2>1, FS_Surjection
  <2>3. \A T \in each : IsFiniteSet(T) /\ T \in SUBSET Span
    BY <1>1
  <2> HIDE DEF each
  <2> QED BY <2>2, <2>3, FS_UNION
<1>3. \A t : Covered(spans, t) <=> \E e \in feed : Covered(Intervals(e, from, to), t)
  BY DEF Covered
<1>4. Parse(feed, from, to) = Merge(spans)
  BY DEF Parse
<1> HIDE DEF spans
<1>5. /\ Merge(spans) \in Seq(Span) /\ Apart(Merge(spans))
      /\ \A t \in Int : CoveredIn(Merge(spans), t) <=> Covered(spans, t)
  BY <1>2, MergeIsExact
<1>6. \A t \in from .. to - 1 : t \in Int
  OBVIOUS
<1> QED BY <1>3, <1>4, <1>5, <1>6, EventCovers

\* The fast-forward is enough: in a window shorter than the limit on steps, a
\* series without COUNT is never cut off by that limit, however old it is.
THEOREM FastForwardSuffices ==
    ASSUME NEW e, Steady(e), e.rule.byDay = <<>>, e.rule.count = 0,
           NEW from \in Int, NEW to \in Int, from <= to, to - from < (MaxOccurrences - 6) * Day
    PROVE  EndsByItself(e, from, to)
<1> DEFINE PD == Period(e.rule) * Day
           J == JumpCount(e, from)
           M == MaxOccurrences
           s == e.loc.shift
           a == from - e.start
           n == a \div PD - 3
           k == J + (M - 1)
           x == k * PD
           u == (J + 4) * PD
           v == (M - 5) * PD
<1>1. PD \in Nat \ {0} /\ PD >= 48 /\ e.start \in Int /\ s \in Int /\ -48 < s /\ s < 48 /\ Day = 48
      /\ M \in Nat /\ a \in Int
  BY SeriesTypes, MaxOccurrencesAssumption DEF Steady
<1>2. J \in Nat
  BY JumpLands
<1>3. M >= 7
  BY <1>1
<1>4. n \in Int /\ J >= n
  <2>1. a \div PD \in Int
    <3> HIDE DEF PD, a
    <3> QED BY <1>1
  <2>2. n \in Int
    <3> HIDE DEF PD, a
    <3> QED BY <2>1
  <2>3. J = IF n > 0 THEN n ELSE 0
    BY DEF JumpCount
  <2> HIDE DEF n, J
  <2> QED BY <2>2, <2>3
<1>5. u \in Nat /\ u > a
  <2> DEFINE d == a \div PD
  <2>1. d \in Int /\ a < (d + 1) * PD /\ n = d - 3
    <3> HIDE DEF PD, a
    <3>1. d \in Int /\ a % PD \in 0 .. PD - 1 /\ a = PD * d + (a % PD)
      BY <1>1, DividingInt
    <3>2. (d + 1) * PD = PD * d + PD /\ PD * d \in Int
      <4> HIDE DEF d
      <4> QED BY <1>1, <3>1
    <3> DEFINE y == PD * d
               z == (d + 1) * PD
               r == a % PD
    <3>3. z = y + PD /\ y \in Int /\ r \in 0 .. PD - 1 /\ a = y + r
      BY <3>1, <3>2
    <3>4. a < z
      <4> HIDE DEF y, z, r
      <4> QED BY <1>1, <3>3
    <3> QED BY <3>1, <3>4
  <2> DEFINE w == J + 4
             g == d + 1
  <2>2. w \in Nat /\ g \in Int /\ g <= w
    <3> HIDE DEF d, J, n
    <3> QED BY <1>2, <1>4, <2>1
  <2>3. a < g * PD
    BY <2>1
  <2> HIDE DEF w, g, PD, a, d
  <2>4. g * PD <= w * PD /\ g * PD \in Int /\ w * PD \in Nat
    BY <1>1, <2>2
  <2>5. w * PD \in Nat /\ w * PD > a
    <3> DEFINE p == g * PD
               q == w * PD
    <3>1. p <= q /\ p \in Int /\ q \in Nat /\ a < p
      BY <2>3, <2>4
    <3> HIDE DEF p, q
    <3>2. q \in Nat /\ q > a
      BY <1>1, <3>1
    <3> QED BY <3>2 DEF q
  <2> QED BY <2>5 DEF w
<1>6. x = u + v /\ v \in Nat /\ v >= (M - 5) * 48
  <2> HIDE DEF J, PD, M
  <2>1. J + 4 \in Nat /\ M - 5 \in Nat /\ k = (J + 4) + (M - 5)
    BY <1>1, <1>2, <1>3
  <2>2. x = u + v /\ v \in Nat
    BY <1>1, <2>1, Multiples
  <2>3. v >= (M - 5) * 48
    <3> DEFINE p == M - 5
    <3>1. p \in Nat
      BY <2>1
    <3> HIDE DEF p
    <3>2. p * PD >= p * 48
      BY <1>1, <3>1
    <3> QED BY <3>2 DEF p
  <2> QED BY <2>2, <2>3
<1>7. k \in Nat /\ M - 1 \in 0 .. M - 1
  <2> HIDE DEF J, M
  <2> QED BY <1>1, <1>2, <1>3
<1>8. Tick(e, k) \in Int /\ Tick(e, k) - e.start \in {x, x + s, x - s}
  <2> HIDE DEF k
  <2> QED BY <1>7, Ticks
<1>9. to - from < (M - 6) * 48
  BY <1>1
<1>10. Tick(e, k) > to
  <2>1. a = from - e.start
    OBVIOUS
  <2> DEFINE tick == Tick(e, k)
             start == e.start
  <2>2. tick - start \in {x, x + s, x - s} /\ tick \in Int /\ start \in Int /\ a = from - start
    BY <1>1, <1>8
  <2> HIDE DEF x, u, v, k, J, M, s, a, tick, start
  <2>3. tick - start >= x - 47
    BY <1>1, <1>5, <1>6, <2>2
  <2>4. tick > to
    BY <1>1, <1>3, <1>5, <1>6, <1>9, <2>2, <2>3
  <2> QED BY <2>4 DEF tick
<1>11. M - 1 \notin StepsOf(e, from, to)
  BY <1>7, <1>8, <1>10, StepsMade
<1> QED BY <1>11 DEF EndsByItself

-----------------------------------------------------------------------------
(* Scheduling: the inductive invariant. *)

\* The last proposal is the one that the event and the members' calendars of
\* now make; or, since one of them changed, there is none.
SInv ==
    /\ window = <<>> => grid = <<>>
    /\ window # <<>> => window \in Windows /\ ~Rejected(window) /\ grid = StartsOf(window)
    /\ DOMAIN roster \subseteq Members /\ \A m \in DOMAIN roster : roster[m] \in FeedsOf[m]
    /\ reached \subseteq DOMAIN roster
    /\ IF reached = {} THEN busy = Nothing /\ proposal = NoProposal
       ELSE /\ grid # <<>> /\ busy = ReadAll(reached)
            /\ proposal = Best(SlotSet, window.size, busy)

LEMMA SInvInit == SInit => SInv
BY DEF SInit, SInv, NoEvent, Nothing

\* A proposal that could read nobody is none.
LEMMA NobodyRead ==
    /\ ReadAll({}) = Nothing
    /\ \A slots, size : Best(slots, size, Nothing) = NoProposal
<1>1. ReadAll({}) = Nothing
  BY DEF ReadAll, Nothing
<1>2. DOMAIN Nothing = {}
  BY DEF Nothing
<1> QED BY <1>1, <1>2 DEF Best, NoProposal

LEMMA CreateGroupStep == ASSUME SInv, NEW w \in Windows, CreateGroupEvent(w) PROVE SInv'
<1>1. /\ window = <<>> /\ ~Rejected(w) /\ window' = w /\ grid' = StartsOf(w)
      /\ UNCHANGED <<roster, reached, busy, proposal>>
  BY DEF CreateGroupEvent, Created, Expand
<1>2. w # <<>>
  BY WindowsAssumption, WindowIsThere
<1>3. reached = {} /\ busy = Nothing /\ proposal = NoProposal
  BY <1>1 DEF SInv
<1> QED BY <1>1, <1>2, <1>3 DEF SInv

LEMMA ConnectGroupStep ==
    ASSUME SInv, NEW m \in Members, NEW feed \in FeedsOf[m], ConnectGroup(m, feed) PROVE SInv'
<1>1. /\ roster' = [n \in DOMAIN roster \cup {m} |-> IF n = m THEN feed ELSE roster[n]]
      /\ reached' = {} /\ busy' = Nothing /\ proposal' = NoProposal
      /\ window' = window /\ grid' = grid
  BY DEF ConnectGroup, Unasked, event
<1>2. DOMAIN roster' \subseteq Members /\ \A n \in DOMAIN roster' : roster'[n] \in FeedsOf[n]
  BY <1>1 DEF SInv
<1> QED BY <1>1, <1>2 DEF SInv

LEMMA DisconnectGroupStep == ASSUME SInv, NEW m \in Members, DisconnectGroup(m) PROVE SInv'
<1>1. /\ roster' = [n \in DOMAIN roster \ {m} |-> roster[n]]
      /\ reached' = {} /\ busy' = Nothing /\ proposal' = NoProposal
      /\ window' = window /\ grid' = grid
  BY DEF DisconnectGroup, Unasked, event
<1>2. DOMAIN roster' \subseteq Members /\ \A n \in DOMAIN roster' : roster'[n] \in FeedsOf[n]
  BY <1>1 DEF SInv
<1> QED BY <1>1, <1>2 DEF SInv

LEMMA ProposeStep ==
    ASSUME SInv, NEW unreachable \in SUBSET DOMAIN roster, Propose(unreachable) PROVE SInv'
<1>1. /\ grid # <<>> /\ reached' = DOMAIN roster \ unreachable
      /\ busy' = ReadAll(reached') /\ proposal' = Best(SlotSet, window.size, busy')
      /\ window' = window /\ grid' = grid /\ roster' = roster
  BY DEF Propose, event
<1>2. ReadAll(reached)' = ReadAll(reached') /\ SlotSet' = SlotSet
  BY <1>1 DEF ReadAll, From, To, SlotSet
<1>3. reached' = {} => busy' = Nothing /\ proposal' = NoProposal
  BY <1>1, NobodyRead
<1>4. reached' \subseteq DOMAIN roster'
  BY <1>1
<1>5. Best(SlotSet, window.size, busy)' = Best(SlotSet, window.size, busy')
  BY <1>1, <1>2
<1> QED BY <1>1, <1>2, <1>3, <1>4, <1>5 DEF SInv

LEMMA SInvStep == SInv /\ [SNext]_svars => SInv'
<1> SUFFICES ASSUME SInv, [SNext]_svars PROVE SInv'
  OBVIOUS
<1>1. CASE \E w \in Windows : CreateGroupEvent(w)
  BY <1>1, CreateGroupStep
<1>2. CASE \E m \in Members : \E feed \in FeedsOf[m] : ConnectGroup(m, feed)
  BY <1>2, ConnectGroupStep
<1>3. CASE \E m \in Members : DisconnectGroup(m)
  BY <1>3, DisconnectGroupStep
<1>4. CASE \E unreachable \in SUBSET DOMAIN roster : Propose(unreachable)
  BY <1>4, ProposeStep
<1>5. CASE UNCHANGED svars
  <2>1. /\ window' = window /\ grid' = grid /\ roster' = roster
        /\ reached' = reached /\ busy' = busy /\ proposal' = proposal
    BY <1>5 DEF svars, event
  <2>2. ReadAll(reached)' = ReadAll(reached) /\ SlotSet' = SlotSet
    BY <2>1 DEF ReadAll, From, To, SlotSet
  <2>3. Best(SlotSet, window.size, busy)' = Best(SlotSet, window.size, busy)
    BY <2>1, <2>2
  <2> QED BY <2>1, <2>2, <2>3 DEF SInv
<1> QED BY <1>1, <1>2, <1>3, <1>4, <1>5 DEF SNext

LEMMA SInvariance == SSpec => []SInv
BY SInvInit, SInvStep, PTL DEF SSpec

-----------------------------------------------------------------------------
(* Scheduling: the theorems. *)

\* What an ascending sequence begins and ends with is the least and the last.
LEMMA AscendingBounds ==
    ASSUME NEW q \in Seq(Int), Ascending(q), NEW i \in 1 .. Len(q)
    PROVE  q[1] <= q[i] /\ q[i] <= q[Len(q)]
<1> DEFINE n == Len(q)
           Low == {k \in 1 .. n : ~(q[1] <= q[k])}
           High == {k \in 0 .. n - 1 : ~(q[n - k] <= q[n])}
<1>1. n \in Nat /\ i \in 1 .. n /\ \A k \in 1 .. n : q[k] \in Int
  OBVIOUS
<1>2. \A k \in 1 .. n - 1 : q[k] < q[k + 1]
  BY DEF Ascending
<1> HIDE DEF n
<1>3. ASSUME Low # {} PROVE FALSE
  <2>1. PICK k \in Low : \A l \in Low : k <= l
    <3>1. Low \subseteq Nat
      BY <1>1
    <3> HIDE DEF Low
    <3> QED BY <1>3, <3>1, LeastNat
  <2>2. k \in 1 .. n /\ ~(q[1] <= q[k]) /\ q[k] \in Int /\ q[1] \in Int
    BY <1>1
  <2>3. k # 1
    BY <2>2
  <2>4. k - 1 \in 1 .. n - 1 /\ (k - 1) + 1 = k /\ k - 1 \in 1 .. n
    BY <1>1, <2>2, <2>3
  <2>5. k - 1 \notin Low
    <3>1. k - 1 \in Low => k <= k - 1
      <4> HIDE DEF Low
      <4> QED BY <2>1
    <3>2. k \in Int /\ ~(k <= k - 1)
      BY <1>1, <2>2
    <3> QED BY <3>1, <3>2
  <2>6. q[1] <= q[k - 1] /\ q[k - 1] < q[k] /\ q[k - 1] \in Int
    BY <1>1, <1>2, <2>4, <2>5
  <2> QED BY <2>2, <2>6
<1>4. ASSUME High # {} PROVE FALSE
  <2>1. PICK k \in High : \A l \in High : k <= l
    <3>1. High \subseteq Nat
      BY <1>1
    <3> HIDE DEF High
    <3> QED BY <1>4, <3>1, LeastNat
  <2>2. k \in 0 .. n - 1 /\ ~(q[n - k] <= q[n]) /\ n - k \in 1 .. n
    BY <1>1
  <2>3. k # 0
    <3>1. q[n] \in Int
      BY <1>1
    <3>2. n - 0 = n
      BY <1>1
    <3> QED BY <2>2, <3>1, <3>2
  <2>4. n - k \in 1 .. n - 1 /\ (n - k) + 1 = n - (k - 1) /\ n - (k - 1) \in 1 .. n /\ k - 1 \in 0 .. n - 1
    BY <1>1, <2>2, <2>3
  <2>5. k - 1 \notin High
    <3>1. k - 1 \in High => k <= k - 1
      <4> HIDE DEF High
      <4> QED BY <2>1
    <3>2. k \in Int /\ ~(k <= k - 1)
      BY <1>1, <2>2
    <3> QED BY <3>1, <3>2
  <2>6. q[n - k] < q[(n - k) + 1]
    BY <1>2, <2>4
  <2>7. q[n - (k - 1)] <= q[n] /\ q[n - k] < q[n - (k - 1)]
    BY <2>4, <2>5, <2>6
  <2>8. q[n - (k - 1)] \in Int /\ q[n - k] \in Int /\ q[n] \in Int
    BY <1>1, <2>2, <2>4
  <2> QED BY <2>2, <2>7, <2>8
<1>5. q[1] <= q[i]
  BY <1>1, <1>3
<1>6. q[i] <= q[n]
  <2>1. n - i \in 0 .. n - 1 /\ n - (n - i) = i
    BY <1>1
  <2> QED BY <1>4, <2>1
<1> QED BY <1>5, <1>6 DEF n

\* The slots of the event.
LEMMA GridIs ==
    ASSUME SInv, grid # <<>>
    PROVE  /\ grid \in Seq(Int) /\ From \in Int /\ To \in Int /\ window.size \in Nat \ {0}
           /\ SlotSet \subseteq Int /\ IsFiniteSet(SlotSet)
           /\ window \in Windows /\ ~Rejected(window) /\ grid = StartsOf(window)
           /\ Expandable(window)
<1>1. window \in Windows /\ ~Rejected(window) /\ grid = StartsOf(window)
  BY DEF SInv
<1>2. Expandable(window)
  BY <1>1, WindowsAssumption DEF Expandable, Rejected
<1>3. grid \in Seq(Int) /\ window.size \in Nat \ {0}
  <2>1. grid \in Seq(Int)
    BY <1>1, <1>2, ExpandsToInstants
  <2> QED BY <1>2, <2>1 DEF Expandable, Window, Validate
<1>4. From \in Int /\ To \in Int
  <2>1. Len(grid) \in 1 .. Len(grid) /\ Head(grid) = grid[1] /\ 1 \in 1 .. Len(grid)
    BY <1>3
  <2> QED BY <1>3, <2>1 DEF From, To, Last
<1>5. SlotSet \subseteq Int /\ IsFiniteSet(SlotSet)
  <2>1. DOMAIN grid = 1 .. Len(grid) /\ Len(grid) \in Nat /\ \A i \in DOMAIN grid : grid[i] \in Int
    BY <1>3
  <2>2. IsFiniteSet(DOMAIN grid)
    BY <2>1, FS_Interval
  <2>3. [i \in DOMAIN grid |-> grid[i]] \in Surjection(DOMAIN grid, SlotSet)
    BY DEF Surjection, SlotSet
  <2>4. IsFiniteSet(SlotSet)
    BY <2>2, <2>3, FS_Surjection
  <2> QED BY <2>1, <2>4 DEF SlotSet
<1> QED BY <1>1, <1>2, <1>3, <1>4, <1>5

\* The proposed slot is the least of the free ones.
LEMMA ProposedIs ==
    ASSUME SInv, reached # {}
    PROVE  LET free == {s \in SlotSet : FreeForAll(s, window.size, busy)}
           IN  /\ proposal.considered = reached /\ proposal.slot.found \in BOOLEAN
               /\ proposal.slot.found <=> free # {}
               /\ proposal.slot.found => /\ proposal.slot.slot \in free
                                         /\ \A s \in free : proposal.slot.slot <= s
<1> DEFINE free == {s \in SlotSet : FreeForAll(s, window.size, busy)}
<1>1. /\ grid # <<>> /\ busy = ReadAll(reached) /\ proposal = Best(SlotSet, window.size, busy)
  BY DEF SInv
<1>2. DOMAIN busy = reached
  BY <1>1 DEF ReadAll
<1>3. /\ proposal.considered = reached
      /\ proposal.slot = IF free = {} THEN NoSlot ELSE [found |-> TRUE, slot |-> Min(free)]
  BY <1>1, <1>2 DEF Best
<1>4. free # {} => Min(free) \in free /\ \A s \in free : Min(free) <= s
  <2>1. IsFiniteSet(free) /\ free \subseteq Int
    <3>1. free \in SUBSET SlotSet
      OBVIOUS
    <3> HIDE DEF free
    <3> QED BY <1>1, <3>1, GridIs, FS_Subset
  <2> HIDE DEF free
  <2> QED BY <2>1, FiniteExtremes
<1> HIDE DEF free
<1> QED BY <1>3, <1>4 DEF NoSlot, free

\* What the invariant says of types, coverage and the proposal.
LEMMA TypesFit == SInv => STypeOK
<1> SUFFICES ASSUME SInv PROVE STypeOK
  OBVIOUS
<1>1. window \in Windows \cup {<<>>} /\ DOMAIN roster \subseteq Members /\ reached \subseteq DOMAIN roster
  BY DEF SInv
<1>2. CASE reached = {}
  <2>1. busy = Nothing /\ proposal = NoProposal
    BY <1>2 DEF SInv
  <2>2. DOMAIN busy = {} /\ proposal.considered = {} /\ ~proposal.slot.found
    BY <2>1 DEF Nothing, NoProposal, NoSlot
  <2> QED BY <1>1, <1>2, <2>2 DEF STypeOK
<1>3. CASE reached # {}
  <2>1. DOMAIN busy = reached
    BY <1>3 DEF SInv, ReadAll
  <2>2. proposal.considered = reached /\ (proposal.slot.found => proposal.slot.slot \in SlotSet)
    BY <1>3, ProposedIs
  <2> QED BY <1>1, <2>1, <2>2 DEF STypeOK
<1> QED BY <1>2, <1>3

\* The values Scheduling's variables take: a proposal considers exactly the
\* members whose host answered, and proposes a slot of the event.
THEOREM SchedulingTypes == SSpec => []STypeOK
BY SInvariance, TypesFit, PTL

\* What was read of a member is what their calendar says is taken.
LEMMA ReadIs ==
    ASSUME SInv, RegularFeeds, NEW m \in reached
    PROVE  /\ busy[m] \in Seq(Span) /\ Apart(busy[m])
           /\ \A t \in From .. To - 1 :
                 CoveredIn(busy[m], t) <=> t \in Taken(roster[m])
<1>1. /\ grid # <<>> /\ busy = ReadAll(reached) /\ roster[m] \in FeedsOf[m] /\ m \in Members
  BY DEF SInv
<1>2. busy[m] = Parse(roster[m], From, To)
  BY <1>1 DEF ReadAll
<1>3. /\ From \in Int /\ To \in Int /\ window \in Windows /\ ~Rejected(window) /\ grid = Expand(window).starts
  BY <1>1, GridIs DEF Expand
<1>4. IsFiniteSet(roster[m])
  BY <1>1, FeedsAssumption
<1>5. \A e \in roster[m] : Regular(e, From, To)
  BY <1>1, <1>3 DEF RegularFeeds, From, To
<1>6. \A t : t \in Taken(roster[m]) <=>
        /\ t \in From .. To - 1
        /\ \E e \in roster[m] : ~e.free /\ \E s \in Occurrences(e, To) :
               ~Lost(e, s, To) /\ s <= t /\ t < s + Duration(e)
  BY DEF Taken, TakenBut
<1> QED BY <1>2, <1>3, <1>4, <1>5, <1>6, ParseCovers

LEMMA FeedFits == RegularFeeds /\ SInv => FeedIsCovered
<1> SUFFICES ASSUME RegularFeeds, SInv, NEW m \in reached
             PROVE  /\ \A i \in 1 .. Len(busy[m]) - 1 : busy[m][i].end < busy[m][i + 1].start
                    /\ Stored(m) = Taken(roster[m])
  BY DEF FeedIsCovered
<1>1. Apart(busy[m]) /\ \A t \in From .. To - 1 : CoveredIn(busy[m], t) <=> t \in Taken(roster[m])
  BY ReadIs
<1>2. Taken(roster[m]) \subseteq From .. To - 1
  BY DEF Taken, TakenBut
<1>3. Stored(m) = {t \in From .. To - 1 : CoveredIn(busy[m], t)}
  BY DEF Stored, CoveredIn
<1> QED BY <1>1, <1>2, <1>3 DEF Apart

\* For every window and all calendars of regular events, what is stored of a
\* calendar is, in order and apart, exactly the time its events take by their
\* rules, but for the days a BYDAY rule loses at its end.
THEOREM FeedIsCoveredAlways == RegularFeeds => (SSpec => []FeedIsCovered)
<1> SUFFICES ASSUME RegularFeeds PROVE SSpec => []FeedIsCovered
  OBVIOUS
<1>1. SInv => FeedIsCovered
  BY FeedFits
<1> QED BY <1>1, SInvariance, PTL

\* A slot is free of what was read exactly when none of it is taken.
LEMMA FreeIsClear ==
    ASSUME SInv, RegularFeeds, \A w \in Windows : Probed(w.loc), reached # {}, NEW s \in SlotSet
    PROVE  FreeForAll(s, window.size, busy) <=>
               \A m \in reached : Taken(roster[m]) \cap (s .. s + window.size - 1) = {}
<1> DEFINE d == window.size
<1>1. /\ grid # <<>> /\ DOMAIN busy = reached
  BY DEF SInv, ReadAll
<1>2. /\ grid \in Seq(Int) /\ From \in Int /\ To \in Int /\ d \in Nat \ {0} /\ s \in Int
      /\ window \in Windows /\ grid = StartsOf(window) /\ Expandable(window)
  BY <1>1, GridIs
<1>3. From <= s /\ s + d <= To
  <2>1. Ascending(grid)
    BY <1>2, ExpandsExactly DEF ExactGrid, Ascending, Usable
  <2>2. PICK i \in 1 .. Len(grid) : s = grid[i]
    BY <1>2 DEF SlotSet
  <2>3. grid[1] <= s /\ s <= grid[Len(grid)]
    BY <1>2, <2>1, <2>2, AscendingBounds
  <2>4. From = grid[1] /\ To = grid[Len(grid)] + d /\ grid[Len(grid)] \in Int
    BY <1>1, <1>2 DEF From, To, Last
  <2> HIDE DEF d
  <2> QED BY <1>2, <2>3, <2>4
<1> HIDE DEF d
<1>4. ASSUME NEW m \in reached
      PROVE  (\A i \in DOMAIN busy[m] :
                ~Overlaps([start |-> s, end |-> s + d], busy[m][i]))
             <=> Taken(roster[m]) \cap (s .. s + d - 1) = {}
  <2> DEFINE q == busy[m]
             T == Taken(roster[m])
  <2>1. q \in Seq(Span) /\ \A t \in From .. To - 1 : CoveredIn(q, t) <=> t \in T
    BY ReadIs
  <2>2. \A i \in DOMAIN q : q[i].start \in Int /\ q[i].end \in Int /\ q[i].start < q[i].end
    <3>1. \A i \in DOMAIN q : q[i] \in Span
      BY <2>1
    <3> QED BY <3>1 DEF Span
  <2>3. \A t \in s .. s + d - 1 : t \in From .. To - 1
    BY <1>2, <1>3
  <2>4. \A i \in DOMAIN q : Overlaps([start |-> s, end |-> s + d], q[i]) <=>
            s < q[i].end /\ q[i].start < s + d
    BY DEF Overlaps
  <2> HIDE DEF q, T
  <2>5. ASSUME NEW i \in DOMAIN q, s < q[i].end, q[i].start < s + d
        PROVE  T \cap (s .. s + d - 1) # {}
    <3> DEFINE t == IF q[i].start <= s THEN s ELSE q[i].start
    <3>1. t \in s .. s + d - 1 /\ q[i].start <= t /\ t < q[i].end
      BY <1>2, <2>2, <2>5
    <3> HIDE DEF t
    <3>2. t \in T
      BY <2>1, <2>3, <3>1 DEF CoveredIn
    <3> QED BY <3>1, <3>2
  <2>6. ASSUME NEW t \in T, t \in s .. s + d - 1
        PROVE  \E i \in DOMAIN q : s < q[i].end /\ q[i].start < s + d
    <3>1. PICK i \in DOMAIN q : q[i].start <= t /\ t < q[i].end
      BY <2>1, <2>3, <2>6 DEF CoveredIn
    <3>2. s < q[i].end /\ q[i].start < s + d
      BY <1>2, <2>2, <2>6, <3>1
    <3> QED BY <3>2
  <2> QED BY <2>4, <2>5, <2>6 DEF q, T
<1> QED BY <1>1, <1>4 DEF FreeForAll, d

LEMMA ProposalFits ==
    RegularFeeds /\ (\A w \in Windows : Probed(w.loc)) /\ SInv => ProposalIsEarliest
<1> SUFFICES ASSUME RegularFeeds, \A w \in Windows : Probed(w.loc), SInv, reached # {}
             PROVE  LET clear(s) == \A m \in reached :
                                Taken(roster[m]) \cap (s .. s + window.size - 1) = {}
                    IN  IF proposal.slot.found
                        THEN /\ clear(proposal.slot.slot)
                             /\ \A s \in SlotSet : s < proposal.slot.slot => ~clear(s)
                        ELSE \A s \in SlotSet : ~clear(s)
  BY DEF ProposalIsEarliest
<1> DEFINE clear(s) == \A m \in reached : Taken(roster[m]) \cap (s .. s + window.size - 1) = {}
           free == {s \in SlotSet : FreeForAll(s, window.size, busy)}
           best == proposal.slot.slot
<1>1. /\ proposal.slot.found <=> free # {}
      /\ proposal.slot.found => best \in free /\ \A s \in free : best <= s
  BY ProposedIs
<1>2. free = {s \in SlotSet : clear(s)}
  BY FreeIsClear
<1>3. SlotSet \subseteq Int
  <2>1. grid # <<>>
    BY DEF SInv
  <2> QED BY <2>1, GridIs
<1> HIDE DEF clear, free, best
<1>4. CASE proposal.slot.found
  <2>1. best \in SlotSet /\ clear(best)
    BY <1>1, <1>2, <1>4
  <2>2. \A s \in SlotSet : s < best => ~clear(s)
    <3> SUFFICES ASSUME NEW s \in SlotSet, s < best, clear(s) PROVE FALSE
      OBVIOUS
    <3>1. best <= s
      BY <1>1, <1>2, <1>4
    <3> QED BY <1>3, <2>1, <3>1
  <2> QED BY <1>4, <2>1, <2>2 DEF clear, best
<1>5. CASE ~proposal.slot.found
  <2>1. \A s \in SlotSet : ~clear(s)
    BY <1>1, <1>2, <1>5
  <2> QED BY <1>5, <2>1 DEF clear
<1> QED BY <1>4, <1>5

\* And, for windows of zones that move by what resolve probes, the proposed slot
\* is the earliest during which nobody whose calendar could be read is taken.
THEOREM ProposalIsEarliestAlways ==
    RegularFeeds /\ (\A w \in Windows : Probed(w.loc)) => (SSpec => []ProposalIsEarliest)
<1> SUFFICES ASSUME RegularFeeds, \A w \in Windows : Probed(w.loc)
             PROVE  SSpec => []ProposalIsEarliest
  OBVIOUS
<1>1. SInv => ProposalIsEarliest
  BY ProposalFits
<1> QED BY <1>1, SInvariance, PTL
=============================================================================
