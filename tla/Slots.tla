---------------------------------- MODULE Slots ---------------------------------
(***************************************************************************)
(* slots.Expand: an organizer's window of local dates and a daily band,    *)
(* turned into the instants people are asked about.  Clocks the zone never *)
(* showed are dropped, clocks it showed twice mean the first time.         *)
(***************************************************************************)
EXTENDS Zones, Sequences, SequencesExt

CONSTANT MaxSlots   \* slots.MaxSlots
ASSUME MaxSlotsAssumption == MaxSlots \in Nat \ {0}

\* Window: dates, a daily band between 0:00 and 24:00, and a slot size, all read
\* on loc's clock.
Window == [first : Nat, last : Nat, start : 0 .. Day, end : 0 .. Day, size : Int, loc : Zone]

\* Window.Validate
Validate(w) == w.size > 0 /\ w.end > w.start /\ w.first <= w.last

\* Slots that fit entirely inside the daily band.
PerDay(w) == (w.end - w.start) \div w.size

\* The clocks the two loops visit, in order.
Clocks(w) ==
    [i \in 1 .. (w.last - w.first + 1) * PerDay(w) |->
        (w.first + (i - 1) \div PerDay(w)) * Day
          + w.start + ((i - 1) % PerDay(w)) * w.size]

\* Mutant: only the jump forward is probed.
ProbeForward == {Hour, Hour \div 2, 2 * Hour}

\* Every transition moves the offset by half an hour, an hour or two.
ProbeDeltas == ProbeForward \cup {-d : d \in ProbeForward}

\* resolve
Kind(z, c) ==
    IF Wall(z, DateIn(z, c)) # c THEN "nonexistent"
    ELSE IF \E d \in ProbeDeltas : Wall(z, DateIn(z, c) + d) = c THEN "ambiguous"
    ELSE "normal"

Resolve(z, c) ==
    Min({DateIn(z, c)} \cup {t \in {DateIn(z, c) + d : d \in ProbeDeltas} : Wall(z, t) = c})

\* One clock's turn of the loop: dropped, a duplicate, or one more slot.
Emit(starts, z, c) ==
    IF Kind(z, c) = "nonexistent" \/ Contains(starts, Resolve(z, c)) THEN starts
    ELSE Append(starts, Resolve(z, c))

\* The loops: the slots after the first n clocks.
StartsOf(w) ==
    LET starts[n \in 0 .. Len(Clocks(w))] ==
            IF n = 0 THEN <<>> ELSE Emit(starts[n - 1], w.loc, Clocks(w)[n])
    IN  starts[Len(Clocks(w))]

\* Starts, Skipped and Ambiguous of the expansion.
Expand(w) ==
    [starts    |-> StartsOf(w),
     skipped   |-> SelectSeq(Clocks(w), LAMBDA c : Kind(w.loc, c) = "nonexistent"),
     ambiguous |-> SelectSeq(Clocks(w), LAMBDA c : Kind(w.loc, c) = "ambiguous")]

\* Expand returns an error.
Rejected(w) == ~Validate(w) \/ Len(Expand(w).starts) > MaxSlots

-----------------------------------------------------------------------------
\* The clocks of the daily grid.
GridClocks(w) ==
    UNION {{d * Day + m : m \in {m \in w.start .. w.end - w.size : (m - w.start) % w.size = 0}} :
              d \in w.first .. w.last}

\* What the expansion stands for: the first time the zone's clock showed each
\* clock of the daily grid, in the order of time.
ExactGrid(w, starts) ==
    /\ \A i \in 1 .. Len(starts) - 1 : starts[i] < starts[i + 1]
    /\ {starts[i] : i \in DOMAIN starts} =
         {Min(Readings(w.loc, c)) : c \in {c \in GridClocks(w) : Readings(w.loc, c) # {}}}
=============================================================================
