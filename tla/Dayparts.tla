-------------------------------- MODULE Dayparts --------------------------------
(***************************************************************************)
(* dayparts: the coarse grid of dates and day parts, read on the           *)
(* responder's clock.  The page keeps a copy of its own (dayparts.ts), so  *)
(* both are here.                                                          *)
(***************************************************************************)
EXTENDS Zones

AfternoonStartHour == 12
EveningStartHour == 17

BlockForHour(h) ==
    CASE h < AfternoonStartHour -> "morning"
      [] h >= AfternoonStartHour /\ h < EveningStartHour -> "afternoon"
      [] OTHER -> "evening"

\* The cell t falls into when read in z.
Of(t, z) ==
    [date |-> Wall(z, t) \div Day, block |-> BlockForHour((Wall(z, t) % Day) \div Hour)]

\* A tier for every slot the selection covers; silence about the others.
Spread(starts, z, sel) ==
    [t \in {t \in starts : Of(t, z) \in DOMAIN sel} |-> sel[Of(t, z)]]

-----------------------------------------------------------------------------
(* The page's copy. *)

AFTERNOON_START_HOUR == 12
EVENING_START_HOUR == 17

PageBlockForHour(hour) ==
    CASE hour < AFTERNOON_START_HOUR -> "morning"
      [] hour >= AFTERNOON_START_HOUR /\ hour < EVENING_START_HOUR -> "afternoon"
      [] OTHER -> "evening"

CellFor(instant, tz) ==
    [date |-> Wall(tz, instant) \div Day,
     block |-> PageBlockForHour((Wall(tz, instant) % Day) \div Hour)]
=============================================================================
