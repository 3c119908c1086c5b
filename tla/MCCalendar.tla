------------------------------ MODULE MCCalendar ------------------------------
(***************************************************************************)
(* Instances of Calendar for TLC.  The transition is on day 10; the clock  *)
(* runs through days 8 to 13 and the client asks for days 7 to 12, so a    *)
(* range, a realtime window and "today" can each contain it.               *)
(***************************************************************************)
EXTENDS Calendar

Zone(before, after, at) == [before |-> before, after |-> after, at |-> at]

\* The wall clock of day 10 in the zone's offset before the transition.
OnDay10(hour, before) == 24 * 10 + hour - before

\* A zone without transition; forward changes at 02:00 east and west of
\* Greenwich and at 01:00 on it; backward changes in the night, at midnight and
\* back to midnight.  None of them skips a midnight.
SafeZones ==
  { Zone(8, 8, 0),
    Zone(8, 9, OnDay10(2, 8)),    Zone(9, 8, OnDay10(2, 9)),
    Zone(-5, -4, OnDay10(2, -5)), Zone(-4, -5, OnDay10(2, -4)),
    Zone(0, 1, OnDay10(1, 0)),    Zone(1, 0, OnDay10(2, 1)),
    Zone(3, 2, OnDay10(0, 3)),    Zone(-3, -4, OnDay10(0, -3)),
    Zone(3, 2, OnDay10(1, 3)),    Zone(-4, -5, OnDay10(1, -4)) }

ASSUME ZonesAreSafe == \A z \in SafeZones : KeepsMidnights(z)

\* The clock goes from 02:00 to 03:00.
SpringZones == { Zone(-5, -4, OnDay10(2, -5)) }

\* The clock goes from 00:00 to 01:00, west of Greenwich.
WestGapZones == { Zone(-4, -3, OnDay10(0, -4)) }

HoursOfDays8To13 == (24 * 8) .. (24 * 13)
HoursOfDay11 == (24 * 11) .. (24 * 11 + 12)

MinThreeBit == -4

AskedSources == {"auto", "trino"}
===============================================================================
