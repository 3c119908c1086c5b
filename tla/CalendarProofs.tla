----------------------------- MODULE CalendarProofs -----------------------------
(***************************************************************************)
(* Proofs about Calendar, for every zone whose clock skips no midnight,    *)
(* every range, window and reading of the clock.                           *)
(***************************************************************************)
EXTENDS Calendar, PlanningProofs

LEMMA ZoneFacts ==
  ASSUME zone \in Zones
  PROVE  /\ zone.before \in Int /\ zone.after \in Int /\ zone.at \in Int
         /\ \A t \in Int : Offset(t) \in {zone.before, zone.after}
BY CalendarAssumption DEF Offset

\* Day and hour of a wall clock, counted in hours since day 0.
LEMMA WallClock ==
  ASSUME NEW wall \in Int, NEW day \in Int, NEW hour \in 0 .. 23
  PROVE  (wall \div 24 = day /\ wall % 24 = hour) <=> wall = 24 * day + hour
OBVIOUS

LEMMA ShownAt ==
  ASSUME zone \in Zones, NEW t \in Int, NEW day \in Int, NEW hour \in 0 .. 23
  PROVE  /\ DayAt(t) \in Int /\ HourAt(t) \in 0 .. 23
         /\ (DayAt(t) = day /\ HourAt(t) = hour) <=> t + Offset(t) = 24 * day + hour
<1>1. t + Offset(t) \in Int
  BY ZoneFacts
<1>2. /\ (t + Offset(t)) \div 24 \in Int
      /\ (t + Offset(t)) % 24 \in 0 .. 23
  BY <1>1
<1> QED BY <1>1, <1>2, WallClock DEF DayAt, HourAt

\* time.Date finds a wall clock of the zone, if there is an instant that shows it,
\* on whichever side of the clock change its first guess falls.
THEOREM DateFinds ==
  ASSUME zone \in Zones, NEW day \in Int, NEW hour \in 0 .. 23,
         \E t \in Int : DayAt(t) = day /\ HourAt(t) = hour
  PROVE  /\ Date(day, hour) \in Int
         /\ DayAt(Date(day, hour)) = day /\ HourAt(Date(day, hour)) = hour
<1> DEFINE wall == 24 * day + hour
           guess == Offset(wall)
           utc == wall - guess
           other == (utc < zone.at) # (wall < zone.at)
           found == IF guess = 0 THEN wall
                    ELSE wall - (IF other THEN Offset(utc) ELSE guess)
<1>1. Date(day, hour) = found
  BY DEF Date
<1>2. PICK t \in Int : t + Offset(t) = wall
  BY ShownAt
<1>3. wall \in Int /\ guess \in Int /\ utc \in Int
  BY ZoneFacts
<1>4. found \in Int /\ found + Offset(found) = wall
  BY <1>2, <1>3, ZoneFacts DEF Offset
<1>5. \A i \in Int : DayAt(i) = day /\ HourAt(i) = hour <=> i + Offset(i) = wall
  BY ShownAt
<1> HIDE DEF found, wall
<1> QED BY <1>1, <1>4, <1>5

-----------------------------------------------------------------------------
(* Midnights. *)

\* An instant shows the midnight that time.Date returns for a day.
LEMMA MidnightShown ==
  ASSUME zone \in Zones, KeepsMidnights(zone), NEW d \in Int
  PROVE  /\ Midnight(d) \in Int
         /\ DayAt(Midnight(d)) = d /\ HourAt(Midnight(d)) = 0
         /\ Midnight(d) + Offset(Midnight(d)) = 24 * d
<1>1. (24 * d) % 24 = 0
  OBVIOUS
<1>2. 24 * d \notin (zone.at + zone.before) .. (zone.at + zone.after - 1)
  BY <1>1 DEF KeepsMidnights
<1>3. \E t \in Int : t + Offset(t) = 24 * d
  <2>1. CASE 24 * d - zone.before < zone.at
    BY <2>1, ZoneFacts DEF Offset
  <2>2. CASE 24 * d - zone.after >= zone.at
    BY <2>2, ZoneFacts DEF Offset
  <2> QED BY <1>2, <2>1, <2>2, ZoneFacts
<1>4. \A t \in Int : DayAt(t) = d /\ HourAt(t) = 0 <=> t + Offset(t) = 24 * d
  <2>1. 0 \in 0 .. 23
    OBVIOUS
  <2>2. \A t \in Int : DayAt(t) = d /\ HourAt(t) = 0 <=> t + Offset(t) = 24 * d + 0
    BY <2>1, ShownAt
  <2> QED BY <2>2
<1>5. /\ Date(d, 0) \in Int
      /\ DayAt(Date(d, 0)) = d /\ HourAt(Date(d, 0)) = 0
  BY <1>3, <1>4, DateFinds
<1> QED BY <1>4, <1>5 DEF Midnight

\* A change of the clock by less than a day does not swap two midnights.
LEMMA OrderAcrossChange ==
  ASSUME NEW before \in Int, NEW after \in Int, NEW change \in Int, before - after < 24,
         NEW i \in Int, NEW j \in Int, i < j, NEW a \in Int, NEW b \in Int,
         a + (IF a < change THEN before ELSE after) = 24 * i,
         b + (IF b < change THEN before ELSE after) = 24 * j
  PROVE  a < b
OBVIOUS

\* Midnights are in the order of their days, whatever the clock does in between.
LEMMA MidnightOrder ==
  ASSUME zone \in Zones, KeepsMidnights(zone), NEW d \in Int, NEW e \in Int
  PROVE  Midnight(d) <= Midnight(e) <=> d <= e
<1>1. ASSUME NEW i \in Int, NEW j \in Int, i < j
      PROVE  Midnight(i) < Midnight(j)
  <2> DEFINE a == Midnight(i)
             b == Midnight(j)
  <2>1. a \in Int /\ b \in Int /\ a + Offset(a) = 24 * i /\ b + Offset(b) = 24 * j
    BY MidnightShown
  <2>2. /\ a + (IF a < zone.at THEN zone.before ELSE zone.after) = 24 * i
        /\ b + (IF b < zone.at THEN zone.before ELSE zone.after) = 24 * j
    BY <2>1 DEF Offset
  <2>3. /\ zone.before \in Int /\ zone.after \in Int /\ zone.at \in Int
        /\ zone.before - zone.after < 24
    BY ZoneFacts DEF KeepsMidnights
  <2> HIDE DEF a, b
  <2>4. a < b
    BY <1>1, <2>1, <2>2, <2>3, OrderAcrossChange
  <2> QED BY <2>4 DEF a, b
<1>2. Midnight(d) \in Int /\ Midnight(e) \in Int
  BY MidnightShown
<1> QED BY <1>1, <1>2

\* AddDate on a midnight is arithmetic on days.
LEMMA AddDateOnMidnight ==
  ASSUME zone \in Zones, KeepsMidnights(zone), NEW d \in Int, NEW n \in Int
  PROVE  AddDate(Midnight(d), n) = Midnight(d + n)
BY MidnightShown DEF AddDate, Midnight

\* A range that NewDateRange refuses is reversed or has too many days.
LEMMA DaysCounted ==
  ASSUME zone \in Zones, KeepsMidnights(zone), NEW d \in Int, NEW e \in Int, d <= e
  PROVE  /\ DaysBetween(Midnight(d), Midnight(e)) \in Int
         /\ DaysBetween(Midnight(d), Midnight(e)) <= e - d + 1
<1> DEFINE hours == Midnight(e) - Midnight(d)
<1>1. hours \in Int /\ hours < 24 * (e - d + 1)
  <2> DEFINE first == Midnight(d)
             last == Midnight(e)
  <2>1. /\ first \in Int /\ first + Offset(first) = 24 * d
        /\ last \in Int /\ last + Offset(last) = 24 * e
        /\ first <= last
    BY MidnightShown, MidnightOrder
  <2>2. Offset(first) - Offset(last) < 24
    <3> HIDE DEF first, last
    <3> QED BY <2>1, ZoneFacts DEF Offset, KeepsMidnights
  <2>3. Offset(first) \in Int /\ Offset(last) \in Int
    BY <2>1, ZoneFacts
  <2> HIDE DEF first, last
  <2>4. last - first \in Int /\ last - first < 24 * (e - d + 1)
    BY <2>1, <2>2, <2>3
  <2> QED BY <2>4 DEF first, last
<1>2. hours \div 24 \in Int /\ hours \div 24 < e - d + 1
  BY <1>1
<1> QED BY <1>2 DEF DaysBetween

-----------------------------------------------------------------------------
(* Planning on instants is planning on days. *)

AskedRange == [start |-> request.first, end |-> request.last]

\* The plan of Planning for the business day an instant shows.
DayPlan(t) == Plan(request.source, AskedRange, DayAt(t))

InstantSegments == [source : Sources, range : [start : Int, end : Int]]

\* The same segments, from midnight to midnight.
OnMidnights(segments, plan) ==
  /\ segments \in Seq(InstantSegments)
  /\ Len(segments) = Len(plan)
  /\ \A i \in DOMAIN plan :
       segments[i] = Segment(plan[i].source, Midnight(plan[i].range.start),
                             Midnight(plan[i].range.end))

LEMMA InstantPlan ==
  ASSUME zone \in Zones, KeepsMidnights(zone), NEW t \in Int,
         request.source \in Sources \cup {"auto"}, AskedRange \in DateRanges
  PROVE  OnMidnights(PlanAt(request.source, [start |-> Midnight(request.first),
                                             end |-> Midnight(request.last)], t),
                     DayPlan(t))
<1> DEFINE first == request.first
           last == request.last
           today == DayAt(t)
           c == Cutoff(today)
           r == [start |-> Midnight(first), end |-> Midnight(last)]
           segments == PlanAt(request.source, r, t)
<1>1. /\ first \in Int /\ last \in Int /\ first <= last
      /\ AskedRange.start = first /\ AskedRange.end = last
  BY DEF AskedRange, DateRanges
<1>2. today \in Int /\ c \in Int /\ c - 1 \in Int
  <2>1. 0 \in 0 .. 23
    OBVIOUS
  <2>2. today \in Int
    BY <2>1, ShownAt
  <2> QED BY <2>2, CutoffIsDay
<1>3. CutoffAt(t) = Midnight(c) /\ AddDate(Midnight(c), -1) = Midnight(c - 1)
  <2>1. RealtimeDays \in Int /\ -(RealtimeDays - 1) \in Int /\ today + (-(RealtimeDays - 1)) = c
    BY <1>2, PlanningAssumption DEF ValidService, Cutoff
  <2>2. CutoffAt(t) = Midnight(today + (-(RealtimeDays - 1)))
    BY <1>2, <2>1, AddDateOnMidnight DEF CutoffAt, BeginningOfDay
  <2>3. AddDate(Midnight(c), -1) = Midnight(c + (-1))
    BY <1>2, AddDateOnMidnight
  <2>4. c + (-1) = c - 1
    BY <1>2
  <2> QED BY <2>1, <2>2, <2>3, <2>4
<1>4. /\ Midnight(first) \in Int /\ Midnight(last) \in Int
      /\ Midnight(c) \in Int /\ Midnight(c - 1) \in Int
      /\ Midnight(last) < Midnight(c) <=> last < c
      /\ Midnight(first) >= Midnight(c) <=> first >= c
  <2>1. /\ Midnight(first) \in Int /\ Midnight(last) \in Int
        /\ Midnight(c) \in Int /\ Midnight(c - 1) \in Int
    BY <1>1, <1>2, MidnightShown
  <2>2. /\ Midnight(c) <= Midnight(last) <=> c <= last
        /\ Midnight(c) <= Midnight(first) <=> c <= first
    BY <1>1, <1>2, MidnightOrder
  <2> HIDE DEF c
  <2> QED BY <1>1, <1>2, <2>1, <2>2
<1>5. Historical \in Sources /\ "starrocks" \in Sources /\ "auto" \notin Sources
  BY PlanningAssumption DEF ValidService, Sources
<1>6. ASSUME NEW source \in Sources, NEW a \in Int, NEW b \in Int
      PROVE  Segment(source, a, b) \in InstantSegments
  BY DEF Segment, InstantSegments
<1>7. ASSUME NEW source \in Sources, DayPlan(t) = << Segment(source, first, last) >>,
             segments = << Segment(source, Midnight(first), Midnight(last)) >>
      PROVE  OnMidnights(segments, DayPlan(t))
  <2>1. /\ DOMAIN DayPlan(t) = {1} /\ Len(DayPlan(t)) = 1
        /\ DayPlan(t)[1].source = source /\ DayPlan(t)[1].range.start = first
        /\ DayPlan(t)[1].range.end = last
    BY <1>7 DEF Segment
  <2>2. Segment(source, Midnight(first), Midnight(last))
          \in InstantSegments
    BY <1>4, <1>6
  <2>3. /\ segments \in Seq(InstantSegments)
        /\ Len(segments) = 1
        /\ segments[1] = Segment(source, Midnight(first), Midnight(last))
    <3> HIDE DEF segments
    <3> QED BY <1>7, <2>2
  <2> HIDE DEF segments, first, last
  <2> QED BY <2>1, <2>3 DEF OnMidnights
<1>8. CASE request.source \in Sources
  <2>1. DayPlan(t) = << Segment(request.source, first, last) >>
    BY <1>1, <1>2, <1>5, <1>8, PlanCases DEF DayPlan
  <2>2. segments = << Segment(request.source, Midnight(first), Midnight(last)) >>
    BY <1>5, <1>8 DEF PlanAt
  <2> QED BY <1>7, <1>8, <2>1, <2>2
<1>9. CASE request.source = "auto"
  <2>1. CASE last < c
    <3>1. DayPlan(t) = << Segment(Historical, first, last) >>
      BY <1>1, <1>2, <1>5, <1>9, <2>1, PlanCases DEF DayPlan
    <3>2. segments = << Segment(Historical, Midnight(first), Midnight(last)) >>
      BY <1>3, <1>4, <1>5, <1>9, <2>1 DEF PlanAt
    <3> QED BY <1>5, <1>7, <3>1, <3>2
  <2>2. CASE first >= c
    <3>1. DayPlan(t) = << Segment("starrocks", first, last) >>
      BY <1>1, <1>2, <1>5, <1>9, <2>2, PlanCases DEF DayPlan
    <3>2. r.end >= CutoffAt(t) /\ r.start >= CutoffAt(t) /\ ~ (r.end < CutoffAt(t))
      BY <1>1, <1>2, <1>3, <1>4, <2>2
    <3>3. segments = << Segment("starrocks", Midnight(first), Midnight(last)) >>
      BY <1>5, <1>9, <3>2 DEF PlanAt
    <3> QED BY <1>5, <1>7, <3>1, <3>3
  <2>3. CASE first < c /\ c <= last
    <3>1. DayPlan(t) = << Segment(Historical, first, c - 1), Segment("starrocks", c, last) >>
      BY <1>1, <1>2, <1>5, <1>9, <2>3, PlanCases DEF DayPlan
    <3>2. ~ (r.start >= CutoffAt(t)) /\ ~ (r.end < CutoffAt(t))
      BY <1>1, <1>2, <1>3, <1>4, <2>3
    <3>3. segments = << Segment(Historical, Midnight(first), Midnight(c - 1)),
                        Segment("starrocks", Midnight(c), Midnight(last)) >>
      BY <1>3, <1>5, <1>9, <3>2 DEF PlanAt
    <3>4. /\ Segment(Historical, Midnight(first), Midnight(c - 1))
                \in InstantSegments
          /\ Segment("starrocks", Midnight(c), Midnight(last))
                \in InstantSegments
      BY <1>4, <1>5, <1>6
    <3>5. DOMAIN DayPlan(t) = 1 .. 2 /\ Len(DayPlan(t)) = 2
      BY <3>1
    <3>6. /\ DayPlan(t)[1].source = Historical /\ DayPlan(t)[1].range.start = first
          /\ DayPlan(t)[1].range.end = c - 1
          /\ DayPlan(t)[2].source = "starrocks" /\ DayPlan(t)[2].range.start = c
          /\ DayPlan(t)[2].range.end = last
      BY <3>1 DEF Segment
    <3>7. /\ segments \in Seq(InstantSegments)
          /\ Len(segments) = 2
          /\ segments[1] = Segment(Historical, Midnight(first), Midnight(c - 1))
          /\ segments[2] = Segment("starrocks", Midnight(c), Midnight(last))
      <4> HIDE DEF segments
      <4> QED BY <3>3, <3>4
    <3>8. OnMidnights(segments, DayPlan(t))
      <4> HIDE DEF segments, first, last, c
      <4> QED BY <3>5, <3>6, <3>7 DEF OnMidnights
    <3> QED BY <3>8
  <2> QED BY <1>1, <1>2, <2>1, <2>2, <2>3
<1> QED BY <1>8, <1>9

-----------------------------------------------------------------------------
(* Types: for any zone, also one whose clock skips a midnight. *)

TypesInv ==
  /\ TypeOK
  /\ segs \in Seq(InstantSegments)
  /\ phase = "reading" => turn \in DOMAIN segs

LEMMA DateType ==
  ASSUME zone \in Zones, NEW t \in Int, NEW n \in Int, NEW hour \in Int
  PROVE  /\ DayAt(t) \in Int /\ HourAt(t) \in Int
         /\ Date(n, hour) \in Int /\ AddDate(t, n) \in Int /\ Midnight(n) \in Int
<1>1. DayAt(t) \in Int /\ HourAt(t) \in Int
  BY ZoneFacts DEF DayAt, HourAt
<1>2. ASSUME NEW d \in Int, NEW h \in Int
      PROVE  Date(d, h) \in Int
  BY ZoneFacts DEF Date
<1>3. DayAt(t) + n \in Int /\ 0 \in Int
  BY <1>1
<1>4. AddDate(t, n) \in Int /\ Midnight(n) \in Int
  BY <1>1, <1>2, <1>3 DEF AddDate, Midnight
<1> QED BY <1>1, <1>2, <1>4

LEMMA PlanAtType ==
  ASSUME zone \in Zones, NEW t \in Int, NEW source \in Sources \cup {"auto"},
         NEW r \in [start : Int, end : Int]
  PROVE  /\ PlanAt(source, r, t) \in Seq(InstantSegments)
         /\ Len(PlanAt(source, r, t)) \in Slots
<1>1. CutoffAt(t) \in Int /\ AddDate(CutoffAt(t), -1) \in Int
  <2>1. -(RealtimeDays - 1) \in Int /\ 0 \in Int /\ -1 \in Int
    BY PlanningAssumption DEF ValidService
  <2>2. BeginningOfDay(t) \in Int
    BY <2>1, DateType DEF BeginningOfDay
  <2>3. CutoffAt(t) \in Int
    BY <2>1, <2>2, DateType DEF CutoffAt
  <2> QED BY <2>1, <2>3, DateType
<1>2. Historical \in Sources /\ "starrocks" \in Sources
  BY PlanningAssumption DEF ValidService, Sources
<1>3. ASSUME NEW src \in Sources, NEW a \in Int, NEW b \in Int
      PROVE  Segment(src, a, b) \in InstantSegments
  BY DEF Segment, InstantSegments
<1>4. ASSUME NEW x \in InstantSegments, NEW y \in InstantSegments
      PROVE  /\ << x >> \in Seq(InstantSegments) /\ Len(<< x >>) \in Slots
             /\ << x, y >> \in Seq(InstantSegments) /\ Len(<< x, y >>) \in Slots
  BY DEF Slots
<1>5. CASE PlanAt(source, r, t) = << Segment(source, r.start, r.end) >> /\ source \in Sources
  BY <1>3, <1>4, <1>5
<1>6. CASE PlanAt(source, r, t) = << Segment(Historical, r.start, r.end) >>
  BY <1>2, <1>3, <1>4, <1>6
<1>7. CASE PlanAt(source, r, t) = << Segment("starrocks", r.start, r.end) >>
  BY <1>2, <1>3, <1>4, <1>7
<1>8. CASE PlanAt(source, r, t) = << Segment(Historical, r.start, AddDate(CutoffAt(t), -1)),
                                     Segment("starrocks", CutoffAt(t), r.end) >>
  BY <1>1, <1>2, <1>3, <1>4, <1>8
<1> QED BY <1>5, <1>6, <1>7, <1>8 DEF PlanAt

LEMMA TypesKept == TypesInv /\ [Next]_vars => TypesInv'
<1> SUFFICES ASSUME TypesInv, [Next]_vars PROVE TypesInv'
  OBVIOUS
<1>1. /\ zone \in Zones /\ cursor \in Int /\ range \in [start : Int, end : Int]
      /\ request.source \in Sources \cup {"auto"} /\ request.first \in Int /\ request.last \in Int
  BY CalendarAssumption DEF TypesInv, TypeOK
<1>2. ASSUME NEW list \in Seq(InstantSegments), NEW i \in DOMAIN list
      PROVE  LoopStart(list[i]) \in Int
  <2>1. list[i].range.start \in Int /\ 0 \in Int
    <3>1. list[i] \in InstantSegments
      OBVIOUS
    <3> QED BY <3>1 DEF InstantSegments
  <2> QED BY <1>1, <2>1, DateType DEF LoopStart
<1>3. CASE Refuse
  BY <1>3 DEF TypesInv, TypeOK, Refuse, NotRead
<1>4. CASE Accept
  <2>1. Midnight(request.first) \in Int /\ Midnight(request.last) \in Int
    BY <1>1, DateType
  <2> QED BY <1>4, <2>1 DEF TypesInv, TypeOK, Accept, NotRead
<1>5. CASE MakePlan
  <2>1. PICK t \in Clocks : now' = t /\ segs' = PlanAt(request.source, range, t)
    BY <1>5 DEF MakePlan
  <2>2. segs' \in Seq(InstantSegments) /\ Len(segs') \in Slots /\ 1 \in DOMAIN segs'
    <3>1. segs' \in Seq(InstantSegments) /\ Len(segs') \in Slots
      BY <1>1, <2>1, CalendarAssumption, PlanAtType
    <3> QED BY <3>1 DEF Slots
  <2>3. cursor' \in Int
    BY <1>2, <1>5, <2>2 DEF MakePlan
  <2>4. \A i \in DOMAIN segs' : segs'[i] \in InstantSegments
    BY <2>2
  <2> QED BY <1>5, <2>1, <2>2, <2>3, <2>4 DEF TypesInv, TypeOK, MakePlan, InstantSegments, Slots
<1>6. CASE Visit
  <2>1. cursor' \in Int /\ DayAt(cursor) \in Int
    BY <1>1, <1>6, DateType DEF Visit, NextDay
  <2>2. turn \in Slots
    BY <1>6 DEF TypesInv, TypeOK, Visit, Slots
  <2>3. << turn, DayAt(cursor) >> \in Slots \X Int
    BY <2>1, <2>2
  <2>4. seen' \subseteq Slots \X Int /\ again' \subseteq seen'
    BY <1>6, <2>3 DEF TypesInv, TypeOK, Visit
  <2> QED BY <1>6, <2>1, <2>4 DEF TypesInv, TypeOK, Visit
<1>7. CASE EndOfLoop
  <2>1. CASE turn < Len(segs)
    <3>1. turn + 1 \in DOMAIN segs /\ turn + 1 \in Slots
      BY <1>7, <2>1 DEF TypesInv, TypeOK, EndOfLoop, Slots
    <3>2. cursor' \in Int
      BY <1>2, <1>7, <2>1, <3>1 DEF TypesInv, EndOfLoop
    <3> QED BY <1>7, <2>1, <3>1, <3>2 DEF TypesInv, TypeOK, EndOfLoop
  <2>2. CASE ~ (turn < Len(segs))
    BY <1>7, <2>2 DEF TypesInv, TypeOK, EndOfLoop
  <2> QED BY <2>1, <2>2
<1>8. CASE UNCHANGED vars
  BY <1>8 DEF TypesInv, TypeOK, vars
<1> QED BY <1>3, <1>4, <1>5, <1>6, <1>7, <1>8 DEF Next

\* Whatever the zone, every instant and day of a call is a number of hours or days,
\* and the loop is at a segment the plan has.
LEMMA TypesHold == Spec => []TypesInv
<1>1. Init => TypesInv
  BY CalendarAssumption DEF Init, TypesInv, TypeOK, Slots
<1> QED BY <1>1, TypesKept, PTL DEF Spec

THEOREM CalendarTypes == Spec => []TypeOK
<1>1. TypesInv => TypeOK
  BY DEF TypesInv
<1> QED BY <1>1, TypesHold, PTL

-----------------------------------------------------------------------------
(* The days a call has read. *)

ZonesKeepMidnights == \A z \in Zones : KeepsMidnights(z)

\* What the loop has passed when it is about to look at day d of segment i.
ReadUpTo(plan, i, d) ==
  (UNION {{j} \X DaysOf(plan[j].range) : j \in 1 .. (i - 1)})
    \cup ({i} \X (plan[i].range.start .. (d - 1)))

ReadAll(plan) == UNION {{j} \X DaysOf(plan[j].range) : j \in DOMAIN plan}

\* An accepted range lies between two midnights, and its plan does too.
RangeInv ==
  /\ phase \in {"parsed", "reading", "done"} =>
       /\ request.first <= request.last
       /\ range = [start |-> Midnight(request.first), end |-> Midnight(request.last)]
  /\ phase \in {"reading", "done"} => now \in Clocks /\ OnMidnights(segs, DayPlan(now))

\* The loop variable is a midnight of its segment or the one after it, and exactly
\* the days before it have been read.
LoopInv ==
  /\ again = {}
  /\ phase \in {"new", "refused", "parsed"} => seen = {}
  /\ phase = "reading" =>
       LET r == DayPlan(now)[turn].range
           d == DayAt(cursor)
       IN  /\ cursor = Midnight(d)
           /\ d \in r.start .. (r.end + 1)
           /\ seen = ReadUpTo(DayPlan(now), turn, d)
  /\ phase = "done" => seen = ReadAll(DayPlan(now))

CalendarInv == RangeInv /\ LoopInv /\ NeverTooStrict

LEMMA Frozen ==
  ASSUME UNCHANGED << zone, request >>
  PROVE  /\ \A d : Midnight(d)' = Midnight(d)
         /\ \A t : DayAt(t)' = DayAt(t)
         /\ \A t : DayPlan(t)' = DayPlan(t)
<1>1. /\ \A d : Midnight(d)' = Midnight(d)
      /\ \A t : DayAt(t)' = DayAt(t)
  BY DEF Midnight, DayAt, Date, Offset
<1> QED BY <1>1 DEF DayPlan, AskedRange

LEMMA FrozenSegments ==
  ASSUME UNCHANGED << zone, request, now, segs >>
  PROVE  OnMidnights(segs, DayPlan(now))' <=> OnMidnights(segs, DayPlan(now))
<1>1. DayPlan(now)' = DayPlan(now)
  BY Frozen DEF DayPlan, AskedRange
<1>2. \A d : Midnight(d)' = Midnight(d)
  BY Frozen
<1> QED BY <1>1, <1>2 DEF OnMidnights

Reads == phase \in {"reading", "done"}

\* The plan of a call that reads, and the loops over its segments.
LoopsFollowPlan ==
  /\ AskedRange \in DateRanges /\ DayAt(now) \in Int
  /\ DayPlan(now) \in Plans /\ DayPlan(now) # << >>
  /\ DOMAIN segs = DOMAIN DayPlan(now) /\ Len(segs) = Len(DayPlan(now))
  /\ \A i \in DOMAIN DayPlan(now) :
       LET r == DayPlan(now)[i].range IN
       /\ r.start \in Int /\ r.end \in Int /\ r.start <= r.end
       /\ DayPlan(now)[i].source \in Sources
       /\ segs[i].source = DayPlan(now)[i].source
       /\ DayAt(segs[i].range.start) = r.start /\ DayAt(segs[i].range.end) = r.end
       /\ LoopStart(segs[i]) = Midnight(r.start) /\ LoopEnd(segs[i]) = Midnight(r.end)

LEMMA LoopFacts == ZonesKeepMidnights /\ TypesInv /\ RangeInv /\ Reads => LoopsFollowPlan
<1> SUFFICES ASSUME ZonesKeepMidnights, TypesInv, RangeInv, Reads PROVE LoopsFollowPlan
  OBVIOUS
<1>1. /\ zone \in Zones /\ KeepsMidnights(zone) /\ now \in Int
      /\ request.source \in Sources \cup {"auto"}
      /\ request.first \in Int /\ request.last \in Int
  BY CalendarAssumption DEF ZonesKeepMidnights, TypesInv, TypeOK, RangeInv, Reads
<1>2. AskedRange \in DateRanges
  BY <1>1 DEF RangeInv, Reads, AskedRange, DateRanges
<1>3. DayAt(now) \in Int
  <2>1. 0 \in Int
    OBVIOUS
  <2> QED BY <1>1, <2>1, DateType
<1>4. DayPlan(now) \in Plans /\ DayPlan(now) # << >>
  BY <1>1, <1>2, <1>3, PlanType DEF DayPlan
<1>5. DOMAIN segs = DOMAIN DayPlan(now) /\ Len(segs) = Len(DayPlan(now))
  BY <1>4 DEF RangeInv, Reads, OnMidnights, Plans
<1>6. ASSUME NEW i \in DOMAIN DayPlan(now)
      PROVE  LET r == DayPlan(now)[i].range IN
             /\ r.start \in Int /\ r.end \in Int /\ r.start <= r.end
             /\ DayPlan(now)[i].source \in Sources
             /\ segs[i].source = DayPlan(now)[i].source
             /\ DayAt(segs[i].range.start) = r.start /\ DayAt(segs[i].range.end) = r.end
             /\ LoopStart(segs[i]) = Midnight(r.start) /\ LoopEnd(segs[i]) = Midnight(r.end)
  <2> DEFINE r == DayPlan(now)[i].range
  <2>1. DayPlan(now)[i] \in Segments
    BY <1>4 DEF Plans
  <2>2. r.start \in Int /\ r.end \in Int /\ r.start <= r.end /\ DayPlan(now)[i].source \in Sources
    BY <2>1 DEF Segments
  <2>3. segs[i] = Segment(DayPlan(now)[i].source, Midnight(r.start), Midnight(r.end))
    BY DEF RangeInv, Reads, OnMidnights
  <2>4. /\ segs[i].source = DayPlan(now)[i].source
        /\ segs[i].range.start = Midnight(r.start) /\ segs[i].range.end = Midnight(r.end)
    BY <2>3 DEF Segment
  <2>5. DayAt(Midnight(r.start)) = r.start /\ DayAt(Midnight(r.end)) = r.end
    BY <1>1, <2>2, MidnightShown
  <2> QED BY <2>2, <2>4, <2>5 DEF LoopStart, LoopEnd
<1> QED BY <1>2, <1>3, <1>4, <1>5, <1>6 DEF LoopsFollowPlan

LEMMA ReadOneMore ==
  ASSUME NEW plan, NEW i \in Slots, plan[i].range.start \in Int,
         NEW d \in Int, plan[i].range.start <= d
  PROVE  /\ << i, d >> \notin ReadUpTo(plan, i, d)
         /\ ReadUpTo(plan, i, d) \cup {<< i, d >>} = ReadUpTo(plan, i, d + 1)
<1> DEFINE before == UNION {{j} \X DaysOf(plan[j].range) : j \in 1 .. (i - 1)}
           first == plan[i].range.start
<1>1. first .. ((d + 1) - 1) = (first .. (d - 1)) \cup {d}
  OBVIOUS
<1>2. << i, d >> \notin {i} \X (first .. (d - 1))
  OBVIOUS
<1>3. << i, d >> \notin before
  BY DEF Slots
<1>4. {i} \X ((first .. (d - 1)) \cup {d}) = ({i} \X (first .. (d - 1))) \cup {<< i, d >>}
  OBVIOUS
<1> QED BY <1>1, <1>2, <1>3, <1>4 DEF ReadUpTo

LEMMA ReadWholeSegment ==
  ASSUME NEW plan \in Plans, NEW i \in DOMAIN plan
  PROVE  /\ i < Len(plan) =>
              ReadUpTo(plan, i, plan[i].range.end + 1)
                = ReadUpTo(plan, i + 1, plan[i + 1].range.start)
         /\ i = Len(plan) => ReadUpTo(plan, i, plan[i].range.end + 1) = ReadAll(plan)
<1> DEFINE part(j) == {j} \X DaysOf(plan[j].range)
<1>1. /\ i \in Int /\ 1 <= i /\ i <= Len(plan) /\ DOMAIN plan = 1 .. Len(plan) /\ Len(plan) \in Nat
      /\ \A j \in DOMAIN plan : plan[j].range.start \in Int /\ plan[j].range.end \in Int
  BY DEF Plans, Segments
<1>2. ReadUpTo(plan, i, plan[i].range.end + 1) = UNION {part(j) : j \in 1 .. i}
  <2>1. plan[i].range.start .. ((plan[i].range.end + 1) - 1) = DaysOf(plan[i].range)
    BY <1>1 DEF DaysOf
  <2>2. 1 .. i = (1 .. (i - 1)) \cup {i}
    BY <1>1
  <2>3. UNION {part(j) : j \in (1 .. (i - 1)) \cup {i}} = (UNION {part(j) : j \in 1 .. (i - 1)}) \cup part(i)
    <3> HIDE DEF part
    <3> QED OBVIOUS
  <2> QED BY <2>1, <2>2, <2>3 DEF ReadUpTo
<1>3. ASSUME i < Len(plan)
      PROVE  ReadUpTo(plan, i + 1, plan[i + 1].range.start) = UNION {part(j) : j \in 1 .. i}
  <2>1. (i + 1) - 1 = i /\ i + 1 \in DOMAIN plan
    BY <1>1, <1>3
  <2>2. plan[i + 1].range.start .. (plan[i + 1].range.start - 1) = {}
    BY <1>1, <2>1
  <2>3. {i + 1} \X {} = {}
    OBVIOUS
  <2> QED BY <2>1, <2>2, <2>3 DEF ReadUpTo
<1>4. i = Len(plan) => ReadAll(plan) = UNION {part(j) : j \in 1 .. i}
  BY <1>1 DEF ReadAll
<1> QED BY <1>2, <1>3, <1>4

LEMMA RefuseStep == ZonesKeepMidnights /\ TypesInv /\ CalendarInv /\ Refuse => CalendarInv'
<1> SUFFICES ASSUME ZonesKeepMidnights, TypesInv, CalendarInv, Refuse PROVE CalendarInv'
  OBVIOUS
<1>1. /\ zone \in Zones /\ KeepsMidnights(zone)
      /\ request.first \in Int /\ request.last \in Int
  BY CalendarAssumption DEF ZonesKeepMidnights, TypesInv, TypeOK
<1>2. \/ request.last < request.first
      \/ request.last - request.first + 1 > MaxQueryDays
  <2>1. CASE request.first <= request.last
    <3>1. /\ Midnight(request.first) <= Midnight(request.last)
          /\ DaysBetween(Midnight(request.first), Midnight(request.last)) \in Int
          /\ DaysBetween(Midnight(request.first), Midnight(request.last))
                <= request.last - request.first + 1
      BY <1>1, <2>1, MidnightOrder, DaysCounted
    <3>2. ~ (DaysBetween(Midnight(request.first), Midnight(request.last)) <= MaxQueryDays)
      BY <3>1 DEF Refuse, Accepted
    <3> QED BY <1>1, <3>1, <3>2, CalendarAssumption
  <2> QED BY <1>1, <2>1
<1>3. NeverTooStrict' /\ phase' = "refused" /\ UNCHANGED << seen, again >>
  BY <1>2 DEF Refuse, NotRead, NeverTooStrict
<1> QED BY <1>3 DEF Refuse, CalendarInv, RangeInv, LoopInv

LEMMA AcceptStep == ZonesKeepMidnights /\ TypesInv /\ CalendarInv /\ Accept => CalendarInv'
<1> SUFFICES ASSUME ZonesKeepMidnights, TypesInv, CalendarInv, Accept PROVE CalendarInv'
  OBVIOUS
<1>1. /\ zone \in Zones /\ KeepsMidnights(zone)
      /\ request.first \in Int /\ request.last \in Int
  BY CalendarAssumption DEF ZonesKeepMidnights, TypesInv, TypeOK
<1>2. request.first <= request.last
  BY <1>1, MidnightOrder DEF Accept, Accepted
<1>3. UNCHANGED << zone, request >> /\ phase' = "parsed"
  BY DEF Accept, NotRead
<1>4. \A d : Midnight(d)' = Midnight(d)
  BY <1>3, Frozen
<1>5. RangeInv'
  BY <1>2, <1>3, <1>4 DEF Accept, RangeInv
<1> QED BY <1>3, <1>5 DEF Accept, NotRead, CalendarInv, LoopInv, NeverTooStrict

LEMMA MakePlanStep == ZonesKeepMidnights /\ TypesInv /\ CalendarInv /\ MakePlan => CalendarInv'
<1> SUFFICES ASSUME ZonesKeepMidnights, TypesInv, CalendarInv, MakePlan PROVE CalendarInv'
  OBVIOUS
<1>1. /\ UNCHANGED << zone, request, range, seen, again >>
      /\ phase = "parsed" /\ phase' = "reading" /\ turn' = 1 /\ cursor' = LoopStart(segs'[1])
  BY DEF MakePlan
<1>2. PICK t \in Clocks : now' = t /\ segs' = PlanAt(request.source, range, t)
  BY DEF MakePlan
<1>3. TypesInv' /\ ZonesKeepMidnights'
  BY TypesKept DEF Next, ZonesKeepMidnights, KeepsMidnights
<1>4. RangeInv'
  <2>1. /\ zone \in Zones /\ KeepsMidnights(zone) /\ t \in Int
        /\ request.source \in Sources \cup {"auto"}
        /\ request.first <= request.last /\ AskedRange \in DateRanges
    BY <1>1, CalendarAssumption
       DEF ZonesKeepMidnights, TypesInv, TypeOK, CalendarInv, RangeInv, AskedRange, DateRanges
  <2>2. OnMidnights(segs', DayPlan(t))
    BY <1>1, <1>2, <2>1, InstantPlan DEF CalendarInv, RangeInv
  <2>3. /\ \A d : Midnight(d)' = Midnight(d)
        /\ DayPlan(now)' = DayPlan(t)
    BY <1>1, <1>2, Frozen DEF DayPlan, AskedRange, DayAt, Offset
  <2>4. OnMidnights(segs, DayPlan(now))'
    BY <2>2, <2>3 DEF OnMidnights
  <2> QED BY <1>1, <1>2, <2>3, <2>4 DEF CalendarInv, RangeInv
<1>5. LoopInv'
  <2> DEFINE plan == DayPlan(now)
             r == plan[1].range
  <2>1. /\ 1 \in DOMAIN plan'
        /\ r'.start \in Int /\ r'.end \in Int /\ r'.start <= r'.end
        /\ LoopStart(segs[1])' = Midnight(r.start)'
    <3>1. Reads'
      BY <1>1 DEF Reads
    <3>2. LoopsFollowPlan'
      BY <1>3, <1>4, <3>1, LoopFacts, PTL
    <3>3. 1 \in DOMAIN plan'
      BY <3>2 DEF LoopsFollowPlan, Plans
    <3> QED BY <3>2, <3>3 DEF LoopsFollowPlan
  <2>2. LoopStart(segs[1])' = LoopStart(segs'[1])
    BY <1>1, Frozen DEF LoopStart
  <2>3. cursor' = Midnight(r.start)'
    BY <1>1, <2>1, <2>2
  <2>4. DayAt(cursor)' = r'.start
    <3>1. zone' \in Zones /\ KeepsMidnights(zone')
      BY <1>3 DEF TypesInv, TypeOK, ZonesKeepMidnights
    <3>2. DayAt(Midnight(r'.start)) = r'.start
      BY <1>1, <2>1, <3>1, MidnightShown
    <3>3. DayAt(cursor)' = DayAt(cursor') /\ Midnight(r.start)' = Midnight(r'.start)
      BY <1>1, Frozen DEF DayAt, Offset, Midnight, Date
    <3> QED BY <2>3, <3>2, <3>3
  <2>5. ReadUpTo(plan', 1, r'.start) = {}
    <3>1. r'.start .. (r'.start - 1) = {} /\ 1 .. (1 - 1) = {}
      BY <2>1
    <3> QED BY <3>1 DEF ReadUpTo
  <2>6. seen' = {} /\ again' = {}
    BY <1>1 DEF CalendarInv, LoopInv
  <2> QED BY <1>1, <2>1, <2>3, <2>4, <2>5, <2>6 DEF LoopInv, ReadUpTo
<1> QED BY <1>1, <1>4, <1>5 DEF CalendarInv, NeverTooStrict

\* The loop variable at the midnight of a day, seen from the next state.
LEMMA CursorMoves ==
  ASSUME zone \in Zones, KeepsMidnights(zone), UNCHANGED << zone, request, now >>,
         NEW d \in Int, cursor' = Midnight(d)
  PROVE  /\ DayAt(cursor)' = d /\ cursor' = Midnight(DayAt(cursor))'
         /\ DayPlan(now)' = DayPlan(now)
<1>1. DayAt(Midnight(d)) = d
  BY MidnightShown
<1>2. DayAt(cursor)' = DayAt(cursor')
  BY DEF DayAt, Offset
<1>3. Midnight(DayAt(cursor))' = Midnight(DayAt(cursor'))
  BY <1>2 DEF Midnight, Date, Offset
<1>4. DayPlan(now)' = DayPlan(now)
  BY DEF DayPlan, AskedRange, DayAt, Offset
<1> QED BY <1>1, <1>2, <1>3, <1>4

LEMMA VisitStep == ZonesKeepMidnights /\ TypesInv /\ CalendarInv /\ Visit => CalendarInv'
<1> SUFFICES ASSUME ZonesKeepMidnights, TypesInv, CalendarInv, Visit PROVE CalendarInv'
  OBVIOUS
<1> DEFINE plan == DayPlan(now)
           r == plan[turn].range
           d == DayAt(cursor)
<1>1. /\ zone \in Zones /\ KeepsMidnights(zone) /\ turn \in Slots
      /\ UNCHANGED << zone, request, phase, range, now, segs, turn >>
      /\ phase = "reading" /\ cursor <= LoopEnd(segs[turn])
  BY DEF ZonesKeepMidnights, TypesInv, TypeOK, Visit, Slots
<1>2. LoopsFollowPlan
  BY <1>1, LoopFacts DEF CalendarInv, Reads
<1>3. /\ turn \in DOMAIN plan /\ r.start \in Int /\ r.end \in Int
      /\ LoopEnd(segs[turn]) = Midnight(r.end)
  BY <1>1, <1>2 DEF LoopsFollowPlan, TypesInv
<1>4. /\ cursor = Midnight(d) /\ d \in r.start .. (r.end + 1)
      /\ seen = ReadUpTo(plan, turn, d) /\ again = {}
  BY <1>1 DEF CalendarInv, LoopInv
<1>5. d \in Int /\ r.start <= d /\ d + 1 \in Int /\ d <= r.end
  <2>1. d \in Int
    BY <1>3, <1>4
  <2>2. Midnight(d) <= Midnight(r.end)
    BY <1>1, <1>3, <1>4
  <2>3. d <= r.end
    BY <1>1, <1>3, <2>1, <2>2, MidnightOrder
  <2> QED BY <1>3, <1>4, <2>1, <2>3
<1>6. /\ << turn, d >> \notin seen
      /\ seen \cup {<< turn, d >>} = ReadUpTo(plan, turn, d + 1)
  BY <1>1, <1>3, <1>4, <1>5, ReadOneMore
<1>7. seen' = ReadUpTo(plan, turn, d + 1) /\ again' = {}
  BY <1>4, <1>6 DEF Visit
<1>8. cursor' = Midnight(d + 1)
  BY <1>1, <1>4, <1>5, AddDateOnMidnight DEF Visit, NextDay
<1>9. /\ DayAt(cursor)' = d + 1 /\ cursor' = Midnight(DayAt(cursor))'
      /\ DayPlan(now)' = plan
  BY <1>1, <1>5, <1>8, CursorMoves
<1>10. LoopInv'
  <2>1. d + 1 \in r.start .. (r.end + 1)
    BY <1>3, <1>5
  <2> QED BY <1>1, <1>7, <1>9, <2>1 DEF LoopInv
<1>11. RangeInv'
  BY <1>1, Frozen, FrozenSegments DEF CalendarInv, RangeInv
<1> QED BY <1>1, <1>10, <1>11 DEF CalendarInv, NeverTooStrict

LEMMA EndOfLoopStep == ZonesKeepMidnights /\ TypesInv /\ CalendarInv /\ EndOfLoop => CalendarInv'
<1> SUFFICES ASSUME ZonesKeepMidnights, TypesInv, CalendarInv, EndOfLoop PROVE CalendarInv'
  OBVIOUS
<1> DEFINE plan == DayPlan(now)
           r == plan[turn].range
           d == DayAt(cursor)
<1>1. /\ zone \in Zones /\ KeepsMidnights(zone) /\ turn \in Slots
      /\ UNCHANGED << zone, request, range, now, segs, seen, again >>
      /\ phase = "reading" /\ cursor > LoopEnd(segs[turn])
  BY DEF ZonesKeepMidnights, TypesInv, TypeOK, EndOfLoop, Slots
<1>2. LoopsFollowPlan
  BY <1>1, LoopFacts DEF CalendarInv, Reads
<1>3. /\ turn \in DOMAIN plan /\ plan \in Plans /\ Len(plan) = Len(segs)
      /\ r.start \in Int /\ r.end \in Int
      /\ LoopEnd(segs[turn]) = Midnight(r.end)
  BY <1>1, <1>2 DEF LoopsFollowPlan, TypesInv
<1>4. /\ cursor = Midnight(d) /\ d \in r.start .. (r.end + 1)
      /\ seen = ReadUpTo(plan, turn, d) /\ again = {}
  BY <1>1 DEF CalendarInv, LoopInv
<1>5. d = r.end + 1
  <2>1. d \in Int /\ Midnight(d) \in Int /\ Midnight(r.end) \in Int
    BY <1>1, <1>3, <1>4, MidnightShown
  <2>2. ~ (Midnight(d) <= Midnight(r.end))
    BY <1>1, <1>3, <1>4, <2>1
  <2>3. ~ (d <= r.end)
    BY <1>1, <1>3, <2>1, <2>2, MidnightOrder
  <2> QED BY <1>3, <1>4, <2>1, <2>3
<1>6. RangeInv'
  <2>1. OnMidnights(segs, plan) /\ phase' \in {"reading", "done"}
    BY <1>1 DEF EndOfLoop, CalendarInv, RangeInv
  <2> QED BY <1>1, <2>1, Frozen, FrozenSegments DEF CalendarInv, RangeInv
<1>7. CASE turn < Len(segs)
  <2> DEFINE first == plan[turn + 1].range.start
  <2>1. /\ phase' = "reading" /\ turn' = turn + 1
        /\ cursor' = LoopStart(segs[turn + 1])
    BY <1>1, <1>7 DEF EndOfLoop
  <2>2. turn + 1 \in DOMAIN plan
    BY <1>3, <1>7 DEF Plans
  <2>3. first \in Int /\ plan[turn + 1].range.end \in Int /\ first <= plan[turn + 1].range.end
        /\ cursor' = Midnight(first)
    BY <1>2, <2>1, <2>2 DEF LoopsFollowPlan
  <2>4. /\ DayAt(cursor)' = first /\ cursor' = Midnight(DayAt(cursor))'
        /\ DayPlan(now)' = plan
    BY <1>1, <2>3, CursorMoves
  <2>5. seen = ReadUpTo(plan, turn + 1, first)
    BY <1>3, <1>4, <1>5, <1>7, ReadWholeSegment
  <2>6. LoopInv'
    <3>1. first \in first .. (plan[turn + 1].range.end + 1)
      BY <2>3
    <3> QED BY <1>1, <1>4, <2>1, <2>4, <2>5, <3>1 DEF LoopInv
  <2> QED BY <1>6, <2>1, <2>6 DEF CalendarInv, NeverTooStrict
<1>8. CASE ~ (turn < Len(segs))
  <2>1. turn = Len(plan)
    BY <1>3, <1>8 DEF Plans
  <2>2. seen = ReadAll(plan)
    BY <1>3, <1>4, <1>5, <2>1, ReadWholeSegment
  <2>3. DayPlan(now)' = plan
    BY <1>1 DEF DayPlan, AskedRange, DayAt, Offset
  <2>4. LoopInv'
    BY <1>1, <1>4, <1>8, <2>2, <2>3 DEF LoopInv, EndOfLoop
  <2> QED BY <1>6, <1>8, <2>4 DEF CalendarInv, NeverTooStrict, EndOfLoop
<1> QED BY <1>7, <1>8

LEMMA CalendarInvKept ==
  ZonesKeepMidnights /\ TypesInv /\ CalendarInv /\ [Next]_vars => CalendarInv'
<1>1. CASE UNCHANGED vars
  <2> SUFFICES ASSUME CalendarInv PROVE CalendarInv'
    OBVIOUS
  <2>1. UNCHANGED << zone, request, phase, range, now, segs, turn, cursor, seen, again >>
    BY <1>1 DEF vars
  <2>2. RangeInv'
    BY <2>1, Frozen, FrozenSegments DEF CalendarInv, RangeInv
  <2>3. DayPlan(now)' = DayPlan(now) /\ DayAt(cursor)' = DayAt(cursor)
        /\ Midnight(DayAt(cursor))' = Midnight(DayAt(cursor))
    BY <2>1 DEF DayPlan, AskedRange, DayAt, Offset, Midnight, Date
  <2>4. LoopInv'
    BY <2>1, <2>3 DEF CalendarInv, LoopInv
  <2> QED BY <2>1, <2>2, <2>4 DEF CalendarInv, NeverTooStrict
<1> QED BY <1>1, RefuseStep, AcceptStep, MakePlanStep, VisitStep, EndOfLoopStep DEF Next

\* The invariant of a call in a zone whose clock skips no midnight.
LEMMA CallsFollowDays == ZonesKeepMidnights => (Spec => [](TypesInv /\ CalendarInv))
<1> SUFFICES ASSUME ZonesKeepMidnights PROVE Spec => [](TypesInv /\ CalendarInv)
  OBVIOUS
<1>1. Init => CalendarInv
  BY DEF Init, CalendarInv, RangeInv, LoopInv, NeverTooStrict
<1>2. TypesInv /\ CalendarInv /\ [Next]_vars => CalendarInv'
  BY CalendarInvKept
<1> QED BY <1>1, <1>2, TypesHold, PTL DEF Spec

-----------------------------------------------------------------------------
(* What a finished call has read. *)

LEMMA ReadPairs ==
  ASSUME TypesInv, LoopInv, phase = "done"
  PROVE  /\ \A v \in seen : /\ v[1] \in DOMAIN DayPlan(now)
                            /\ v[2] \in DaysOf(DayPlan(now)[v[1]].range)
                            /\ v = << v[1], v[2] >>
         /\ \A i \in DOMAIN DayPlan(now) : \A d \in DaysOf(DayPlan(now)[i].range) :
              << i, d >> \in seen
<1> DEFINE plan == DayPlan(now)
<1>1. seen = ReadAll(plan)
  BY DEF LoopInv
<1>2. ASSUME NEW v \in seen
      PROVE  /\ v[1] \in DOMAIN plan /\ v[2] \in DaysOf(plan[v[1]].range)
             /\ v = << v[1], v[2] >>
  <2>1. PICK i \in DOMAIN plan : v \in {i} \X DaysOf(plan[i].range)
    BY <1>1 DEF ReadAll
  <2>2. PICK d \in DaysOf(plan[i].range) : v = << i, d >>
    BY <2>1
  <2> QED BY <2>2
<1>3. ASSUME NEW i \in DOMAIN plan, NEW d \in DaysOf(plan[i].range)
      PROVE  << i, d >> \in seen
  <2>1. << i, d >> \in {i} \X DaysOf(plan[i].range)
    OBVIOUS
  <2> QED BY <1>1, <2>1 DEF ReadAll
<1> QED BY <1>2, <1>3

\* Any plan, not only that of source=auto, has each requested day in one segment.
LEMMA PlanPartitions ==
  ASSUME NEW requested \in Sources \cup {"auto"}, NEW asked \in DateRanges, NEW today \in Int
  PROVE  LET plan == Plan(requested, asked, today) IN
         /\ \A d \in DaysOf(asked) : \E i \in DOMAIN plan :
              /\ d \in DaysOf(plan[i].range)
              /\ \A j \in DOMAIN plan : d \in DaysOf(plan[j].range) => j = i
         /\ \A i \in DOMAIN plan : DaysOf(plan[i].range) \subseteq DaysOf(asked)
<1>1. CASE requested \in Sources
  <2>1. "auto" \notin Sources
    BY DEF Sources
  <2>2. Plan(requested, asked, today) = << Segment(requested, asked.start, asked.end) >>
    BY <1>1, <2>1, PlanCases
  <2>3. /\ DOMAIN Plan(requested, asked, today) = {1}
        /\ DaysOf(Plan(requested, asked, today)[1].range) = DaysOf(asked)
    BY <2>2 DEF Segment, DaysOf
  <2> QED BY <2>3
<1>2. CASE requested = "auto"
  BY <1>2, PlanCoversOnce DEF CoversOnce
<1> QED BY <1>1, <1>2

LEMMA DoneReadsEachDay ==
  ASSUME ZonesKeepMidnights, TypesInv, CalendarInv
  PROVE  EachDayOnce /\ AdaptersAgree
<1> SUFFICES ASSUME phase = "done" PROVE EachDayOnce /\ AdaptersAgree
  BY DEF EachDayOnce, AdaptersAgree
<1> DEFINE plan == DayPlan(now)
<1>1. LoopsFollowPlan
  BY LoopFacts DEF CalendarInv, Reads
<1>2. /\ \A v \in seen : v[1] \in DOMAIN plan /\ v[2] \in DaysOf(plan[v[1]].range) /\ v = << v[1], v[2] >>
      /\ \A i \in DOMAIN plan : \A d \in DaysOf(plan[i].range) : << i, d >> \in seen
  BY ReadPairs DEF CalendarInv
<1>3. /\ \A d \in DaysOf(AskedRange) : \E i \in DOMAIN plan :
           /\ d \in DaysOf(plan[i].range)
           /\ \A j \in DOMAIN plan : d \in DaysOf(plan[j].range) => j = i
      /\ \A i \in DOMAIN plan : DaysOf(plan[i].range) \subseteq DaysOf(AskedRange)
  <2>1. request.source \in Sources \cup {"auto"}
    BY CalendarAssumption DEF TypesInv, TypeOK
  <2> QED BY <1>1, <2>1, PlanPartitions DEF LoopsFollowPlan, DayPlan
<1>4. DaysOf(AskedRange) = AskedDays
  BY DEF AskedRange, AskedDays, DaysOf
<1>5. {v[2] : v \in seen} = AskedDays
  <2>1. \A v \in seen : v[2] \in AskedDays
    BY <1>2, <1>3, <1>4
  <2>2. ASSUME NEW d \in AskedDays PROVE d \in {v[2] : v \in seen}
    <3>1. PICK i \in DOMAIN plan : d \in DaysOf(plan[i].range)
      BY <1>3, <1>4
    <3>2. << i, d >> \in seen /\ << i, d >>[2] = d
      BY <1>2, <3>1
    <3> QED BY <3>2
  <2> QED BY <2>1, <2>2
<1>6. ASSUME NEW v \in seen, NEW w \in seen, v[2] = w[2] PROVE v = w
  <2>1. v[1] = w[1]
    BY <1>2, <1>3, <1>6
  <2> QED BY <1>2, <1>6, <2>1
<1>7. EachDayOnce
  BY <1>5, <1>6 DEF EachDayOnce, CalendarInv, LoopInv
<1>8. ASSUME NEW i \in DOMAIN segs
      PROVE  {v[2] : v \in {w \in seen : w[1] = i}} = StatementDays(segs[i])
  <2>1. i \in DOMAIN plan /\ StatementDays(segs[i]) = DaysOf(plan[i].range)
    BY <1>1 DEF LoopsFollowPlan, StatementDays, DaysOf
  <2>2. \A v \in seen : v[1] = i => v[2] \in DaysOf(plan[i].range)
    BY <1>2
  <2>3. ASSUME NEW d \in DaysOf(plan[i].range)
        PROVE  d \in {v[2] : v \in {w \in seen : w[1] = i}}
    <3>1. << i, d >> \in seen /\ << i, d >>[1] = i /\ << i, d >>[2] = d
      BY <1>2, <2>1
    <3> QED BY <3>1
  <2> QED BY <2>1, <2>2, <2>3
<1> QED BY <1>7, <1>8 DEF AdaptersAgree

LEMMA SegmentsAreDays ==
  ASSUME ZonesKeepMidnights, TypesInv, CalendarInv
  PROVE  SegmentsFollowCutoff
<1> SUFFICES ASSUME Reads PROVE SegmentsFollowCutoff
  BY DEF SegmentsFollowCutoff, Reads
<1> DEFINE plan == DayPlan(now)
           days == [i \in DOMAIN segs |-> Segment(segs[i].source, DayAt(segs[i].range.start),
                                                 DayAt(segs[i].range.end))]
<1>1. LoopsFollowPlan
  BY LoopFacts DEF CalendarInv
<1>2. DOMAIN segs = DOMAIN plan /\ plan \in Seq(Segments)
  BY <1>1 DEF LoopsFollowPlan, Plans
<1>3. ASSUME NEW i \in DOMAIN plan
      PROVE  Segment(segs[i].source, DayAt(segs[i].range.start), DayAt(segs[i].range.end)) = plan[i]
  <2>1. plan[i] \in [source : Sources, range : [start : Int, end : Int]]
    BY <1>2 DEF Segments
  <2>2. plan[i] = Segment(plan[i].source, plan[i].range.start, plan[i].range.end)
    BY <2>1 DEF Segment
  <2>3. /\ segs[i].source = plan[i].source
        /\ DayAt(segs[i].range.start) = plan[i].range.start
        /\ DayAt(segs[i].range.end) = plan[i].range.end
    BY <1>1 DEF LoopsFollowPlan
  <2> QED BY <2>2, <2>3
<1>4. days = plan
  <2>1. plan = [i \in DOMAIN plan |-> plan[i]]
    BY <1>2
  <2> HIDE DEF plan
  <2> QED BY <1>2, <1>3, <2>1
<1> QED BY <1>4 DEF SegmentsFollowCutoff, DayPlan, AskedRange

\* The days of the segment the loop is in that it has not read.
LEMMA DaysLeftFacts ==
  ASSUME ZonesKeepMidnights, TypesInv, CalendarInv, phase = "reading"
  PROVE  LET r == DayPlan(now)[turn].range IN
         /\ zone \in Zones /\ KeepsMidnights(zone)
         /\ r.start \in Int /\ r.end \in Int /\ DayAt(cursor) \in Int
         /\ cursor = Midnight(DayAt(cursor)) /\ DayAt(cursor) <= r.end + 1
         /\ LoopEnd(segs[turn]) = Midnight(r.end)
         /\ DaysLeft = r.end + 1 - DayAt(cursor)
<1> DEFINE r == DayPlan(now)[turn].range
<1>1. zone \in Zones /\ KeepsMidnights(zone) /\ LoopsFollowPlan
  BY LoopFacts DEF ZonesKeepMidnights, TypesInv, TypeOK, CalendarInv, Reads
<1>2. turn \in DOMAIN DayPlan(now)
  BY <1>1 DEF LoopsFollowPlan, TypesInv
<1>3. r.start \in Int /\ r.end \in Int /\ LoopEnd(segs[turn]) = Midnight(r.end)
  BY <1>1, <1>2 DEF LoopsFollowPlan
<1>4. cursor = Midnight(DayAt(cursor)) /\ DayAt(cursor) \in r.start .. (r.end + 1)
  BY DEF CalendarInv, LoopInv
<1>5. DayAt(Midnight(r.end)) = r.end
  BY <1>1, <1>3, MidnightShown
<1> QED BY <1>1, <1>3, <1>4, <1>5 DEF DaysLeft

LEMMA VisitAdvances ==
  ASSUME ZonesKeepMidnights, TypesInv, CalendarInv, Visit
  PROVE  DaysLeft > 0 /\ DaysLeft' = DaysLeft - 1 /\ turn' = turn /\ phase' = "reading"
<1> DEFINE r == DayPlan(now)[turn].range
           d == DayAt(cursor)
<1>1. /\ UNCHANGED << zone, request, phase, range, now, segs, turn >>
      /\ phase = "reading" /\ cursor <= LoopEnd(segs[turn]) /\ cursor' = NextDay(cursor)
  BY DEF Visit
<1>2. /\ zone \in Zones /\ KeepsMidnights(zone) /\ r.end \in Int /\ d \in Int
      /\ cursor = Midnight(d) /\ LoopEnd(segs[turn]) = Midnight(r.end)
      /\ DaysLeft = r.end + 1 - d
  BY <1>1, DaysLeftFacts
<1>3. d <= r.end
  <2>1. Midnight(d) <= Midnight(r.end)
    BY <1>1, <1>2
  <2> QED BY <1>2, <2>1, MidnightOrder
<1>4. DayAt(cursor)' = d + 1
  <2>1. cursor' = AddDate(Midnight(d), 1)
    BY <1>1, <1>2 DEF NextDay
  <2>2. AddDate(Midnight(d), 1) = Midnight(d + 1)
    BY <1>2, AddDateOnMidnight
  <2>3. d + 1 \in Int
    BY <1>2
  <2> QED BY <1>1, <1>2, <2>1, <2>2, <2>3, CursorMoves
<1>5. DaysLeft' = DaysLeft - 1
  <2>1. DayAt(LoopEnd(segs[turn]))' = DayAt(LoopEnd(segs[turn]))
    BY <1>1 DEF DayAt, Offset, LoopEnd, Midnight, Date
  <2>2. DaysLeft' = DayAt(LoopEnd(segs[turn])) + 1 - (d + 1)
    BY <1>4, <2>1 DEF DaysLeft
  <2>3. DayAt(LoopEnd(segs[turn])) = r.end
    BY <1>2, MidnightShown
  <2> QED BY <1>2, <2>2, <2>3
<1> QED BY <1>1, <1>2, <1>3, <1>5

LEMMA LeftWhenRead ==
  ASSUME ZonesKeepMidnights, TypesInv, CalendarInv, EndOfLoop
  PROVE  DaysLeft = 0 /\ (turn' = turn + 1 \/ phase' = "done")
<1> DEFINE r == DayPlan(now)[turn].range
           d == DayAt(cursor)
<1>1. phase = "reading" /\ cursor > LoopEnd(segs[turn]) /\ (turn' = turn + 1 \/ phase' = "done")
  BY DEF EndOfLoop
<1>2. /\ zone \in Zones /\ KeepsMidnights(zone) /\ r.end \in Int /\ d \in Int
      /\ cursor = Midnight(d) /\ d <= r.end + 1 /\ LoopEnd(segs[turn]) = Midnight(r.end)
      /\ DaysLeft = r.end + 1 - d
  BY <1>1, DaysLeftFacts
<1>3. ~ (d <= r.end)
  <2>1. Midnight(d) \in Int /\ Midnight(r.end) \in Int
    BY <1>2, MidnightShown
  <2>2. ~ (Midnight(d) <= Midnight(r.end))
    BY <1>1, <1>2, <2>1
  <2> QED BY <1>2, <2>2, MidnightOrder
<1> QED BY <1>1, <1>2, <1>3

\* In every zone whose clock skips no midnight, each pass of a loop leaves one day
\* less to read, and never less than none: no day is long or short enough to keep
\* eachDay in place or to make it jump.
THEOREM LoopsAdvanceDayByDay == ZonesKeepMidnights => (Spec => LoopsAdvance)
<1> SUFFICES ASSUME ZonesKeepMidnights PROVE Spec => LoopsAdvance
  OBVIOUS
<1> DEFINE Advance ==
      phase = "reading" =>
        \/ DaysLeft > 0 /\ DaysLeft' = DaysLeft - 1 /\ turn' = turn /\ phase' = "reading"
        \/ DaysLeft = 0 /\ (turn' = turn + 1 \/ phase' = "done")
<1>1. TypesInv /\ CalendarInv /\ [Next]_vars => [Advance]_vars
  <2> SUFFICES ASSUME TypesInv, CalendarInv, Next, phase = "reading" PROVE Advance
    OBVIOUS
  <2>1. Visit \/ EndOfLoop
    BY DEF Next, Refuse, Accept, MakePlan
  <2> QED BY <2>1, VisitAdvances, LeftWhenRead
<1>2. Spec => [][Advance]_vars
  BY <1>1, CallsFollowDays, PTL DEF Spec
<1> QED BY <1>2 DEF LoopsAdvance

\* In every zone whose clock skips no midnight, a call reads each day of its range
\* once, in one segment, and no other (eachDay across days of any length).
THEOREM CallsReadEachDayOnce == ZonesKeepMidnights => (Spec => []EachDayOnce)
<1> SUFFICES ASSUME ZonesKeepMidnights PROVE Spec => []EachDayOnce
  OBVIOUS
<1>1. TypesInv /\ CalendarInv => EachDayOnce
  BY DoneReadsEachDay
<1> QED BY <1>1, CallsFollowDays, PTL

\* There, the loop of the memory repository and the comparison of dates in a
\* statement select the same days of a segment.
THEOREM AdaptersReadTheSameDays == ZonesKeepMidnights => (Spec => []AdaptersAgree)
<1> SUFFICES ASSUME ZonesKeepMidnights PROVE Spec => []AdaptersAgree
  OBVIOUS
<1>1. TypesInv /\ CalendarInv => AdaptersAgree
  BY DoneReadsEachDay
<1> QED BY <1>1, CallsFollowDays, PTL

\* There, Plan on instants (cutoff by AddDate, comparison by Before) is Plan on days.
THEOREM InstantsPlanAsDays == ZonesKeepMidnights => (Spec => []SegmentsFollowCutoff)
<1> SUFFICES ASSUME ZonesKeepMidnights PROVE Spec => []SegmentsFollowCutoff
  OBVIOUS
<1>1. TypesInv /\ CalendarInv => SegmentsFollowCutoff
  BY SegmentsAreDays
<1> QED BY <1>1, CallsFollowDays, PTL

\* There, NewDateRange, which divides hours by 24, refuses no range of legal length.
THEOREM LegalRangesAccepted == ZonesKeepMidnights => (Spec => []NeverTooStrict)
<1> SUFFICES ASSUME ZonesKeepMidnights PROVE Spec => []NeverTooStrict
  OBVIOUS
<1>1. CalendarInv => NeverTooStrict
  BY DEF CalendarInv
<1> QED BY <1>1, CallsFollowDays, PTL

-----------------------------------------------------------------------------
(* The limit on days, counted in hours.                                      *)

\* An hour that a change of the clock skips can hide one day of a range from
\* NewDateRange's division by 24, and never two.
LEMMA DaysMissed ==
  ASSUME zone \in Zones, KeepsMidnights(zone), NEW d \in Int, NEW e \in Int, d <= e
  PROVE  /\ DaysBetween(Midnight(d), Midnight(e)) \in Int
         /\ e - d <= DaysBetween(Midnight(d), Midnight(e))
         /\ zone.after <= zone.before => e - d + 1 <= DaysBetween(Midnight(d), Midnight(e))
<1> DEFINE first == Midnight(d)
           last == Midnight(e)
           hours == last - first
<1>1. /\ first \in Int /\ first + Offset(first) = 24 * d
      /\ last \in Int /\ last + Offset(last) = 24 * e
      /\ first <= last
  BY MidnightShown, MidnightOrder
<1>2. zone.after - zone.before < 24
  <2> DEFINE gap == zone.at + zone.before
             skipped == 24 * ((gap + 23) \div 24)
  <2>1. zone.before \in Int /\ zone.after \in Int /\ gap \in Int
    BY ZoneFacts
  <2> HIDE DEF gap
  <2>2. skipped \in Int /\ gap <= skipped /\ skipped <= gap + 23 /\ skipped % 24 = 0
    BY <2>1
  <2> HIDE DEF skipped
  <2>3. SUFFICES ASSUME zone.after - zone.before >= 24 PROVE FALSE
    BY <2>1
  <2>4. gap + 23 <= zone.at + zone.after - 1
    BY <2>1, <2>3, ZoneFacts DEF gap
  <2>5. skipped \in gap .. (zone.at + zone.after - 1)
    BY <2>1, <2>2, <2>4, ZoneFacts
  <2> QED BY <2>2, <2>5 DEF KeepsMidnights, gap
<1>3. /\ Offset(first) \in Int /\ Offset(last) \in Int
      /\ Offset(first) - Offset(last) > -24
      /\ zone.after <= zone.before => Offset(first) >= Offset(last)
  <2> HIDE DEF first, last
  <2> QED BY <1>1, <1>2, ZoneFacts DEF Offset
<1>4. /\ hours \in Int /\ hours > 24 * (e - d - 1)
      /\ zone.after <= zone.before => hours >= 24 * (e - d)
  <2> HIDE DEF first, last
  <2> QED BY <1>1, <1>3
<1>5. /\ hours \div 24 \in Int /\ hours \div 24 >= e - d - 1
      /\ zone.after <= zone.before => hours \div 24 >= e - d
  <2> HIDE DEF hours
  <2> QED BY <1>4
<1>6. DaysBetween(Midnight(d), Midnight(e)) = hours \div 24 + 1
  BY DEF DaysBetween
<1> HIDE DEF hours
<1> QED BY <1>5, <1>6

\* A range that was accepted is longer than the limit by at most so many days.
WithinLimit(extra) ==
  phase \notin {"new", "refused"} =>
    request.last - request.first + 1 <= MaxQueryDays + extra

\* No clock of the service is ever put forward, as in the default Asia/Shanghai of
\* today.
ClocksStay == \A z \in Zones : z.after <= z.before

LEMMA LimitStep ==
  ASSUME NEW extra \in {0, 1}, ZonesKeepMidnights, extra = 1 \/ ClocksStay
  PROVE  TypesInv /\ WithinLimit(extra) /\ [Next]_vars => WithinLimit(extra)'
<1> SUFFICES ASSUME TypesInv, WithinLimit(extra), [Next]_vars PROVE WithinLimit(extra)'
  OBVIOUS
<1>1. CASE Accept
  <2>1. /\ zone \in Zones /\ KeepsMidnights(zone)
        /\ request.first \in Int /\ request.last \in Int
    BY CalendarAssumption DEF ZonesKeepMidnights, TypesInv, TypeOK
  <2>2. /\ Accepted(Midnight(request.first), Midnight(request.last))
        /\ request' = request
    BY <1>1 DEF Accept, NotRead
  <2>3. request.first <= request.last
    BY <2>1, <2>2, MidnightOrder DEF Accepted
  <2> DEFINE counted == DaysBetween(Midnight(request.first), Midnight(request.last))
  <2>4. /\ counted \in Int /\ counted <= MaxQueryDays
        /\ request.last - request.first <= counted
        /\ zone.after <= zone.before => request.last - request.first + 1 <= counted
    BY <2>1, <2>2, <2>3, DaysMissed DEF Accepted
  <2>5. extra = 1 \/ zone.after <= zone.before
    BY <2>1 DEF ClocksStay
  <2> HIDE DEF counted
  <2>6. request.last - request.first + 1 <= MaxQueryDays + extra
    BY <2>1, <2>4, <2>5, CalendarAssumption
  <2> QED BY <2>2, <2>6 DEF WithinLimit
<1>2. CASE Refuse
  BY <1>2 DEF Refuse, WithinLimit
<1>3. CASE MakePlan
  BY <1>3 DEF MakePlan, WithinLimit
<1>4. CASE Visit
  BY <1>4 DEF Visit, WithinLimit
<1>5. CASE EndOfLoop
  BY <1>5 DEF EndOfLoop, WithinLimit
<1>6. CASE UNCHANGED vars
  BY <1>6 DEF vars, WithinLimit
<1> QED BY <1>1, <1>2, <1>3, <1>4, <1>5, <1>6 DEF Next

\* The design's limit holds where no clock is put forward.
THEOREM LimitHolds == ZonesKeepMidnights /\ ClocksStay => (Spec => []LimitRespected)
<1> SUFFICES ASSUME ZonesKeepMidnights, ClocksStay PROVE Spec => []LimitRespected
  OBVIOUS
<1>1. Init => WithinLimit(0)
  BY DEF Init, WithinLimit
<1>2. TypesInv /\ WithinLimit(0) /\ [Next]_vars => WithinLimit(0)'
  BY LimitStep
<1>3. TypesInv /\ WithinLimit(0) => LimitRespected
  BY CalendarAssumption DEF WithinLimit, LimitRespected
<1> QED BY <1>1, <1>2, <1>3, TypesHold, PTL DEF Spec

\* Where a clock is put forward, MAX_QUERY_DAYS is exceeded by one day at most: the
\* hours of a range are never short of a second day.
THEOREM LimitMissedByOne == ZonesKeepMidnights => (Spec => []WithinLimit(1))
<1> SUFFICES ASSUME ZonesKeepMidnights PROVE Spec => []WithinLimit(1)
  OBVIOUS
<1>1. Init => WithinLimit(1)
  BY DEF Init, WithinLimit
<1>2. TypesInv /\ WithinLimit(1) /\ [Next]_vars => WithinLimit(1)'
  BY LimitStep
<1> QED BY <1>1, <1>2, TypesHold, PTL DEF Spec

-----------------------------------------------------------------------------
(* A midnight that the clock skips: none of the theorems above is about it. *)

\* The clock is put forward by an hour at midnight of day d.
Skips(d) == zone.at + zone.before = 24 * d /\ zone.after = zone.before + 1

\* What time.ParseInLocation and beginningOfDay make of a midnight that is skipped: from
\* Greenwich to the east an instant of that day, an hour late; to the west of it an
\* instant of the day before.
THEOREM SkippedMidnight ==
  ASSUME zone \in Zones, NEW d \in Int, Skips(d)
  PROVE  /\ zone.before >= 0 => DayAt(Midnight(d)) = d /\ HourAt(Midnight(d)) = 1
         /\ zone.before < 0 => DayAt(Midnight(d)) = d - 1 /\ HourAt(Midnight(d)) = 23
<1>1. /\ zone.before \in Int /\ zone.after = zone.before + 1
      /\ zone.at = 24 * d - zone.before
  BY ZoneFacts DEF Skips
<1>2. Midnight(d) = IF zone.before >= 0 THEN 24 * d - zone.before ELSE 24 * d - zone.after
  BY <1>1 DEF Midnight, Date, Offset
<1>3. CASE zone.before >= 0
  <2>1. Midnight(d) \in Int /\ Midnight(d) + Offset(Midnight(d)) = 24 * d + 1
    BY <1>1, <1>2, <1>3 DEF Offset
  <2>2. 1 \in 0 .. 23
    OBVIOUS
  <2>3. DayAt(Midnight(d)) = d /\ HourAt(Midnight(d)) = 1
    BY <2>1, <2>2, ShownAt
  <2> QED BY <1>1, <1>3, <2>3
<1>4. CASE zone.before < 0
  <2>1. Midnight(d) \in Int /\ Midnight(d) + Offset(Midnight(d)) = 24 * (d - 1) + 23
    BY <1>1, <1>2, <1>4 DEF Offset
  <2>2. 23 \in 0 .. 23 /\ d - 1 \in Int
    OBVIOUS
  <2>3. DayAt(Midnight(d)) = d - 1 /\ HourAt(Midnight(d)) = 23
    <3> DEFINE found == Midnight(d)
               day == d - 1
    <3> HIDE DEF found, day
    <3>1. found \in Int /\ day \in Int /\ found + Offset(found) = 24 * day + 23
      BY <2>1, <2>2 DEF found, day
    <3>2. DayAt(found) = day /\ HourAt(found) = 23
      BY <2>2, <3>1, ShownAt
    <3> QED BY <3>2 DEF found, day
  <2> QED BY <1>1, <1>4, <2>3
<1> QED BY <1>1, <1>3, <1>4

\* Before the change, time.Date is arithmetic.
LEMMA DateBeforeChange ==
  ASSUME zone \in Zones, NEW d \in Int, Skips(d), NEW e \in Int, e < d, NEW hour \in 0 .. 1
  PROVE  /\ Date(e, hour) = 24 * e + hour - zone.before
         /\ DayAt(Date(e, hour)) = e /\ HourAt(Date(e, hour)) = hour
<1> DEFINE t == 24 * e + hour - zone.before
<1>1. /\ zone.before \in Int /\ zone.after = zone.before + 1
      /\ zone.at = 24 * d - zone.before
  BY ZoneFacts DEF Skips
<1>2. t \in Int /\ t + Offset(t) = 24 * e + hour
  BY <1>1 DEF Offset
<1>3. hour \in 0 .. 23
  OBVIOUS
<1>4. DayAt(t) = e /\ HourAt(t) = hour
  <2> HIDE DEF t
  <2> QED BY <1>2, <1>3, ShownAt
<1>5. /\ Date(e, hour) \in Int
      /\ DayAt(Date(e, hour)) = e /\ HourAt(Date(e, hour)) = hour
  BY <1>2, <1>3, <1>4, DateFinds
<1>6. Date(e, hour) + Offset(Date(e, hour)) = 24 * e + hour
  BY <1>3, <1>5, ShownAt
<1>7. Date(e, hour) = t
  <2> DEFINE found == Date(e, hour)
  <2>1. found \in Int /\ found + Offset(found) = 24 * e + hour
    BY <1>5, <1>6
  <2> HIDE DEF found
  <2>2. found = 24 * e + hour - zone.before
    BY <1>1, <2>1 DEF Offset
  <2> QED BY <2>2 DEF found
<1> QED BY <1>5, <1>7

\* On a day without midnight, from Greenwich to the east, the cutoff of a window of
\* several days is at 01:00, AddDate keeping the hour.  Plan compares midnights with it,
\* so a range that ends on the first day of the window is asked of the historical
\* store, though Planning!Plan asks the realtime store for that day.
THEOREM CutoffAfterSkippedMidnight ==
  ASSUME zone \in Zones, NEW today \in Int, Skips(today), zone.before >= 0,
         NEW t \in Int, DayAt(t) = today, RealtimeDays > 1,
         NEW first \in Int, first <= Cutoff(today)
  PROVE  LET c == Cutoff(today) IN
         /\ DayAt(CutoffAt(t)) = c /\ HourAt(CutoffAt(t)) = 1
         /\ PlanAt("auto", [start |-> Midnight(first), end |-> Midnight(c)], t)
              = << Segment(Historical, Midnight(first), Midnight(c)) >>
         /\ \E i \in DOMAIN Plan("auto", [start |-> first, end |-> c], today) :
              LET seg == Plan("auto", [start |-> first, end |-> c], today)[i] IN
              seg.source = "starrocks" /\ c \in DaysOf(seg.range)
<1> DEFINE c == Cutoff(today)
           r == [start |-> Midnight(first), end |-> Midnight(c)]
           asked == [start |-> first, end |-> c]
<1>1. c \in Int /\ c < today /\ -(RealtimeDays - 1) \in Int /\ c = today + (-(RealtimeDays - 1))
  BY PlanningAssumption DEF ValidService, Cutoff
<1>2. CutoffAt(t) = Date(c, 1)
  <2>1. DayAt(Midnight(today)) = today /\ HourAt(Midnight(today)) = 1
    BY SkippedMidnight
  <2>2. CutoffAt(t) = Date(today + (-(RealtimeDays - 1)), 1)
    BY <2>1 DEF CutoffAt, BeginningOfDay, AddDate
  <2> QED BY <1>1, <2>2
<1> HIDE DEF c
<1>3. /\ Date(c, 1) = 24 * c + 1 - zone.before
      /\ DayAt(Date(c, 1)) = c /\ HourAt(Date(c, 1)) = 1
  BY <1>1, DateBeforeChange
<1>4. Midnight(c) = 24 * c - zone.before
  <2>1. Date(c, 0) = 24 * c + 0 - zone.before
    BY <1>1, DateBeforeChange
  <2> QED BY <1>1, <2>1, ZoneFacts DEF Midnight
<1>5. r.end < CutoffAt(t) /\ ~ (r.end >= CutoffAt(t))
  BY <1>1, <1>2, <1>3, <1>4, ZoneFacts
<1>6. PlanAt("auto", r, t) = << Segment(Historical, Midnight(first), Midnight(c)) >>
  <2>1. "auto" \notin Sources
    BY DEF Sources
  <2> QED BY <1>5, <2>1 DEF PlanAt
<1>7. asked \in DateRanges /\ asked.start = first /\ asked.end = c
  BY <1>1 DEF DateRanges, c
<1>8. \/ Plan("auto", asked, today) = << Segment("starrocks", first, c) >>
      \/ Plan("auto", asked, today)
           = << Segment(Historical, first, c - 1), Segment("starrocks", c, c) >>
  <2>1. "auto" \notin Sources
    BY DEF Sources
  <2> QED BY <1>1, <1>7, <2>1, PlanCases DEF c
<1>9. \E i \in DOMAIN Plan("auto", asked, today) :
        LET seg == Plan("auto", asked, today)[i] IN
        seg.source = "starrocks" /\ c \in DaysOf(seg.range)
  <2>1. CASE Plan("auto", asked, today) = << Segment("starrocks", first, c) >>
    <3>1. /\ 1 \in DOMAIN Plan("auto", asked, today)
          /\ Plan("auto", asked, today)[1] = Segment("starrocks", first, c)
      BY <2>1
    <3>2. Segment("starrocks", first, c).source = "starrocks"
      BY DEF Segment
    <3>3. c \in DaysOf(Segment("starrocks", first, c).range)
      BY <1>1 DEF Segment, DaysOf, c
    <3> QED BY <3>1, <3>2, <3>3
  <2>2. CASE Plan("auto", asked, today)
               = << Segment(Historical, first, c - 1), Segment("starrocks", c, c) >>
    <3>1. /\ 2 \in DOMAIN Plan("auto", asked, today)
          /\ Plan("auto", asked, today)[2] = Segment("starrocks", c, c)
      BY <2>2
    <3>2. Segment("starrocks", c, c).source = "starrocks"
      BY DEF Segment
    <3>3. c \in DaysOf(Segment("starrocks", c, c).range)
      BY <1>1 DEF Segment, DaysOf
    <3> QED BY <3>1, <3>2, <3>3
  <2> QED BY <1>8, <2>1, <2>2
<1> QED BY <1>2, <1>3, <1>6, <1>9 DEF c

===============================================================================
