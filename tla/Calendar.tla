------------------------------- MODULE Calendar -------------------------------
(***************************************************************************)
(* Instants and natural days: what "a day" is in NewDateRange, Plan and    *)
(* eachDay, which work on instants (time.Time) in APP_TIMEZONE while       *)
(* Planning speaks of days.  One call is followed from its two date        *)
(* strings to the days its segments read.                                  *)
(*                                                                         *)
(* Time is counted in hours.  A zone has one transition: its offset from   *)
(* UTC is `before' until the instant `at' and `after' from then on.        *)
(***************************************************************************)
EXTENDS Planning

CONSTANTS
  Zones,          \* what APP_TIMEZONE may be
  Clocks,         \* the instants a call may be planned at
  Requested,      \* the sources a call may ask for
  Days,           \* bound: the days a client may name
  MaxQueryDays    \* MAX_QUERY_DAYS

ASSUME CalendarAssumption ==
  /\ Zones \subseteq [before : Int, after : Int, at : Int]
  /\ Clocks \subseteq Int
  /\ Requested \subseteq Sources \cup {"auto"}
  /\ Days \subseteq Int
  /\ MaxQueryDays \in Nat \ {0}

VARIABLES
  zone,     \* the location every time.Time of the service carries
  request,  \* the source and the two dates of the client
  phase,    \* "new", "refused", "parsed", "reading" or "done"
  range,    \* the DateRange of NewDateRange, two instants
  now,      \* the instant Plan read from the clock
  segs,     \* the plan, with ranges of instants
  turn,     \* the segment being read
  cursor,   \* eachDay's loop variable
  seen,     \* << segment, day >> passed to eachDay's callback
  again     \* the same, passed more than once

vars == << zone, request, phase, range, now, segs, turn, cursor, seen, again >>

-----------------------------------------------------------------------------
(* Package time.                                                           *)

Offset(t) == IF t < zone.at THEN zone.before ELSE zone.after

\* The calendar day and the clock hour an instant shows.
DayAt(t) == (t + Offset(t)) \div 24
HourAt(t) == (t + Offset(t)) % 24

\* time.Date guesses the offset at the wall clock read as UTC, and looks again
\* if the instant that gives lies on the other side of the transition.  A wall
\* clock the zone skips becomes an instant that shows another one.
Date(day, hour) ==
  LET wall  == 24 * day + hour
      guess == Offset(wall)
      utc   == wall - guess
      other == (utc < zone.at) # (wall < zone.at) IN
  IF guess = 0 THEN wall
  ELSE wall - (IF other THEN Offset(utc) ELSE guess)

\* AddDate(0, 0, n) keeps the clock hour, not the distance.
AddDate(t, n) == Date(DayAt(t) + n, HourAt(t))

-----------------------------------------------------------------------------
(* NewDateRange. *)

\* time.ParseInLocation of a date.
Midnight(day) == Date(day, 0)

\* The days a range counts, from the hours between its two midnights.
\* Fault: an incomplete day counts as one.
DaysBetweenRoundedUp(start, end) == (end - start + 23) \div 24 + 1

DaysBetween(start, end) == (end - start) \div 24 + 1

Init ==
  /\ zone \in Zones
  /\ request \in [source : Requested, first : Days, last : Days]
  /\ phase = "new"
  /\ range = [start |-> 0, end |-> 0]
  /\ now = 0
  /\ segs = << >>
  /\ turn = 0 /\ cursor = 0
  /\ seen = {} /\ again = {}

Accepted(start, end) == start <= end /\ DaysBetween(start, end) <= MaxQueryDays

NotRead == UNCHANGED << zone, request, now, segs, turn, cursor, seen, again >>

Refuse ==
  /\ phase = "new"
  /\ ~ Accepted(Midnight(request.first), Midnight(request.last))
  /\ phase' = "refused"
  /\ UNCHANGED range
  /\ NotRead

Accept ==
  LET start == Midnight(request.first)
      end == Midnight(request.last) IN
  /\ phase = "new"
  /\ Accepted(start, end)
  /\ phase' = "parsed"
  /\ range' = [start |-> start, end |-> end]
  /\ NotRead

-----------------------------------------------------------------------------
(* Plan, on instants. *)

BeginningOfDay(t) == Midnight(DayAt(t))

\* The midnight the realtime window starts at.
\* Fault: the window is counted in hours.
CutoffByHours(t) == BeginningOfDay(t) - 24 * (RealtimeDays - 1)

CutoffAt(t) == AddDate(BeginningOfDay(t), -(RealtimeDays - 1))

\* Fault: "auto" passes for a source.
PlanUnrouted(source, r, t) == << Segment(source, r.start, r.end) >>

PlanAt(source, r, t) ==
  LET cutoff == CutoffAt(t) IN
  CASE source \in Sources -> << Segment(source, r.start, r.end) >>
    [] source = "auto" /\ r.end < cutoff -> << Segment(Historical, r.start, r.end) >>
    [] source = "auto" /\ r.end >= cutoff /\ r.start >= cutoff ->
         << Segment("starrocks", r.start, r.end) >>
    [] OTHER ->
         << Segment(Historical, r.start, AddDate(cutoff, -1)),
            Segment("starrocks", cutoff, r.end) >>

\* eachDay starts and ends at the midnights of the days its range shows.
LoopStart(seg) == Midnight(DayAt(seg.range.start))
LoopEnd(seg) == Midnight(DayAt(seg.range.end))

MakePlan ==
  /\ phase = "parsed"
  /\ \E t \in Clocks :
       /\ now' = t
       /\ segs' = PlanAt(request.source, range, t)
  /\ phase' = "reading"
  /\ turn' = 1
  /\ cursor' = LoopStart(segs'[1])
  /\ UNCHANGED << zone, request, range, seen, again >>

-----------------------------------------------------------------------------
(* eachDay, segment by segment: the segments are read concurrently but share *)
(* nothing here.                                                             *)

\* The loop's step.
\* Faults: a day has 24 hours; the same, rounded down to a midnight.
NextDay24Hours(t) == t + 24

NextDayRounded(t) == BeginningOfDay(t + 24)

NextDay(t) == AddDate(t, 1)

Visit ==
  LET visit == << turn, DayAt(cursor) >> IN
  /\ phase = "reading"
  /\ cursor <= LoopEnd(segs[turn])
  /\ seen' = seen \cup {visit}
  /\ again' = IF visit \in seen THEN again \cup {visit} ELSE again
  /\ cursor' = NextDay(cursor)
  /\ UNCHANGED << zone, request, phase, range, now, segs, turn >>

EndOfLoop ==
  /\ phase = "reading"
  /\ cursor > LoopEnd(segs[turn])
  /\ IF turn < Len(segs)
       THEN /\ turn' = turn + 1
            /\ cursor' = LoopStart(segs[turn + 1])
            /\ UNCHANGED phase
       ELSE /\ phase' = "done"
            /\ UNCHANGED << turn, cursor >>
  /\ UNCHANGED << zone, request, range, now, segs, seen, again >>

Next == Refuse \/ Accept \/ MakePlan \/ Visit \/ EndOfLoop

Spec == Init /\ [][Next]_vars

\* The handler's goroutine is scheduled.
FairSpec == Spec /\ WF_vars(Next)

-----------------------------------------------------------------------------
(* Properties. *)

\* The wall clocks a change of the clock skips (in hours since day 0) contain no
\* midnight, and no change repeats a whole day.
KeepsMidnights(z) ==
  /\ \A wall \in (z.at + z.before) .. (z.at + z.after - 1) : wall % 24 # 0
  /\ z.before - z.after < 24

\* Every variable keeps the shape the code gives it.
TypeOK ==
  /\ zone \in Zones
  /\ request \in [source : Requested, first : Days, last : Days]
  /\ phase \in {"new", "refused", "parsed", "reading", "done"}
  /\ range \in [start : Int, end : Int]
  /\ now \in {0} \cup Clocks
  /\ Len(segs) \in {0} \cup Slots
  /\ \A i \in DOMAIN segs : segs[i] \in [source : Sources, range : [start : Int, end : Int]]
  /\ turn \in {0} \cup Slots
  /\ cursor \in Int
  /\ seen \subseteq Slots \X Int
  /\ again \subseteq seen

AskedDays == request.first .. request.last

\* A call reads every day of its inclusive range once, and no other day
\* (eachDay's promise, memory/repository.go).
EachDayOnce ==
  phase = "done" => /\ again = {}
                    /\ {v[2] : v \in seen} = AskedDays
                    /\ \A v, w \in seen : v[2] = w[2] => v = w

\* The days a statement's stat_date >= ? AND stat_date <= ? selects: StartString and
\* EndString are the days the two instants show.
\* Fault: they are formatted in UTC.
StatementDaysUTC(seg) == (seg.range.start \div 24) .. (seg.range.end \div 24)

StatementDays(seg) == DayAt(seg.range.start) .. DayAt(seg.range.end)

\* The memory repository and a SQL store read the same days for a segment.
AdaptersAgree ==
  phase = "done" => \A i \in DOMAIN segs :
    {v[2] : v \in {w \in seen : w[1] = i}} = StatementDays(segs[i])

\* Planning on instants is planning on days: the segments the answer discloses
\* are the plan of Planning for the business day of the clock.
SegmentsFollowCutoff ==
  phase \in {"reading", "done"} =>
    [i \in DOMAIN segs |-> Segment(segs[i].source, DayAt(segs[i].range.start),
                                   DayAt(segs[i].range.end))]
      = Plan(request.source, [start |-> request.first, end |-> request.last],
             DayAt(now))

\* A range within MAX_QUERY_DAYS is never refused.
NeverTooStrict ==
  phase = "refused" => \/ request.last < request.first
                       \/ request.last - request.first + 1 > MaxQueryDays

\* The design: a range never spans more than MAX_QUERY_DAYS.
LimitRespected ==
  phase \notin {"new", "refused"} => request.last - request.first + 1 <= MaxQueryDays

DaysLeft == DayAt(LoopEnd(segs[turn])) + 1 - DayAt(cursor)

\* Every visit brings eachDay one day nearer to the last day of its segment, however
\* many hours that day has, and a segment is left when no day of it is left.
LoopsAdvance ==
  [][phase = "reading" =>
       \/ DaysLeft > 0 /\ DaysLeft' = DaysLeft - 1 /\ turn' = turn /\ phase' = "reading"
       \/ DaysLeft = 0 /\ (turn' = turn + 1 \/ phase' = "done")]_vars

\* Parsing, planning and every loop over days come to an end.
LoopsEnd == <>(phase \in {"refused", "done"})

===============================================================================
