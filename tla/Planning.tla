------------------------------- MODULE Planning -------------------------------
(***************************************************************************)
(* The two pure algorithms of app/query_service.go: the split of a         *)
(* requested date range into segments at the realtime cutoff, and the      *)
(* checked addition of 64-bit counters that merges the segments' answers.  *)
(*                                                                         *)
(* A natural day of the business time zone is an integer.  How an instant  *)
(* becomes a day, and what goes wrong there, is the subject of another     *)
(* module.                                                                 *)
(***************************************************************************)
EXTENDS Integers, Sequences

CONSTANTS
  Historical,     \* the source of closed days, HISTORICAL_SOURCE
  RealtimeDays,   \* REALTIME_WINDOW_DAYS
  MinInt64,       \* the bounds of Go's int64, small numbers in TLC's runs
  MaxInt64

\* The public sources with a repository; "auto" is a request, not a store.
Sources == {"hive", "trino", "starrocks"}

\* What NewQueryService demands of the arguments modelled here.
ValidService ==
  /\ Historical \in {"hive", "trino"}
  /\ RealtimeDays \in Nat \ {0}

ASSUME PlanningAssumption ==
  /\ ValidService
  /\ MaxInt64 \in Nat
  /\ MinInt64 = -MaxInt64 - 1

Int64 == MinInt64 .. MaxInt64

\* A DateRange is closed on both sides; NewDateRange refuses an empty one.
DateRanges == {range \in [start : Int, end : Int] : range.start <= range.end}

DaysOf(range) == range.start .. range.end

Segment(source, first, last) ==
  [source |-> source, range |-> [start |-> first, end |-> last]]

Segments == {seg \in [source : Sources, range : [start : Int, end : Int]] :
               seg.range.start <= seg.range.end}

\* The first day that belongs to the realtime store: today is the first of
\* RealtimeDays days counted backwards.
Cutoff(today) == today - (RealtimeDays - 1)

\* The last day of the historical segment of a range across the cutoff.
\* Fault: the two segments share the cutoff day.
HistoryEndAtCutoff(cutoff) == cutoff

HistoryEnd(cutoff) == cutoff - 1

\* The segments of a request, in the order of their days; << >> stands for
\* ErrInvalidArgument, the answer to a source that is not a public one.
Plan(requested, range, today) ==
  LET cutoff == Cutoff(today) IN
  CASE requested \in Sources ->
         << Segment(requested, range.start, range.end) >>
    [] requested = "auto" /\ range.end < cutoff ->
         << Segment(Historical, range.start, range.end) >>
    [] requested = "auto" /\ range.start >= cutoff ->
         << Segment("starrocks", range.start, range.end) >>
    [] requested = "auto" /\ range.start < cutoff /\ cutoff <= range.end ->
         << Segment(Historical, range.start, HistoryEnd(cutoff)),
            Segment("starrocks", cutoff, range.end) >>
    [] OTHER -> << >>

\* A plan has at most this many segments, hence a query this many goroutines.
Slots == 1 .. 2

Plans == {plan \in Seq(Segments) : Len(plan) \in {0} \cup Slots}

\* Fault: only the upper bound is guarded.
AddOverflowsAbove(a, b) == b > 0 /\ a > MaxInt64 - b

\* The guards of safeAddInt64.  They hold exactly when a + b does not fit.
AddOverflows(a, b) ==
  \/ b > 0 /\ a > MaxInt64 - b
  \/ b < 0 /\ a < MinInt64 - b

\* The store that answers for a day when the client leaves the choice to the
\* service: the reference definition the plan is checked against.
SourceOfDay(d, today) == IF d < Cutoff(today) THEN Historical ELSE "starrocks"

\* Every day of the range lies in exactly one segment, which goes to the store
\* the day belongs to, and no segment reaches outside the range.
CoversOnce(plan, range, today) ==
  /\ \A d \in DaysOf(range) : \E i \in DOMAIN plan :
       /\ d \in DaysOf(plan[i].range)
       /\ plan[i].source = SourceOfDay(d, today)
       /\ \A j \in DOMAIN plan : d \in DaysOf(plan[j].range) => j = i
  /\ \A i \in DOMAIN plan : DaysOf(plan[i].range) \subseteq DaysOf(range)

===============================================================================
