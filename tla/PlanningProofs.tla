---------------------------- MODULE PlanningProofs ----------------------------
(***************************************************************************)
(* What Plan and safeAddInt64 compute, for every range, window and day.    *)
(***************************************************************************)
EXTENDS Planning, TLAPS

\* The guards of safeAddInt64 hold exactly when the sum is no int64.
THEOREM SafeAddGuards ==
  ASSUME NEW a \in Int64, NEW b \in Int64
  PROVE  AddOverflows(a, b) <=> a + b \notin Int64
BY PlanningAssumption DEF AddOverflows, Int64

\* The cutoff is a day, and lies before tomorrow.
LEMMA CutoffIsDay ==
  ASSUME NEW today \in Int
  PROVE  Cutoff(today) \in Int /\ Cutoff(today) <= today
BY PlanningAssumption DEF Cutoff, ValidService

\* The four plans there are, by where the range lies.
LEMMA PlanCases ==
  ASSUME NEW requested, NEW range \in DateRanges, NEW today \in Int
  PROVE  LET plan == Plan(requested, range, today) IN
         \/ /\ requested \in Sources
            /\ plan = << Segment(requested, range.start, range.end) >>
         \/ /\ requested = "auto" /\ range.end < Cutoff(today)
            /\ plan = << Segment(Historical, range.start, range.end) >>
         \/ /\ requested = "auto" /\ range.start >= Cutoff(today)
            /\ plan = << Segment("starrocks", range.start, range.end) >>
         \/ /\ requested = "auto"
            /\ range.start < Cutoff(today) /\ Cutoff(today) <= range.end
            /\ plan = << Segment(Historical, range.start, Cutoff(today) - 1),
                         Segment("starrocks", Cutoff(today), range.end) >>
         \/ /\ requested \notin Sources \cup {"auto"}
            /\ plan = << >>
<1>1. /\ range.start \in Int /\ range.end \in Int
      /\ range.start <= range.end /\ Cutoff(today) \in Int
  BY CutoffIsDay DEF DateRanges
<1>2. CASE requested \in Sources
  BY <1>2 DEF Plan, Sources
<1>3. CASE requested = "auto"
  <2>1. CASE range.end < Cutoff(today)
    BY <1>1, <1>3, <2>1 DEF Plan, Sources
  <2>2. CASE range.start >= Cutoff(today)
    BY <1>1, <1>3, <2>2 DEF Plan, Sources
  <2>3. CASE range.start < Cutoff(today) /\ Cutoff(today) <= range.end
    BY <1>1, <1>3, <2>3 DEF Plan, HistoryEnd, Sources
  <2> QED BY <1>1, <2>1, <2>2, <2>3
<1>4. CASE requested \notin Sources \cup {"auto"}
  BY <1>4 DEF Plan
<1> QED BY <1>2, <1>3, <1>4

\* A plan is a sequence of at most two segments, none of them empty.
LEMMA PlanType ==
  ASSUME NEW requested, NEW range \in DateRanges, NEW today \in Int
  PROVE  LET plan == Plan(requested, range, today) IN
         /\ plan \in Plans
         /\ plan = << >> <=> requested \notin Sources \cup {"auto"}
<1>1. /\ range.start \in Int /\ range.end \in Int
      /\ range.start <= range.end /\ Cutoff(today) \in Int
  BY CutoffIsDay DEF DateRanges
<1>2. Historical \in Sources /\ "starrocks" \in Sources
  BY PlanningAssumption DEF ValidService, Sources
<1>3. ASSUME NEW source \in Sources, NEW first \in Int, NEW last \in Int, first <= last
      PROVE  Segment(source, first, last) \in Segments
  BY <1>3 DEF Segment, Segments
<1>4. "auto" \notin Sources
  BY DEF Sources
<1> DEFINE plan == Plan(requested, range, today)
<1>5. ASSUME NEW seg \in Segments, plan = << seg >>
      PROVE  plan \in Plans /\ plan # << >>
  BY <1>5 DEF Plans, Slots
<1>6. ASSUME NEW seg1 \in Segments, NEW seg2 \in Segments, plan = << seg1, seg2 >>
      PROVE  plan \in Plans /\ plan # << >>
  BY <1>6 DEF Plans, Slots
<1>7. CASE requested \in Sources
  <2>1. plan = << Segment(requested, range.start, range.end) >>
    BY <1>4, <1>7, PlanCases
  <2> QED BY <1>1, <1>3, <1>5, <1>7, <2>1
<1>8. CASE requested = "auto"
  <2>1. CASE plan = << Segment(Historical, range.start, range.end) >>
    BY <1>1, <1>2, <1>3, <1>5, <1>8, <2>1
  <2>2. CASE plan = << Segment("starrocks", range.start, range.end) >>
    BY <1>1, <1>2, <1>3, <1>5, <1>8, <2>2
  <2>3. CASE /\ range.start < Cutoff(today) /\ Cutoff(today) <= range.end
             /\ plan = << Segment(Historical, range.start, Cutoff(today) - 1),
                          Segment("starrocks", Cutoff(today), range.end) >>
    <3>1. /\ Segment(Historical, range.start, Cutoff(today) - 1) \in Segments
          /\ Segment("starrocks", Cutoff(today), range.end) \in Segments
      BY <1>1, <1>2, <1>3, <2>3
    <3> QED BY <1>6, <1>8, <2>3, <3>1
  <2> QED BY <1>4, <1>8, <2>1, <2>2, <2>3, PlanCases
<1>9. CASE requested \notin Sources \cup {"auto"}
  <2>1. plan = << >>
    BY <1>9, PlanCases
  <2>2. plan \in Plans
    BY <2>1 DEF Plans
  <2> QED BY <1>9, <2>1, <2>2
<1> QED BY <1>7, <1>8, <1>9

\* A range on one side of the cutoff, answered by that side's store.
LEMMA OneSegmentCovers ==
  ASSUME NEW range \in DateRanges, NEW today \in Int, NEW source, NEW plan,
         plan = << Segment(source, range.start, range.end) >>,
         \A d \in DaysOf(range) : SourceOfDay(d, today) = source
  PROVE  CoversOnce(plan, range, today)
<1>1. /\ DOMAIN plan = {1} /\ plan[1].source = source
      /\ plan[1].range = [start |-> range.start, end |-> range.end]
  BY DEF Segment
<1>2. DaysOf(plan[1].range) = DaysOf(range)
  BY <1>1 DEF DaysOf
<1> QED BY <1>1, <1>2 DEF CoversOnce

\* A range across the cutoff, cut there.
LEMMA TwoSegmentsCover ==
  ASSUME NEW range \in DateRanges, NEW today \in Int, NEW plan,
         range.start < Cutoff(today), Cutoff(today) <= range.end,
         plan = << Segment(Historical, range.start, Cutoff(today) - 1),
                   Segment("starrocks", Cutoff(today), range.end) >>
  PROVE  CoversOnce(plan, range, today)
<1>1. range.start \in Int /\ range.end \in Int /\ Cutoff(today) \in Int
  BY CutoffIsDay DEF DateRanges
<1>2. DOMAIN plan = {1, 2}
  BY DEF Segment
<1>3. /\ plan[1].source = Historical /\ plan[2].source = "starrocks"
      /\ DaysOf(plan[1].range) = range.start .. (Cutoff(today) - 1)
      /\ DaysOf(plan[2].range) = Cutoff(today) .. range.end
  BY DEF Segment, DaysOf
<1>4. ASSUME NEW d \in DaysOf(range)
      PROVE  \E i \in DOMAIN plan :
               /\ d \in DaysOf(plan[i].range)
               /\ plan[i].source = SourceOfDay(d, today)
               /\ \A j \in DOMAIN plan : d \in DaysOf(plan[j].range) => j = i
  <2>1. d \in Int /\ range.start <= d /\ d <= range.end
    BY <1>1 DEF DaysOf
  <2>2. CASE d < Cutoff(today)
    <3>1. d \in DaysOf(plan[1].range) /\ d \notin DaysOf(plan[2].range)
      BY <1>1, <1>3, <2>1, <2>2
    <3>2. plan[1].source = SourceOfDay(d, today)
      BY <1>3, <2>2 DEF SourceOfDay
    <3> QED BY <1>2, <3>1, <3>2
  <2>3. CASE ~ (d < Cutoff(today))
    <3>1. d \in DaysOf(plan[2].range) /\ d \notin DaysOf(plan[1].range)
      BY <1>1, <1>3, <2>1, <2>3
    <3>2. plan[2].source = SourceOfDay(d, today)
      BY <1>3, <2>3 DEF SourceOfDay
    <3> QED BY <1>2, <3>1, <3>2
  <2> QED BY <2>2, <2>3
<1>5. /\ DaysOf(plan[1].range) \subseteq DaysOf(range)
      /\ DaysOf(plan[2].range) \subseteq DaysOf(range)
  <2>1. /\ range.start .. (Cutoff(today) - 1) \subseteq range.start .. range.end
        /\ Cutoff(today) .. range.end \subseteq range.start .. range.end
    BY <1>1
  <2>2. DaysOf(range) = range.start .. range.end
    BY DEF DaysOf
  <2> QED BY <1>3, <2>1, <2>2
<1>6. \A i \in DOMAIN plan : DaysOf(plan[i].range) \subseteq DaysOf(range)
  BY <1>2, <1>5
<1> QED BY <1>4, <1>6 DEF CoversOnce

\* source=auto: every requested day lies in exactly one segment of the plan,
\* that segment goes to the store the day belongs to, and no segment reaches
\* outside the requested range (Plan in query_service.go).
THEOREM PlanCoversOnce ==
  ASSUME NEW range \in DateRanges, NEW today \in Int
  PROVE  CoversOnce(Plan("auto", range, today), range, today)
<1>1. /\ range.start \in Int /\ range.end \in Int
      /\ range.start <= range.end /\ Cutoff(today) \in Int
  BY CutoffIsDay DEF DateRanges
<1>2. "auto" \notin Sources
  BY DEF Sources
<1>3. CASE /\ range.end < Cutoff(today)
           /\ Plan("auto", range, today) = << Segment(Historical, range.start, range.end) >>
  <2>1. \A d \in DaysOf(range) : SourceOfDay(d, today) = Historical
    BY <1>1, <1>3 DEF SourceOfDay, DaysOf
  <2> QED BY <1>3, <2>1, OneSegmentCovers
<1>4. CASE /\ range.start >= Cutoff(today)
           /\ Plan("auto", range, today) = << Segment("starrocks", range.start, range.end) >>
  <2>1. \A d \in DaysOf(range) : SourceOfDay(d, today) = "starrocks"
    BY <1>1, <1>4 DEF SourceOfDay, DaysOf
  <2> QED BY <1>4, <2>1, OneSegmentCovers
<1>5. CASE /\ range.start < Cutoff(today) /\ Cutoff(today) <= range.end
           /\ Plan("auto", range, today) =
                << Segment(Historical, range.start, Cutoff(today) - 1),
                   Segment("starrocks", Cutoff(today), range.end) >>
  BY <1>5, TwoSegmentsCover
<1> QED BY <1>2, <1>3, <1>4, <1>5, PlanCases

===============================================================================
