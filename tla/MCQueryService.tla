---------------------------- MODULE MCQueryService ----------------------------
(***************************************************************************)
(* Instances of QueryService for TLC.  The clock starts on day 10 with a   *)
(* window of two days, so the cutoff is day 9, and 10 after midnight; the  *)
(* ranges lie on both sides of it and across it.                           *)
(***************************************************************************)
EXTENDS QueryService

AllRanges == {range \in [start : 7 .. 11, end : 7 .. 11] : range.start <= range.end}

CrossRanges == {[start |-> 8, end |-> 10], [start |-> 9, end |-> 9]}

QueriesOver(sources, ranges, metrics) ==
  [source : sources, range : ranges, metric : metrics]

\* Every source a caller can name, one that is not public included.
AnyQuery ==
  QueriesOver({"auto", "memory"}, AllRanges, {"retail"})
    \cup QueriesOver(Sources, CrossRanges, {"retail"})
    \cup QueriesOver({"auto"}, CrossRanges, {"renovation"})

CrossingQuery == QueriesOver({"auto", "trino"}, CrossRanges, {"retail"})

OneQuery == QueriesOver({"auto"}, {[start |-> 8, end |-> 10]}, {"retail"})

Funnel(l, c) == [leads |-> l, invited |-> 1, measured |-> 1,
                 signed |-> 1, started |-> 1, completed |-> c]

MinThreeBit == -4

\* Totals at the ends of a three-bit int64 and inside it; one store of the
\* funnel is near the limit in its first column, one in its last.
EdgeCounts ==
  [retail     |-> {[orders |-> n] : n \in {-4, -1, 1, 3}},
   renovation |-> {Funnel(3, 1), Funnel(1, 3)}]

SmallCounts == [retail     |-> {[orders |-> 1]},
                renovation |-> {Funnel(1, 1)}]
===============================================================================
