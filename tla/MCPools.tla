-------------------------------- MODULE MCPools --------------------------------
(***************************************************************************)
(* Two clients that query and one that probes, and pools of one connection *)
(* each: a connection is always contended for as soon as two want it.      *)
(***************************************************************************)
EXTENDS Pools

HiveAndStarRocks == << "hive", "starrocks" >>

CONSTANTS c1, c2

PlanStores == [c \in {c1, c2} |->
  IF c = c1 THEN { {"starrocks"} } ELSE { {"hive"}, {"hive", "starrocks"} }]

OneConnection == [s \in {"hive", "starrocks"} |-> 1]
===============================================================================
