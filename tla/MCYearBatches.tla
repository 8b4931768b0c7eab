---------------------------- MODULE MCYearBatches ----------------------------
(* Two sets of years on a pool of a few threads. *)
EXTENDS YearBatches, TLC

CONSTANTS y1, y2, y3, y4, t1, t2, t3

MCPriority == [j \in Jobs |-> 2]
MCSets == << <<y1, y2>>, <<y3, y4>> >>
=============================================================================
