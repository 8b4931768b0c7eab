-------------------------- MODULE MCThermalOutages --------------------------
(* Clusters of one and three units, three days a year, and a log of ten days,
   which the twelve days of four series go round. *)
EXTENDS ThermalOutages, TLC

Daily(a, b, c) == 0 :> a @@ 1 :> b @@ 2 :> c

\* NPOmax falls to 0 on the last day; durations differ from day to day.
Fleet == [prepro |-> TRUE, unitCount |-> 3, nominalCapacity |-> 1,
          npoMin |-> Daily(0, 2, 0), npoMax |-> Daily(2, 3, 1),
          foRate |-> Daily("some", "some", "none"),
          poRate |-> Daily("some", "none", "some"),
          foDuration |-> Daily(2, 1, 2), poDuration |-> Daily(2, 2, 1),
          forcedLaw |-> "geometric", plannedLaw |-> "geometric",
          forcedVolatile |-> TRUE, plannedVolatile |-> TRUE]

\* Everything fails on the first day, and the outages last what is expected.
Certain == [Fleet EXCEPT !.foRate = Daily("all", "none", "some"),
                         !.poRate = Daily("none", "all", "some"),
                         !.forcedVolatile = FALSE, !.plannedLaw = "uniform"]

Single == [Fleet EXCEPT !.unitCount = 1,
                        !.npoMin = Daily(0, 1, 0), !.npoMax = Daily(1, 1, 0),
                        !.poRate = Daily("some", "some", "all")]

\* Those the generation leaves at once.
NoData == [Single EXCEPT !.prepro = FALSE]
Empty == [Single EXCEPT !.unitCount = 0, !.npoMin = Daily(0, 0, 0),
                        !.npoMax = Daily(0, 0, 0)]
NoCapacity == [Single EXCEPT !.nominalCapacity = 0]

AllClusters == {Fleet, Certain, Single, NoData, Empty, NoCapacity}
=============================================================================
