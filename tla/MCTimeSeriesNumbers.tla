------------------------- MODULE MCTimeSeriesNumbers -------------------------
(* Families of small studies for TimeSeriesNumbers: two areas, two years. *)
EXTENDS TimeSeriesNumbers

CONSTANTS Few, Several    \* two numbers of series, both more than one

H(kind, where, rank) == [kind |-> kind, area |-> where, rank |-> rank]
LoadA == H("load", 1, 0)
LoadB == H("load", 2, 0)
WindA == H("wind", 1, 0)
WindB == H("wind", 2, 0)
Coal  == H("thermal", 1, 0)
Gas   == H("thermal", 1, 1)
Solar == H("renewable", 1, 0)
Line  == H("links", 1, 0)
North == H("group", 0, 0)
South == H("group", 0, 1)

Rand == [y \in Years |-> 0]
Global(holders) == [h \in holders |-> "global"]
Draws(holders) == [h \in holders |-> Rand]
Ask(f, h, rules) == { [f EXCEPT ![h] = r] : r \in rules }

\* Two modes over two areas, with the load possibly generated.
Modes == {LoadA, LoadB, WindA, WindB}
Correlated ==
    [ holders      : {Modes},
      width        : { w \in [Modes -> {1, Few, Several}] : w[LoadA] # Several /\ w[WindB] # Few },
      own          : {Global(Modes)},
      noUnits      : {{}},
      generated    : {{}, {"load"}},
      nbTimeSeries : {[k \in GeneratedKinds |-> Few]},
      intraModal   : SUBSET {"load", "wind"},
      interModal   : {{}, {"load"}, {"load", "wind"}},
      derated      : {FALSE},
      rules        : Ask(Draws(Modes), WindA, {Rand, [y \in Years |-> IF y = 0 THEN 2 ELSE 0]}) ]

\* Clusters, in one area only, with settings of their own.
Plants == {Coal, Gas, Solar}
Clusters ==
    [ holders      : {Plants},
      width        : { w \in [Plants -> {1, Few, Several}] : w[Coal] # Few /\ w[Solar] # Several },
      own          : { o \in [Plants -> {"global", "force", "never"}] :
                          o[Solar] = "global" /\ o[Gas] # "never" },
      noUnits      : {{}, {Coal}},
      generated    : {{}, {"thermal"}},
      nbTimeSeries : {[k \in GeneratedKinds |-> Few]},
      intraModal   : {{}, {"thermal"}},
      interModal   : {{}, {"thermal", "renewable"}},
      derated      : {FALSE},
      rules        : {Draws(Plants)} ]

\* The same without random numbers, but for the derated mode.
Derated == { [s EXCEPT !.derated = TRUE] : s \in { c \in Clusters : c.interModal = {} } }

\* Links and groups of binding constraints, with rules that may be invalid.
Limits == {Line, North, South}
Constrained ==
    [ holders      : {Limits},
      width        : [Limits -> {1, Few}],
      own          : {Global(Limits)},
      noUnits      : {{}},
      generated    : {{}},
      nbTimeSeries : {[k \in GeneratedKinds |-> Few]},
      intraModal   : {{}, {"links"}},
      interModal   : {{}},
      derated      : {FALSE},
      rules        : { [h \in Limits |-> CASE h = Line -> [y \in Years |-> 1 + y]
                                           [] h = North -> n [] h = South -> [y \in Years |-> 2]]
                       : n \in [Years -> {0, 1, 3}] } ]

\* The load rules on generated series, and on ready-made ones.
Imposed ==
    [ holders      : {{LoadA, Coal}},
      width        : [{LoadA, Coal} -> {1, Few, Several}],
      own          : {Global({LoadA, Coal})},
      noUnits      : {{}, {Coal}},
      generated    : SUBSET {"load", "thermal"},
      nbTimeSeries : {[k \in GeneratedKinds |-> Few]},
      intraModal   : {{}, {"load"}},
      interModal   : {{}},
      derated      : {FALSE},
      rules        : [{LoadA, Coal} -> {[y \in Years |-> IF y = 0 THEN 0 ELSE 3],
                                        [y \in Years |-> IF y = 0 THEN 1 ELSE 2]}] ]

MCStudies == Correlated \cup Clusters \cup Derated \cup Constrained
             \cup Imposed
=============================================================================
