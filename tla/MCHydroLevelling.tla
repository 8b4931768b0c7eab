-------------------------- MODULE MCHydroLevelling --------------------------
(* Small weeks for HydroLevelling: each hour is of one of a few kinds. *)
EXTENDS HydroLevelling

Hour(h, d, s, m, load, pmax, full) ==
    [h |-> h, d |-> d, s |-> s, m |-> m, load |-> load, pmax |-> pmax, full |-> full]

Peak    == Hour(0, 32, 0, 0, 128, 24, 24)    \* nothing was kept for the peak
Low     == Hour(0, 16, 0, 0, 64, 24, 24)     \* unsupplied energy, out of a peak
Short   == Hour(16, 8, 0, 0, 96, 16, 24)     \* already at its maximum
Shaved  == Hour(16, 0, 0, 0, 112, 32, 32)    \* a second peak
Spared  == Hour(16, 0, 0, 24, 80, 32, 32)    \* a plant has a margin
Spilled == Hour(8, 0, 8, 0, 16, 24, 24)
Boosted == Hour(24, 0, 0, 0, 64, 24, 16)     \* the credits of the reservoir are increased
Calm    == Hour(0, 0, 0, 24, 48, 24, 16)
Idle    == Hour(0, 0, 0, 0, 64, 0, 16)

AnyWeek == [Hours -> {Peak, Low, Short, Shaved, Spared, Spilled, Idle}]
BoostedWeek == [Hours -> {Peak, Boosted, Calm}]
OtherArea == { [i \in Hours |-> IF i = 0 THEN Shaved ELSE Peak],
               [i \in Hours |-> IF i = 2 THEN Spilled ELSE Spared] }

AllWeeks == { <<first, second>> : first \in AnyWeek \cup BoostedWeek, second \in OtherArea }

\* Ten turns and a tolerance of 4 are enough for these weeks, as 100 turns and 0.01 are for real ones.
ASSUME FineAssumption == UnitIsFine
=============================================================================
