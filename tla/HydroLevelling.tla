--------------------------- MODULE HydroLevelling ---------------------------
(***************************************************************************)
(* Two levels found by dichotomy on the results of a week.  With the       *)
(* policy "shave peaks", Remix moves the hydro generation of each period of *)
(* the week (a week, or each of its days) to the hours where energy is     *)
(* missing the most.  Then PrepareMaxMRG computes MAX MRG, the margins that *)
(* the hydro of the week could give if it were used for them.              *)
(*                                                                         *)
(* Energies are integers: the unit is what the halving of a level can tell. *)
(***************************************************************************)
EXTENDS Integers, Functions

CONSTANTS
    NbAreas,
    NbHours,        \* of a week: 168
    DayLength,      \* 24
    Weeks,          \* results of the solver: for each area and each hour, a record
    RemixEcart,     \* what a sum may be off by when a loop ends: 0.01
    MarginEcart,    \* 0.5
    MaxLoops,       \* 100
    DblMax          \* std::numeric_limits<double>::max()

Areas == 1 .. NbAreas
Hours == 0 .. NbHours - 1

\* What the solver leaves of an hour of an area:
\*   h: TurbinageHoraire, d and s: unsupplied and spilled energy, m: dispatchableGenerationMargin,
\*   load, pmax: ContrainteDePmaxHydrauliqueHoraire, the upper bound of h in the problem,
\*   full: maxPower[genMaxP], the same without the modulations of the reservoir.
HourResults ==
    [h : Nat, d : Nat, s : Nat, m : Nat, load : Int, pmax : Nat, full : Nat]

ASSUME HydroLevellingAssumption ==
    /\ NbAreas \in Nat \ {0}
    /\ NbHours \in Nat \ {0} /\ DayLength \in Nat \ {0}
    /\ NbHours % DayLength = 0
    /\ Weeks \subseteq [Areas -> [Hours -> HourResults]]
    /\ \A w \in Weeks, a \in Areas, i \in Hours : w[a][i].h <= w[a][i].pmax
    /\ RemixEcart \in Nat /\ MarginEcart \in Nat
    /\ MaxLoops \in Nat \ {0}
    /\ DblMax \in Nat

VARIABLES
    week,          \* the results before the remix
    shave,         \* the shedding policy is "shave peaks"
    step,          \* the length of a period, by the range of the simplex
    pc,
    area, offset,  \* the area and the period at hand
    H, D,          \* TurbinageHoraire and ValeursHorairesDeDefaillancePositive
    remix,         \* the hours of the period whose energy is moved
    bottom, top, loop,
    gaveUp,        \* the loops that were found infinite, with their area
    margin         \* opmrg

vars == <<week, shave, step, pc, area, offset, H, D, remix, bottom, top, loop, gaveUp, margin>>

-----------------------------------------------------------------------------
(* Helpers *)

Total(f, S) == SumFunctionOnSet(f, S)
Lesser(x, y) == IF x < y THEN x ELSE y
Greater(x, y) == IF x > y THEN x ELSE y

Least(S) == {x \in S : \A y \in S : x <= y}
Greatest(S) == {x \in S : \A y \in S : y <= x}

Block(first) == first .. first + step - 1
Period == Block(offset)
Niveau == (top + bottom) \div 2

\* The hydro of the hour and what is missing: what the hour could use at most.
Wanted(i) == H[area][i] + D[area][i]
\* The load that is served without either.
Ground(i) == week[area][i].load - Wanted(i)

\* An hour of the period is levelled when it has energy to give or take and nothing else to spare.
Movable(i) == Wanted(i) > 0 /\ week[area][i].s + week[area][i].m = 0

\* WD and WH are not zero.
Missing == \E i \in Period : D[area][i] > 0
Usable == \E i \in Period : week[area][i].s = 0 /\ H[area][i] > 0

\* Wrong: the power of the turbines is forgotten.
ServedUnbounded(level, i) ==
    IF level > week[area][i].load THEN Wanted(i)
    ELSE IF Ground(i) > level THEN 0
    ELSE level - Ground(i)

\* Wrong: an hour that is above the level keeps its hydro.
ServedKeeping(level, i) ==
    IF level > week[area][i].load THEN Lesser(Wanted(i), week[area][i].pmax)
    ELSE IF Ground(i) > level THEN H[area][i]
    ELSE Lesser(level - Ground(i), week[area][i].pmax)

\* HE: the hydro of an hour of the period when the load is served up to a level.
Served(level, i) ==
    IF level > week[area][i].load THEN Lesser(Wanted(i), week[area][i].pmax)
    ELSE IF Ground(i) > level THEN 0
    ELSE Lesser(level - Ground(i), week[area][i].pmax)

RemixStock(level) == Total([i \in remix |-> Served(level, i)], remix)
RemixHydro == Total([i \in remix |-> H[area][i]], remix)
RemixGap == RemixHydro - RemixStock(Niveau)

\* OI: the margin of an hour as the week was solved.
Operational(a, i) == week[a][i].s + week[a][i].m - D[a][i]

\* opmrg: the margin of an hour when margins are brought to a level.
Levelled(level, a, i) ==
    IF level > Operational(a, i)
    THEN Lesser(level, Operational(a, i) + week[a][i].full - H[a][i])
    ELSE Greater(level, Operational(a, i) - H[a][i])

MarginGap == \* SP - SM
    Total([i \in Hours |-> Operational(area, i) - Levelled(Niveau, area, i)], Hours)

Within(gap, ecart) == -ecart <= gap /\ gap <= ecart

\* Wrong: the level is lowered if energy is left.
HalveBackwards(gap) ==
    /\ bottom' = IF gap < 0 THEN Niveau ELSE bottom
    /\ top' = IF gap < 0 THEN top ELSE Niveau
    /\ loop' = loop - 1

\* Halving: the level was too low if energy is left.
Halve(gap) ==
    /\ bottom' = IF gap > 0 THEN Niveau ELSE bottom
    /\ top' = IF gap > 0 THEN top ELSE Niveau
    /\ loop' = loop - 1

\* What comes after a period, and what comes after the margins of an area.  Once every area
\* was remixed, those whose loop was infinite end the year with an exception.
AfterPeriod(failed) ==
    IF offset + step < NbHours
    THEN pc' = "period" /\ offset' = offset + step /\ area' = area
    ELSE /\ offset' = 0
         /\ IF area < NbAreas THEN pc' = "period" /\ area' = area + 1
            ELSE IF failed = {} THEN pc' = "margin" /\ area' = 1
            ELSE pc' = "threw" /\ area' = area

AfterMargin ==
    IF area < NbAreas THEN pc' = "margin" /\ area' = area + 1
    ELSE pc' = "done" /\ area' = area
-----------------------------------------------------------------------------
(* RemixHydroForAllAreas *)

\* Nothing to do in a period where nothing is missing, or without hydro out of
\* the hours where energy is spilled.
SkipPeriod ==
    /\ pc = "period"
    /\ ~(Missing /\ Usable)
    /\ AfterPeriod(gaveUp)
    /\ UNCHANGED <<week, shave, step, H, D, remix, bottom, top, loop, gaveUp, margin>>

BeginPeriod ==
    /\ pc = "period"
    /\ Missing /\ Usable
    /\ remix' = {i \in Period : Movable(i)}
    /\ bottom' \in Least({DblMax} \cup {Ground(i) : i \in remix'})
    /\ top' \in Greatest({0} \cup {week[area][i].load : i \in remix'})
    /\ loop' = MaxLoops
    /\ pc' = "level"
    /\ UNCHANGED <<week, shave, step, area, offset, H, D, gaveUp, margin>>

RemixAgain ==
    /\ pc = "level"
    /\ loop > 1
    /\ ~Within(RemixGap, RemixEcart)
    /\ Halve(RemixGap)
    /\ UNCHANGED <<week, shave, step, pc, area, offset, H, D, remix, gaveUp, margin>>

\* The generation of the last level tried is kept, even when the loop is given up.
RemixEnds ==
    /\ pc = "level"
    /\ loop = 1 \/ Within(RemixGap, RemixEcart)
    /\ Halve(RemixGap)
    /\ H' = [H EXCEPT ![area] =
                [i \in Hours |-> IF i \in remix THEN Served(Niveau, i) ELSE @[i]]]
    /\ D' = [D EXCEPT ![area] =
                [i \in Hours |-> IF i \in remix THEN Wanted(i) - Served(Niveau, i) ELSE @[i]]]
    /\ gaveUp' = IF loop = 1 THEN gaveUp \cup {<<"remix", area>>} ELSE gaveUp
    /\ AfterPeriod(gaveUp')
    /\ UNCHANGED <<week, shave, step, remix, margin>>
-----------------------------------------------------------------------------
(* PrepareMaxMRG, for each area at the end of the week *)

\* Without hydro the margins are those of the week.
NoHydro ==
    /\ pc = "margin"
    /\ \A i \in Hours : H[area][i] = 0
    /\ margin' = [margin EXCEPT ![area] = [i \in Hours |-> Operational(area, i)]]
    /\ AfterMargin
    /\ UNCHANGED <<week, shave, step, offset, H, D, remix, bottom, top, loop, gaveUp>>

BeginMargin ==
    /\ pc = "margin"
    /\ \E i \in Hours : H[area][i] > 0
    /\ bottom' \in Least({DblMax} \cup {Operational(area, i) : i \in Hours})
    /\ top' \in Greatest({0} \cup {Operational(area, i) : i \in Hours})
    /\ loop' = MaxLoops
    /\ pc' = "marginLevel"
    /\ UNCHANGED <<week, shave, step, area, offset, H, D, remix, gaveUp, margin>>

LevelMargins ==
    margin' = [margin EXCEPT ![area] = [i \in Hours |-> Levelled(Niveau, area, i)]]

MarginAgain ==
    /\ pc = "marginLevel"
    /\ loop > 1
    /\ ~Within(MarginGap, MarginEcart)
    /\ LevelMargins
    /\ Halve(MarginGap)
    /\ UNCHANGED <<week, shave, step, pc, area, offset, H, D, remix, gaveUp>>

MarginEnds ==
    /\ pc = "marginLevel"
    /\ loop > 1
    /\ Within(MarginGap, MarginEcart)
    /\ LevelMargins
    /\ Halve(MarginGap)
    /\ AfterMargin
    /\ UNCHANGED <<week, shave, step, offset, H, D, remix, gaveUp>>

\* "infinite loop detected. please check input data": nothing else is told.
MarginGivesUp ==
    /\ pc = "marginLevel"
    /\ loop = 1
    /\ LevelMargins
    /\ Halve(MarginGap)
    /\ gaveUp' = gaveUp \cup {<<"margin", area>>}
    /\ AfterMargin
    /\ UNCHANGED <<week, shave, step, offset, H, D, remix>>
-----------------------------------------------------------------------------
\* With the other shedding policy the results are left as they are.
Init ==
    /\ week \in Weeks
    /\ step \in {DayLength, NbHours}
    /\ shave \in BOOLEAN
    /\ pc = IF shave THEN "period" ELSE "margin"
    /\ area = 1 /\ offset = 0
    /\ H = [a \in Areas |-> [i \in Hours |-> week[a][i].h]]
    /\ D = [a \in Areas |-> [i \in Hours |-> week[a][i].d]]
    /\ remix = {}
    /\ bottom = 0 /\ top = 0 /\ loop = 0
    /\ gaveUp = {}
    /\ margin = [a \in Areas |-> [i \in Hours |-> 0]]

Next ==
    \/ SkipPeriod \/ BeginPeriod \/ RemixAgain \/ RemixEnds
    \/ NoHydro \/ BeginMargin \/ MarginAgain \/ MarginEnds \/ MarginGivesUp

Spec == Init /\ [][Next]_vars
-----------------------------------------------------------------------------
(* Properties *)

TypeOK ==
    /\ week \in Weeks
    /\ shave \in BOOLEAN
    /\ step \in {DayLength, NbHours}
    /\ pc \in {"period", "level", "margin", "marginLevel", "done", "threw"}
    /\ area \in Areas /\ offset \in Hours
    /\ H \in [Areas -> [Hours -> Nat]] /\ D \in [Areas -> [Hours -> Nat]]
    /\ remix \subseteq Hours
    /\ bottom \in Int /\ top \in Int
    /\ loop \in 0 .. MaxLoops
    /\ gaveUp \subseteq {"remix", "margin"} \X Areas
    /\ margin \in [Areas -> [Hours -> Int]]

Remixed(a) == shave /\ (pc \in {"margin", "marginLevel", "done", "threw"} \/ a < area)
MarginDone(a) == pc = "done" \/ (pc \in {"margin", "marginLevel"} /\ a < area)

\* The periods of the week, by their first hour.
Starts == {o \in Hours : o % step = 0}

\* The hours of a period that the remix may move, from the results of the week.
MovableIn(a, o) ==
    {i \in Block(o) : week[a][i].h + week[a][i].d > 0 /\ week[a][i].s + week[a][i].m = 0}

\* The hydro of a period is left as it was, or is the same in all but for what the loop tolerates.
HydroIsKept(a, o) ==
    LET moved == MovableIn(a, o)
        before == [i \in moved |-> week[a][i].h]
        after == [i \in moved |-> H[a][i]]
    IN  before = after \/ Within(Total(before, moved) - Total(after, moved), RemixEcart)

\* The same of the margins: what some hours gain, other hours give.
MarginIsOfTheWeek(a) ==
    LET given == [i \in Hours |-> Operational(a, i) - margin[a][i]]
    IN  given = [i \in Hours |-> 0] \/ Within(Total(given, Hours), MarginEcart)

\* Moving hydro makes no energy and loses none: in every hour what hydro gains the
\* unsupplied energy loses, within the power of the turbines ("the maximum ... limit on
\* power could occasionally be overcome", docs/CHANGELOG.md:1566), and only where it may be
\* moved.  A loop that ends keeps the hydro of each period, and of the week for the margins.
EnergyIsKept ==
    \A a \in Areas :
        /\ \A i \in Hours : /\ H[a][i] + D[a][i] = week[a][i].h + week[a][i].d
                            /\ H[a][i] <= week[a][i].pmax
        /\ \A o \in Starts : \A i \in Block(o) \ MovableIn(a, o) : H[a][i] = week[a][i].h
        /\ Remixed(a) /\ <<"remix", a>> \notin gaveUp => \A o \in Starts : HydroIsKept(a, o)
        /\ MarginDone(a) /\ <<"margin", a>> \notin gaveUp => MarginIsOfTheWeek(a)

\* The load an hour serves.
LoadServed(a, i) == week[a][i].load - D[a][i]

\* Peaks are shaved: in a period, no hour that lacks energy could be given some by
\* another one that serves more load.  So are the margins: none could be raised by
\* hydro taken from an hour with a larger one.
HoursAreLevelled ==
    \A a \in Areas :
        /\ Remixed(a) =>
             \A o \in Starts : \A i, j \in MovableIn(a, o) :
                 D[a][i] > 0 /\ H[a][i] < week[a][i].pmax /\ H[a][j] > 0
                 => LoadServed(a, i) >= LoadServed(a, j)
        /\ MarginDone(a) =>
             \A i, j \in Hours :
                 /\ margin[a][i] < Operational(a, i) + week[a][i].full - H[a][i]
                 /\ margin[a][j] > Operational(a, j) - H[a][j]
                 => margin[a][i] >= margin[a][j]

\* The credits of a reservoir may be increased by its modulations, in its bounds but not in full.
NotIncreased(a) == \A i \in Hours : week[a][i].pmax <= week[a][i].full

TwoTo[n \in 0 .. MaxLoops] == IF n = 0 THEN 1 ELSE 2 * TwoTo[n - 1]

\* The numbers of the code allow the search: 0.01 is far more than what the halving can tell
\* in each hour of a week, and no energy of a week is as large as what 100 halvings reach.
UnitIsFine ==
    /\ RemixEcart >= NbHours /\ MarginEcart >= NbHours
    /\ MaxLoops >= 2
    /\ \A w \in Weeks, a \in Areas, i \in Hours :
         LET hour == w[a][i]
         IN  \A e \in {hour.load, hour.load - hour.h - hour.d,
                       hour.s + hour.m, hour.s + hour.m - hour.h - hour.d} :
                -TwoTo[MaxLoops - 2] <= 2 * e /\ 2 * e <= TwoTo[MaxLoops - 2]

\* The level looked for exists and is found: it stays between its bounds (with the lower one
\* hydro is left, with the upper one there is not enough), the remix never
\* gives up, nor do the margins unless credits are increased, and MAX MRG is then the margin
\* "obtained if the hydro storage energy of the week were used to maximise margins"
\* (docs/reference-guide/05-output_files.md:115): all of that energy, and no more.
LevelIsFound ==
    /\ pc = "level" /\ remix # {} =>
         RemixStock(bottom) <= RemixHydro /\ RemixHydro <= RemixStock(top)
    /\ \A a \in Areas : /\ <<"remix", a>> \notin gaveUp
                        /\ MarginDone(a) /\ NotIncreased(a) => MarginIsOfTheWeek(a)
=============================================================================
