--------------------------- MODULE TimeSeriesNumbers ---------------------------
(***************************************************************************)
(* Which time series each Monte-Carlo year of a study uses.                *)
(*                                                                         *)
(* TimeSeriesNumbers::Generate draws, for every year and every holder of   *)
(* series, the number of a series, from the widths the series have when    *)
(* the simulation starts.  The scenario builder then overwrites some of    *)
(* the numbers (ApplyCustomScenario), the generators replace series by     *)
(* others, of another width, and the years read the column their number    *)
(* names.  At the end the numbers are corrected and written out.           *)
(*                                                                         *)
(* A study names the holders that have something to tell: what it leaves   *)
(* out has one ready-made series.  Disabled clusters only consume a random *)
(* draw, and are left out too.  The generator's value 1, of probability    *)
(* 2^-32, is left out.                                                     *)
(***************************************************************************)
EXTENDS Integers, FiniteSets

CONSTANTS
    Studies,    \* the studies the simulation may be given
    NbAreas,    \* areas are numbered in the order of their names
    NbYears

Areas == 1 .. NbAreas
Years == 0 .. NbYears - 1

\* A "group" is a group of binding constraints.
AreaKinds == {"load", "solar", "wind", "hydro"}
GeneratedKinds == AreaKinds \cup {"thermal"}
InterModalKinds == GeneratedKinds \cup {"renewable"}
IntraModalKinds == InterModalKinds \cup {"links"}
Kinds == IntraModalKinds \cup {"group"}

\* rank: the cluster's index in its area, the link's, or the group's among the
\* rules, which are sorted by name; a group has no area.
Holder == [kind : Kinds, area : 0 .. NbAreas, rank : Nat]

ASSUME TimeSeriesNumbersAssumption ==
    /\ NbAreas \in Nat \ {0} /\ NbYears \in Nat \ {0}
    /\ \A s \in Studies :
        /\ s.holders \subseteq Holder
        /\ \A h \in s.holders : h.kind # "group" => h.area \in Areas
        /\ s.width \in [s.holders -> Nat \ {0}]            \* of the ready-made series
        /\ s.own \in [s.holders -> {"global", "force", "never"}]
        /\ s.noUnits \subseteq s.holders
        /\ s.generated \subseteq GeneratedKinds            \* timeSeriesToRefresh
        /\ s.nbTimeSeries \in [GeneratedKinds -> Nat \ {0}]
        /\ s.intraModal \subseteq IntraModalKinds
        /\ s.interModal \subseteq InterModalKinds
        /\ s.derated \in BOOLEAN
        /\ s.rules \in [s.holders -> [Years -> Nat]]       \* 0: drawn at random
        /\ s.derated => \A h \in s.holders : s.rules[h] = [y \in Years |-> 0]
        /\ \A h \in s.holders : h.kind # "thermal" => s.own[h] = "global" /\ h \notin s.noUnits
        /\ \A a \in Areas, k \in s.interModal \cap AreaKinds :
              \E h \in s.holders : h.kind = k /\ h.area = a

VARIABLES
    study,
    pc,         \* "check", "draw", "inter", "scenario", "generate", "run",
                \* "store", "done", "failed" or "crashed"
    year,       \* the year whose numbers are drawn
    area,       \* the area whose modes are made to agree
    nb,         \* nbTimeseriesByMode
    numbers,    \* timeseriesNumbers of each holder
    width,      \* how many series each holder has
    read        \* the column each year read

vars == <<study, pc, year, area, nb, numbers, width, read>>

Holders == study.holders
OfKind(k) == {h \in Holders : h.kind = k}
Zero == [h \in Holders |-> [y \in Years |-> 0]]

\* Parameters::prepareForSimulation: one inter-modal kind alone is none.
InterModal == IF Cardinality(study.interModal) = 1 THEN {} ELSE study.interModal

-----------------------------------------------------------------------------
(* TimeSeriesNumbers::Generate *)

\* GenerateDeratedMode: one averaged series.
GenerateDeratedMode ==
    /\ pc = "check" /\ study.derated
    /\ numbers' = Zero
    /\ pc' = "scenario"
    /\ UNCHANGED <<study, year, area, nb, width, read>>

CheckAllElementsIdenticalOrOne(widths) == \A m, n \in widths \ {1} : m = n

\* checkTSconsistency: how many series the mode has, the ones left aside.
CommonWidth(k) ==
    LET widths == {width[h] : h \in OfKind(k)} \ {1}
    IN  IF widths = {} THEN 1 ELSE CHOOSE n \in widths : TRUE

CheckIntraModalConsistency ==
    LET checked    == study.intraModal \ study.generated
        consistent == \A k \in checked :
                        CheckAllElementsIdenticalOrOne({width[h] : h \in OfKind(k)})
    IN  /\ pc = "check" /\ ~study.derated
        /\ nb' = IF ~consistent THEN nb
                 ELSE [k \in IntraModalKinds |->
                          CASE k \in checked -> CommonWidth(k)
                            [] k \in GeneratedKinds \ checked -> study.nbTimeSeries[k]
                            [] OTHER -> 1]
        /\ pc' = IF consistent THEN "draw" ELSE "failed"
        /\ UNCHANGED <<study, year, area, numbers, width, read>>

\* From how many series the number of a holder is drawn.
DrawnFrom(h) ==
    IF h.kind \in study.intraModal \cup study.generated THEN nb[h.kind] ELSE width[h]

\* Wrong: each holder draws its own number, also in an intra-modal mode.
DrawsAlone(h) == <<h.kind, h>>

\* One draw serves a whole intra-modal mode.
DrawOf(h) == IF h.kind \in study.intraModal THEN <<h.kind>> ELSE <<h.kind, h>>

\* drawTSnumbersForIntraModal, storeTSnumbersForIntraModal and
\* drawAndStoreTSnumbersForNOTintraModal: 0 when there is one series only.
DrawYear ==
    LET random == {h \in Holders : DrawnFrom(h) > 1}
        values == UNION { 0 .. DrawnFrom(h) - 1 : h \in random }
    IN  /\ pc = "draw"
        /\ \E draw \in [{DrawOf(h) : h \in random} -> values] :
            /\ \A h \in random : draw[DrawOf(h)] < DrawnFrom(h)
            /\ numbers' = [h \in Holders |-> [numbers[h] EXCEPT
                              ![year] = IF h \in random THEN draw[DrawOf(h)] ELSE 0]]
        /\ year' = year + 1
        /\ pc' = IF year + 1 < NbYears THEN "draw"
                 ELSE IF InterModal = {} THEN "scenario" ELSE "inter"
        /\ UNCHANGED <<study, area, nb, width, read>>

\* How many series a holder counts for in the inter-modal check.
Count(h) == IF h.kind \in study.generated THEN study.nbTimeSeries[h.kind] ELSE width[h]

\* The order in which the leader of an area is looked for.
Place == [load |-> 1, solar |-> 2, wind |-> 3, hydro |-> 4, thermal |-> 5, renewable |-> 6]

\* getFirstTSnumberInterModalMatrixFoundInArea
Leader(members) ==
    CHOOSE h \in members :
        \A g \in members : /\ Place[h.kind] <= Place[g.kind]
                           /\ h.kind = g.kind => h.rank <= g.rank

Members(a) == {h \in Holders : h.kind \in InterModal /\ h.area = a}

\* checkInterModalConsistencyForArea and applyMatrixDrawsToInterModalModesInArea
MakeAreaAgree ==
    LET members == Members(area)
    IN  /\ pc = "inter"
        /\ members # {}
        /\ IF CheckAllElementsIdenticalOrOne({Count(h) : h \in members})
           THEN /\ numbers' = [h \in Holders |->
                                 IF h \in members THEN numbers[Leader(members)] ELSE numbers[h]]
                /\ area' = area + 1
                /\ pc' = IF area < NbAreas THEN "inter" ELSE "scenario"
           ELSE /\ pc' = "failed"
                /\ UNCHANGED <<numbers, area>>
        /\ UNCHANGED <<study, year, nb, width, read>>

\* The inter-modal kinds are all of clusters and the area has none: assert, or
\* a null matrix is read.
NoLeader ==
    /\ pc = "inter"
    /\ Members(area) = {}
    /\ pc' = "crashed"
    /\ UNCHANGED <<study, year, area, nb, numbers, width, read>>

-----------------------------------------------------------------------------
(* ApplyCustomScenario *)

\* Wrong: the series are counted from one.
ValidFromOne(h, rule) == rule - 1 <= Count(h)

\* CheckValidity; a rule names the series from 1.
Valid(h, rule) == rule - 1 < Count(h)

RulesHold(h) == \A y \in Years : study.rules[h][y] > 0 => Valid(h, study.rules[h][y])

\* Wrong: one invalid rule and none is applied.
AppliedWhenAllHold(h) == \A g \in Holders : RulesHold(g)

\* BindingConstraintsTSNumberData::apply is an all_of over the groups: it stops
\* after the first group that has an invalid rule.  The other kinds go on.
Applied(h) ==
    h.kind = "group" => \A g \in OfKind("group") : g.rank < h.rank => RulesHold(g)

\* Rules::apply, each rule by ApplyToMatrix
ApplyCustomScenario ==
    /\ pc = "scenario"
    /\ numbers' = [h \in Holders |-> [y \in Years |->
                     LET rule == study.rules[h][y]
                     IN  IF rule > 0 /\ Valid(h, rule) /\ Applied(h) THEN rule - 1
                                                                    ELSE numbers[h][y]]]
    /\ pc' = "generate"
    /\ UNCHANGED <<study, year, area, nb, width, read>>

-----------------------------------------------------------------------------
(* The simulation. *)

\* ThermalCluster::doWeGenerateTS for a cluster; the whole kind otherwise.
DoWeGenerateTS(h) ==
    IF study.own[h] = "global" THEN h.kind \in study.generated ELSE study.own[h] = "force"

\* A cluster without units or capacity gets one series of zeros; in the derated
\* mode the series are averaged into one.
GeneratedWidth(h) ==
    IF h \in study.noUnits \/ study.derated THEN 1 ELSE study.nbTimeSeries[h.kind]

\* regenerateTimeSeries: before the first year everything there is to generate
\* is generated, and later refreshes leave the widths as they are.
Regenerate ==
    /\ pc = "generate"
    /\ width' = [h \in Holders |-> IF DoWeGenerateTS(h) THEN GeneratedWidth(h) ELSE width[h]]
    /\ pc' = "run"
    /\ UNCHANGED <<study, year, area, nb, numbers, read>>

\* TimeSeries::getSeriesIndex, and preparerBindingConstraint for a group.
SeriesIndex(h, y) == IF width[h] = 1 THEN 0 ELSE numbers[h][y]

RunYears ==
    /\ pc = "run"
    /\ read' = [h \in Holders |-> [y \in Years |-> SeriesIndex(h, y)]]
    /\ pc' = "store"
    /\ UNCHANGED <<study, year, area, nb, numbers, width>>

\* Wrong: what counts is the width the numbers were drawn with.
FixedByDraw(h) == IF study.width[h] = 1 THEN Zero[h] ELSE numbers[h]

\* fixTSNumbersWhenWidthIsOne
Fixed(h) == IF width[h] = 1 THEN Zero[h] ELSE numbers[h]

StoreTimeSeriesNumbersIntoOutput ==
    /\ pc = "store"
    /\ numbers' = [h \in Holders |-> Fixed(h)]
    /\ pc' = "done"
    /\ UNCHANGED <<study, year, area, nb, width, read>>

-----------------------------------------------------------------------------
Init ==
    /\ study \in Studies
    /\ pc = "check" /\ year = 0 /\ area = 1
    /\ nb = [k \in IntraModalKinds |-> 0]
    /\ numbers = Zero              \* resizeAllTimeseriesNumbers
    /\ width = study.width
    /\ read = Zero

Next ==
    \/ GenerateDeratedMode \/ CheckIntraModalConsistency \/ DrawYear
    \/ MakeAreaAgree \/ NoLeader
    \/ ApplyCustomScenario \/ Regenerate \/ RunYears \/ StoreTimeSeriesNumbersIntoOutput

Spec == Init /\ [][Next]_vars

-----------------------------------------------------------------------------
(* Properties *)

\* The variables keep their types.
TypeOK ==
    /\ study \in Studies
    /\ pc \in {"check", "draw", "inter", "scenario", "generate", "run", "store", "done",
              "failed", "crashed"}
    /\ year \in Nat /\ area \in Nat
    /\ nb \in [IntraModalKinds -> Nat]
    /\ numbers \in [Holders -> [Years -> Nat]]
    /\ width \in [Holders -> Nat \ {0}]
    /\ read \in [Holders -> [Years -> Nat]]

Random(h, y) == study.rules[h][y] = 0
HasRead == pc \in {"store", "done"}

\* The area's modes follow the number of a mode that has one series in this
\* area and several in others: it counts for one in the check of the area, but
\* its number is one of those of the other areas.
FollowsASingleSeries(h) ==
    /\ h \in Members(h.area)
    /\ LET leader == Leader(Members(h.area))
       IN  /\ leader.kind \in study.intraModal \ study.generated
           /\ study.width[leader] = 1 /\ nb[leader.kind] > 1

\* A cluster whose own setting departs from the study's: its number is drawn
\* for the series it does not have.
OwnGeneration(h) == DoWeGenerateTS(h) # (h.kind \in study.generated)

\* No year reads a series that does not exist, although the numbers are drawn
\* from the widths the series had before they were generated: but for the two
\* cases above.
NumbersInRangeUntroubled ==
    HasRead => \A h \in Holders, y \in Years :
                  (OwnGeneration(h) \/ FollowsASingleSeries(h)) \/ read[h][y] < width[h]

\* What the study wants drawn together: the holders of an intra-modal mode, the
\* inter-modal modes of an area, and, where every area follows the same
\* intra-modal mode, all of these.
Together(h, g) ==
    \/ h.kind = g.kind /\ h.kind \in study.intraModal \ InterModal
    \/ h.area = g.area /\ {h.kind, g.kind} \subseteq InterModal
    \/ /\ {h.kind, g.kind} \subseteq InterModal
       /\ Leader(Members(h.area)).kind = Leader(Members(g.area)).kind
       /\ Leader(Members(h.area)).kind \in study.intraModal

\* In a given year what is drawn together uses one number, but for holders with
\* a single series and for numbers the scenario builder imposes.
DrawnTogether ==
    HasRead /\ ~study.derated =>
        \A h, g \in Holders, y \in Years :
            /\ Together(h, g)
            /\ Random(h, y) /\ Random(g, y)
            /\ width[h] > 1 /\ width[g] > 1
            => read[h][y] = read[g][y]

\* A number the scenario builder imposes is the one the year uses, if the holder
\* has this series; for a group of binding constraints, if the rules of the
\* groups before it are valid too.
ScenarioIsFollowed ==
    HasRead => \A h \in Holders, y \in Years :
        /\ ~Random(h, y) /\ study.rules[h][y] <= width[h]
        /\ ~OwnGeneration(h)
        /\ h.kind = "group" => \A g \in OfKind("group") : g.rank < h.rank =>
                                  \A z \in Years : study.rules[g][z] <= width[g]
        => read[h][y] = study.rules[h][y] - 1

\* The numbers written to the output are the columns the years read.
StoredWasRead == pc = "done" => numbers = read
=============================================================================
