---------------------------- MODULE ParallelYears ----------------------------
(***************************************************************************)
(* How the Monte-Carlo years of a simulation are cut into sets of years    *)
(* that run in parallel.                                                   *)
(*                                                                         *)
(* The cut is computed twice by two different pieces of code: once when    *)
(* the study is loaded (Study::getNumberOfCores), to size the memory and   *)
(* to decide whether a hydro hot start is possible, and once when the      *)
(* simulation starts (ISimulation::buildSetsOfParallelYears), to run the   *)
(* sets.  One step of this specification is one iteration of one of the    *)
(* two loops over the years; the steps between them are the code that      *)
(* follows the first loop.                                                 *)
(*                                                                         *)
(* Years are numbered from 0, as in the code.                              *)
(***************************************************************************)
EXTENDS Naturals, Sequences, FiniteSets, FiniteSetsExt

CONSTANTS
    NbYears,      \* parameters.nbYears
    Kinds,        \* the kinds of time series that can be generated
    Thermal,      \* the kind that clusters may force on their own
    Renewables,   \* the kinds regenerated only in aggregated mode
    Configs       \* the settings to consider, a subset of ConfigSpace

Years == 0 .. NbYears - 1

(***************************************************************************)
(* The settings the two computations read, as Parameters::fixBadValues and *)
(* prepareForSimulation leave them: at least one year is in the playlist,  *)
(* and a kind that is refreshed has a positive interval (a kind generated  *)
(* without being refreshed is given a huge one).  Only the interval of a   *)
(* kind that is not refreshed may still be 0.                              *)
(***************************************************************************)
ConfigSpace ==
    { c \in [ playlist      : (SUBSET Years) \ {{}},
              refreshed     : SUBSET Kinds,
              interval      : [Kinds -> Nat],
              cores         : Nat \ {0},
              parallel      : BOOLEAN,
              aggregated    : BOOLEAN,
              thermalForced : BOOLEAN,
              hotStart      : BOOLEAN ] :
        \A k \in c.refreshed : c.interval[k] > 0 }

ASSUME ParallelYearsAssumption ==
    /\ NbYears \in Nat \ {0}
    /\ Thermal \in Kinds
    /\ Renewables \subseteq Kinds \ {Thermal}
    /\ IsFiniteSet(Kinds)
    /\ Configs \subseteq ConfigSpace

VARIABLES
    conf,                  \* the settings of this run
    pc,                    \* which of the two loops is running
    y,                     \* the year the running loop is at
    buildNewSet,           \* the next year starts a new set
    studySets,             \* the sets of getNumberOfCores
    minNbYearsInParallel,
    maxNbYearsInParallel,
    allSetsHaveSameSize,
    sets,                  \* the sets of buildSetsOfParallelYears
    foundFirst,            \* foundFirstPerformedYearOfCurrentSet
    nbYearsReallyPerformed,
    maxNbYearsPerformed    \* what buildSetsOfParallelYears returns

studyVars  == <<studySets, minNbYearsInParallel, allSetsHaveSameSize>>
solverVars == <<sets, foundFirst, nbYearsReallyPerformed, maxNbYearsPerformed>>
vars == <<conf, pc, y, buildNewSet, maxNbYearsInParallel, studyVars, solverVars>>

Performed(yr) == yr \in conf.playlist

LastOf(s) == s[Len(s)]

-----------------------------------------------------------------------------
(* Study::getNumberOfCores *)

\* The smallest refresh span of the kinds that are generated and refreshed,
\* if any, the number of cores and the number of years bound a set.
SizeLimit(c) ==
    Min({c.interval[k] : k \in c.refreshed} \cup {c.cores, NbYears})

StudyRefreshing(yr) == \E k \in conf.refreshed : yr % conf.interval[k] = 0

\* The condition of the two loops.
AtAYear(loop) == pc = loop /\ y < NbYears

\* One year of the loop of getNumberOfCores.
CountYear ==
    /\ AtAYear("count")
    /\ LET newSet == buildNewSet \/ StudyRefreshing(y)
           base   == IF newSet THEN Append(studySets, <<>>) ELSE studySets
           set    == IF Performed(y) THEN Append(LastOf(base), y) ELSE LastOf(base)
       IN  /\ studySets' = [base EXCEPT ![Len(base)] = set]
           /\ buildNewSet' = (Len(set) = maxNbYearsInParallel)
    /\ y' = y + 1
    /\ UNCHANGED <<conf, pc, maxNbYearsInParallel, minNbYearsInParallel,
                   allSetsHaveSameSize, solverVars>>

StudySizes == {Len(studySets[i]) : i \in DOMAIN studySets}

\* What follows the loop, and Study::internalLoadFromFolder after the call:
\* without a parallel mode only one core is kept.  The solver's loop can start.
Summarise ==
    /\ pc = "count"
    /\ y = NbYears
    /\ LET biggest == Max(StudySizes)
       IN  /\ minNbYearsInParallel' = Min({maxNbYearsInParallel} \cup (StudySizes \ {0}))
           /\ maxNbYearsInParallel' = IF conf.parallel THEN biggest ELSE 1
           /\ allSetsHaveSameSize' = (conf.hotStart /\ biggest > 1 =>
                                        \A n \in StudySizes : n = Len(studySets[1]))
    /\ pc' = "build"
    /\ y' = 0
    /\ buildNewSet' = TRUE
    /\ UNCHANGED <<conf, studySets, solverVars>>

\* Wrong: a hot start that is never refused.
HotStartAlways == conf.hotStart

\* Study::checkHydroHotStart, its part about parallel years: a hot start is
\* refused when the sets do not have the same size.
HotStartAccepted ==
    conf.hotStart /\ (maxNbYearsInParallel = 1 \/ allSetsHaveSameSize)

-----------------------------------------------------------------------------
(* ISimulation::buildSetsOfParallelYears *)

\* Wrong: renewables are never regenerated.
SolverKindsNoRenewable == conf.refreshed \ Renewables

\* CacheData::initialize: renewables are regenerated in aggregated mode only.
SolverKinds ==
    IF conf.aggregated THEN conf.refreshed ELSE conf.refreshed \ Renewables

KindRefreshing(yr) == \E k \in SolverKinds : yr % conf.interval[k] = 0

\* A thermal cluster may ask for its own series: runtime->thermalTSRefresh.
ForcedRefreshing(yr) == conf.thermalForced /\ yr % conf.interval[Thermal] = 0

SolverRefreshing(yr) == KindRefreshing(yr) \/ ForcedRefreshing(yr)

\* Wrong: a refresh does not open a set.
OpensSetWhenFull(yr) == buildNewSet

OpensSet(yr) == buildNewSet \/ SolverRefreshing(yr)

\* A struct setOfParallelYears.  performed lists the performed years in the
\* order of their spaces: spaceToPerformedYear[i] is performed[i + 1], and
\* performedYearToSpace and isYearPerformed are its inverse and its range.
EmptySet(yr) ==
    [ years               |-> <<>>,
      performed           |-> <<>>,
      firstPerformed      |-> {},
      regenerateTS        |-> SolverRefreshing(yr),
      yearForTSgeneration |-> IF SolverRefreshing(yr) THEN yr ELSE 999999 ]

\* Wrong: a skipped year is given a space.
AddYearAsPerformed(s, yr) ==
    [ s EXCEPT !.years          = Append(@, yr),
               !.performed      = Append(@, yr),
               !.firstPerformed = IF Performed(yr) /\ ~foundFirst THEN @ \cup {yr}
                                                                  ELSE @ ]

\* Wrong: a skipped year can be flagged as the first performed one.
AddYearFlagSkipped(s, yr) ==
    [ s EXCEPT !.years          = Append(@, yr),
               !.performed      = IF Performed(yr) THEN Append(@, yr) ELSE @,
               !.firstPerformed = IF s.years = <<>> THEN {yr} ELSE @ ]

AddYear(s, yr) ==
    [ years               |-> Append(s.years, yr),
      performed           |-> IF Performed(yr) THEN Append(s.performed, yr) ELSE s.performed,
      firstPerformed      |-> IF Performed(yr) /\ ~foundFirst
                              THEN s.firstPerformed \cup {yr} ELSE s.firstPerformed,
      regenerateTS        |-> s.regenerateTS,
      yearForTSgeneration |-> s.yearForTSgeneration ]

\* The modulo of a forced thermal refresh, reached when no other kind is due.
DividesByZero(yr) ==
    /\ ~KindRefreshing(yr)
    /\ conf.thermalForced
    /\ conf.interval[Thermal] = 0

\* The next year starts a new set after this one: the set has all the
\* performed years it may have, or this is the last year.
IsFull(n, yr) ==
    (Performed(yr) /\ n = maxNbYearsInParallel) \/ yr = NbYears - 1

\* One year of the loop of buildSetsOfParallelYears.
BuildYear ==
    /\ AtAYear("build")
    /\ ~DividesByZero(y)
    /\ LET base == IF OpensSet(y) THEN Append(sets, EmptySet(y)) ELSE sets
           set  == AddYear(LastOf(base), y)
           n    == Len(set.performed)
           full == IsFull(n, y)
       IN  /\ sets' = [base EXCEPT ![Len(base)] = set]
           /\ buildNewSet' = full
           /\ foundFirst' = (~full /\ (foundFirst \/ Performed(y)))
           /\ maxNbYearsPerformed' = IF full /\ n > maxNbYearsPerformed
                                     THEN n ELSE maxNbYearsPerformed
    /\ nbYearsReallyPerformed' = nbYearsReallyPerformed + (IF Performed(y) THEN 1 ELSE 0)
    /\ y' = y + 1
    /\ UNCHANGED <<conf, pc, maxNbYearsInParallel, studyVars>>

\* Integer division by zero: the process dies.
Crash ==
    /\ AtAYear("build")
    /\ DividesByZero(y)
    /\ pc' = "crashed"
    /\ UNCHANGED <<conf, y, buildNewSet, maxNbYearsInParallel, studyVars, solverVars>>

\* The loop ends and its result sizes the memory of loopThroughYears.
EndBuild ==
    /\ pc = "build"
    /\ y = NbYears
    /\ pc' = "built"
    /\ UNCHANGED <<conf, y, buildNewSet, maxNbYearsInParallel, studyVars, solverVars>>

-----------------------------------------------------------------------------
Init ==
    /\ conf \in Configs
    /\ pc = "count"
    /\ y = 0
    /\ buildNewSet = TRUE
    /\ studySets = <<>>
    /\ minNbYearsInParallel = 0
    /\ maxNbYearsInParallel = SizeLimit(conf)
    /\ allSetsHaveSameSize = TRUE
    /\ sets = <<>>
    /\ foundFirst = FALSE
    /\ nbYearsReallyPerformed = 0
    /\ maxNbYearsPerformed = 0

Next == CountYear \/ Summarise \/ BuildYear \/ Crash \/ EndBuild

Spec == Init /\ [][Next]_vars
-----------------------------------------------------------------------------
(* Properties *)

Subsets == [ years : Seq(Years), performed : Seq(Years), firstPerformed : SUBSET Years,
             regenerateTS : BOOLEAN, yearForTSgeneration : Years \cup {999999} ]

\* The type of every variable.
TypeOK ==
    /\ conf \in ConfigSpace
    /\ pc \in {"count", "build", "built", "crashed"}
    /\ y \in 0 .. NbYears
    /\ buildNewSet \in BOOLEAN
    /\ studySets \in Seq(Seq(Years))
    /\ minNbYearsInParallel \in Nat
    /\ maxNbYearsInParallel \in Nat \ {0}
    /\ allSetsHaveSameSize \in BOOLEAN
    /\ sets \in Seq(Subsets)
    /\ foundFirst \in BOOLEAN
    /\ nbYearsReallyPerformed \in Nat
    /\ maxNbYearsPerformed \in Nat

\* The sets cut the years visited so far into consecutive runs of consecutive
\* years: no year is skipped, none is in two sets, none is out of order.
YearsCutInOrder ==
    /\ \A i \in DOMAIN sets :
          LET s == sets[i].years
          IN  /\ s # <<>>
              /\ \A j \in DOMAIN s : s[j] = s[1] + (j - 1)
              /\ s[1] = IF i = 1 THEN 0 ELSE LastOf(sets[i - 1].years) + 1
    /\ sets # <<>> => LastOf(LastOf(sets).years) + 1 = y

\* A year of the playlist has exactly one space in its set: the performed
\* years of a set are its playlist years, in increasing order, so that no two
\* jobs that run together share a Variable::State or a weekly problem.
OneSpacePerYear ==
    \A i \in DOMAIN sets :
        LET p == sets[i].performed
        IN  /\ \A a \in DOMAIN p, b \in DOMAIN p : a < b => p[a] < p[b]
            /\ \A yr \in Years :
                  (\E j \in DOMAIN p : p[j] = yr)
                  <=> /\ Performed(yr)
                      /\ \E j \in DOMAIN sets[i].years : sets[i].years[j] = yr

\* No set performs more years than there are spaces: state, pProblemesHebdo and
\* the per-space arrays of the study hold maxNbYearsInParallel elements.
SpacesFit ==
    \A i \in DOMAIN sets : Len(sets[i].performed) <= maxNbYearsInParallel

\* loopThroughYears regenerates time series only between two sets, for the year
\* yearForTSgeneration: a year that asks for new series must open its set, and
\* a set that regenerates must do it for the year that asks.
RefreshOpensSet ==
    \A i \in DOMAIN sets :
        LET s == sets[i]
        IN  /\ \A j \in DOMAIN s.years : SolverRefreshing(s.years[j]) => j = 1
            /\ s.regenerateTS <=> SolverRefreshing(s.years[1])
            /\ s.regenerateTS => s.yearForTSgeneration = s.years[1]

\* The random numbers of a set are stored in maxNbYearsPerformed slots, one per
\* performed year of the set (randomNumbers::pYears): every set must fit.
SlotsFit ==
    pc = "built" => \A i \in DOMAIN sets : Len(sets[i].performed) <= maxNbYearsPerformed

NonEmpty(s) == s # <<>>

\* The study does not know of the refreshes a cluster forces; without a parallel mode
\* a set has one performed year at most, and that does not matter.
StudyKnowsRefreshes == ~(conf.parallel /\ conf.thermalForced)

\* What the study counted is what the solver runs: every set fits, unless the study
\* missed refreshes; and with the same settings on both sides (parallel mode,
\* aggregated renewables), the sets that perform years are the same on both sides
\* (no year is in two of them, see OneSpacePerYear), and the bounds published by the
\* study are those of the sets really run.
StudyCountsWhatRuns ==
    /\ StudyKnowsRefreshes => SlotsFit
    /\ pc = "built" /\ conf.parallel /\ conf.aggregated /\ ~conf.thermalForced =>
        /\ {studySets[i] : i \in DOMAIN studySets} \ {<<>>}
           = {sets[i].performed : i \in DOMAIN sets} \ {<<>>}
        /\ maxNbYearsPerformed = maxNbYearsInParallel
        /\ \A i \in DOMAIN sets : NonEmpty(sets[i].performed) =>
                                    Len(sets[i].performed) >= minNbYearsInParallel

\* Only the first performed year of the simulation may be told that it is the
\* first one (yearJob combines isFirstPerformedYearOfASet with "no set was
\* performed yet"); it must be told, and be alone in that case.
FirstYearOfSimulation ==
    pc = "built" =>
        \E i \in DOMAIN sets :
            /\ \A h \in 1 .. i - 1 : sets[h].performed = <<>>
            /\ sets[i].firstPerformed = {Min(conf.playlist)}

\* After the first performed set, a hot start reads the final level of the year
\* that ran in the same space (previousYearFinalLevels): when the study, knowing
\* all the refreshes, accepts the hot start, every space used by a set was used by
\* the performed set before.
HotStartFed ==
    pc = "built" /\ HotStartAccepted /\ StudyKnowsRefreshes =>
        \A i \in DOMAIN sets, j \in DOMAIN sets :
            /\ i < j
            /\ NonEmpty(sets[i].performed)
            /\ \A h \in i + 1 .. j - 1 : ~NonEmpty(sets[h].performed)
            => Len(sets[j].performed) <= Len(sets[i].performed)
=============================================================================
