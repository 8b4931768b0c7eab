------------------------------ MODULE YearLoop ------------------------------
(***************************************************************************)
(* ISimulation::loopThroughYears: what the main thread does before, during *)
(* and after each set of parallel years, and what a year reads and writes  *)
(* when it runs (yearJob).                                                 *)
(*                                                                         *)
(* The sets are those ParallelYears builds.  The years of a set run in any *)
(* order and at the same time; the main thread goes on when all of them    *)
(* have ended, which YearBatches establishes for the thread pool.          *)
(***************************************************************************)
EXTENDS Naturals, Sequences, FiniteSets, SequencesExt

CONSTANTS
    NbYears, Kinds, Thermal, Renewables, Configs,    \* of ParallelYears
    Forced,       \* the thermal clusters that force their own generation
    Blank,        \* what memory holds before any year writes to it
    Unused        \* the impossible level -1

VARIABLES
    conf, pc, y, buildNewSet, studySets, minNbYearsInParallel,
    maxNbYearsInParallel, allSetsHaveSameSize, sets, foundFirst,
    nbYearsReallyPerformed, maxNbYearsPerformed

Cut == INSTANCE ParallelYears
Years == Cut!Years

ASSUME YearLoopAssumption ==
    /\ Cut!ParallelYearsAssumption
    /\ Forced \notin Kinds
    /\ Blank \notin Years
    /\ Unused \notin Years
    /\ Blank # Unused

VARIABLES
    loop,              \* where the main thread is in the loop over the sets
    cur,               \* the set it is at
    series,            \* the year the current time series were generated for
    pos,               \* the rank of the year computeRandomNumbers is at
    indexYear,         \* its slot, if it is performed
    drawn,             \* the years the random generators were drawn for
    slots,             \* randomForParallelYears.pYears, and the memory after it
    yearNumberToIndex,
    firstSetRun,       \* pFirstSetParallelWithAPerformedYearWasRun
    job,               \* how far each year is
    spaces,            \* the year each Variable::State holds, its final level
    input,             \* what each year was started with
    summed,            \* the years merged into the results, from which data
    costs              \* the years counted in the annual costs statistics

cutVars == <<conf, pc, y, buildNewSet, studySets, minNbYearsInParallel,
             maxNbYearsInParallel, allSetsHaveSameSize, sets, foundFirst,
             nbYearsReallyPerformed, maxNbYearsPerformed>>
loopVars == <<loop, cur, series, pos, indexYear, drawn, slots, yearNumberToIndex,
              firstSetRun, job, spaces, input, summed, costs>>
randomVars == <<pos, indexYear, drawn, slots, yearNumberToIndex>>

Set == sets[cur]
InSet(s, yr) == yr \in ToSet(s.years)
AtSet(there) == pc = "built" /\ loop = there

-----------------------------------------------------------------------------
(* Before the set runs. *)

\* A generator of series: a kind, or the clusters that force their own.
Interval(g) == conf.interval[IF g = Forced THEN Thermal ELSE g]

Generated == Cut!SolverKinds \cup (IF conf.thermalForced THEN {Forced} ELSE {})

\* Wrong: series that exist are not generated again.
RegeneratedOnce(yr) ==
    [g \in Kinds \cup {Forced} |->
        IF g \in Generated /\ series[g] = Blank THEN yr ELSE series[g]]

\* regenerateTimeSeries: each kind whose refresh falls on this year.
Regenerated(yr) ==
    [g \in Kinds \cup {Forced} |->
        IF g \in Generated /\ yr % Interval(g) = 0 THEN yr ELSE series[g]]

\* regenerateTimeSeries divides by the thermal interval whatever is refreshed.
DividesByZero == Set.regenerateTS /\ conf.interval[Thermal] = 0

Refresh ==
    /\ AtSet("refresh")
    /\ ~DividesByZero
    /\ series' = IF Set.regenerateTS THEN Regenerated(Set.yearForTSgeneration) ELSE series
    /\ loop' = "draw"
    /\ pos' = 1
    /\ indexYear' = 0
    /\ UNCHANGED <<cur, drawn, slots, yearNumberToIndex, firstSetRun, job, spaces,
                   input, summed, costs>>

Crash ==
    /\ AtSet("refresh")
    /\ DividesByZero
    /\ loop' = "crashed"
    /\ UNCHANGED <<cur, series, randomVars, firstSetRun, job, spaces, input, summed, costs>>

\* Wrong: nothing is drawn for a skipped year.
NextDrawIfPerformed(yr) == IF Cut!Performed(yr) THEN drawn + 1 ELSE drawn

\* The generators are called for every year, performed or not.
NextDraw(yr) == drawn + 1

\* What is left in the slot: the numbers of a performed year are stored; with a hot
\* start its initial level is for the first set only, and a skipped year leaves -1.
Filled(slot, performed) ==
    [ thermal |-> IF performed THEN drawn ELSE slot.thermal,
      costs   |-> IF performed THEN drawn ELSE slot.costs,
      level   |-> CASE performed /\ ~(conf.hotStart /\ firstSetRun) -> drawn
                    [] ~performed /\ conf.hotStart                  -> Unused
                    [] OTHER                                        -> slot.level ]

\* One year of the loop of computeRandomNumbers.
DrawYear ==
    /\ AtSet("draw")
    /\ pos \in DOMAIN Set.years
    /\ LET yr        == Set.years[pos]
           performed == Cut!Performed(yr)
       IN  /\ drawn' = NextDraw(yr)
           /\ slots' = [slots EXCEPT ![indexYear] = Filled(@, performed)]
           /\ IF performed
              THEN /\ yearNumberToIndex' = [z \in DOMAIN yearNumberToIndex \cup {yr} |->
                          IF z = yr THEN indexYear ELSE yearNumberToIndex[z]]
                   /\ indexYear' = indexYear + 1
              ELSE UNCHANGED <<yearNumberToIndex, indexYear>>
    /\ pos' = pos + 1
    /\ UNCHANGED <<loop, cur, series, firstSetRun, job, spaces, input, summed, costs>>

\* A job is added for every year of the set.
AddJobs ==
    /\ AtSet("draw")
    /\ pos = Len(Set.years) + 1
    /\ job' = [yr \in Years |-> IF InSet(Set, yr) THEN "queued" ELSE job[yr]]
    /\ loop' = "run"
    /\ UNCHANGED <<cur, series, randomVars, firstSetRun, spaces, input, summed, costs>>

-----------------------------------------------------------------------------
(* While the set runs: yearJob::operator(). *)

\* Wrong: the space is computed from the number of the year.
SpaceByYear(yr) == yr % maxNbYearsInParallel

\* performedYearToSpace.
SpaceOf(yr) == (CHOOSE k \in DOMAIN Set.performed : Set.performed[k] = yr) - 1

\* The level at the beginning of the year.
StartLevel(yr) ==
    IF conf.hotStart /\ firstSetRun
    THEN spaces[SpaceOf(yr)].finalLevel
    ELSE slots[yearNumberToIndex[yr]].level

\* A year of the playlist starts.
StartYear(yr) ==
    /\ AtSet("run")
    /\ job[yr] = "queued"
    /\ Cut!Performed(yr)
    /\ job' = [job EXCEPT ![yr] = "running"]
    /\ input' = [input EXCEPT ![yr] =
           [ thermal |-> slots[yearNumberToIndex[yr]].thermal,
             costs   |-> slots[yearNumberToIndex[yr]].costs,
             level   |-> StartLevel(yr),
             series  |-> series ]]
    /\ spaces' = [spaces EXCEPT ![SpaceOf(yr)].year = yr]
    /\ UNCHANGED <<loop, cur, series, randomVars, firstSetRun, summed, costs>>

\* All its weeks are solved: updatingAnnualFinalHydroLevel is reached.
YearSolved(yr) ==
    /\ job[yr] = "running"
    /\ job' = [job EXCEPT ![yr] = "ok"]
    /\ spaces' = [spaces EXCEPT ![SpaceOf(yr)].finalLevel = IF conf.hotStart THEN yr ELSE @]
    /\ UNCHANGED <<loop, cur, series, randomVars, firstSetRun, input, summed, costs>>

\* A week has no solution and stops the year, or the job throws.
YearFailed(yr) ==
    /\ job[yr] = "running"
    /\ \E how \in {"failed", "threw"} : job' = [job EXCEPT ![yr] = how]
    /\ UNCHANGED <<loop, cur, series, randomVars, firstSetRun, spaces, input, summed, costs>>

\* A year that is not in the playlist has nothing to do.
SkipYear(yr) ==
    /\ AtSet("run")
    /\ job[yr] = "queued"
    /\ ~Cut!Performed(yr)
    /\ job' = [job EXCEPT ![yr] = "skipped"]
    /\ UNCHANGED <<loop, cur, series, randomVars, firstSetRun, spaces, input, summed, costs>>

YearStep(yr) == StartYear(yr) \/ YearSolved(yr) \/ YearFailed(yr) \/ SkipYear(yr)

-----------------------------------------------------------------------------
(* After the set has run. *)

SetEnded == \A yr \in ToSet(Set.years) : job[yr] \notin {"queued", "running"}

Threw == \E yr \in ToSet(Set.years) : job[yr] = "threw"
Failed == \E yr \in ToSet(Set.years) : job[yr] = "failed"

\* The jobs have ended; the flag is set unless results.join() has thrown.
AfterJobs(flag, fatal) ==
    /\ AtSet("run")
    /\ SetEnded
    /\ firstSetRun' = (firstSetRun \/ (flag /\ ~Threw))
    /\ loop' = IF fatal THEN "fatal" ELSE "sum"
    /\ UNCHANGED <<cur, series, randomVars, job, spaces, input, summed, costs>>

\* Wrong: only exceptions stop the simulation.
JoinIgnoringFailures == AfterJobs(Set.performed # <<>>, Threw)

\* Wrong: the flag is set by a set of skipped years too.
JoinFlaggingAnySet == AfterJobs(TRUE, Threw \/ Failed)

\* results.join() throws what a job threw; the flag is set by a set with a
\* performed year; then yearFailed is looked at.
Join == AfterJobs(Set.performed # <<>>, Threw \/ Failed)

\* spaceToPerformedYear says which year a space contributes for.
Contributions ==
    [k \in DOMAIN Set.performed |->
        [year |-> Set.performed[k], data |-> spaces[k - 1].year]]

\* computeAnnualCostsStatistics goes through the performed years of the set, which are
\* in the same order in the set and in its spaces.
CostsOfSet ==
    [k \in DOMAIN Set.performed |-> spaces[SpaceOf(Set.performed[k])].year]

\* randomNumbers::reset: the number of clusters is zeroed before it is used to
\* zero the thermal noises, which are left.
Reset ==
    [n \in DOMAIN slots |->
        IF n < maxNbYearsPerformed
        THEN [slots[n] EXCEPT !.costs = Blank, !.level = Blank] ELSE slots[n]]

\* computeSummary, computeAnnualCostsStatistics, reset.
SumUp ==
    /\ AtSet("sum")
    /\ summed' = summed \o Contributions
    /\ costs' = costs \o CostsOfSet
    /\ slots' = Reset
    /\ yearNumberToIndex' = <<>>
    /\ IF cur < Len(sets) THEN cur' = cur + 1 /\ loop' = "refresh"
                          ELSE loop' = "done" /\ UNCHANGED cur
    /\ UNCHANGED <<series, pos, indexYear, drawn, firstSetRun, job, spaces, input>>

-----------------------------------------------------------------------------
BlankSlot == [thermal |-> Blank, costs |-> Blank, level |-> Blank]

Init ==
    /\ Cut!Init
    /\ loop = "refresh"
    /\ cur = 1
    /\ series = [g \in Kinds \cup {Forced} |-> Blank]
    /\ pos = 1
    /\ indexYear = 0
    /\ drawn = 0
    /\ slots = [n \in 0 .. NbYears |-> BlankSlot]
    /\ yearNumberToIndex = <<>>
    /\ firstSetRun = FALSE
    /\ job = [yr \in Years |-> "none"]
    /\ spaces = [n \in Years |-> [year |-> Blank, finalLevel |-> Unused]]
    /\ input = [yr \in Years |-> [thermal |-> Blank, costs |-> Blank, level |-> Blank,
                                  series |-> series]]
    /\ summed = <<>>
    /\ costs = <<>>

CutStep == Cut!Next /\ UNCHANGED loopVars

LoopStep ==
    /\ \/ Refresh \/ Crash \/ DrawYear \/ AddJobs \/ Join \/ SumUp
       \/ \E yr \in Years : YearStep(yr)
    /\ UNCHANGED cutVars

Next == CutStep \/ LoopStep

Spec == Init /\ [][Next]_<<cutVars, loopVars>>

-----------------------------------------------------------------------------
(* Properties *)

Stored == Years \cup {Blank, Unused}
Slot == [thermal : Stored, costs : Stored, level : Stored]
Series == [Kinds \cup {Forced} -> Stored]

\* The type of every variable of the loop.
TypeOK ==
    /\ loop \in {"refresh", "draw", "run", "sum", "done", "fatal", "crashed"}
    /\ cur \in 1 .. (IF pc = "built" THEN Len(sets) ELSE 1)
    /\ series \in Series
    /\ pos \in 1 .. NbYears + 1
    /\ indexYear \in 0 .. NbYears
    /\ drawn \in 0 .. NbYears
    /\ slots \in [0 .. NbYears -> Slot]
    /\ \A yr \in DOMAIN yearNumberToIndex : yr \in Years /\ yearNumberToIndex[yr] \in 0 .. NbYears
    /\ firstSetRun \in BOOLEAN
    /\ job \in [Years -> {"none", "queued", "running", "ok", "failed", "threw", "skipped"}]
    /\ spaces \in [Years -> [year : Stored, finalLevel : Stored]]
    /\ input \in [Years -> [thermal : Stored, costs : Stored, level : Stored, series : Series]]
    /\ summed \in Seq([year : Years, data : Stored])
    /\ costs \in Seq(Stored)

Started(yr) == job[yr] \in {"running", "ok", "failed", "threw"}

\* A year runs with the random numbers drawn for it, the same whatever the
\* playlist, the number of cores and the refreshes: results are reproducible.
YearsDrawTheirOwn ==
    \A yr \in Years : Started(yr) => input[yr].thermal = yr /\ input[yr].costs = yr

\* A year runs with the time series of its own refresh period: generated for the
\* last year, up to itself, whose refresh falls due, and never for a later one.
SeriesOfItsPeriod ==
    \A yr \in Years : Started(yr) =>
        \A g \in Generated : input[yr].series[g] = yr - (yr % Interval(g))

\* The place of a year among the performed years: its set and its rank there.
SetOf(yr) == CHOOSE i \in DOMAIN sets : InSet(sets[i], yr)
RankOf(yr) == CHOOSE k \in DOMAIN sets[SetOf(yr)].performed :
                  sets[SetOf(yr)].performed[k] = yr
LastPerformedBefore(i) ==
    {h \in 1 .. i - 1 : /\ sets[h].performed # <<>>
                        /\ \A g \in h + 1 .. i - 1 : sets[g].performed = <<>>}

\* A year starts from the level drawn for it or, with a hot start, from the
\* final level of the year of the same rank in the performed set before its own,
\* if there is one; never from a level no year wrote.  (The hot start is one that the
\* study, knowing the refreshes, accepts.)
LevelsAreChained ==
    ~conf.hotStart \/ (Cut!HotStartAccepted /\ Cut!StudyKnowsRefreshes) =>
        \A yr \in Years : Started(yr) =>
            LET before == IF conf.hotStart THEN LastPerformedBefore(SetOf(yr)) ELSE {}
            IN  IF before = {} THEN input[yr].level = yr
                ELSE \A h \in before : input[yr].level = sets[h].performed[RankOf(yr)]

\* Two years that run together share neither a Variable::State nor a slot of
\* random numbers, and a state holds the year that runs in it.  Performed or skipped,
\* no year writes to a slot that was not allocated, if the study knows the refreshes.
RunnersAreApart ==
    /\ loop = "run" =>
        \A yr \in Years : job[yr] = "running" =>
            /\ spaces[SpaceOf(yr)].year = yr
            /\ \A z \in Years \ {yr} : job[z] = "running" =>
                 /\ SpaceOf(z) # SpaceOf(yr)
                 /\ yearNumberToIndex[z] # yearNumberToIndex[yr]
    /\ Cut!StudyKnowsRefreshes =>
         \A n \in DOMAIN slots : n >= maxNbYearsPerformed => slots[n] = BlankSlot

Increasing(s) == \A a, b \in DOMAIN s : a < b => s[a] < s[b]
YearsOf(s) == [k \in DOMAIN s |-> s[k].year]

\* Every performed year is summed up once, in order, from its own data; at the end
\* all the playlist was.  A failure stops the simulation: its set is not summed up
\* and no later set starts.
SummedOnceInOrder ==
    /\ \A k \in DOMAIN summed : job[summed[k].year] = "ok" /\ summed[k].data = summed[k].year
    /\ Increasing(YearsOf(summed))
    /\ costs = YearsOf(summed)
    /\ loop = "done" => ToSet(YearsOf(summed)) = conf.playlist
    /\ \A yr \in Years : job[yr] \in {"failed", "threw"} =>
          SetOf(yr) = cur /\ loop \in {"run", "fatal"}
=============================================================================
