------------------------------ MODULE WeekLoop ------------------------------
(***************************************************************************)
(* Economy::year and Adequacy::year: the years one space solves, week      *)
(* after week, and the memory of the space they leave to each other: the   *)
(* problems of the linear solver, the reservoir levels, the results of the *)
(* last week solved, the hours of curtailment sharing.                     *)
(*                                                                         *)
(* What is in that memory is represented by the year and the week it       *)
(* comes from.  One area, with a managed reservoir, stands for all.  Weeks *)
(* are counted from 1, as in the list of failed weeks; week 0 of a year is *)
(* what precedes its first week.                                           *)
(***************************************************************************)
EXTENDS Naturals, Sequences, FiniteSets, SequencesExt

CONSTANTS
    NbYears,      \* the years performed in the space
    NbWeeks,
    NbIntervals,  \* optimisations of a week: 1 when weekly, 7 when daily
    Hours,        \* the hours of a week
    Configs       \* the settings to consider

ASSUME WeekLoopAssumption ==
    /\ NbYears \in Nat
    /\ NbWeeks \in Nat
    /\ NbIntervals \in Nat \ {0}
    /\ \A c \in Configs :
         /\ c.mode \in {"economy", "adequacy"}
         /\ c.patch \in BOOLEAN       \* adqPatchParams.enabled
         /\ c.matching \in BOOLEAN    \* its localMatching.enabled
         /\ c.second \in BOOLEAN      \* neither Expansion nor integer variables
         /\ c.stop \in BOOLEAN        \* stopSimulation(unfeasibleProblemBehavior)
         /\ c.first \in BOOLEAN       \* the first year of the simulation is here
         /\ c.patch => c.mode = "economy"

VARIABLES
    conf,
    pc,                \* what comes next in the week
    yr, w,             \* the year and the week
    call, opt, itv,    \* the call of OPT_OptimisationHebdomadaire, the
                       \* optimisation and the interval it is at
    reinitOptim,       \* the local variable of year
    reinit,            \* ReinitOptimisation
    spx,               \* ProblemesSpx: when the problem of an interval was built
    freed,             \* the intervals whose problem was freed and is still there
    result,            \* ResultatsHoraires, by interval
    flow,              \* ValeurDuFlux, by interval
    niv,               \* niveauxHoraires
    level,             \* previousSimulationFinalLevel
    startLevel,        \* NiveauInitialReservoir
    simplexRunNeeded,
    failed,            \* failedWeekList
    reported,          \* the weeks the output variables were given
    firstWeek,         \* firstWeekOfSimulation
    exports,           \* how many times the structure was exported
    triggered,         \* csrTriggeredHoursPerArea_
    sharing,           \* the hours curtailment sharing was computed for this week
    adjusted           \* the hours whose margin was adjusted for it

at == <<pc, yr, w>>
progress == <<call, opt, itv>>
problems == <<reinitOptim, reinit, spx, freed>>
results == <<result, flow>>
levels == <<niv, level, startLevel>>
output == <<failed, reported>>
structure == <<firstWeek, exports>>
margins == <<triggered, sharing, adjusted>>
vars == <<conf, at, progress, problems, results, levels, simplexRunNeeded, output,
          structure, margins>>

Intervals == 1 .. NbIntervals
Never == <<0, 0>>
Now == <<yr, w>>
Economy == conf.mode = "economy"

\* WeeklyOptimization::create: local matching optimises each week twice.
Calls == IF conf.patch /\ conf.matching THEN 2 ELSE 1

-----------------------------------------------------------------------------
(* The beginning of a year and of a week. *)

\* makeVentilation leaves the initial level of the year, then year begins.
StartYear ==
    /\ pc = "year"
    /\ yr < NbYears
    /\ yr' = yr + 1
    /\ w' = 1
    /\ pc' = "week"
    /\ level' = <<yr', 0>>
    /\ failed' = <<>>
    /\ reported' = <<>>
    /\ firstWeek' = (firstWeek \/ (conf.first /\ yr' = 1))
    /\ reinitOptim' = TRUE
    /\ UNCHANGED <<conf, progress, reinit, spx, freed, results, niv, startLevel,
                   simplexRunNeeded, exports, margins>>

\* In adequacy mode only the first week and the weeks whose load is not covered
\* (simplexIsRequired) are given to the solver.
NeedsSimplex(balance) == Economy \/ w = 1 \/ balance

\* The test of the loop over the weeks.
MoreWeeks == w <= NbWeeks

\* SIM_RenseignementProblemeHebdo reads the level; then the flag is taken.
StartWeek ==
    /\ pc = "week"
    /\ MoreWeeks
    /\ startLevel' = level
    /\ reinit' = reinitOptim
    /\ reinitOptim' = FALSE
    /\ \E balance \in BOOLEAN : simplexRunNeeded' = NeedsSimplex(balance)
    /\ pc' = IF simplexRunNeeded' THEN "build" ELSE "balance"
    /\ call' = 1
    /\ UNCHANGED <<conf, yr, w, opt, itv, spx, freed, results, niv, level, output,
                   structure, margins>>

-----------------------------------------------------------------------------
(* The linear optimisation of the week. *)

\* OPT_OptimisationLineaire up to its first optimisation; the matrix is built,
\* and its structure exported in the first week of the simulation.
BuildProblem ==
    /\ pc = "build"
    /\ exports' = exports + (IF firstWeek THEN 1 ELSE 0)
    /\ opt' = 1
    /\ itv' = 1
    /\ pc' = "solve"
    /\ UNCHANGED <<conf, yr, w, call, problems, results, levels, simplexRunNeeded,
                   output, firstWeek, margins>>

\* The problem of the interval is updated and solved from where it was.
Reuses == spx[itv] # Never /\ ~reinit

\* The next interval, the second optimisation, the second call or what follows.
Advance ==
    \/ /\ itv < NbIntervals
       /\ itv' = itv + 1
       /\ pc' = "solve"
       /\ UNCHANGED <<call, opt>>
    \/ /\ itv = NbIntervals
       /\ opt = 1 /\ conf.second
       /\ opt' = 2
       /\ itv' = 1
       /\ pc' = "solve"
       /\ UNCHANGED call
    \/ /\ itv = NbIntervals
       /\ ~(opt = 1 /\ conf.second)
       /\ pc' = IF call < Calls THEN "build" ELSE "post"
       /\ call' = IF call < Calls THEN call + 1 ELSE call
       /\ UNCHANGED <<opt, itv>>

\* The solution of the interval is copied.
Solved ==
    /\ result' = [result EXCEPT ![itv] = Now]
    /\ flow' = [flow EXCEPT ![itv] = Now]
    /\ Advance
    /\ UNCHANGED <<output, reinitOptim>>

\* catch (AssertionError): year returns false.
CatchAssertion ==
    /\ failed' = Append(failed, w)
    /\ pc' = "stopped"
    /\ UNCHANGED <<progress, results, reported, reinitOptim>>

\* Wrong: the problems are not asked for again.
CatchUnfeasibleKeeping ==
    /\ failed' = Append(failed, w)
    /\ pc' = IF conf.stop THEN "stopped" ELSE IF Economy THEN "endWeek" ELSE "levels"
    /\ UNCHANGED <<progress, results, reported, reinitOptim>>

\* Wrong: a failed week is reported in economy too.
CatchUnfeasibleReporting ==
    /\ failed' = Append(failed, w)
    /\ reinitOptim' = TRUE
    /\ pc' = IF conf.stop THEN "stopped" ELSE IF Economy THEN "report" ELSE "levels"
    /\ UNCHANGED <<progress, results, reported>>

\* Wrong: the failure of a week is never fatal.
CatchUnfeasibleGoingOn ==
    /\ failed' = Append(failed, w)
    /\ reinitOptim' = TRUE
    /\ pc' = IF Economy THEN "endWeek" ELSE "levels"
    /\ UNCHANGED <<progress, results, reported>>

\* catch (UnfeasibleProblemError): economy leaves the week, adequacy goes on
\* with what follows the solver.
CatchUnfeasible ==
    /\ failed' = Append(failed, w)
    /\ reinitOptim' = TRUE
    /\ pc' = IF conf.stop THEN "stopped" ELSE IF Economy THEN "endWeek" ELSE "levels"
    /\ UNCHANGED <<progress, results, reported>>

\* OPT_TryToCallSimplex, first trial.  A problem to be renewed is freed; one that
\* has no solution is freed too, and stays in ProblemesSpx until the second trial.
FirstTrial ==
    /\ pc = "solve"
    /\ \/ /\ spx' = [spx EXCEPT ![itv] = IF Reuses THEN @ ELSE Now]
          /\ \/ Solved /\ UNCHANGED freed
             \/ /\ freed' = freed \cup {itv}
                /\ pc' = "retry"
                /\ UNCHANGED <<progress, results, output, reinitOptim>>
       \/ /\ ~Reuses                  \* MPSolverFactory finds no solver
          /\ spx' = [spx EXCEPT ![itv] = Never]
          /\ CatchAssertion
          /\ UNCHANGED freed
    /\ UNCHANGED <<conf, yr, w, reinit, levels, simplexRunNeeded, structure, margins>>

\* Wrong: the problem of the second trial is stored only if it has a solution.
SecondTrialDropped ==
    /\ pc = "retry"
    /\ \/ /\ spx' = [spx EXCEPT ![itv] = Now]
          /\ freed' = freed \ {itv}
          /\ Solved
       \/ /\ CatchUnfeasible
          /\ UNCHANGED <<spx, freed>>
    /\ UNCHANGED <<conf, yr, w, reinit, levels, simplexRunNeeded, structure, margins>>

\* Second trial, without scaling: always on a new problem.
SecondTrial ==
    /\ pc = "retry"
    /\ \/ /\ spx' = [spx EXCEPT ![itv] = Now]
          /\ freed' = freed \ {itv}
          /\ Solved \/ CatchUnfeasible
       \/ /\ CatchAssertion
          /\ UNCHANGED <<spx, freed>>
    /\ UNCHANGED <<conf, yr, w, reinit, levels, simplexRunNeeded, structure, margins>>

\* FatalError("Internal error: insufficient memory") leaves year.
SolverBreaks ==
    /\ pc = "solve"
    /\ pc' = "threw"
    /\ spx' = [spx EXCEPT ![itv] = IF Reuses THEN @ ELSE Now]
    /\ UNCHANGED <<conf, yr, w, progress, reinitOptim, reinit, freed, results, levels,
                   simplexRunNeeded, output, structure, margins>>

-----------------------------------------------------------------------------
(* What follows the optimisation. *)

\* CurtailmentSharingPostProcessCmd: the hours whose unsupplied energy is over
\* the threshold; they are added to those of the weeks before.
ShareCurtailment ==
    IF conf.patch
    THEN \E hours \in SUBSET Hours :
             /\ sharing' = hours
             /\ triggered' = triggered \cup hours
    ELSE UNCHANGED <<sharing, triggered>>

\* Wrong: the levels of the week are computed but not kept for the next one.
PostProcessForgetting ==
    /\ pc = "post"
    /\ ShareCurtailment
    /\ adjusted' = IF conf.patch THEN triggered' ELSE adjusted
    /\ niv' = Now
    /\ pc' = IF Economy THEN "report" ELSE "levels"
    /\ UNCHANGED <<conf, yr, w, progress, problems, results, level, startLevel,
                   simplexRunNeeded, output, structure>>

\* runAll, or the calls that follow OPT_OptimisationHebdomadaire in adequacy.
\* DTGmarginForAdqPatchPostProcessCmd adjusts the hours that are triggered.
PostProcess ==
    /\ pc = "post"
    /\ ShareCurtailment
    /\ adjusted' = IF conf.patch THEN triggered' ELSE adjusted
    /\ niv' = Now
    /\ level' = IF Economy THEN Now ELSE level
    /\ pc' = IF Economy THEN "report" ELSE "levels"
    /\ UNCHANGED <<conf, yr, w, progress, problems, results, startLevel,
                   simplexRunNeeded, output, structure>>

\* RemixHydroForAllAreas throws a pointer, which no handler of year catches.
RemixFails ==
    /\ pc = "post"
    /\ ShareCurtailment
    /\ niv' = Now
    /\ pc' = "threw"
    /\ UNCHANGED <<conf, yr, w, progress, problems, results, level, startLevel,
                   simplexRunNeeded, output, structure, adjusted>>

\* Wrong: the results of the week before are kept.
BalanceForgetting ==
    /\ pc = "balance"
    /\ niv' = Now
    /\ pc' = "levels"
    /\ UNCHANGED <<conf, yr, w, progress, problems, result, flow, level, startLevel,
                   simplexRunNeeded, output, structure, margins>>

\* Adequacy without the solver: the results are set, except the flows, which
\* resize leaves.
Balance ==
    /\ pc = "balance"
    /\ result' = [i \in Intervals |-> Now]
    /\ niv' = Now
    /\ pc' = "levels"
    /\ UNCHANGED <<conf, yr, w, progress, problems, flow, level, startLevel,
                   simplexRunNeeded, output, structure, margins>>

\* Adequacy: updatingWeeklyFinalHydroLevel.
UpdateLevel ==
    /\ pc = "levels"
    /\ level' = niv
    /\ pc' = "report"
    /\ UNCHANGED <<conf, yr, w, progress, problems, results, niv, startLevel,
                   simplexRunNeeded, output, structure, margins>>

\* variables.weekBegin to variables.weekEnd.
Report ==
    /\ pc = "report"
    /\ reported' = Append(reported, w)
    /\ pc' = "endWeek"
    /\ UNCHANGED <<conf, yr, w, progress, problems, results, levels, simplexRunNeeded,
                   failed, structure, margins>>

\* Wrong: a failed week is left before the flag is reset.
EndWeekIfReported ==
    /\ pc = "endWeek"
    /\ firstWeek' = (firstWeek /\ w \in ToSet(failed))
    /\ w' = w + 1
    /\ pc' = "week"
    /\ UNCHANGED <<conf, yr, progress, problems, results, levels, simplexRunNeeded,
                   output, exports, margins>>

EndWeek ==
    /\ pc = "endWeek"
    /\ firstWeek' = FALSE
    /\ w' = w + 1
    /\ pc' = "week"
    /\ UNCHANGED <<conf, yr, progress, problems, results, levels, simplexRunNeeded,
                   output, exports, margins>>

\* updatingAnnualFinalHydroLevel; year returns true.
EndYear ==
    /\ pc = "week"
    /\ ~MoreWeeks
    /\ pc' = "year"
    /\ UNCHANGED <<conf, yr, w, progress, problems, results, levels, simplexRunNeeded,
                   output, structure, margins>>

-----------------------------------------------------------------------------
\* What SIM_InitialisationProblemeHebdo leaves.
Init ==
    /\ conf \in Configs
    /\ pc = "year"
    /\ yr = 0 /\ w = 0
    /\ call = 1 /\ opt = 1 /\ itv = 1
    /\ reinitOptim = FALSE /\ reinit = FALSE
    /\ spx = [i \in Intervals |-> Never]
    /\ freed = {}
    /\ result = [i \in Intervals |-> Never]
    /\ flow = [i \in Intervals |-> Never]
    /\ niv = Never /\ level = Never /\ startLevel = Never
    /\ simplexRunNeeded = TRUE
    /\ failed = <<>> /\ reported = <<>>
    /\ firstWeek = FALSE
    /\ exports = 0
    /\ triggered = {} /\ sharing = {} /\ adjusted = {}

Next ==
    \/ StartYear \/ StartWeek \/ BuildProblem
    \/ FirstTrial \/ SecondTrial \/ SolverBreaks
    \/ PostProcess \/ RemixFails \/ Balance \/ UpdateLevel
    \/ Report \/ EndWeek \/ EndYear

Spec == Init /\ [][Next]_vars

-----------------------------------------------------------------------------
(* Properties *)

Stamp == (0 .. NbYears) \X (0 .. NbWeeks)

\* The type of every variable.
TypeOK ==
    /\ conf \in Configs
    /\ pc \in {"year", "week", "build", "solve", "retry", "post", "balance", "levels",
               "report", "endWeek", "stopped", "threw"}
    /\ yr \in 0 .. NbYears
    /\ w \in 0 .. NbWeeks + 1
    /\ call \in 1 .. 2 /\ opt \in 1 .. 2 /\ itv \in Intervals
    /\ reinitOptim \in BOOLEAN /\ reinit \in BOOLEAN
    /\ spx \in [Intervals -> Stamp]
    /\ freed \subseteq Intervals
    /\ result \in [Intervals -> Stamp] /\ flow \in [Intervals -> Stamp]
    /\ niv \in Stamp /\ level \in Stamp /\ startLevel \in Stamp
    /\ simplexRunNeeded \in BOOLEAN
    /\ failed \in Seq(1 .. NbWeeks) /\ reported \in Seq(1 .. NbWeeks)
    /\ firstWeek \in BOOLEAN
    /\ exports \in Nat
    /\ triggered \subseteq Hours /\ sharing \subseteq Hours /\ adjusted \subseteq Hours

HasFailed(k) == k \in ToSet(failed)

\* A problem of the solver is never used nor freed once it was freed, whatever
\* the trials, the weeks and the years that failed before.
NoFreedProblem == pc = "solve" => itv \notin freed

\* In economy a problem is taken again only within a year and since the last
\* week that failed: a failed week and the end of a year leave none.
ProblemsAreRenewed ==
    Economy /\ pc = "solve" /\ Reuses =>
        /\ spx[itv][1] = yr
        /\ \A k \in ToSet(failed) : k < spx[itv][2]

\* The last week solved before this one, 0 if there is none.
LastSolved ==
    CHOOSE k \in 0 .. w - 1 :
        /\ ~HasFailed(k)
        /\ \A j \in k + 1 .. w - 1 : HasFailed(j)

InWeek == pc \in {"build", "solve", "retry", "post", "balance"}

\* A week starts from the level reached at the end of the last week of the year
\* that was solved, or from the initial level of the year.
ResumesFromLastSuccess == InWeek => startLevel = <<yr, LastSolved>>

\* The same, leaving out the years in adequacy whose first week failed.
ResumesUntroubled == Economy \/ ~HasFailed(1) => ResumesFromLastSuccess

\* The output variables are given the results of the week that was solved, for
\* all its hours; its flows too if the solver was called.
ReportsItsOwnWeek ==
    pc = "report" /\ ~HasFailed(w) =>
        \A i \in Intervals : /\ result[i] = Now
                             /\ simplexRunNeeded => flow[i] = Now

\* Every week is reported once, in order, but those that failed in economy.
WeeksAccountedFor ==
    pc = "week" =>
        /\ \A a, b \in DOMAIN reported : a < b => reported[a] < reported[b]
        /\ ToSet(reported) = {k \in 1 .. w - 1 : ~(Economy /\ HasFailed(k))}

\* The structure of the problems is exported in the first week of the
\* simulation and never again, even if that week fails or another space starts
\* first.  A simulation without weeks has no structure to export.
StructureOnce ==
    /\ exports <= IF conf.first THEN Calls ELSE 0
    /\ conf.first /\ NbWeeks > 0 /\ (yr > 1 \/ w > 1) => exports > 0

\* The failed weeks are listed in order; when they must stop the simulation the
\* first one does, and a year that is stopped was stopped by its last week.
FailedWeeksListed ==
    /\ \A a, b \in DOMAIN failed : a < b => failed[a] < failed[b]
    /\ conf.stop /\ failed # <<>> => pc = "stopped"
    /\ pc = "stopped" => HasFailed(w)

\* The margins that were adjusted are those of hours that had curtailment
\* sharing this week.
SharingIsOfTheWeek == pc = "report" => adjusted \subseteq sharing
=============================================================================
