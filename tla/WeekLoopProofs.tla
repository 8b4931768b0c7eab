--------------------------- MODULE WeekLoopProofs ---------------------------
(***************************************************************************)
(* Proofs about WeekLoop, for any number of years, weeks and intervals and *)
(* any settings: a problem that was freed is never used, in economy no     *)
(* problem is taken again after a failed week or in another year, what is  *)
(* reported was computed in the week, and the list of failed weeks is      *)
(* right.                                                                  *)
(***************************************************************************)
EXTENDS WeekLoop, TLAPS

-----------------------------------------------------------------------------
(* The inductive invariant. *)

Trying == pc \in {"build", "solve", "retry"}

\* A week is begun in a year, and counted from 1.
InRange ==
    /\ pc # "year" => yr >= 1 /\ w >= 1
    /\ pc \notin {"year", "week"} => w <= NbWeeks

\* A freed problem is there between the two trials only, or when year returned.
FreedInTrial ==
    /\ pc = "retry" => freed \subseteq {itv}
    /\ pc \notin {"retry", "stopped"} => freed = {}

\* The weeks that failed are before this one, or this one once it has failed.
FailedBefore ==
    /\ pc \in {"week", "build", "solve", "retry", "post", "balance"} =>
          \A n \in DOMAIN failed : failed[n] < w
    /\ pc \in {"levels", "report", "endWeek"} =>
          \A n \in DOMAIN failed : failed[n] <= w

\* A problem that may be taken again.
Renewed(i) ==
    spx[i] # Never => /\ spx[i][1] = yr
                      /\ \A n \in DOMAIN failed : failed[n] < spx[i][2]

\* The intervals this week has optimised at least once.
Done(i) ==
    \/ call = 2
    \/ pc # "build" /\ (opt = 2 \/ i < itv)

\* Whatever was not built since the last failure will be built again.
Renewal ==
    Economy =>
        /\ pc \in {"week", "endWeek"} => reinitOptim \/ \A i \in Intervals : Renewed(i)
        /\ Trying => \A i \in Intervals : ~reinit \/ Done(i) => Renewed(i)
        /\ pc \in {"post", "report"} => \A i \in Intervals : Renewed(i)
        /\ pc \notin {"levels", "balance"}

\* What was optimised was computed in this week.
Computed ==
    /\ Trying => /\ simplexRunNeeded
                 /\ \A i \in Intervals : Done(i) => result[i] = Now /\ flow[i] = Now
    /\ pc = "balance" => ~simplexRunNeeded
    /\ pc = "post" => \A i \in Intervals : result[i] = Now /\ flow[i] = Now
    /\ pc \in {"levels", "report"} /\ (\A n \in DOMAIN failed : failed[n] # w) =>
          \A i \in Intervals : /\ result[i] = Now
                               /\ simplexRunNeeded => flow[i] = Now

IInv ==
    /\ TypeOK
    /\ InRange
    /\ FreedInTrial
    /\ FailedBefore
    /\ FailedWeeksListed
    /\ Renewal
    /\ Computed

-----------------------------------------------------------------------------
(* Types: the invariant in parts, by the provers that can do them. *)

PositionOK ==
    /\ conf \in Configs
    /\ pc \in {"year", "week", "build", "solve", "retry", "post", "balance", "levels",
               "report", "endWeek", "stopped", "threw"}
    /\ yr \in 0 .. NbYears
    /\ w \in 0 .. NbWeeks + 1
    /\ call \in 1 .. 2 /\ opt \in 1 .. 2 /\ itv \in Intervals
    /\ exports \in Nat

FlagsOK ==
    /\ reinitOptim \in BOOLEAN /\ reinit \in BOOLEAN
    /\ simplexRunNeeded \in BOOLEAN
    /\ firstWeek \in BOOLEAN

MemoryOK ==
    /\ spx \in [Intervals -> Stamp]
    /\ result \in [Intervals -> Stamp] /\ flow \in [Intervals -> Stamp]
    /\ niv \in Stamp /\ level \in Stamp /\ startLevel \in Stamp

ListsOK == failed \in Seq(1 .. NbWeeks) /\ reported \in Seq(1 .. NbWeeks)

SetsOK ==
    /\ freed \subseteq Intervals
    /\ triggered \subseteq Hours /\ sharing \subseteq Hours /\ adjusted \subseteq Hours

\* The parts make the type invariant.
LEMMA TypeParts == TypeOK <=> PositionOK /\ FlagsOK /\ MemoryOK /\ ListsOK /\ SetsOK
BY DEF TypeOK, PositionOK, FlagsOK, MemoryOK, ListsOK, SetsOK

\* A space that was just initialised.
LEMMA InitInv == Init => IInv
<1> SUFFICES ASSUME Init PROVE IInv
  OBVIOUS
<1> USE DEF Init, Never, Intervals
<1>1. TypeOK
  <2>1. PositionOK
    BY WeekLoopAssumption DEF PositionOK
  <2>2. FlagsOK
    BY Zenon DEF FlagsOK
  <2>3. MemoryOK
    BY WeekLoopAssumption DEF MemoryOK, Stamp
  <2>4. ListsOK /\ SetsOK
    BY DEF ListsOK, SetsOK
  <2> QED BY <2>1, <2>2, <2>3, <2>4, TypeParts
<1>2. InRange /\ FreedInTrial /\ FailedBefore /\ Renewal /\ Computed
  BY DEF InRange, FreedInTrial, FailedBefore, Renewal, Computed, Trying
<1>3. FailedWeeksListed
  BY DEF FailedWeeksListed
<1> QED BY <1>1, <1>2, <1>3 DEF IInv

\* A sequence of weeks with one more.
LEMMA AppendWeek ==
    ASSUME NEW s \in Seq(1 .. NbWeeks), NEW x \in 1 .. NbWeeks
    PROVE  /\ Append(s, x) \in Seq(1 .. NbWeeks)
           /\ DOMAIN Append(s, x) = DOMAIN s \cup {Len(s) + 1}
           /\ DOMAIN s = 1 .. Len(s) /\ Len(s) \in Nat
           /\ \A n \in DOMAIN s : Append(s, x)[n] = s[n]
           /\ Append(s, x)[Len(s) + 1] = x
OBVIOUS

\* What a sequence over a set holds.
LEMMA ElementOfList ==
    ASSUME NEW S, NEW s \in Seq(S), NEW n \in DOMAIN s
    PROVE  s[n] \in S
OBVIOUS

\* ... for the list of failed weeks.
LEMMA WeeksOfList ==
    ListsOK => \A n \in DOMAIN failed : failed[n] \in 1 .. NbWeeks
<1> SUFFICES ASSUME ListsOK, NEW n \in DOMAIN failed PROVE failed[n] \in 1 .. NbWeeks
  OBVIOUS
<1>1. failed \in Seq(1 .. NbWeeks)
  BY DEF ListsOK
<1> QED BY <1>1, ElementOfList

\* A week that fails comes after those that failed.
LEMMA FailingInOrder ==
    ASSUME ListsOK, w \in 1 .. NbWeeks, \A n \in DOMAIN failed : failed[n] < w,
           failed' = Append(failed, w)
    PROVE  /\ failed' # <<>>
           /\ \A n \in DOMAIN failed' : failed'[n] <= w
           /\ \E n \in DOMAIN failed' : failed'[n] = w
           /\ (\A a, b \in DOMAIN failed : a < b => failed[a] < failed[b])
                 => \A a, b \in DOMAIN failed' : a < b => failed'[a] < failed'[b]
<1> DEFINE last == Len(failed) + 1
<1>1. failed \in Seq(1 .. NbWeeks)
  BY DEF ListsOK
<1>2. /\ DOMAIN failed' = DOMAIN failed \cup {last}
      /\ DOMAIN failed = 1 .. Len(failed) /\ Len(failed) \in Nat
      /\ \A n \in DOMAIN failed : failed'[n] = failed[n]
      /\ failed'[last] = w
  BY <1>1, AppendWeek
<1>3. \A n \in DOMAIN failed : failed[n] \in Nat /\ n < last
  BY <1>2, WeeksOfList
<1>4. failed' # <<>>
  BY <1>2
<1>5. \A n \in DOMAIN failed' : failed'[n] <= w
  BY <1>2, <1>3
<1>6. ASSUME \A a, b \in DOMAIN failed : a < b => failed[a] < failed[b],
             NEW a \in DOMAIN failed', NEW b \in DOMAIN failed', a < b
      PROVE  failed'[a] < failed'[b]
  <2>1. a \in DOMAIN failed
    BY <1>2, <1>3, <1>6
  <2>2. CASE b \in DOMAIN failed
    BY <1>2, <1>6, <2>1, <2>2
  <2>3. CASE b = last
    BY <1>2, <2>1, <2>3
  <2> QED BY <1>2, <2>2, <2>3
<1> HIDE DEF last
<1> QED BY <1>2, <1>4, <1>5, <1>6

\* A trial goes on with the week or makes it fail.
LEMMA TrialCases ==
    ASSUME PositionOK, InRange, FirstTrial \/ SecondTrial
    PROVE  /\ w \in 1 .. NbWeeks
           /\ UNCHANGED <<conf, yr, w, reinit, simplexRunNeeded, reported>>
           /\ \/ /\ failed' = failed
                 /\ pc' \in {"solve", "build", "post", "retry"}
              \/ /\ failed' = Append(failed, w)
                 /\ pc' = "stopped" \/ ~conf.stop
                 /\ pc' \in {"stopped", "levels", "endWeek"}
<1>1. w \in 1 .. NbWeeks
  BY WeekLoopAssumption DEF FirstTrial, SecondTrial, PositionOK, InRange
<1>2. CASE FirstTrial
  BY <1>1, <1>2 DEF FirstTrial, Solved, Advance, CatchAssertion, output
<1>3. CASE SecondTrial
  BY <1>1, <1>3 DEF SecondTrial, Solved, Advance, CatchAssertion, CatchUnfeasible, output
<1> QED BY <1>2, <1>3

\* This week is a week.
LEMMA StampNow == PositionOK /\ InRange /\ pc \notin {"year", "week"} => Now \in Stamp
BY WeekLoopAssumption DEF PositionOK, InRange, Now, Stamp

\* The loops over years, weeks, calls, optimisations and intervals stay in their bounds.
LEMMA PositionStep == PositionOK /\ InRange /\ [Next]_vars => PositionOK' /\ InRange'
<1> SUFFICES ASSUME PositionOK, InRange, [Next]_vars PROVE PositionOK' /\ InRange'
  OBVIOUS
<1> USE WeekLoopAssumption DEF at, progress, problems, results, levels, output,
        structure, margins, PositionOK, InRange
<1>1. CASE StartYear
  BY <1>1 DEF StartYear
<1>2. CASE StartWeek
  BY <1>2 DEF StartWeek, MoreWeeks
<1>3. CASE BuildProblem
  BY <1>3 DEF BuildProblem, Intervals
<1>4. CASE FirstTrial
  BY <1>4 DEF FirstTrial, Solved, Advance, CatchAssertion, Intervals, Calls
<1>5. CASE SecondTrial
  BY <1>5 DEF SecondTrial, Solved, Advance, CatchAssertion, CatchUnfeasible, Intervals, Calls
<1>6. CASE SolverBreaks
  BY <1>6 DEF SolverBreaks
<1>7. CASE PostProcess
  BY <1>7 DEF PostProcess
<1>8. CASE RemixFails
  BY <1>8 DEF RemixFails
<1>9. CASE Balance
  BY <1>9 DEF Balance
<1>10. CASE UpdateLevel
  BY <1>10 DEF UpdateLevel
<1>11. CASE Report
  BY <1>11 DEF Report
<1>12. CASE EndWeek
  BY <1>12 DEF EndWeek
<1>13. CASE EndYear
  BY <1>13 DEF EndYear
<1>14. CASE UNCHANGED vars
  BY <1>14 DEF vars
<1> QED BY <1>1, <1>2, <1>3, <1>4, <1>5, <1>6, <1>7, <1>8, <1>9, <1>10, <1>11, <1>12,
            <1>13, <1>14 DEF Next

\* The flags stay Booleans.
LEMMA FlagsStep == FlagsOK /\ [Next]_vars => FlagsOK'
<1> SUFFICES ASSUME FlagsOK, [Next]_vars PROVE FlagsOK'
  OBVIOUS
<1> USE DEF at, progress, problems, results, levels, output, structure, margins, FlagsOK
<1>1. CASE StartYear
  BY <1>1, Zenon DEF StartYear
<1>2. CASE StartWeek
  BY <1>2, Zenon DEF StartWeek, NeedsSimplex
<1>3. CASE BuildProblem
  BY <1>3 DEF BuildProblem
<1>4. CASE FirstTrial
  BY <1>4 DEF FirstTrial, Solved, Advance, CatchAssertion
<1>5. CASE SecondTrial
  BY <1>5, Zenon DEF SecondTrial, Solved, Advance, CatchAssertion, CatchUnfeasible
<1>6. CASE SolverBreaks
  BY <1>6 DEF SolverBreaks
<1>7. CASE PostProcess
  BY <1>7 DEF PostProcess
<1>8. CASE RemixFails
  BY <1>8 DEF RemixFails
<1>9. CASE Balance
  BY <1>9 DEF Balance
<1>10. CASE UpdateLevel
  BY <1>10 DEF UpdateLevel
<1>11. CASE Report
  BY <1>11 DEF Report
<1>12. CASE EndWeek
  BY <1>12, Zenon DEF EndWeek
<1>13. CASE EndYear
  BY <1>13 DEF EndYear
<1>14. CASE UNCHANGED vars
  BY <1>14 DEF vars
<1> QED BY <1>1, <1>2, <1>3, <1>4, <1>5, <1>6, <1>7, <1>8, <1>9, <1>10, <1>11, <1>12,
            <1>13, <1>14 DEF Next

\* What is kept in the space comes from a year and a week.
LEMMA MemoryStep == PositionOK /\ InRange /\ MemoryOK /\ [Next]_vars => MemoryOK'
<1> SUFFICES ASSUME PositionOK, InRange, MemoryOK, [Next]_vars PROVE MemoryOK'
  OBVIOUS
<1> USE StampNow DEF at, progress, problems, results, levels, output, structure,
        margins, MemoryOK
<1>1. CASE StartYear
  BY <1>1, WeekLoopAssumption, SMTT(30) DEF StartYear, PositionOK, Stamp
<1>2. CASE StartWeek
  BY <1>2 DEF StartWeek
<1>3. CASE BuildProblem
  BY <1>3 DEF BuildProblem
<1>4. CASE FirstTrial
  <2>1. Now \in Stamp /\ Never \in Stamp /\ itv \in Intervals
    BY <1>4, WeekLoopAssumption DEF FirstTrial, PositionOK, Never, Stamp
  <2>2. spx' \in [Intervals -> Stamp]
    BY <1>4, <2>1 DEF FirstTrial
  <2>3. result' \in [Intervals -> Stamp] /\ flow' \in [Intervals -> Stamp]
    <3>1. CASE Solved
      BY <2>1, <3>1 DEF Solved
    <3>2. CASE UNCHANGED results
      BY <3>2
    <3> QED BY <1>4, <3>1, <3>2 DEF FirstTrial, CatchAssertion
  <2>4. niv' \in Stamp /\ level' \in Stamp /\ startLevel' \in Stamp
    BY <1>4 DEF FirstTrial
  <2> QED BY <2>2, <2>3, <2>4
<1>5. CASE SecondTrial
  <2>1. Now \in Stamp /\ itv \in Intervals
    BY <1>5 DEF SecondTrial, PositionOK
  <2>2. spx' \in [Intervals -> Stamp]
    BY <1>5, <2>1 DEF SecondTrial
  <2>3. result' \in [Intervals -> Stamp] /\ flow' \in [Intervals -> Stamp]
    <3>1. CASE Solved
      BY <2>1, <3>1 DEF Solved
    <3>2. CASE UNCHANGED results
      BY <3>2
    <3> QED BY <1>5, <3>1, <3>2 DEF SecondTrial, CatchAssertion, CatchUnfeasible
  <2>4. niv' \in Stamp /\ level' \in Stamp /\ startLevel' \in Stamp
    BY <1>5 DEF SecondTrial
  <2> QED BY <2>2, <2>3, <2>4
<1>6. CASE SolverBreaks
  BY <1>6 DEF SolverBreaks
<1>7. CASE PostProcess
  BY <1>7 DEF PostProcess
<1>8. CASE RemixFails
  BY <1>8 DEF RemixFails
<1>9. CASE Balance
  BY <1>9 DEF Balance
<1>10. CASE UpdateLevel
  BY <1>10 DEF UpdateLevel
<1>11. CASE Report
  BY <1>11 DEF Report
<1>12. CASE EndWeek
  BY <1>12 DEF EndWeek
<1>13. CASE EndYear
  BY <1>13 DEF EndYear
<1>14. CASE UNCHANGED vars
  BY <1>14 DEF vars
<1> QED BY <1>1, <1>2, <1>3, <1>4, <1>5, <1>6, <1>7, <1>8, <1>9, <1>10, <1>11, <1>12,
            <1>13, <1>14 DEF Next

\* Both lists hold weeks.
LEMMA ListsStep == PositionOK /\ InRange /\ ListsOK /\ [Next]_vars => ListsOK'
<1> SUFFICES ASSUME PositionOK, InRange, ListsOK, [Next]_vars PROVE ListsOK'
  OBVIOUS
<1> USE DEF at, progress, problems, results, levels, output, structure, margins, ListsOK
<1>1. CASE StartYear
  BY <1>1 DEF StartYear
<1>2. CASE StartWeek
  BY <1>2 DEF StartWeek
<1>3. CASE BuildProblem
  BY <1>3 DEF BuildProblem
<1>4. CASE FirstTrial
  BY <1>4, TrialCases, AppendWeek, ZenonT(60)
<1>5. CASE SecondTrial
  BY <1>5, TrialCases, AppendWeek, ZenonT(60)
<1>6. CASE SolverBreaks
  BY <1>6 DEF SolverBreaks
<1>7. CASE PostProcess
  BY <1>7 DEF PostProcess
<1>8. CASE RemixFails
  BY <1>8 DEF RemixFails
<1>9. CASE Balance
  BY <1>9 DEF Balance
<1>10. CASE UpdateLevel
  BY <1>10 DEF UpdateLevel
<1>11. CASE Report
  BY <1>11, WeekLoopAssumption DEF Report, PositionOK, InRange
<1>12. CASE EndWeek
  BY <1>12 DEF EndWeek
<1>13. CASE EndYear
  BY <1>13 DEF EndYear
<1>14. CASE UNCHANGED vars
  BY <1>14 DEF vars
<1> QED BY <1>1, <1>2, <1>3, <1>4, <1>5, <1>6, <1>7, <1>8, <1>9, <1>10, <1>11, <1>12,
            <1>13, <1>14 DEF Next

\* The sets of intervals and of hours stay such sets.
LEMMA SetsStep == PositionOK /\ SetsOK /\ [Next]_vars => SetsOK'
<1> SUFFICES ASSUME PositionOK, SetsOK, [Next]_vars PROVE SetsOK'
  OBVIOUS
<1> USE DEF at, progress, problems, results, levels, output, structure, margins, SetsOK
<1>1. CASE StartYear
  BY <1>1 DEF StartYear
<1>2. CASE StartWeek
  BY <1>2 DEF StartWeek
<1>3. CASE BuildProblem
  BY <1>3 DEF BuildProblem
<1>4. CASE FirstTrial
  BY <1>4 DEF FirstTrial, Solved, Advance, CatchAssertion, PositionOK
<1>5. CASE SecondTrial
  BY <1>5 DEF SecondTrial, Solved, Advance, CatchAssertion, CatchUnfeasible, PositionOK
<1>6. CASE SolverBreaks
  BY <1>6 DEF SolverBreaks
<1>7. CASE PostProcess
  BY <1>7 DEF PostProcess, ShareCurtailment
<1>8. CASE RemixFails
  BY <1>8 DEF RemixFails, ShareCurtailment
<1>9. CASE Balance
  BY <1>9 DEF Balance
<1>10. CASE UpdateLevel
  BY <1>10 DEF UpdateLevel
<1>11. CASE Report
  BY <1>11 DEF Report
<1>12. CASE EndWeek
  BY <1>12 DEF EndWeek
<1>13. CASE EndYear
  BY <1>13 DEF EndYear
<1>14. CASE UNCHANGED vars
  BY <1>14 DEF vars
<1> QED BY <1>1, <1>2, <1>3, <1>4, <1>5, <1>6, <1>7, <1>8, <1>9, <1>10, <1>11, <1>12,
            <1>13, <1>14 DEF Next

\* The type invariant is inductive.
LEMMA TypeStep == TypeOK /\ InRange /\ [Next]_vars => TypeOK' /\ InRange'
<1>1. PositionOK' /\ FlagsOK' /\ MemoryOK' /\ ListsOK' /\ SetsOK' => TypeOK'
  BY DEF TypeOK, PositionOK, FlagsOK, MemoryOK, ListsOK, SetsOK
<1> QED BY <1>1, TypeParts, PositionStep, FlagsStep, MemoryStep, ListsStep, SetsStep

-----------------------------------------------------------------------------
(* The parts of the invariant. *)

\* A freed problem is replaced by the second trial, or year returns.
LEMMA FreedStep == FreedInTrial /\ [Next]_vars => FreedInTrial'
<1> SUFFICES ASSUME FreedInTrial, [Next]_vars PROVE FreedInTrial'
  OBVIOUS
<1> USE DEF at, progress, problems, results, levels, output, structure, margins,
        FreedInTrial
<1>1. CASE StartYear
  BY <1>1 DEF StartYear
<1>2. CASE StartWeek
  BY <1>2 DEF StartWeek
<1>3. CASE BuildProblem
  BY <1>3 DEF BuildProblem
<1>4. CASE FirstTrial
  BY <1>4 DEF FirstTrial, Solved, Advance, CatchAssertion
<1>5. CASE SecondTrial
  BY <1>5 DEF SecondTrial, Solved, Advance, CatchAssertion, CatchUnfeasible
<1>6. CASE SolverBreaks
  BY <1>6 DEF SolverBreaks
<1>7. CASE PostProcess
  BY <1>7 DEF PostProcess
<1>8. CASE RemixFails
  BY <1>8 DEF RemixFails
<1>9. CASE Balance
  BY <1>9 DEF Balance
<1>10. CASE UpdateLevel
  BY <1>10 DEF UpdateLevel
<1>11. CASE Report
  BY <1>11 DEF Report
<1>12. CASE EndWeek
  BY <1>12 DEF EndWeek
<1>13. CASE EndYear
  BY <1>13 DEF EndYear
<1>14. CASE UNCHANGED vars
  BY <1>14 DEF vars
<1> QED BY <1>1, <1>2, <1>3, <1>4, <1>5, <1>6, <1>7, <1>8, <1>9, <1>10, <1>11, <1>12,
            <1>13, <1>14 DEF Next

\* No week is listed before its time.
LEMMA FailedStep ==
    PositionOK /\ ListsOK /\ InRange /\ FailedBefore /\ [Next]_vars => FailedBefore'
<1> SUFFICES ASSUME PositionOK, ListsOK, InRange, FailedBefore, [Next]_vars
             PROVE  FailedBefore'
  OBVIOUS
<1> USE DEF at, progress, problems, results, levels, output, structure, margins,
        FailedBefore, PositionOK, InRange
<1>1. CASE StartYear
  BY <1>1 DEF StartYear
<1>2. CASE StartWeek
  BY <1>2 DEF StartWeek
<1>3. CASE BuildProblem
  BY <1>3 DEF BuildProblem
<1>4. CASE FirstTrial
  <2>1. \A n \in DOMAIN failed : failed[n] < w
    BY <1>4 DEF FirstTrial
  <2>2. CASE failed' = failed /\ pc' \in {"solve", "build", "post", "retry"}
    BY <1>4, <2>1, <2>2, TrialCases
  <2>3. CASE failed' = Append(failed, w) /\ pc' \in {"stopped", "levels", "endWeek"}
    BY <1>4, <2>1, <2>3, TrialCases, FailingInOrder
  <2> QED BY <1>4, <2>2, <2>3, TrialCases
<1>5. CASE SecondTrial
  <2>1. \A n \in DOMAIN failed : failed[n] < w
    BY <1>5 DEF SecondTrial
  <2>2. CASE failed' = failed /\ pc' \in {"solve", "build", "post", "retry"}
    BY <1>5, <2>1, <2>2, TrialCases
  <2>3. CASE failed' = Append(failed, w) /\ pc' \in {"stopped", "levels", "endWeek"}
    BY <1>5, <2>1, <2>3, TrialCases, FailingInOrder
  <2> QED BY <1>5, <2>2, <2>3, TrialCases
<1>6. CASE SolverBreaks
  BY <1>6 DEF SolverBreaks
<1>7. CASE PostProcess
  BY <1>7, WeeksOfList DEF PostProcess
<1>8. CASE RemixFails
  BY <1>8 DEF RemixFails
<1>9. CASE Balance
  BY <1>9, WeeksOfList DEF Balance
<1>10. CASE UpdateLevel
  BY <1>10 DEF UpdateLevel
<1>11. CASE Report
  BY <1>11 DEF Report
<1>12. CASE EndWeek
  BY <1>12, WeeksOfList DEF EndWeek
<1>13. CASE EndYear
  BY <1>13 DEF EndYear
<1>14. CASE UNCHANGED vars
  BY <1>14 DEF vars
<1> QED BY <1>1, <1>2, <1>3, <1>4, <1>5, <1>6, <1>7, <1>8, <1>9, <1>10, <1>11, <1>12,
            <1>13, <1>14 DEF Next

\* The list is in order, and a failure stops the year when it must.
LEMMA ListedStep ==
    PositionOK /\ InRange /\ ListsOK /\ FailedBefore /\ FailedWeeksListed /\
    [Next]_vars => FailedWeeksListed'
<1> SUFFICES ASSUME PositionOK, InRange, ListsOK, FailedBefore, FailedWeeksListed,
                    [Next]_vars
             PROVE  FailedWeeksListed'
  OBVIOUS
<1> USE DEF at, progress, problems, results, levels, output, structure, margins,
        FailedBefore, FailedWeeksListed, HasFailed, ToSet
<1>1. CASE StartYear
  BY <1>1 DEF StartYear
<1>2. CASE StartWeek
  BY <1>2 DEF StartWeek
<1>3. CASE BuildProblem
  BY <1>3 DEF BuildProblem
<1>4. CASE FirstTrial
  <2>1. pc # "stopped" /\ \A n \in DOMAIN failed : failed[n] < w
    BY <1>4 DEF FirstTrial
  <2>2. CASE failed' = failed /\ pc' \in {"solve", "build", "post", "retry"}
    BY <1>4, <2>1, <2>2, TrialCases
  <2>3. CASE /\ failed' = Append(failed, w)
             /\ pc' = "stopped" \/ ~conf.stop
    BY <1>4, <2>1, <2>3, TrialCases, FailingInOrder
  <2> QED BY <1>4, <2>2, <2>3, TrialCases
<1>5. CASE SecondTrial
  <2>1. pc # "stopped" /\ \A n \in DOMAIN failed : failed[n] < w
    BY <1>5 DEF SecondTrial
  <2>2. CASE failed' = failed /\ pc' \in {"solve", "build", "post", "retry"}
    BY <1>5, <2>1, <2>2, TrialCases
  <2>3. CASE /\ failed' = Append(failed, w)
             /\ pc' = "stopped" \/ ~conf.stop
    BY <1>5, <2>1, <2>3, TrialCases, FailingInOrder
  <2> QED BY <1>5, <2>2, <2>3, TrialCases
<1>6. CASE SolverBreaks
  BY <1>6 DEF SolverBreaks
<1>7. CASE PostProcess
  BY <1>7 DEF PostProcess
<1>8. CASE RemixFails
  BY <1>8 DEF RemixFails
<1>9. CASE Balance
  BY <1>9 DEF Balance
<1>10. CASE UpdateLevel
  BY <1>10 DEF UpdateLevel
<1>11. CASE Report
  BY <1>11 DEF Report
<1>12. CASE EndWeek
  BY <1>12 DEF EndWeek
<1>13. CASE EndYear
  BY <1>13 DEF EndYear
<1>14. CASE UNCHANGED vars
  BY <1>14 DEF vars
<1> QED BY <1>1, <1>2, <1>3, <1>4, <1>5, <1>6, <1>7, <1>8, <1>9, <1>10, <1>11, <1>12,
            <1>13, <1>14 DEF Next

\* What counts as done after an interval is solved was, or is this interval.
LEMMA DoneBySolving ==
    ASSUME PositionOK, pc \in {"solve", "retry"}, Solved, NEW i \in Intervals,
           Done(i)' \/ pc' = "post"
    PROVE  Done(i) \/ i = itv
BY WeekLoopAssumption DEF PositionOK, Solved, Advance, Done, Calls, Intervals

\* A solved interval leaves the lists and the flag of reinitialisation alone.
LEMMA SolvedLeaves ==
    ASSUME Solved
    PROVE  /\ pc' \in {"solve", "build", "post"}
           /\ UNCHANGED <<failed, reported, reinitOptim>>
BY DEF Solved, Advance, output

\* A problem that is not touched may still be taken again.
LEMMA RenewedKept ==
    ASSUME NEW i \in Intervals, Renewed(i), UNCHANGED <<yr, failed>>, spx'[i] = spx[i]
    PROVE  Renewed(i)'
BY DEF Renewed

\* A problem built in this week may be taken again.
LEMMA RenewedNow ==
    ASSUME NEW i \in Intervals, \A n \in DOMAIN failed : failed[n] < w,
           UNCHANGED <<yr, failed>>, spx'[i] = Now
    PROVE  Renewed(i)'
BY DEF Renewed, Now, Never

\* Whatever fails, old problems are built again.
LEMMA RenewalStep ==
    PositionOK /\ MemoryOK /\ FailedBefore /\ Renewal /\ [Next]_vars => Renewal'
<1> SUFFICES ASSUME PositionOK, MemoryOK, FailedBefore, Renewal, [Next]_vars
             PROVE  Renewal'
  OBVIOUS
<1> USE DEF at, progress, problems, results, levels, output, structure, margins,
        Renewal, Economy, Trying
<1>1. CASE StartYear
  BY <1>1 DEF StartYear, Renewed
<1>2. CASE StartWeek
  <2>1. /\ pc = "week" /\ call' = 1 /\ reinit' = reinitOptim
        /\ UNCHANGED <<conf, yr, w, spx, failed>>
    BY <1>2 DEF StartWeek
  <2>2. Economy => pc' = "build"
    BY <1>2 DEF StartWeek, NeedsSimplex
  <2>3. ASSUME Economy, pc' = "build", NEW i \in Intervals, ~reinit' \/ Done(i)'
        PROVE  Renewed(i)'
    BY <2>1, <2>3 DEF Renewed, Done
  <2> QED BY <2>1, <2>2, <2>3
<1>3. CASE BuildProblem
  <2>1. ASSUME NEW i \in Intervals, Done(i)' PROVE Done(i)
    BY <1>3, <2>1 DEF BuildProblem, Done, Intervals
  <2>2. ASSUME NEW i \in Intervals, Renewed(i) PROVE Renewed(i)'
    BY <1>3, <2>2 DEF BuildProblem, Renewed
  <2>3. pc = "build" /\ pc' = "solve" /\ UNCHANGED <<conf, reinit>>
    BY <1>3 DEF BuildProblem
  <2> QED BY <2>1, <2>2, <2>3
<1>4. CASE FirstTrial
  <2>1. /\ pc = "solve" /\ UNCHANGED <<conf, yr, w, reinit>>
        /\ \A n \in DOMAIN failed : failed[n] < w
        /\ itv \in Intervals
    BY <1>4 DEF FirstTrial, FailedBefore, PositionOK
  <2>2. CASE pc' = "stopped"
    BY <2>2
  <2>3. CASE pc' # "stopped"
    <3>1. /\ spx' = [spx EXCEPT ![itv] = IF Reuses THEN @ ELSE Now]
          /\ \/ Solved
             \/ pc' = "retry" /\ UNCHANGED <<call, opt, itv, failed, reinitOptim>>
      BY <1>4, <2>3, Zenon DEF FirstTrial, CatchAssertion
    <3>2. /\ UNCHANGED <<failed, reinitOptim>>
          /\ pc' \in {"solve", "build", "post", "retry"}
      BY <3>1, SolvedLeaves
    <3>3. /\ \A i \in Intervals \ {itv} : spx'[i] = spx[i]
          /\ spx'[itv] = Now \/ (spx'[itv] = spx[itv] /\ ~reinit)
      <4>1. Reuses => ~reinit
        BY Zenon DEF Reuses
      <4>2. \A i \in Intervals : spx'[i] = IF i = itv THEN IF Reuses THEN spx[i] ELSE
            Now
                                              ELSE spx[i]
        BY <2>1, <3>1 DEF MemoryOK
      <4>3. CASE Reuses
        BY <2>1, <4>1, <4>2, <4>3
      <4>4. CASE ~Reuses
        BY <2>1, <4>2, <4>4
      <4> QED BY <4>3, <4>4
    <3>4. ASSUME NEW i \in Intervals, Economy, ~reinit \/ Done(i)' \/ pc' = "post"
          PROVE  Renewed(i)'
      <4>1. ~reinit \/ Done(i) \/ i = itv
        BY <2>1, <3>1, <3>4, DoneBySolving DEF Done
      <4>2. CASE i # itv
        BY <2>1, <3>2, <3>3, <3>4, <4>1, <4>2, RenewedKept
      <4>3. CASE i = itv
        BY <2>1, <3>2, <3>3, <3>4, <4>3, RenewedKept, RenewedNow
      <4> QED BY <4>2, <4>3
    <3> QED BY <2>1, <3>2, <3>4
  <2> QED BY <2>2, <2>3
<1>5. CASE SecondTrial
  <2>1. /\ pc = "retry" /\ UNCHANGED <<conf, yr, w, reinit>>
        /\ \A n \in DOMAIN failed : failed[n] < w
        /\ itv \in Intervals
    BY <1>5 DEF SecondTrial, FailedBefore, PositionOK
  <2>2. CASE CatchAssertion \/ CatchUnfeasible
    BY <2>1, <2>2 DEF CatchAssertion, CatchUnfeasible
  <2>3. CASE Solved
    <3>1. spx' = [spx EXCEPT ![itv] = Now]
      BY <1>5, <2>1, <2>3 DEF SecondTrial, Solved, Advance, CatchAssertion
    <3>2. UNCHANGED <<failed, reinitOptim>> /\ pc' \in {"solve", "build", "post"}
      BY <2>3, SolvedLeaves
    <3>3. (\A i \in Intervals \ {itv} : spx'[i] = spx[i]) /\ spx'[itv] = Now
      BY <2>1, <3>1 DEF MemoryOK
    <3>4. ASSUME NEW i \in Intervals, Economy, ~reinit \/ Done(i)' \/ pc' = "post"
          PROVE  Renewed(i)'
      <4>1. ~reinit \/ Done(i) \/ i = itv
        BY <2>1, <2>3, <3>4, DoneBySolving
      <4>2. CASE i # itv
        BY <2>1, <3>2, <3>3, <3>4, <4>1, <4>2, RenewedKept
      <4>3. CASE i = itv
        BY <2>1, <3>2, <3>3, <4>3, RenewedNow
      <4> QED BY <4>2, <4>3
    <3> QED BY <2>1, <3>2, <3>4
  <2> QED BY <1>5, <2>2, <2>3 DEF SecondTrial
<1>6. CASE SolverBreaks
  BY <1>6 DEF SolverBreaks
<1>7. CASE PostProcess
  BY <1>7 DEF PostProcess, Renewed
<1>8. CASE RemixFails
  BY <1>8 DEF RemixFails
<1>9. CASE Balance
  BY <1>9 DEF Balance
<1>10. CASE UpdateLevel
  BY <1>10 DEF UpdateLevel
<1>11. CASE Report
  BY <1>11 DEF Report, Renewed
<1>12. CASE EndWeek
  BY <1>12 DEF EndWeek, Renewed
<1>13. CASE EndYear
  BY <1>13 DEF EndYear, Renewed
<1>14. CASE UNCHANGED vars
  BY <1>14 DEF vars, Renewed, Done
<1> QED BY <1>1, <1>2, <1>3, <1>4, <1>5, <1>6, <1>7, <1>8, <1>9, <1>10, <1>11, <1>12,
            <1>13, <1>14 DEF Next

\* Whatever fails, old results are not taken for those of the week.
LEMMA ComputedStep ==
    PositionOK /\ InRange /\ FlagsOK /\ MemoryOK /\ ListsOK /\ FailedBefore /\
    Computed /\ [Next]_vars => Computed'
<1> SUFFICES ASSUME PositionOK, InRange, FlagsOK, MemoryOK, ListsOK, FailedBefore,
                    Computed, [Next]_vars
             PROVE  Computed'
  OBVIOUS
<1> USE DEF at, progress, problems, results, levels, output, structure, margins,
        Computed, Trying
<1>1. CASE StartYear
  BY <1>1 DEF StartYear
<1>2. CASE StartWeek
  BY <1>2 DEF StartWeek, Done
<1>3. CASE BuildProblem
  BY <1>3 DEF BuildProblem, Done, Intervals, Now
<1>4. CASE FirstTrial
  <2>1. /\ pc \in {"solve", "retry"} /\ UNCHANGED <<yr, w, simplexRunNeeded>>
        /\ \A n \in DOMAIN failed : failed[n] < w
        /\ w \in 1 .. NbWeeks /\ itv \in Intervals
    BY <1>4, TrialCases DEF FirstTrial, FailedBefore, PositionOK
  <2>2. CASE Solved
    <3>1. /\ result' = [result EXCEPT ![itv] = Now] /\ flow' = [flow EXCEPT ![itv] =
            Now]
          /\ pc' \in {"solve", "build", "post"}
      BY <2>2, SolvedLeaves DEF Solved, Advance
    <3>2. ASSUME NEW i \in Intervals, Done(i)' \/ pc' = "post"
          PROVE  result'[i] = Now /\ flow'[i] = Now
      <4>1. Done(i) \/ i = itv
        BY <2>1, <2>2, <3>2, DoneBySolving
      <4> QED BY <2>1, <3>1, <4>1 DEF MemoryOK
    <3> QED BY <2>1, <3>1, <3>2 DEF Now
  <2>3. CASE pc' = "retry" /\ UNCHANGED <<progress, results>>
    BY <1>4, <2>1, <2>3 DEF FirstTrial, Done, Now
  <2>4. CASE CatchAssertion
    BY <2>1, <2>4 DEF CatchAssertion
  <2> QED BY <1>4, <2>2, <2>3, <2>4 DEF FirstTrial
<1>5. CASE SecondTrial
  <2>1. /\ pc \in {"solve", "retry"} /\ UNCHANGED <<yr, w, simplexRunNeeded>>
        /\ \A n \in DOMAIN failed : failed[n] < w
        /\ w \in 1 .. NbWeeks /\ itv \in Intervals
    BY <1>5, TrialCases DEF SecondTrial, FailedBefore, PositionOK
  <2>2. CASE Solved
    <3>1. /\ result' = [result EXCEPT ![itv] = Now] /\ flow' = [flow EXCEPT ![itv] =
            Now]
          /\ pc' \in {"solve", "build", "post"}
      BY <2>2, SolvedLeaves DEF Solved, Advance
    <3>2. ASSUME NEW i \in Intervals, Done(i)' \/ pc' = "post"
          PROVE  result'[i] = Now /\ flow'[i] = Now
      <4>1. Done(i) \/ i = itv
        BY <2>1, <2>2, <3>2, DoneBySolving
      <4> QED BY <2>1, <3>1, <4>1 DEF MemoryOK
    <3> QED BY <2>1, <3>1, <3>2 DEF Now
  <2>3. CASE CatchAssertion \/ CatchUnfeasible
    <3>1. failed' = Append(failed, w) /\ pc' \in {"stopped", "levels", "endWeek"}
      BY <2>3 DEF CatchAssertion, CatchUnfeasible
    <3>2. \E n \in DOMAIN failed' : failed'[n] = w'
      BY <2>1, <3>1, FailingInOrder
    <3> QED BY <3>1, <3>2
  <2> QED BY <1>5, <2>2, <2>3 DEF SecondTrial
<1>6. CASE SolverBreaks
  BY <1>6 DEF SolverBreaks
<1>7. CASE PostProcess
  BY <1>7 DEF PostProcess, Now
<1>8. CASE RemixFails
  BY <1>8 DEF RemixFails
<1>9. CASE Balance
  BY <1>9 DEF Balance, Now
<1>10. CASE UpdateLevel
  BY <1>10 DEF UpdateLevel, Now
<1>11. CASE Report
  BY <1>11 DEF Report, Now
<1>12. CASE EndWeek
  BY <1>12 DEF EndWeek
<1>13. CASE EndYear
  BY <1>13 DEF EndYear
<1>14. CASE UNCHANGED vars
  BY <1>14 DEF vars, Done, Now
<1> QED BY <1>1, <1>2, <1>3, <1>4, <1>5, <1>6, <1>7, <1>8, <1>9, <1>10, <1>11, <1>12,
            <1>13, <1>14 DEF Next

-----------------------------------------------------------------------------
(* The theorems. *)

\* The inductive invariant.
THEOREM Invariance == Spec => []IInv
<1>1. Init => IInv
  BY InitInv
<1>2. IInv /\ [Next]_vars => IInv'
  <2> SUFFICES ASSUME IInv, [Next]_vars PROVE IInv'
    OBVIOUS
  <2>1. PositionOK /\ FlagsOK /\ MemoryOK /\ ListsOK /\ SetsOK /\ InRange
    BY TypeParts DEF IInv
  <2>2. TypeOK' /\ InRange'
    BY TypeStep DEF IInv
  <2>3. FreedInTrial' /\ FailedBefore' /\ FailedWeeksListed'
    BY <2>1, FreedStep, FailedStep, ListedStep DEF IInv
  <2>4. Renewal' /\ Computed'
    BY <2>1, RenewalStep, ComputedStep DEF IInv
  <2> QED BY <2>2, <2>3, <2>4 DEF IInv
<1> QED BY <1>1, <1>2, PTL DEF Spec

\* Every variable of the weekly loop keeps its type.
THEOREM TypeCorrect == Spec => []TypeOK
<1>1. IInv => TypeOK
  BY DEF IInv
<1> QED BY <1>1, Invariance, PTL

\* OPT_TryToCallSimplex never uses nor frees a problem that was freed, whatever
\* trials, weeks and years failed before.
THEOREM FreedIsNeverUsed == Spec => []NoFreedProblem
<1>1. IInv => NoFreedProblem
  BY DEF IInv, FreedInTrial, NoFreedProblem
<1> QED BY <1>1, Invariance, PTL

\* In economy, ReinitOptimisation makes every interval build its problem again
\* after a failed week and in another year.
THEOREM FailureRenewsProblems == Spec => []ProblemsAreRenewed
<1>1. IInv => ProblemsAreRenewed
  <2> SUFFICES ASSUME IInv, Economy, pc = "solve", Reuses
               PROVE  spx[itv][1] = yr /\ \A k \in ToSet(failed) : k < spx[itv][2]
    BY DEF ProblemsAreRenewed
  <2>1. spx[itv] # Never /\ ~reinit
    BY Zenon DEF Reuses
  <2>2. itv \in Intervals
    BY DEF IInv, TypeOK
  <2>3. Renewed(itv)
    BY <2>1, <2>2 DEF IInv, Renewal, Trying
  <2> QED BY <2>1, <2>3 DEF Renewed, ToSet
<1> QED BY <1>1, Invariance, PTL

\* The results given to the output variables were computed in the week.
THEOREM ReportsAreFresh == Spec => []ReportsItsOwnWeek
<1>1. IInv => ReportsItsOwnWeek
  BY DEF IInv, Computed, ReportsItsOwnWeek, HasFailed, ToSet
<1> QED BY <1>1, Invariance, PTL

\* Both handlers of year list the week, in order, and stop when they must.
THEOREM FailuresAreListed == Spec => []FailedWeeksListed
<1>1. IInv => FailedWeeksListed
  BY DEF IInv
<1> QED BY <1>1, Invariance, PTL

-----------------------------------------------------------------------------
(* The levels, the reports and the structure: what the list of failed weeks *)
(* tells of the weeks before this one.                                      *)

\* The week k is the last one solved among the first n of the year.
IsLastSolved(k, n) ==
    /\ k \in 0 .. n
    /\ ~HasFailed(k)
    /\ \A j \in k + 1 .. n : HasFailed(j)

LevelAfter(x, n) == \E k \in 0 .. n : IsLastSolved(k, n) /\ x = <<yr, k>>

\* The level of the space is the one reached in the last week solved; in adequacy
\* it is read from niveauxHoraires, which a failed week leaves as they were.
Chained ==
    Economy \/ ~HasFailed(1) =>
        /\ pc = "week" => /\ LevelAfter(level, w - 1)
                          /\ ~Economy /\ w > 1 => niv = level
        /\ InWeek => /\ LevelAfter(startLevel, w - 1)
                     /\ Economy => level = startLevel
                     /\ ~Economy /\ w > 1 => niv = startLevel
        /\ pc = "levels" => ~Economy /\ LevelAfter(niv, w)
        /\ pc \in {"report", "endWeek"} => /\ LevelAfter(level, w)
                                           /\ ~Economy => niv = level

\* The weeks reported so far: those of the first n that had a result.
ReportedOf(n) == ToSet(reported) = {k \in 1 .. n : ~(Economy /\ HasFailed(k))}

Accounted ==
    /\ \A a, b \in DOMAIN reported : a < b => reported[a] < reported[b]
    /\ pc = "week" \/ InWeek \/ pc \in {"levels", "report"} => ReportedOf(w - 1)
    /\ pc = "endWeek" => ReportedOf(w)
    /\ Economy /\ pc = "report" => ~HasFailed(w)

\* The structure is exported at each call in the first week and not after it.
Exported ==
    /\ call <= Calls
    /\ ~conf.first => ~firstWeek /\ exports = 0
    /\ yr = 0 => w = 0 /\ ~firstWeek /\ exports = 0
    /\ conf.first /\ yr > 0 /\ ~firstWeek => exports \in 1 .. Calls
    /\ pc = "year" /\ yr > 0 => w > NbWeeks
    /\ firstWeek =>
          /\ w <= 1 /\ (NbWeeks > 0 => yr = 1)
          /\ pc \in {"year", "week"} => exports = 0
          /\ pc = "build" => exports = call - 1
          /\ pc \in {"solve", "retry"} => exports = call
          /\ pc # "balance"
          /\ pc \notin {"year", "week", "build"} => exports \in 1 .. Calls

\* How the list of failed weeks grows.
LEMMA OneMoreFailed ==
    ASSUME ListsOK, w \in 1 .. NbWeeks, failed' = Append(failed, w)
    PROVE  \A k : HasFailed(k)' <=> HasFailed(k) \/ k = w
<1>1. failed \in Seq(1 .. NbWeeks)
  BY DEF ListsOK
<1>2. /\ DOMAIN failed' = DOMAIN failed \cup {Len(failed) + 1}
      /\ \A n \in DOMAIN failed : failed'[n] = failed[n]
      /\ failed'[Len(failed) + 1] = w
      /\ Len(failed) + 1 \notin DOMAIN failed
  BY <1>1, AppendWeek
<1> QED BY <1>2 DEF HasFailed, ToSet

LEMMA FailedWeeks ==
    ASSUME ListsOK, FailedBefore
    PROVE  /\ \A k : HasFailed(k) => k \in 1 .. NbWeeks
           /\ pc = "week" \/ InWeek => \A k : HasFailed(k) => k < w
           /\ pc \in {"levels", "report", "endWeek"} => \A k : HasFailed(k) => k <= w
BY WeeksOfList DEF FailedBefore, HasFailed, ToSet, InWeek

\* A trial leaves the week where it is, or makes it fail in the way of its mode.
LEMMA TrialLeaves ==
    ASSUME PositionOK, InRange, FirstTrial \/ SecondTrial
    PROVE  /\ w \in 1 .. NbWeeks /\ pc \in {"solve", "retry"}
           /\ UNCHANGED <<conf, yr, w, reported, niv, level, startLevel, firstWeek, exports>>
           /\ \/ /\ failed' = failed
                 /\ pc' \in {"solve", "build", "post", "retry"}
              \/ /\ failed' = Append(failed, w)
                 /\ pc' = "stopped" \/ pc' = IF Economy THEN "endWeek" ELSE "levels"
<1>1. /\ w \in 1 .. NbWeeks /\ pc \in {"solve", "retry"}
      /\ UNCHANGED <<conf, yr, w, reported>>
  BY TrialCases DEF FirstTrial, SecondTrial
<1>2. UNCHANGED <<niv, level, startLevel, firstWeek, exports>>
  BY DEF FirstTrial, SecondTrial, levels, structure
<1>3. CASE FirstTrial
  BY <1>1, <1>2, <1>3 DEF FirstTrial, Solved, Advance, CatchAssertion, output
<1>4. CASE SecondTrial
  BY <1>1, <1>2, <1>4 DEF SecondTrial, Solved, Advance, CatchAssertion, CatchUnfeasible, output
<1> QED BY <1>3, <1>4

\* There is one last week solved, and LastSolved is it.
LEMMA LastSolvedIs ==
    ASSUME PositionOK, InRange, pc # "year", LevelAfter(startLevel, w - 1)
    PROVE  startLevel = <<yr, LastSolved>>
<1>1. PICK k \in 0 .. w - 1 : IsLastSolved(k, w - 1) /\ startLevel = <<yr, k>>
  BY DEF LevelAfter
<1>2. w - 1 \in Nat
  BY WeekLoopAssumption DEF PositionOK, InRange
<1>3. ASSUME NEW j \in 0 .. w - 1, IsLastSolved(j, w - 1)
      PROVE  j = k
  BY <1>1, <1>2, <1>3 DEF IsLastSolved
<1>4. \A j \in 0 .. w - 1 : IsLastSolved(j, w - 1) <=>
          ~HasFailed(j) /\ \A i \in j + 1 .. w - 1 : HasFailed(i)
  BY DEF IsLastSolved
<1>5. LastSolved = k
  BY <1>1, <1>3, <1>4, Zenon DEF LastSolved
<1> QED BY <1>1, <1>5

\* A week that fails leaves the last one solved as it was; one that is solved is it.
LEMMA LevelAfterFailure ==
    ASSUME ListsOK, w \in 1 .. NbWeeks, failed' = Append(failed, w), yr' = yr,
           w' = w, NEW x, LevelAfter(x, w - 1)
    PROVE  \E k \in 0 .. w : IsLastSolved(k, w)' /\ x = <<yr, k>>
<1>1. PICK k \in 0 .. w - 1 : IsLastSolved(k, w - 1) /\ x = <<yr, k>>
  BY DEF LevelAfter
<1>2. \A j : HasFailed(j)' <=> HasFailed(j) \/ j = w
  BY OneMoreFailed
<1>3. /\ k \in 0 .. w /\ ~HasFailed(k)'
      /\ \A j \in k + 1 .. w : HasFailed(j)'
  BY <1>1, <1>2, WeekLoopAssumption DEF IsLastSolved
<1> QED BY <1>1, <1>3 DEF IsLastSolved

LEMMA LevelAfterSuccess ==
    ASSUME w \in Nat, ~HasFailed(w)
    PROVE  LevelAfter(Now, w)
BY DEF LevelAfter, IsLastSolved, Now

\* The levels of the weeks are chained.
LEMMA ChainedStep ==
    ASSUME IInv, Chained, [Next]_vars
    PROVE  Chained'
<1>1. PositionOK /\ ListsOK /\ InRange /\ FailedBefore /\ Renewal
  BY TypeParts DEF IInv
<1>2. ASSUME UNCHANGED <<conf, yr, failed>>
      PROVE  /\ Economy' <=> Economy
             /\ \A k : HasFailed(k)' <=> HasFailed(k)
             /\ \A x, n : LevelAfter(x, n)' <=> \E k \in 0 .. n : IsLastSolved(k, n) /\ x' = <<yr, k>>
  BY <1>2 DEF Economy, HasFailed, LevelAfter, IsLastSolved
<1> USE DEF Chained, InWeek, at, progress, problems, results, levels, output, structure, margins
<1>3. CASE StartYear
  <2>1. ~HasFailed(0)' /\ w' = 1 /\ level' = <<yr', 0>> /\ pc' = "week"
    BY <1>3 DEF StartYear, HasFailed, ToSet
  <2>2. IsLastSolved(0, 0)'
    BY <2>1 DEF IsLastSolved
  <2>3. w' - 1 = 0
    BY <2>1
  <2>4. LevelAfter(level, w - 1)'
    BY <2>1, <2>2, <2>3 DEF LevelAfter
  <2> QED BY <2>1, <2>4
<1>4. CASE StartWeek
  <2>1. /\ UNCHANGED <<conf, yr, failed, w, niv, level>> /\ pc = "week"
        /\ startLevel' = level /\ pc' \in {"build", "balance"}
    BY <1>4 DEF StartWeek
  <2> QED BY <1>2, <2>1 DEF LevelAfter
<1>5. CASE BuildProblem
  <2>1. /\ UNCHANGED <<conf, yr, failed, w, niv, level, startLevel>>
        /\ pc = "build" /\ pc' = "solve"
    BY <1>5 DEF BuildProblem
  <2> QED BY <1>2, <2>1 DEF LevelAfter
<1>6. CASE FirstTrial \/ SecondTrial
  <2>1. /\ w \in 1 .. NbWeeks /\ pc \in {"solve", "retry"}
        /\ UNCHANGED <<conf, yr, w, niv, level, startLevel>>
    BY <1>1, <1>6, TrialLeaves
  <2>2. CASE failed' = failed /\ pc' \in {"solve", "build", "post", "retry"}
    BY <1>2, <2>1, <2>2 DEF LevelAfter
  <2>3. CASE /\ failed' = Append(failed, w)
             /\ pc' = "stopped" \/ pc' = IF Economy THEN "endWeek" ELSE "levels"
    <3>1. \A k : HasFailed(k)' <=> HasFailed(k) \/ k = w
      BY <1>1, <2>1, <2>3, OneMoreFailed
    <3>2. CASE Economy
      <4>1. LevelAfter(level, w - 1) /\ Economy'
        BY <2>1, <3>2 DEF Economy
      <4>2. \E k \in 0 .. w : IsLastSolved(k, w)' /\ level = <<yr, k>>
        BY <1>1, <2>1, <2>3, <4>1, LevelAfterFailure
      <4>3. LevelAfter(level, w)'
        BY <2>1, <4>2 DEF LevelAfter
      <4> QED BY <2>1, <2>3, <3>2, <4>1, <4>3
    <3>3. CASE ~Economy /\ ~HasFailed(1)'
      <4>1. w > 1 /\ ~HasFailed(1) /\ ~Economy'
        BY <2>1, <3>1, <3>3 DEF Economy
      <4>2. LevelAfter(niv, w - 1)
        BY <2>1, <3>3, <4>1
      <4>3. \E k \in 0 .. w : IsLastSolved(k, w)' /\ niv = <<yr, k>>
        BY <1>1, <2>1, <2>3, <4>2, LevelAfterFailure
      <4>4. LevelAfter(niv, w)'
        BY <2>1, <4>3 DEF LevelAfter
      <4> QED BY <2>3, <3>3, <4>1, <4>4
    <3>4. CASE ~Economy /\ HasFailed(1)'
      <4>1. ~Economy'
        BY <2>1, <3>4 DEF Economy
      <4> QED BY <3>4, <4>1
    <3> QED BY <3>2, <3>3, <3>4
  <2> QED BY <1>1, <1>6, <2>2, <2>3, TrialLeaves
<1>7. CASE SolverBreaks \/ RemixFails
  BY <1>7 DEF SolverBreaks, RemixFails
<1>8. CASE PostProcess
  <2>1. /\ UNCHANGED <<conf, yr, failed, w>> /\ pc = "post" /\ niv' = Now
        /\ level' = IF Economy THEN Now ELSE level
        /\ pc' = IF Economy THEN "report" ELSE "levels"
    BY <1>8 DEF PostProcess
  <2>2. w \in Nat /\ ~HasFailed(w)
    BY <1>1, <2>1, FailedWeeks, WeekLoopAssumption DEF PositionOK
  <2>3. LevelAfter(Now, w)
    BY <2>2, LevelAfterSuccess
  <2> QED BY <1>2, <2>1, <2>3 DEF LevelAfter
<1>9. CASE Balance
  <2>1. /\ UNCHANGED <<conf, yr, failed, w>> /\ pc = "balance" /\ niv' = Now /\ pc' = "levels"
    BY <1>9 DEF Balance
  <2>2. w \in Nat /\ ~HasFailed(w)
    BY <1>1, <2>1, FailedWeeks, WeekLoopAssumption DEF PositionOK
  <2>3. LevelAfter(Now, w) /\ ~Economy
    BY <1>1, <2>1, <2>2, LevelAfterSuccess DEF Renewal
  <2> QED BY <1>2, <2>1, <2>3 DEF LevelAfter
<1>10. CASE UpdateLevel
  <2>1. /\ UNCHANGED <<conf, yr, failed, w, niv>> /\ pc = "levels" /\ level' = niv /\ pc' = "report"
    BY <1>10 DEF UpdateLevel
  <2> QED BY <1>2, <2>1 DEF LevelAfter
<1>11. CASE Report
  <2>1. UNCHANGED <<conf, yr, failed, w, niv, level>> /\ pc = "report" /\ pc' = "endWeek"
    BY <1>11 DEF Report
  <2> QED BY <1>2, <2>1 DEF LevelAfter
<1>12. CASE EndWeek
  <2>1. /\ UNCHANGED <<conf, yr, failed, niv, level>> /\ pc = "endWeek" /\ pc' = "week"
        /\ w' = w + 1
    BY <1>12 DEF EndWeek
  <2>2. w' - 1 = w
    BY <1>1, <2>1, WeekLoopAssumption DEF PositionOK
  <2> QED BY <1>2, <2>1, <2>2 DEF LevelAfter
<1>13. CASE EndYear
  BY <1>13 DEF EndYear
<1>14. CASE UNCHANGED vars
  <2>1. UNCHANGED <<conf, yr, failed, w, niv, level, startLevel, pc>>
    BY <1>14 DEF vars
  <2> QED BY <1>2, <2>1 DEF LevelAfter
<1> QED BY <1>3, <1>4, <1>5, <1>6, <1>7, <1>8, <1>9, <1>10, <1>11, <1>12, <1>13, <1>14 DEF Next

\* A week starts from the level of the last week of the year that was solved, or
\* from the initial level, unless the first week of an adequacy year failed.
THEOREM WeeksResume == Spec => []ResumesUntroubled
<1>1. Init => Chained
  BY DEF Init, Chained, InWeek
<1>2. IInv /\ Chained /\ [Next]_vars => Chained'
  BY ChainedStep
<1>3. IInv /\ Chained => ResumesUntroubled
  <2> SUFFICES ASSUME IInv, Chained, Economy \/ ~HasFailed(1), InWeek
               PROVE  startLevel = <<yr, LastSolved>>
    BY DEF ResumesUntroubled, ResumesFromLastSuccess
  <2>1. PositionOK /\ InRange
    BY TypeParts DEF IInv
  <2> QED BY <2>1, LastSolvedIs DEF Chained, InWeek
<1> QED BY <1>1, <1>2, <1>3, Invariance, PTL DEF Spec

\* A list of weeks in order, with a later one.
LEMMA ReportingInOrder ==
    ASSUME ListsOK, w \in 1 .. NbWeeks, Accounted, ReportedOf(w - 1),
           reported' = Append(reported, w)
    PROVE  /\ \A a, b \in DOMAIN reported' : a < b => reported'[a] < reported'[b]
           /\ ToSet(reported)' = ToSet(reported) \cup {w}
<1> DEFINE last == Len(reported) + 1
<1>1. reported \in Seq(1 .. NbWeeks)
  BY DEF ListsOK
<1>2. /\ DOMAIN reported' = DOMAIN reported \cup {last}
      /\ DOMAIN reported = 1 .. Len(reported) /\ Len(reported) \in Nat
      /\ \A n \in DOMAIN reported : reported'[n] = reported[n]
      /\ reported'[last] = w
  BY <1>1, AppendWeek
<1>3. \A n \in DOMAIN reported : reported[n] < w /\ n < last
  BY <1>2 DEF ReportedOf, ToSet
<1>4. ASSUME NEW a \in DOMAIN reported', NEW b \in DOMAIN reported', a < b
      PROVE  reported'[a] < reported'[b]
  <2>1. a \in DOMAIN reported
    BY <1>2, <1>3, <1>4
  <2>2. CASE b \in DOMAIN reported
    BY <1>2, <1>4, <2>1, <2>2 DEF Accounted
  <2>3. CASE b = last
    BY <1>2, <1>3, <2>1, <2>3
  <2> QED BY <1>2, <2>2, <2>3
<1> HIDE DEF last
<1> QED BY <1>2, <1>4 DEF ToSet

\* Every week is accounted for.
LEMMA AccountedStep ==
    ASSUME IInv, Accounted, [Next]_vars
    PROVE  Accounted'
<1>1. PositionOK /\ ListsOK /\ InRange /\ FailedBefore /\ Renewal
  BY TypeParts DEF IInv
<1>2. w \in Nat
  BY <1>1, WeekLoopAssumption DEF PositionOK
<1>3. ASSUME UNCHANGED <<conf, failed, reported>>
      PROVE  /\ \A n : ReportedOf(n)' <=>
                     ToSet(reported) = {k \in 1 .. n' : ~(Economy /\ HasFailed(k))}
             /\ Economy' <=> Economy
             /\ \A k : HasFailed(k)' <=> HasFailed(k)
  BY <1>3 DEF ReportedOf, Economy, HasFailed
<1> USE DEF Accounted, InWeek, at, progress, problems, results, levels, output, structure, margins
<1>4. CASE StartYear
  <2>1. /\ pc' = "week" /\ failed' = <<>> /\ reported' = <<>> /\ w' = 1
    BY <1>4 DEF StartYear
  <2>2. w' - 1 = 0
    BY <2>1
  <2>3. ReportedOf(w - 1)'
    BY <2>1, <2>2 DEF ReportedOf, ToSet
  <2> QED BY <2>1, <2>3
<1>5. CASE StartWeek \/ BuildProblem \/ PostProcess \/ Balance \/ UpdateLevel
  <2>1. UNCHANGED <<conf, failed, reported, w>>
    BY <1>5 DEF StartWeek, BuildProblem, PostProcess, Balance, UpdateLevel
  <2>2. /\ pc \in {"week", "build", "post", "balance", "levels"}
        /\ pc' \in {"build", "solve", "post", "balance", "levels", "report"}
        /\ Economy /\ pc' = "report" => pc = "post"
    BY <1>1, <1>5 DEF StartWeek, BuildProblem, PostProcess, Balance, UpdateLevel, Renewal
  <2>3. pc = "post" => ~HasFailed(w)
    BY <1>1, <1>2, FailedWeeks
  <2> QED BY <1>3, <2>1, <2>2, <2>3 DEF ReportedOf
<1>6. CASE FirstTrial \/ SecondTrial
  <2>1. /\ w \in 1 .. NbWeeks /\ pc \in {"solve", "retry"}
        /\ UNCHANGED <<conf, w, reported>>
    BY <1>1, <1>6, TrialLeaves
  <2>2. CASE failed' = failed /\ pc' \in {"solve", "build", "post", "retry"}
    BY <1>3, <2>1, <2>2 DEF ReportedOf
  <2>3. CASE /\ failed' = Append(failed, w)
             /\ pc' = "stopped" \/ pc' = IF Economy THEN "endWeek" ELSE "levels"
    <3>1. \A k : HasFailed(k)' <=> HasFailed(k) \/ k = w
      BY <1>1, <2>1, <2>3, OneMoreFailed
    <3>2. Economy' <=> Economy
      BY <2>1 DEF Economy
    <3>3. ToSet(reported) = {k \in 1 .. w - 1 : ~(Economy /\ HasFailed(k))}
      BY <2>1 DEF ReportedOf
    <3>4. CASE Economy
      <4>1. {k \in 1 .. w - 1 : ~HasFailed(k)} = {k \in 1 .. w : ~HasFailed(k)'}
        BY <2>1, <3>1
      <4>2. ReportedOf(w)'
        BY <2>1, <3>2, <3>3, <3>4, <4>1 DEF ReportedOf
      <4> QED BY <2>1, <2>3, <3>4, <4>2
    <3>5. CASE ~Economy
      <4>1. ReportedOf(w - 1)'
        BY <2>1, <3>2, <3>3, <3>5 DEF ReportedOf
      <4> QED BY <2>1, <2>3, <3>2, <3>5, <4>1
    <3> QED BY <3>4, <3>5
  <2> QED BY <1>1, <1>6, <2>2, <2>3, TrialLeaves
<1>7. CASE SolverBreaks \/ RemixFails \/ EndYear
  BY <1>7 DEF SolverBreaks, RemixFails, EndYear
<1>8. CASE Report
  <2>1. /\ UNCHANGED <<conf, failed, w>> /\ pc = "report" /\ pc' = "endWeek"
        /\ reported' = Append(reported, w) /\ w \in 1 .. NbWeeks
        /\ ~(Economy /\ HasFailed(w)) /\ ReportedOf(w - 1)
    BY <1>1, <1>2, <1>8 DEF Report, InRange
  <2>2. /\ \A a, b \in DOMAIN reported' : a < b => reported'[a] < reported'[b]
        /\ ToSet(reported)' = ToSet(reported) \cup {w}
    BY <1>1, <2>1, ReportingInOrder
  <2>3. ToSet(reported)' = {k \in 1 .. w : ~(Economy /\ HasFailed(k))}
    BY <1>2, <2>1, <2>2 DEF ReportedOf
  <2>4. ReportedOf(w)'
    BY <2>1, <2>3 DEF ReportedOf, Economy, HasFailed
  <2> QED BY <2>1, <2>2, <2>4
<1>9. CASE EndWeek
  <2>1. /\ UNCHANGED <<conf, failed, reported>> /\ pc = "endWeek" /\ pc' = "week" /\ w' = w + 1
    BY <1>9 DEF EndWeek
  <2>2. w' - 1 = w
    BY <1>2, <2>1
  <2> QED BY <1>3, <2>1, <2>2 DEF ReportedOf
<1>10. CASE UNCHANGED vars
  <2>1. UNCHANGED <<conf, failed, reported, w, pc>>
    BY <1>10 DEF vars
  <2> QED BY <1>3, <2>1 DEF ReportedOf
<1> QED BY <1>4, <1>5, <1>6, <1>7, <1>8, <1>9, <1>10 DEF Next

\* At the beginning of each week, those before it are reported once, in order, but
\* those that failed in economy.
THEOREM WeeksAreAccountedFor == Spec => []WeeksAccountedFor
<1>1. Init => Accounted
  BY DEF Init, Accounted, InWeek
<1>2. IInv /\ Accounted /\ [Next]_vars => Accounted'
  BY AccountedStep
<1>3. Accounted => WeeksAccountedFor
  BY DEF Accounted, WeeksAccountedFor, ReportedOf
<1> QED BY <1>1, <1>2, <1>3, Invariance, PTL DEF Spec

\* The structure is exported at each call of the first week.
LEMMA ExportedStep ==
    ASSUME IInv, Exported, [Next]_vars
    PROVE  Exported'
<1>1. /\ PositionOK /\ InRange /\ FlagsOK /\ Renewal /\ Computed
      /\ yr \in Nat /\ w \in Nat /\ NbWeeks \in Nat
      /\ call \in 1 .. 2 /\ exports \in Nat /\ conf.first \in BOOLEAN
  BY TypeParts, WeekLoopAssumption DEF IInv, PositionOK
<1>2. Calls \in 1 .. 2
  BY DEF Calls
<1> USE DEF Exported, at, progress, problems, results, levels, output, structure, margins, Calls
<1>3. CASE StartYear
  <2>1. /\ pc = "year" /\ pc' = "week" /\ yr' = yr + 1 /\ w' = 1
        /\ UNCHANGED <<conf, call, exports>> /\ Calls' = Calls
    BY <1>3 DEF StartYear
  <2>2. firstWeek' <=> firstWeek \/ (conf.first /\ yr' = 1)
    BY <1>3, Zenon DEF StartYear
  <2>3. yr = 0 => ~firstWeek /\ exports = 0
    OBVIOUS
  <2>4. firstWeek' => /\ conf.first /\ exports = 0
                      /\ NbWeeks > 0 => yr' = 1
    BY <1>1, <2>1, <2>2, <2>3
  <2>5. ~firstWeek' /\ conf.first => exports \in 1 .. Calls
    BY <1>1, <2>1, <2>2, <2>3
  <2> HIDE DEF Calls
  <2> QED BY <1>1, <2>1, <2>2, <2>4, <2>5
<1>4. CASE StartWeek
  <2>1. firstWeek => pc' # "balance"
    BY <1>1, <1>4 DEF StartWeek, NeedsSimplex, InRange
  <2> QED BY <1>1, <1>2, <1>4, <2>1 DEF StartWeek
<1>5. CASE BuildProblem
  BY <1>1, <1>2, <1>5 DEF BuildProblem, InRange
<1>6. CASE FirstTrial \/ SecondTrial
  <2>1. /\ pc \in {"solve", "retry"}
        /\ UNCHANGED <<conf, yr, w, firstWeek, exports>>
    BY <1>1, <1>6, TrialLeaves
  <2>2. \/ call' = call /\ pc' # "build"
        \/ call' = call + 1 /\ call < Calls /\ pc' = "build"
    BY <1>6 DEF FirstTrial, SecondTrial, Solved, Advance, CatchAssertion, CatchUnfeasible
  <2>3. pc' \notin {"year", "week", "balance"}
    BY <1>1, <1>6, TrialLeaves
  <2>4. Calls' = Calls /\ call' <= Calls
    BY <1>1, <2>1, <2>2
  <2>5. firstWeek => /\ exports = call /\ exports \in 1 .. Calls
                     /\ pc' = "build" => exports = call' - 1
                     /\ pc' \in {"solve", "retry"} => exports = call'
    BY <1>1, <2>1, <2>2
  <2> HIDE DEF Calls
  <2> QED BY <2>1, <2>3, <2>4, <2>5
<1>7. CASE SolverBreaks \/ PostProcess \/ RemixFails \/ UpdateLevel \/ Report
  <2>1. /\ UNCHANGED <<conf, yr, w, call, firstWeek, exports>>
        /\ pc \in {"solve", "post", "levels", "report"}
        /\ pc' \notin {"year", "week", "build", "balance", "solve", "retry"}
    BY <1>7 DEF SolverBreaks, PostProcess, RemixFails, UpdateLevel, Report
  <2> QED BY <1>1, <1>2, <2>1
<1>8. CASE Balance
  BY <1>1, <1>8 DEF Balance
<1>9. CASE EndWeek
  BY <1>1, <1>9 DEF EndWeek, InRange
<1>10. CASE EndYear
  BY <1>1, <1>10 DEF EndYear, MoreWeeks
<1>11. CASE UNCHANGED vars
  BY <1>11 DEF vars
<1> QED BY <1>3, <1>4, <1>5, <1>6, <1>7, <1>8, <1>9, <1>10, <1>11 DEF Next

\* The structure of the problems is exported in the first week and never again.
THEOREM StructureExportedOnce == Spec => []StructureOnce
<1>1. Init => Exported
  BY DEF Init, Exported, Calls
<1>2. IInv /\ Exported /\ [Next]_vars => Exported'
  BY ExportedStep
<1>3. IInv /\ Exported => StructureOnce
  <2> SUFFICES ASSUME IInv, Exported PROVE StructureOnce
    OBVIOUS
  <2>1. /\ yr \in Nat /\ w \in Nat /\ exports \in Nat /\ NbWeeks \in Nat
        /\ call \in 1 .. 2 /\ conf.first \in BOOLEAN
        /\ PositionOK /\ InRange
    BY TypeParts, WeekLoopAssumption DEF IInv, PositionOK
  <2>2. Calls \in 1 .. 2
    BY DEF Calls
  <2>3. exports <= IF conf.first THEN Calls ELSE 0
    <3>1. CASE ~conf.first
      BY <3>1 DEF Exported
    <3>2. CASE conf.first /\ ~firstWeek
      BY <2>1, <2>2, <3>2 DEF Exported
    <3>3. CASE conf.first /\ firstWeek
      <4>1. exports = 0 \/ exports = call - 1 \/ exports \in 1 .. Calls
        BY <3>3 DEF Exported
      <4>2. call <= Calls
        BY DEF Exported
      <4> QED BY <2>1, <2>2, <3>3, <4>1, <4>2
    <3> QED BY <2>1, <3>1, <3>2, <3>3
  <2>4. conf.first /\ NbWeeks > 0 /\ (yr > 1 \/ w > 1) => exports > 0
    BY <2>1, <2>2 DEF Exported, InRange
  <2> QED BY <2>3, <2>4 DEF StructureOnce
<1> QED BY <1>1, <1>2, <1>3, Invariance, PTL DEF Spec
=============================================================================
