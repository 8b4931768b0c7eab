---------------------------- MODULE YearLoopProofs ----------------------------
(***************************************************************************)
(* Proofs about YearLoop, for every number of years and every setting:     *)
(* what each year reads, what the years that run together share, and what  *)
(* is summed up.                                                           *)
(*                                                                         *)
(* The sets that the loop goes through are those of ParallelYears; what    *)
(* the loop relies on is taken from the proofs about that module.          *)
(***************************************************************************)
EXTENDS YearLoop, WellFoundedInduction, TLAPS

CP == INSTANCE ParallelYearsProofs

-----------------------------------------------------------------------------
(* The steps that build the sets are steps of ParallelYears. *)

LEMMA CutAssumption == CP!ParallelYearsAssumption
<1>1. CP!IsFiniteSet(Kinds) <=> Cut!IsFiniteSet(Kinds)
  BY DEF CP!IsFiniteSet, Cut!IsFiniteSet
<1>2. CP!ConfigSpace = Cut!ConfigSpace
  BY DEF CP!ConfigSpace, Cut!ConfigSpace, CP!Years, Cut!Years
<1> QED
  BY YearLoopAssumption, <1>1, <1>2
  DEF Cut!ParallelYearsAssumption, CP!ParallelYearsAssumption

LEMMA CutInit == Init => CP!Init
<1>1. CP!SizeLimit(conf) = Cut!SizeLimit(conf)
  BY DEF Cut!SizeLimit, CP!SizeLimit, CP!Min, Cut!Min
<1> QED BY <1>1 DEF Init, CP!Init, Cut!Init

LEMMA CutNext == Cut!Next => CP!Next
<1>1. Cut!CountYear => CP!CountYear
  BY DEF CP!CountYear, Cut!CountYear, CP!AtAYear, Cut!AtAYear, CP!StudyRefreshing,
         Cut!StudyRefreshing, CP!Performed, Cut!Performed, CP!LastOf, Cut!LastOf,
         CP!solverVars, Cut!solverVars
<1>2. Cut!Summarise => CP!Summarise
  BY DEF CP!Summarise, Cut!Summarise, CP!StudySizes, Cut!StudySizes, CP!Max, Cut!Max,
         CP!Min, Cut!Min, CP!solverVars, Cut!solverVars
<1>3. Cut!BuildYear => CP!BuildYear
  <2>1. /\ CP!AtAYear("build") <=> Cut!AtAYear("build")
        /\ CP!DividesByZero(y) <=> Cut!DividesByZero(y)
        /\ CP!OpensSet(y) <=> Cut!OpensSet(y)
        /\ CP!Performed(y) <=> Cut!Performed(y)
    BY DEF CP!AtAYear, Cut!AtAYear, CP!DividesByZero, Cut!DividesByZero, CP!KindRefreshing,
           Cut!KindRefreshing, CP!SolverKinds, Cut!SolverKinds, CP!OpensSet, Cut!OpensSet,
           CP!SolverRefreshing, Cut!SolverRefreshing, CP!ForcedRefreshing,
           Cut!ForcedRefreshing, CP!Performed, Cut!Performed
  <2>2. CP!EmptySet(y) = Cut!EmptySet(y)
    BY DEF CP!EmptySet, Cut!EmptySet, CP!KindRefreshing, Cut!KindRefreshing, CP!SolverKinds,
           Cut!SolverKinds, CP!SolverRefreshing, Cut!SolverRefreshing, CP!ForcedRefreshing,
           Cut!ForcedRefreshing
  <2>3. \A s : CP!LastOf(s) = Cut!LastOf(s) /\ CP!AddYear(s, y) = Cut!AddYear(s, y)
    BY DEF CP!LastOf, Cut!LastOf, CP!AddYear, Cut!AddYear, CP!Performed, Cut!Performed
  <2>4. CP!Performed(y) = Cut!Performed(y) /\ \A n : CP!IsFull(n, y) = Cut!IsFull(n, y)
    BY Zenon DEF CP!IsFull, Cut!IsFull, CP!Performed, Cut!Performed
  <2> DEFINE cutBase == IF Cut!OpensSet(y) THEN Append(sets, Cut!EmptySet(y)) ELSE sets
             cutSet  == Cut!AddYear(Cut!LastOf(cutBase), y)
             base    == IF CP!OpensSet(y) THEN Append(sets, CP!EmptySet(y)) ELSE sets
             set     == CP!AddYear(CP!LastOf(base), y)
  <2>5. base = cutBase
    BY <2>1, <2>2, Zenon
  <2>6. set = cutSet
    BY <2>3, <2>5, Zenon
  <2> SUFFICES ASSUME Cut!BuildYear PROVE CP!BuildYear
    OBVIOUS
  <2>7. /\ Cut!AtAYear("build") /\ ~Cut!DividesByZero(y)
        /\ sets' = [cutBase EXCEPT ![Len(cutBase)] = cutSet]
        /\ buildNewSet' = Cut!IsFull(Len(cutSet.performed), y)
        /\ foundFirst' = (/\ ~Cut!IsFull(Len(cutSet.performed), y)
                          /\ foundFirst \/ Cut!Performed(y))
        /\ maxNbYearsPerformed' =
             IF Cut!IsFull(Len(cutSet.performed), y) /\ Len(cutSet.performed) > maxNbYearsPerformed
             THEN Len(cutSet.performed) ELSE maxNbYearsPerformed
        /\ nbYearsReallyPerformed' =
             nbYearsReallyPerformed + (IF Cut!Performed(y) THEN 1 ELSE 0)
        /\ y' = y + 1
        /\ UNCHANGED <<conf, pc, maxNbYearsInParallel, Cut!studyVars>>
    BY Zenon DEF Cut!BuildYear
  <2>8. /\ CP!AtAYear("build") /\ ~CP!DividesByZero(y)
        /\ sets' = [base EXCEPT ![Len(base)] = set]
        /\ buildNewSet' = CP!IsFull(Len(set.performed), y)
        /\ foundFirst' = (/\ ~CP!IsFull(Len(set.performed), y)
                          /\ foundFirst \/ CP!Performed(y))
        /\ maxNbYearsPerformed' =
             IF CP!IsFull(Len(set.performed), y) /\ Len(set.performed) > maxNbYearsPerformed
             THEN Len(set.performed) ELSE maxNbYearsPerformed
        /\ nbYearsReallyPerformed' =
             nbYearsReallyPerformed + (IF CP!Performed(y) THEN 1 ELSE 0)
        /\ y' = y + 1
    <3> HIDE DEF base, cutBase, set, cutSet
    <3>1. CP!IsFull(Len(set.performed), y) = Cut!IsFull(Len(cutSet.performed), y)
      BY <2>4, <2>6, Zenon
    <3> QED BY <2>1, <2>4, <2>5, <2>6, <2>7, <3>1, Zenon
  <2>9. UNCHANGED <<conf, pc, maxNbYearsInParallel, CP!studyVars>>
    BY <2>7 DEF CP!studyVars, Cut!studyVars
  <2> QED
    BY <2>8, <2>9, Zenon DEF CP!BuildYear
<1>4. Cut!Crash => CP!Crash
  BY DEF CP!Crash, Cut!Crash, CP!AtAYear, Cut!AtAYear, CP!DividesByZero, Cut!DividesByZero,
         CP!KindRefreshing, Cut!KindRefreshing, CP!SolverKinds, Cut!SolverKinds,
         CP!studyVars, Cut!studyVars, CP!solverVars, Cut!solverVars
<1>5. Cut!EndBuild => CP!EndBuild
  BY DEF CP!EndBuild, Cut!EndBuild, CP!studyVars, Cut!studyVars, CP!solverVars,
         Cut!solverVars
<1> QED BY <1>1, <1>2, <1>3, <1>4, <1>5 DEF CP!Next, Cut!Next

\* What ParallelYearsProofs says of the sets.
CutFacts == CP!IInv /\ CP!SetsInv /\ CP!Ready

LEMMA CutInvariant == Spec => []CutFacts
<1>1. Init => CP!Init
  BY CutInit
<1>2. [Next]_<<cutVars, loopVars>> => [CP!Next]_CP!vars
  BY CutNext DEF Next, CutStep, LoopStep, cutVars, CP!vars, CP!studyVars, CP!solverVars
<1>3. CP!Spec => []CutFacts
  BY CP!SetsAreReady, CutAssumption DEF CutFacts
<1> QED BY <1>1, <1>2, <1>3, PTL DEF Spec, CP!Spec

-----------------------------------------------------------------------------
(* The sets, when the loop goes through them. *)

\* The first year of a set, the first year after it, and its performed years.
First(i) == sets[i].years[1]
End(i)   == sets[i].years[1] + Len(sets[i].years)
Perf(i)  == sets[i].performed

\* The sets share out the years in order, each with its performed years in order.
Laid ==
    /\ NbYears \in Nat \ {0}
    /\ conf \in Cut!ConfigSpace
    /\ Len(sets) \in Nat \ {0} /\ DOMAIN sets = 1 .. Len(sets)
    /\ First(1) = 0 /\ End(Len(sets)) = NbYears
    /\ \A i \in 1 .. Len(sets) - 1 : First(i + 1) = End(i)
    /\ \A h, i \in 1 .. Len(sets) : h < i => End(h) <= First(i)
    /\ \A i \in 1 .. Len(sets) :
          /\ First(i) \in Nat /\ End(i) \in Nat /\ First(i) < End(i) /\ End(i) <= NbYears
          /\ sets[i].years \in Seq(Years)
          /\ \A k \in 1 .. Len(sets[i].years) : sets[i].years[k] = First(i) + (k - 1)
          /\ Perf(i) \in Seq(Years) /\ Len(Perf(i)) <= NbYears
          /\ \A k, l \in 1 .. Len(Perf(i)) : k < l => Perf(i)[k] < Perf(i)[l]
          /\ \A z \in Years : (\E k \in 1 .. Len(Perf(i)) : Perf(i)[k] = z)
                              <=> Cut!Performed(z) /\ First(i) <= z /\ z < End(i)

LEMMA YearsOfSequence ==
    ASSUME NEW s \in Seq(Years)
    PROVE  /\ Len(s) \in Nat /\ DOMAIN s = 1 .. Len(s)
           /\ \A k \in DOMAIN s : s[k] \in Nat /\ s[k] < NbYears /\ s[k] \in Years
           /\ s = <<>> <=> Len(s) = 0
<1>1. NbYears \in Nat
  BY CutAssumption DEF CP!ParallelYearsAssumption
<1>2. \A k \in DOMAIN s : s[k] \in Years
  OBVIOUS
<1>3. s = <<>> <=> Len(s) = 0
  OBVIOUS
<1> QED BY <1>1, <1>2, <1>3 DEF Years, Cut!Years

LEMMA SetsLaid == CutFacts /\ pc = "built" => Laid
<1> SUFFICES ASSUME CutFacts, pc = "built" PROVE Laid
  OBVIOUS
<1>1. NbYears \in Nat \ {0} /\ Years = 0 .. NbYears - 1 /\ CP!Years = Years
  BY CutAssumption DEF CP!ParallelYearsAssumption, Years, Cut!Years, CP!Years
<1>2. CP!ConfigSpace = Cut!ConfigSpace
  BY DEF CP!ConfigSpace, Cut!ConfigSpace, CP!Years, Cut!Years
<1>3. /\ CP!TypeOK /\ CP!YearsCutInOrder /\ CP!OneSpacePerYear /\ CP!SetsInv
      /\ y = NbYears /\ sets # <<>>
  BY DEF CutFacts, CP!IInv, CP!Ready
<1>4. sets \in Seq(CP!Subsets) /\ conf \in Cut!ConfigSpace
  BY <1>2, <1>3 DEF CP!TypeOK
<1>5. Len(sets) \in Nat \ {0} /\ DOMAIN sets = 1 .. Len(sets)
  BY <1>3, <1>4
<1>6. \A i \in 1 .. Len(sets) : sets[i].years \in Seq(Years) /\ Perf(i) \in Seq(Years)
  <2>1. \A s \in CP!Subsets : s.years \in Seq(Years) /\ s.performed \in Seq(Years)
    BY <1>1 DEF CP!Subsets
  <2> QED BY <1>4, <1>5, <2>1 DEF Perf
<1>7. \A i \in 1 .. Len(sets) :
         /\ Len(sets[i].years) \in Nat \ {0}
         /\ DOMAIN sets[i].years = 1 .. Len(sets[i].years)
         /\ \A k \in 1 .. Len(sets[i].years) : sets[i].years[k] = First(i) + (k - 1)
         /\ \A k \in 1 .. Len(sets[i].years) : sets[i].years[k] \in Nat /\ sets[i].years[k] < NbYears
  <2> SUFFICES ASSUME NEW i \in 1 .. Len(sets)
               PROVE  /\ Len(sets[i].years) \in Nat \ {0}
                      /\ DOMAIN sets[i].years = 1 .. Len(sets[i].years)
                      /\ \A k \in 1 .. Len(sets[i].years) :
                            /\ sets[i].years[k] = First(i) + (k - 1)
                            /\ sets[i].years[k] \in Nat /\ sets[i].years[k] < NbYears
    BY Zenon
  <2>1. /\ sets[i].years # <<>>
        /\ \A k \in DOMAIN sets[i].years : sets[i].years[k] = First(i) + (k - 1)
    BY <1>3, <1>5 DEF CP!YearsCutInOrder, First
  <2> QED BY <1>6, <2>1, YearsOfSequence
<1>8. \A i \in 1 .. Len(sets) :
         /\ First(i) \in Nat /\ End(i) \in Nat /\ First(i) < End(i) /\ End(i) <= NbYears
         /\ 1 \in 1 .. Len(sets[i].years) /\ Len(sets[i].years) \in 1 .. Len(sets[i].years)
         /\ Cut!LastOf(sets[i].years) = End(i) - 1
  <2> SUFFICES ASSUME NEW i \in 1 .. Len(sets)
               PROVE  /\ First(i) \in Nat /\ End(i) \in Nat
                      /\ First(i) < End(i) /\ End(i) <= NbYears
                      /\ 1 \in 1 .. Len(sets[i].years)
                      /\ Len(sets[i].years) \in 1 .. Len(sets[i].years)
                      /\ Cut!LastOf(sets[i].years) = End(i) - 1
    OBVIOUS
  <2>1. Len(sets[i].years) \in Nat \ {0} /\ End(i) = First(i) + Len(sets[i].years)
    BY <1>7 DEF End, First
  <2>2. 1 \in 1 .. Len(sets[i].years) /\ Len(sets[i].years) \in 1 .. Len(sets[i].years)
    BY <2>1
  <2>3. First(i) \in Nat
    BY <1>7, <2>2 DEF First
  <2>4. /\ sets[i].years[Len(sets[i].years)] = First(i) + (Len(sets[i].years) - 1)
        /\ sets[i].years[Len(sets[i].years)] < NbYears
    BY <1>7, <2>2
  <2>5. Cut!LastOf(sets[i].years) = sets[i].years[Len(sets[i].years)]
    BY DEF Cut!LastOf
  <2> DEFINE n == Len(sets[i].years)
             last == sets[i].years[n]
  <2>6. n \in Nat \ {0} /\ last = First(i) + (n - 1) /\ last < NbYears /\ End(i) = First(i) + n
    BY <2>1, <2>4
  <2> HIDE DEF n, last
  <2>7. /\ End(i) \in Nat /\ First(i) < End(i) /\ End(i) <= NbYears /\ last = End(i) - 1
    BY <1>1, <2>3, <2>6
  <2> QED BY <2>2, <2>3, <2>5, <2>7 DEF n, last
<1>9. First(1) = 0 /\ \A i \in 1 .. Len(sets) - 1 : First(i + 1) = End(i)
  <2>1. \A i \in 1 .. Len(sets) :
           First(i) = IF i = 1 THEN 0 ELSE Cut!LastOf(sets[i - 1].years) + 1
    BY <1>3, <1>5 DEF CP!YearsCutInOrder, First, CP!LastOf, Cut!LastOf
  <2>2. ASSUME NEW i \in 1 .. Len(sets) - 1 PROVE First(i + 1) = End(i)
    <3>1. i + 1 \in 1 .. Len(sets) /\ i + 1 # 1 /\ i \in 1 .. Len(sets) /\ (i + 1) - 1 = i
      BY <1>5
    <3>2. First(i + 1) = Cut!LastOf(sets[i].years) + 1
      BY <2>1, <3>1
    <3> QED BY <1>8, <3>1, <3>2
  <2>3. First(1) = 0
    BY <1>5, <2>1
  <2> QED BY <2>2, <2>3
<1>10. End(Len(sets)) = NbYears
  <2>1. Cut!LastOf(sets[Len(sets)].years) + 1 = y
    BY <1>3 DEF CP!YearsCutInOrder, CP!LastOf, Cut!LastOf
  <2> QED BY <1>3, <1>5, <1>8, <2>1
<1>11. ASSUME NEW h \in 1 .. Len(sets), NEW i \in 1 .. Len(sets), h < i
       PROVE  End(h) <= First(i)
  <2>1. sets[h].years[Len(sets[h].years)] < sets[i].years[1]
    BY <1>3, <1>5, <1>7, <1>8, <1>11 DEF CP!SetsInv
  <2> QED BY <1>8, <2>1 DEF First, Cut!LastOf
<1>12. ASSUME NEW i \in 1 .. Len(sets)
       PROVE  /\ \A k, l \in 1 .. Len(Perf(i)) : k < l => Perf(i)[k] < Perf(i)[l]
              /\ \A z \in Years : (\E k \in 1 .. Len(Perf(i)) : Perf(i)[k] = z)
                                  <=> Cut!Performed(z) /\ First(i) <= z /\ z < End(i)
              /\ Len(Perf(i)) <= NbYears
  <2>1. DOMAIN Perf(i) = 1 .. Len(Perf(i))
    BY <1>6
  <2>2. /\ \A k, l \in DOMAIN Perf(i) : k < l => Perf(i)[k] < Perf(i)[l]
        /\ \A z \in Years : (\E k \in DOMAIN Perf(i) : Perf(i)[k] = z)
             <=> Cut!Performed(z) /\ \E k \in DOMAIN sets[i].years : sets[i].years[k] = z
    BY <1>1, <1>3, <1>5 DEF CP!OneSpacePerYear, Perf, CP!Performed, Cut!Performed
  <2>3. ASSUME NEW z \in Years
        PROVE  (\E k \in DOMAIN sets[i].years : sets[i].years[k] = z)
               <=> First(i) <= z /\ z < End(i)
    <3>1. /\ DOMAIN sets[i].years = 1 .. Len(sets[i].years)
          /\ Len(sets[i].years) \in Nat
          /\ End(i) = First(i) + Len(sets[i].years)
          /\ First(i) \in Nat /\ z \in Nat
      BY <1>1, <1>7, <1>8 DEF End, First
    <3>2. ASSUME First(i) <= z, z < End(i)
          PROVE  \E k \in DOMAIN sets[i].years : sets[i].years[k] = z
      <4>1. z - First(i) + 1 \in 1 .. Len(sets[i].years)
        BY <3>1, <3>2
      <4>2. sets[i].years[z - First(i) + 1] = First(i) + ((z - First(i) + 1) - 1)
        BY <1>7, <4>1
      <4> QED BY <3>1, <4>1, <4>2
    <3>3. ASSUME NEW k \in DOMAIN sets[i].years, sets[i].years[k] = z
          PROVE  First(i) <= z /\ z < End(i)
      BY <1>7, <3>1, <3>3
    <3> QED BY <3>2, <3>3
  <2>4. Len(Perf(i)) <= NbYears
    <3>1. Len(sets[i].performed) <= Len(sets[i].years)
      BY <1>3, <1>5 DEF CP!SetsInv
    <3>2. Len(sets[i].years) <= NbYears /\ Len(sets[i].years) \in Nat
      BY <1>7, <1>8, <1>1 DEF End, First
    <3>3. Len(Perf(i)) \in Nat
      BY <1>6
    <3> QED BY <1>1, <3>1, <3>2, <3>3 DEF Perf
  <2> QED BY <2>1, <2>2, <2>3, <2>4
<1> QED BY <1>1, <1>4, <1>5, <1>6, <1>7, <1>8, <1>9, <1>10, <1>11, <1>12 DEF Laid

\* A year belongs to one set.
Holds(i, z) == First(i) <= z /\ z < End(i)

LEMMA YearsOfSet ==
    ASSUME Laid, NEW i \in 1 .. Len(sets), NEW z \in Years
    PROVE  InSet(sets[i], z) <=> Holds(i, z)
<1>1. /\ First(i) \in Nat /\ End(i) \in Nat /\ sets[i].years \in Seq(Years)
      /\ \A k \in 1 .. Len(sets[i].years) : sets[i].years[k] = First(i) + (k - 1)
  BY DEF Laid
<1>2. /\ DOMAIN sets[i].years = 1 .. Len(sets[i].years)
      /\ Len(sets[i].years) \in Nat
      /\ End(i) = First(i) + Len(sets[i].years)
  BY <1>1 DEF End, First
<1>3. z \in Nat
  BY CutAssumption DEF CP!ParallelYearsAssumption, Years, Cut!Years
<1>4. InSet(sets[i], z) <=> \E k \in DOMAIN sets[i].years : sets[i].years[k] = z
  BY DEF InSet, ToSet
<1>5. ASSUME Holds(i, z) PROVE \E k \in DOMAIN sets[i].years : sets[i].years[k] = z
  <2>1. z - First(i) + 1 \in 1 .. Len(sets[i].years)
    BY <1>1, <1>2, <1>3, <1>5 DEF Holds
  <2>2. sets[i].years[z - First(i) + 1] = First(i) + ((z - First(i) + 1) - 1)
    BY <1>1, <2>1
  <2> QED BY <1>1, <1>2, <1>3, <2>1, <2>2
<1>6. ASSUME NEW k \in DOMAIN sets[i].years, sets[i].years[k] = z PROVE Holds(i, z)
  BY <1>1, <1>2, <1>3, <1>6 DEF Holds
<1> QED BY <1>4, <1>5, <1>6

LEMMA OneSetHolds ==
    ASSUME Laid, NEW h \in 1 .. Len(sets), NEW i \in 1 .. Len(sets), NEW z \in Years,
           Holds(h, z), Holds(i, z)
    PROVE  h = i
<1>1. /\ First(h) \in Nat /\ End(h) \in Nat /\ First(i) \in Nat /\ End(i) \in Nat
      /\ h < i => End(h) <= First(i)
      /\ i < h => End(i) <= First(h)
      /\ Len(sets) \in Nat
  BY DEF Laid
<1>2. z \in Nat
  BY CutAssumption DEF CP!ParallelYearsAssumption, Years, Cut!Years
<1> QED BY <1>1, <1>2 DEF Holds

LEMMA SomeSetHolds ==
    ASSUME Laid, NEW z \in Years
    PROVE  \E i \in 1 .. Len(sets) : Holds(i, z)
<1> DEFINE S == {i \in 1 .. Len(sets) : z < End(i)}
<1>1. /\ Len(sets) \in Nat \ {0} /\ NbYears \in Nat /\ End(Len(sets)) = NbYears
      /\ z \in Nat /\ z < NbYears
  BY CutAssumption DEF Laid, CP!ParallelYearsAssumption, Years, Cut!Years
<1>2. S \in SUBSET Nat /\ S # {}
  BY <1>1
<1>3. \A i \in 1 .. Len(sets) : i \in S <=> z < End(i)
  OBVIOUS
<1>4. S \subseteq 1 .. Len(sets)
  OBVIOUS
<1> HIDE DEF S
<1>5. PICK i \in S : \A h \in S : i <= h
  BY <1>2, CP!LeastOfNats, CutAssumption
<1>6. i \in 1 .. Len(sets) /\ z < End(i)
  BY <1>3, <1>4, <1>5
<1>7. First(i) <= z
  <2>1. CASE i = 1
    BY <1>1, <2>1 DEF Laid
  <2>2. CASE i # 1
    <3>1. i - 1 \in 1 .. Len(sets) - 1 /\ i - 1 \in 1 .. Len(sets) /\ (i - 1) + 1 = i
      BY <1>1, <1>6, <2>2
    <3>2. First(i) = End(i - 1) /\ End(i - 1) \in Nat
      BY <3>1 DEF Laid
    <3>3. ~(i <= i - 1)
      BY <1>6, <1>1
    <3>4. ~(z < End(i - 1))
      BY <1>3, <1>5, <3>1, <3>3
    <3> QED BY <1>1, <3>2, <3>4
  <2> QED BY <2>1, <2>2
<1> QED BY <1>6, <1>7 DEF Holds

LEMMA SetOfYear ==
    ASSUME Laid, NEW i \in 1 .. Len(sets), NEW z \in Years, Holds(i, z)
    PROVE  SetOf(z) = i
<1>1. DOMAIN sets = 1 .. Len(sets)
  BY DEF Laid
<1>2. InSet(sets[i], z) /\ \A h \in 1 .. Len(sets) : InSet(sets[h], z) => h = i
  BY YearsOfSet, OneSetHolds
<1> QED BY <1>1, <1>2 DEF SetOf

\* A performed year has one rank in its set, which gives its space.
LEMMA RankIsUnique ==
    ASSUME Laid, NEW i \in 1 .. Len(sets), NEW k \in 1 .. Len(Perf(i)), NEW l \in 1 .. Len(Perf(i)),
           Perf(i)[k] = Perf(i)[l]
    PROVE  k = l
<1>1. /\ Perf(i) \in Seq(Years)
      /\ k < l => Perf(i)[k] < Perf(i)[l]
      /\ l < k => Perf(i)[l] < Perf(i)[k]
  BY DEF Laid
<1>2. Len(Perf(i)) \in Nat /\ Perf(i)[k] \in Nat /\ Perf(i)[l] \in Nat
  BY <1>1, YearsOfSequence
<1> QED BY <1>1, <1>2

LEMMA RankOfPerformed ==
    ASSUME Laid, NEW i \in 1 .. Len(sets), NEW k \in 1 .. Len(Perf(i))
    PROVE  /\ Perf(i)[k] \in Years /\ Perf(i)[k] \in Nat
           /\ Cut!Performed(Perf(i)[k]) /\ Holds(i, Perf(i)[k])
           /\ SetOf(Perf(i)[k]) = i
           /\ RankOf(Perf(i)[k]) = k
           /\ i = cur => SpaceOf(Perf(i)[k]) = k - 1
<1>1. /\ Perf(i) \in Seq(Years)
      /\ \A z \in Years : (\E l \in 1 .. Len(Perf(i)) : Perf(i)[l] = z)
                              <=> Cut!Performed(z) /\ First(i) <= z /\ z < End(i)
  BY DEF Laid
<1>2. Perf(i)[k] \in Years /\ Perf(i)[k] \in Nat /\ DOMAIN Perf(i) = 1 .. Len(Perf(i))
  BY <1>1, YearsOfSequence
<1>3. Cut!Performed(Perf(i)[k]) /\ Holds(i, Perf(i)[k])
  BY <1>1, <1>2 DEF Holds
<1>4. SetOf(Perf(i)[k]) = i
  BY <1>2, <1>3, SetOfYear
<1>5. (CHOOSE l \in DOMAIN Perf(i) : Perf(i)[l] = Perf(i)[k]) = k
  BY <1>2, RankIsUnique
<1>6. RankOf(Perf(i)[k]) = k
  BY <1>4, <1>5 DEF RankOf, Perf
<1>7. i = cur => SpaceOf(Perf(i)[k]) = k - 1
  BY <1>5 DEF SpaceOf, Set, Perf
<1> QED BY <1>2, <1>3, <1>4, <1>6, <1>7

\* A set opens at a refresh, is full with its last performed year, and has room for
\* its performed years.
Timely ==
    /\ \A i \in 1 .. Len(sets) :
          /\ sets[i].regenerateTS <=> Cut!SolverRefreshing(First(i))
          /\ sets[i].regenerateTS => sets[i].yearForTSgeneration = First(i)
          /\ \A z \in Years : First(i) < z /\ z < End(i) => ~Cut!SolverRefreshing(z)
    /\ ~Cut!DividesByZero(0)

Roomy ==
    /\ maxNbYearsInParallel \in Nat \ {0} /\ maxNbYearsPerformed \in Nat
    /\ \A i \in 1 .. Len(sets) :
          /\ Len(Perf(i)) <= maxNbYearsInParallel
          /\ Len(Perf(i)) = maxNbYearsInParallel => Perf(i)[Len(Perf(i))] = End(i) - 1
    /\ Cut!StudyKnowsRefreshes => maxNbYearsPerformed = maxNbYearsInParallel
    /\ Cut!StudyKnowsRefreshes /\ Cut!HotStartAccepted =>
          \A h, i \in 1 .. Len(sets) : Perf(h) # <<>> => Len(Perf(i)) <= Len(Perf(h))

Given == Laid /\ Timely /\ Roomy

LEMMA SetsTimely == CutFacts /\ pc = "built" => Timely
<1> SUFFICES ASSUME CutFacts, pc = "built" PROVE Timely
  OBVIOUS
<1>1. Laid /\ CP!RefreshOpensSet /\ CP!SetsInv /\ y = NbYears
  BY SetsLaid DEF CutFacts, CP!IInv, CP!Ready
<1>2. /\ \A z : CP!SolverRefreshing(z) <=> Cut!SolverRefreshing(z)
      /\ CP!DividesByZero(0) <=> Cut!DividesByZero(0)
  BY DEF CP!SolverRefreshing, Cut!SolverRefreshing, CP!KindRefreshing, Cut!KindRefreshing,
         CP!SolverKinds, Cut!SolverKinds, CP!ForcedRefreshing, Cut!ForcedRefreshing,
         CP!DividesByZero, Cut!DividesByZero
<1>3. DOMAIN sets = 1 .. Len(sets) /\ NbYears \in Nat \ {0}
  BY <1>1 DEF Laid
<1>4. ASSUME NEW i \in 1 .. Len(sets)
      PROVE  /\ sets[i].regenerateTS <=> Cut!SolverRefreshing(First(i))
             /\ sets[i].regenerateTS => sets[i].yearForTSgeneration = First(i)
             /\ \A z \in Years : First(i) < z /\ z < End(i) => ~Cut!SolverRefreshing(z)
  <2>1. /\ \A j \in DOMAIN sets[i].years :
              Cut!SolverRefreshing(sets[i].years[j]) => j = 1
        /\ sets[i].regenerateTS <=> Cut!SolverRefreshing(sets[i].years[1])
        /\ sets[i].regenerateTS => sets[i].yearForTSgeneration = sets[i].years[1]
    BY <1>1, <1>2, <1>3 DEF CP!RefreshOpensSet
  <2>2. ASSUME NEW z \in Years, First(i) < z, z < End(i)
        PROVE  ~Cut!SolverRefreshing(z)
    <3>1. Holds(i, z) /\ First(i) \in Nat /\ z \in Nat
      BY <1>1, <1>3, <2>2 DEF Holds, Laid, Years, Cut!Years
    <3>2. PICK j \in DOMAIN sets[i].years : sets[i].years[j] = z
      BY <1>1, <3>1, YearsOfSet DEF InSet, ToSet
    <3>3. j # 1
      BY <2>2, <3>1, <3>2 DEF First
    <3> QED BY <2>1, <3>2, <3>3
  <2> QED BY <2>1, <2>2 DEF First
<1>5. ~Cut!DividesByZero(0)
  BY <1>1, <1>2, <1>3 DEF CP!SetsInv
<1> QED BY <1>4, <1>5 DEF Timely

LEMMA SetsRoomy == CutFacts /\ pc = "built" => Roomy
<1> SUFFICES ASSUME CutFacts, pc = "built" PROVE Roomy
  OBVIOUS
<1>1. Laid /\ CP!TypeOK /\ CP!SpacesFit /\ CP!SetsInv /\ CP!Ready
  BY SetsLaid DEF CutFacts, CP!IInv
<1>2. /\ CP!StudyKnowsRefreshes <=> Cut!StudyKnowsRefreshes
      /\ CP!HotStartAccepted <=> Cut!HotStartAccepted
  BY DEF CP!StudyKnowsRefreshes, Cut!StudyKnowsRefreshes, CP!HotStartAccepted,
         Cut!HotStartAccepted
<1>3. DOMAIN sets = 1 .. Len(sets)
  BY <1>1 DEF Laid
<1>4. maxNbYearsInParallel \in Nat \ {0} /\ maxNbYearsPerformed \in Nat
  BY <1>1 DEF CP!TypeOK
<1>5. ASSUME NEW i \in 1 .. Len(sets)
      PROVE  /\ Len(Perf(i)) <= maxNbYearsInParallel
             /\ Len(Perf(i)) = maxNbYearsInParallel => Perf(i)[Len(Perf(i))] = End(i) - 1
  <2>1. /\ Len(sets[i].performed) <= maxNbYearsInParallel
        /\ Len(sets[i].performed) = maxNbYearsInParallel =>
              sets[i].performed[Len(sets[i].performed)] = sets[i].years[Len(sets[i].years)]
    BY <1>1, <1>3 DEF CP!SpacesFit, CP!SetsInv, CP!LastOf
  <2>2. /\ sets[i].years \in Seq(Years) /\ First(i) < End(i) /\ First(i) \in Nat
        /\ \A k \in 1 .. Len(sets[i].years) : sets[i].years[k] = First(i) + (k - 1)
    BY <1>1 DEF Laid
  <2>3. Len(sets[i].years) \in Nat /\ End(i) = First(i) + Len(sets[i].years)
    BY <2>2 DEF End, First
  <2>4. Len(sets[i].years) \in 1 .. Len(sets[i].years)
    BY <2>2, <2>3
  <2>5. sets[i].years[Len(sets[i].years)] = End(i) - 1
    <3>1. sets[i].years[Len(sets[i].years)] = First(i) + (Len(sets[i].years) - 1)
      BY <2>2, <2>4
    <3> QED BY <2>2, <2>3, <3>1
  <2> QED BY <2>1, <2>5 DEF Perf
<1>6. /\ Cut!StudyKnowsRefreshes => maxNbYearsPerformed = maxNbYearsInParallel
      /\ Cut!StudyKnowsRefreshes /\ Cut!HotStartAccepted =>
            \A h, i \in 1 .. Len(sets) : Perf(h) # <<>> => Len(Perf(i)) <= Len(Perf(h))
  BY <1>1, <1>2, <1>3 DEF CP!Ready, Perf
<1> QED BY <1>4, <1>5, <1>6 DEF Roomy

LEMMA SetsGiven == CutFacts /\ pc = "built" => Given
BY SetsLaid, SetsTimely, SetsRoomy DEF Given

-----------------------------------------------------------------------------
(* The inductive invariant. *)

\* Nothing happens while the sets are built.
Idle ==
    /\ loop = "refresh" /\ cur = 1 /\ pos = 1 /\ indexYear = 0 /\ drawn = 0
    /\ series = [g \in Kinds \cup {Forced} |-> Blank]
    /\ slots = [n \in 0 .. NbYears |-> BlankSlot]
    /\ yearNumberToIndex = <<>> /\ firstSetRun = FALSE
    /\ job = [yr \in Years |-> "none"]
    /\ spaces = [n \in Years |-> [year |-> Blank, finalLevel |-> Unused]]
    /\ input = [yr \in Years |-> [thermal |-> Blank, costs |-> Blank, level |-> Blank,
                                  series |-> series]]
    /\ summed = <<>> /\ costs = <<>>

\* The sets before the current one have run, those after it have not started.
JobsInv ==
    /\ \A z \in Years :
          /\ z < First(cur) => job[z] \in {"ok", "skipped"}
          /\ End(cur) <= z => job[z] = "none"
          /\ Holds(cur, z) =>
                /\ loop \in {"refresh", "crashed", "draw"} => job[z] = "none"
                /\ loop = "run" => job[z] # "none"
                /\ loop \in {"sum", "done"} => job[z] \in {"ok", "skipped"}
                /\ loop = "fatal" => job[z] \notin {"queued", "running"}
          /\ Started(z) => Cut!Performed(z)
          /\ job[z] = "skipped" => ~Cut!Performed(z)
    /\ loop = "done" => cur = Len(sets)

\* The generators are called once for every year; the index of the next slot counts
\* the performed years drawn in the set.
DrawnInv ==
    /\ loop \in {"refresh", "crashed"} => drawn = First(cur)
    /\ loop = "draw" =>
          /\ pos \in 1 .. Len(sets[cur].years) + 1
          /\ drawn = First(cur) + (pos - 1)
          /\ indexYear \in 0 .. Len(Perf(cur))
          /\ \A k \in 1 .. Len(Perf(cur)) : k <= indexYear <=> Perf(cur)[k] < drawn
    /\ loop \in {"run", "sum", "done", "fatal"} => drawn = End(cur)

\* The slot of rank k holds the numbers of the performed year of rank k.
NumbersInv ==
    loop \in {"draw", "run"} =>
        \A k \in 1 .. Len(Perf(cur)) : Perf(cur)[k] < drawn =>
            /\ Perf(cur)[k] \in DOMAIN yearNumberToIndex
            /\ yearNumberToIndex[Perf(cur)[k]] = k - 1
            /\ slots[k - 1].thermal = Perf(cur)[k]
            /\ slots[k - 1].costs = Perf(cur)[k]
            /\ ~(conf.hotStart /\ firstSetRun) => slots[k - 1].level = Perf(cur)[k]

\* The flag tells that a set with a performed year has run.
FlagInv ==
    /\ loop \in {"refresh", "crashed", "draw", "run"} =>
          (firstSetRun <=> LastPerformedBefore(cur) # {})
    /\ loop \in {"sum", "done"} =>
          (firstSetRun <=> Perf(cur) # <<>> \/ LastPerformedBefore(cur) # {})

\* A space holds the year of its rank; with a hot start, its final level is that of
\* the year of its rank in the current set or in the last performed set before.
SpacesInv ==
    /\ loop \in {"run", "sum"} =>
          \A k \in 1 .. Len(Perf(cur)) :
              Started(Perf(cur)[k]) => spaces[k - 1].year = Perf(cur)[k]
    /\ conf.hotStart /\ loop \in {"refresh", "draw", "run", "sum"} =>
          /\ \A k \in 1 .. Len(Perf(cur)) :
                job[Perf(cur)[k]] = "ok" => spaces[k - 1].finalLevel = Perf(cur)[k]
          /\ \A h \in LastPerformedBefore(cur) : \A k \in 1 .. Len(Perf(h)) :
                (k \in 1 .. Len(Perf(cur)) => job[Perf(cur)[k]] # "ok")
                => spaces[k - 1].finalLevel = Perf(h)[k]

\* The last year, up to z, whose refresh of g falls due.
Period(z, g) == z - (z % Interval(g))

\* The series are those of the period of the last year that ran or, once refreshed, of
\* every year of the set.
SeriesInv ==
    /\ loop \notin {"refresh", "crashed"} \/ cur > 1 =>
          \A g \in Generated : Interval(g) \in Nat \ {0}
    /\ loop = "refresh" /\ cur > 1 =>
          \A g \in Generated : series[g] = Period(First(cur) - 1, g)
    /\ loop \in {"draw", "run", "sum"} =>
          \A g \in Generated : \A z \in Years : Holds(cur, z) => series[g] = Period(z, g)

\* What a year was started with.
InputInv ==
    \A z \in Years : Started(z) =>
        /\ input[z].thermal = z /\ input[z].costs = z
        /\ \A g \in Generated : input[z].series[g] = Period(z, g)

LevelInv ==
    ~conf.hotStart \/ (Cut!HotStartAccepted /\ Cut!StudyKnowsRefreshes) =>
        \A i \in 1 .. Len(sets) : \A k \in 1 .. Len(Perf(i)) : Started(Perf(i)[k]) =>
            /\ LastPerformedBefore(i) = {} \/ ~conf.hotStart =>
                  input[Perf(i)[k]].level = Perf(i)[k]
            /\ conf.hotStart => \A h \in LastPerformedBefore(i) :
                  input[Perf(i)[k]].level = Perf(h)[k]

\* The years summed up are the performed ones of the sets that have been.
IsPast(z) == IF loop = "done" THEN z < End(cur) ELSE z < First(cur)

SumInv ==
    /\ \A k \in DOMAIN summed :
          /\ IsPast(summed[k].year) /\ Cut!Performed(summed[k].year)
          /\ summed[k].data = summed[k].year
    /\ \A k, l \in DOMAIN summed : k < l => summed[k].year < summed[l].year
    /\ costs = YearsOf(summed)
    /\ \A z \in Years : Cut!Performed(z) /\ IsPast(z) =>
          \E k \in DOMAIN summed : summed[k].year = z

\* The slots past those allocated are never written.
BlankInv ==
    Cut!StudyKnowsRefreshes =>
        \A n \in 0 .. NbYears : n >= maxNbYearsPerformed => slots[n] = BlankSlot

LoopInv ==
    /\ TypeOK
    /\ JobsInv
    /\ DrawnInv
    /\ NumbersInv
    /\ FlagInv
    /\ SpacesInv
    /\ SeriesInv
    /\ InputInv
    /\ LevelInv
    /\ SumInv
    /\ BlankInv

IInv == IF pc = "built" THEN LoopInv ELSE Idle

-----------------------------------------------------------------------------
(* When the sets have been built, the loop is about to start. *)

LEMMA YearsAreNats == NbYears \in Nat \ {0} /\ \A z \in Years : z \in Nat /\ z < NbYears
BY CutAssumption DEF CP!ParallelYearsAssumption, Years, Cut!Years

LEMMA NoneBefore == LastPerformedBefore(1) = {}
BY DEF LastPerformedBefore

LEMMA IdleTypeOK == Idle /\ (pc = "built" => Laid) => TypeOK
<1> SUFFICES ASSUME Idle, pc = "built" => Laid PROVE TypeOK
  OBVIOUS
<1>1. Blank \in Stored /\ Unused \in Stored /\ series \in Series
  BY DEF Idle, Stored, Series
<1>2. BlankSlot \in Slot
  BY <1>1 DEF BlankSlot, Slot
<1>3. /\ input \in [Years -> [thermal : Stored, costs : Stored, level : Stored,
                              series : Series]]
      /\ spaces \in [Years -> [year : Stored, finalLevel : Stored]]
  BY <1>1 DEF Idle
<1>4. /\ summed \in Seq([year : Years, data : Stored]) /\ costs \in Seq(Stored)
      /\ DOMAIN yearNumberToIndex = {}
  BY DEF Idle
<1>5. job \in [Years -> {"none", "queued", "running", "ok", "failed", "threw", "skipped"}]
  BY DEF Idle
<1>6. pos \in 1 .. NbYears + 1 /\ indexYear \in 0 .. NbYears /\ drawn \in 0 .. NbYears
  BY YearsAreNats DEF Idle
<1>7. cur \in 1 .. (IF pc = "built" THEN Len(sets) ELSE 1)
  BY DEF Idle, Laid
<1>8. /\ loop = "refresh" /\ firstSetRun = FALSE
      /\ slots = [n \in 0 .. NbYears |-> BlankSlot]
  BY DEF Idle
<1> QED BY <1>1, <1>2, <1>3, <1>4, <1>5, <1>6, <1>7, <1>8 DEF TypeOK

LEMMA IdleStarts == Given /\ Idle /\ pc = "built" => LoopInv
<1> SUFFICES ASSUME Given, Idle, pc = "built" PROVE LoopInv
  OBVIOUS
<1>1. /\ Laid /\ 1 \in 1 .. Len(sets) /\ First(1) = 0 /\ NbYears \in Nat \ {0}
      /\ \A z \in Years : z \in Nat
  <2>1. Laid
    BY DEF Given
  <2>2. Len(sets) \in Nat \ {0} /\ First(1) = 0
    BY <2>1 DEF Laid
  <2>3. 1 \in 1 .. Len(sets)
    BY <2>2
  <2> QED BY <2>1, <2>2, <2>3, YearsAreNats
<1>2. /\ loop = "refresh" /\ cur = 1 /\ drawn = 0 /\ summed = <<>> /\ costs = <<>>
      /\ \A z \in Years : job[z] = "none"
      /\ firstSetRun = FALSE
      /\ slots = [n \in 0 .. NbYears |-> BlankSlot]
  BY DEF Idle
<1>3. TypeOK
  BY <1>1, IdleTypeOK
<1>4. JobsInv
  BY <1>1, <1>2 DEF JobsInv, Started
<1>5. DrawnInv /\ NumbersInv
  BY <1>1, <1>2 DEF DrawnInv, NumbersInv
<1>6. FlagInv
  BY <1>2, NoneBefore DEF FlagInv
<1>7. SpacesInv
  <2>1. \A k \in 1 .. Len(Perf(1)) : job[Perf(1)[k]] # "ok"
    BY <1>1, <1>2, RankOfPerformed
  <2> QED BY <1>2, <2>1, NoneBefore DEF SpacesInv
<1>8. SeriesInv
  BY <1>2 DEF SeriesInv
<1>9. InputInv
  BY <1>2 DEF InputInv, Started
<1>10. LevelInv
  <2>1. \A i \in 1 .. Len(sets) : \A k \in 1 .. Len(Perf(i)) : ~Started(Perf(i)[k])
    BY <1>1, <1>2, RankOfPerformed DEF Started
  <2> QED BY <2>1 DEF LevelInv
<1>11. SumInv
  <2>1. DOMAIN summed = {} /\ YearsOf(summed) = <<>>
    BY <1>2 DEF YearsOf
  <2>2. \A z \in Years : ~IsPast(z)
    BY <1>1, <1>2 DEF IsPast
  <2> QED BY <1>2, <2>1, <2>2 DEF SumInv
<1>12. BlankInv
  BY <1>2 DEF BlankInv
<1> QED BY <1>3, <1>4, <1>5, <1>6, <1>7, <1>8, <1>9, <1>10, <1>11, <1>12 DEF LoopInv

-----------------------------------------------------------------------------
(* The steps of the loop. *)

\* The sets and the settings are never changed by the loop.
LEMMA Kept ==
    UNCHANGED cutVars =>
        /\ sets' = sets /\ conf' = conf /\ pc' = pc
        /\ maxNbYearsInParallel' = maxNbYearsInParallel
        /\ maxNbYearsPerformed' = maxNbYearsPerformed
        /\ allSetsHaveSameSize' = allSetsHaveSameSize
        /\ \A i : First(i)' = First(i) /\ End(i)' = End(i) /\ Perf(i)' = Perf(i)
        /\ \A i, z : Holds(i, z)' <=> Holds(i, z)
        /\ \A z : Cut!Performed(z)' <=> Cut!Performed(z)
        /\ \A i : LastPerformedBefore(i)' = LastPerformedBefore(i)
        /\ Generated' = Generated
        /\ \A g : Interval(g)' = Interval(g)
        /\ \A z, g : Period(z, g)' = Period(z, g)
        /\ Cut!StudyKnowsRefreshes' <=> Cut!StudyKnowsRefreshes
        /\ Cut!HotStartAccepted' <=> Cut!HotStartAccepted
<1> SUFFICES ASSUME UNCHANGED cutVars
             PROVE  /\ sets' = sets /\ conf' = conf /\ pc' = pc
                    /\ maxNbYearsInParallel' = maxNbYearsInParallel
                    /\ maxNbYearsPerformed' = maxNbYearsPerformed
                    /\ allSetsHaveSameSize' = allSetsHaveSameSize
                    /\ \A i : First(i)' = First(i) /\ End(i)' = End(i) /\ Perf(i)' = Perf(i)
                    /\ \A i, z : Holds(i, z)' <=> Holds(i, z)
                    /\ \A z : Cut!Performed(z)' <=> Cut!Performed(z)
                    /\ \A i : LastPerformedBefore(i)' = LastPerformedBefore(i)
                    /\ Generated' = Generated
                    /\ \A g : Interval(g)' = Interval(g)
                    /\ \A z, g : Period(z, g)' = Period(z, g)
                    /\ Cut!StudyKnowsRefreshes' <=> Cut!StudyKnowsRefreshes
                    /\ Cut!HotStartAccepted' <=> Cut!HotStartAccepted
  OBVIOUS
<1>1. /\ sets' = sets /\ conf' = conf /\ pc' = pc
      /\ maxNbYearsInParallel' = maxNbYearsInParallel
      /\ maxNbYearsPerformed' = maxNbYearsPerformed
      /\ allSetsHaveSameSize' = allSetsHaveSameSize
  BY DEF cutVars
<1>2. /\ \A i : First(i)' = First(i) /\ End(i)' = End(i) /\ Perf(i)' = Perf(i)
      /\ \A i, z : Holds(i, z)' <=> Holds(i, z)
      /\ \A z : Cut!Performed(z)' <=> Cut!Performed(z)
  BY <1>1 DEF First, End, Perf, Holds, Cut!Performed
<1>3. \A i : LastPerformedBefore(i)' = LastPerformedBefore(i)
  BY <1>1 DEF LastPerformedBefore
<1>4. /\ Generated' = Generated
      /\ \A g : Interval(g)' = Interval(g)
      /\ \A z, g : Period(z, g)' = Period(z, g)
  BY <1>1 DEF Generated, Interval, Period, Cut!SolverKinds
<1>5. /\ Cut!StudyKnowsRefreshes' <=> Cut!StudyKnowsRefreshes
      /\ Cut!HotStartAccepted' <=> Cut!HotStartAccepted
  BY <1>1 DEF Cut!StudyKnowsRefreshes, Cut!HotStartAccepted
<1> QED BY <1>1, <1>2, <1>3, <1>4, <1>5

LEMMA CrashInv == Given /\ LoopInv /\ Crash /\ UNCHANGED cutVars => LoopInv'
<1> SUFFICES ASSUME Given, LoopInv, Crash, UNCHANGED cutVars PROVE LoopInv'
  OBVIOUS
<1>1. /\ loop = "refresh" /\ loop' = "crashed" /\ cur' = cur
      /\ UNCHANGED <<series, randomVars, firstSetRun, job, spaces, input, summed, costs>>
      /\ UNCHANGED <<pos, indexYear, drawn, slots, yearNumberToIndex>>
  BY DEF Crash, AtSet, randomVars
<1>2. TypeOK'
  BY <1>1, Kept DEF LoopInv, TypeOK, Slot, Stored, Series
<1>3. JobsInv'
  BY <1>1, Kept DEF LoopInv, JobsInv, Started
<1>4. DrawnInv' /\ NumbersInv'
  BY <1>1, Kept DEF LoopInv, DrawnInv, NumbersInv
<1>5. FlagInv' /\ SpacesInv'
  BY <1>1, Kept DEF LoopInv, FlagInv, SpacesInv
<1>6. SeriesInv'
  BY <1>1, Kept DEF LoopInv, SeriesInv
<1>7. InputInv'
  BY <1>1, Kept DEF LoopInv, InputInv, Started
<1>8. LevelInv'
  BY <1>1, Kept DEF LoopInv, LevelInv, Started
<1>9. SumInv'
  BY <1>1, Kept DEF LoopInv, SumInv, IsPast, YearsOf
<1>10. BlankInv'
  BY <1>1, Kept DEF LoopInv, BlankInv
<1> QED BY <1>2, <1>3, <1>4, <1>5, <1>6, <1>7, <1>8, <1>9, <1>10 DEF LoopInv

\* The current set.
LEMMA Current ==
    ASSUME Given, LoopInv, pc = "built"
    PROVE  /\ Laid /\ cur \in 1 .. Len(sets) /\ Set = sets[cur] /\ Set.performed = Perf(cur)
           /\ First(cur) \in Nat /\ End(cur) \in Nat /\ First(cur) < End(cur)
           /\ End(cur) <= NbYears
           /\ Perf(cur) \in Seq(Years) /\ Len(Perf(cur)) \in Nat
           /\ DOMAIN Perf(cur) = 1 .. Len(Perf(cur))
           /\ Len(Perf(cur)) <= NbYears
           /\ \A z \in Years : InSet(Set, z) <=> Holds(cur, z)
           /\ \A z \in Years : z < First(cur) \/ Holds(cur, z) \/ End(cur) <= z
<1>1. Laid /\ cur \in 1 .. Len(sets) /\ Set = sets[cur] /\ Set.performed = Perf(cur)
  BY DEF Given, LoopInv, TypeOK, Set, Perf
<1>2. /\ First(cur) \in Nat /\ End(cur) \in Nat /\ First(cur) < End(cur)
      /\ End(cur) <= NbYears
      /\ Perf(cur) \in Seq(Years) /\ Len(Perf(cur)) <= NbYears
  BY <1>1 DEF Laid
<1>3. \A z \in Years : InSet(Set, z) <=> Holds(cur, z)
  BY <1>1, YearsOfSet
<1>4. \A z \in Years : z < First(cur) \/ Holds(cur, z) \/ End(cur) <= z
  BY <1>2, YearsAreNats DEF Holds
<1> QED BY <1>1, <1>2, <1>3, <1>4, YearsOfSequence

LEMMA AddJobsInv == Given /\ LoopInv /\ pc = "built" /\ AddJobs /\ UNCHANGED cutVars => LoopInv'
<1> SUFFICES ASSUME Given, LoopInv, pc = "built", AddJobs, UNCHANGED cutVars PROVE LoopInv'
  OBVIOUS
<1>1. /\ loop = "draw" /\ loop' = "run" /\ cur' = cur
      /\ job' = [z \in Years |-> IF InSet(Set, z) THEN "queued" ELSE job[z]]
      /\ pos = Len(Set.years) + 1
      /\ UNCHANGED <<series, firstSetRun, spaces, input, summed, costs>>
      /\ UNCHANGED <<pos, indexYear, drawn, slots, yearNumberToIndex>>
  BY DEF AddJobs, AtSet, randomVars
<1>2. \A z \in Years : job'[z] = IF Holds(cur, z) THEN "queued" ELSE job[z]
  BY <1>1, Current
<1>3. \A z \in Years : Started(z)' => Started(z) /\ ~Holds(cur, z)
  BY <1>2 DEF Started
<1>4. TypeOK'
  BY <1>1, Kept DEF LoopInv, TypeOK, Slot, Stored, Series
<1>5. JobsInv'
  <2>1. ASSUME NEW z \in Years
        PROVE  /\ z < First(cur) => job'[z] \in {"ok", "skipped"}
               /\ End(cur) <= z => job'[z] = "none"
               /\ Holds(cur, z) => job'[z] = "queued"
               /\ Started(z)' => Cut!Performed(z)
               /\ job'[z] = "skipped" => ~Cut!Performed(z)
    <3>1. Holds(cur, z) => ~(z < First(cur)) /\ ~(End(cur) <= z)
      BY Current, YearsAreNats DEF Holds
    <3> QED BY <1>2, <1>3, <3>1 DEF LoopInv, JobsInv
  <2> QED BY <1>1, <2>1, Kept DEF JobsInv
<1>6. DrawnInv'
  <2>1. drawn = End(cur)
    BY <1>1, Current DEF LoopInv, DrawnInv, First, End
  <2> QED BY <1>1, <2>1, Kept DEF DrawnInv
<1>7. NumbersInv'
  BY <1>1, Kept DEF LoopInv, NumbersInv
<1>8. FlagInv'
  BY <1>1, Kept DEF LoopInv, FlagInv
<1>9. SpacesInv'
  <2>1. \A k \in 1 .. Len(Perf(cur)) :
           /\ job'[Perf(cur)[k]] = "queued" /\ job[Perf(cur)[k]] = "none"
           /\ ~Started(Perf(cur)[k])'
    <3>1. \A k \in 1 .. Len(Perf(cur)) :
             Perf(cur)[k] \in Years /\ Holds(cur, Perf(cur)[k])
      BY Current, RankOfPerformed
    <3> QED BY <1>1, <1>2, <3>1, Kept DEF LoopInv, JobsInv, Started
  <2> QED BY <1>1, <2>1, Kept DEF LoopInv, SpacesInv
<1>10. SeriesInv'
  BY <1>1, Kept DEF LoopInv, SeriesInv
<1>11. InputInv'
  BY <1>1, <1>3, Kept DEF LoopInv, InputInv
<1>12. LevelInv'
  <2>1. \A i \in 1 .. Len(sets) : \A k \in 1 .. Len(Perf(i)) :
           Started(Perf(i)[k])' => Started(Perf(i)[k])
    <3>1. \A i \in 1 .. Len(sets) : \A k \in 1 .. Len(Perf(i)) : Perf(i)[k] \in Years
      BY RankOfPerformed DEF Given
    <3> QED BY <1>3, <3>1, Kept DEF Started
  <2> QED BY <1>1, <2>1, Kept DEF LoopInv, LevelInv
<1>13. SumInv'
  BY <1>1, Kept DEF LoopInv, SumInv, IsPast, YearsOf
<1>14. BlankInv'
  BY <1>1, Kept DEF LoopInv, BlankInv
<1> QED BY <1>4, <1>5, <1>6, <1>7, <1>8, <1>9, <1>10, <1>11, <1>12, <1>13, <1>14 DEF LoopInv

LEMMA JoinInv == Given /\ LoopInv /\ pc = "built" /\ Join /\ UNCHANGED cutVars => LoopInv'
<1> SUFFICES ASSUME Given, LoopInv, pc = "built", Join, UNCHANGED cutVars PROVE LoopInv'
  OBVIOUS
<1>1. /\ loop = "run" /\ cur' = cur /\ loop' = (IF Threw \/ Failed THEN "fatal" ELSE "sum")
      /\ firstSetRun' = (firstSetRun \/ (Perf(cur) # <<>> /\ ~Threw))
      /\ UNCHANGED <<series, job, spaces, input, summed, costs>>
      /\ UNCHANGED <<pos, indexYear, drawn, slots, yearNumberToIndex>>
  BY Current, Zenon DEF Join, AfterJobs, AtSet, randomVars
<1>2. loop' \in {"fatal", "sum"} /\ (loop' = "sum" => ~Threw /\ ~Failed)
  BY <1>1
<1>3. ASSUME NEW z \in Years, Holds(cur, z)
      PROVE  /\ job[z] \notin {"queued", "running"}
             /\ loop' = "sum" => job[z] \in {"ok", "skipped"}
  <2>1. z \in ToSet(Set.years)
    BY <1>3, Current DEF InSet
  <2>2. /\ job[z] \notin {"queued", "running"}
        /\ loop' = "sum" => job[z] \notin {"threw", "failed"}
    BY <1>2, <2>1 DEF Join, AfterJobs, SetEnded, Threw, Failed
  <2> QED BY <1>1, <1>3, <2>2 DEF LoopInv, TypeOK, JobsInv
<1>4. TypeOK'
  <2>1. firstSetRun' \in BOOLEAN
    BY <1>1 DEF LoopInv, TypeOK
  <2> QED BY <1>1, <1>2, <2>1, Kept DEF LoopInv, TypeOK, Slot, Stored, Series
<1>5. JobsInv'
  <2>1. \A z \in Years : Started(z)' <=> Started(z)
    BY <1>1 DEF Started
  <2> QED BY <1>1, <1>2, <1>3, <2>1, Kept DEF LoopInv, JobsInv
<1>6. DrawnInv'
  BY <1>1, <1>2, Kept DEF LoopInv, DrawnInv
<1>7. NumbersInv'
  BY <1>2 DEF NumbersInv
<1>8. FlagInv'
  <2>1. loop' = "sum" => (firstSetRun' <=> firstSetRun \/ Perf(cur) # <<>>)
    BY <1>1, <1>2
  <2>2. firstSetRun <=> LastPerformedBefore(cur) # {}
    BY <1>1 DEF LoopInv, FlagInv
  <2> QED BY <1>1, <1>2, <2>1, <2>2, Kept DEF FlagInv
<1>9. SpacesInv'
  BY <1>1, <1>2, Kept DEF LoopInv, SpacesInv, Started
<1>10. SeriesInv'
  BY <1>1, <1>2, Kept DEF LoopInv, SeriesInv
<1>11. InputInv'
  BY <1>1, Kept DEF LoopInv, InputInv, Started
<1>12. LevelInv'
  BY <1>1, Kept DEF LoopInv, LevelInv, Started
<1>13. SumInv'
  BY <1>1, <1>2, Kept DEF LoopInv, SumInv, IsPast, YearsOf
<1>14. BlankInv'
  BY <1>1, Kept DEF LoopInv, BlankInv
<1> QED BY <1>4, <1>5, <1>6, <1>7, <1>8, <1>9, <1>10, <1>11, <1>12, <1>13, <1>14 DEF LoopInv

\* A year is queued or running while its set runs, and has a rank there if it is
\* performed.
LEMMA BusyYear ==
    ASSUME Given, LoopInv, pc = "built", NEW z \in Years, job[z] \in {"queued", "running"}
    PROVE  /\ loop = "run" /\ Holds(cur, z) /\ ~(z < First(cur)) /\ ~(End(cur) <= z)
           /\ Cut!Performed(z) => \E k \in 1 .. Len(Perf(cur)) : Perf(cur)[k] = z
<1>1. Holds(cur, z) /\ loop = "run"
  <2>1. Holds(cur, z)
    BY Current DEF LoopInv, JobsInv
  <2> QED BY <2>1 DEF LoopInv, JobsInv, TypeOK
<1>2. ~(z < First(cur)) /\ ~(End(cur) <= z)
  BY <1>1, Current, YearsAreNats DEF Holds
<1>3. Cut!Performed(z) => \E k \in 1 .. Len(Perf(cur)) : Perf(cur)[k] = z
  BY <1>1, Current DEF Laid, Holds
<1> QED BY <1>1, <1>2, <1>3

\* A year that ends without a result, or has nothing to do.
LEMMA IdleEnd ==
    ASSUME Given, LoopInv, pc = "built", UNCHANGED cutVars, NEW yr \in Years, NEW how,
           \/ job[yr] = "running" /\ how \in {"failed", "threw"}
           \/ job[yr] = "queued" /\ ~Cut!Performed(yr) /\ how = "skipped",
           job' = [job EXCEPT ![yr] = how],
           UNCHANGED <<loop, cur, series, randomVars, firstSetRun, spaces, input, summed, costs>>
    PROVE  LoopInv'
<1>1. /\ loop' = loop /\ cur' = cur
      /\ UNCHANGED <<series, firstSetRun, spaces, input, summed, costs>>
      /\ UNCHANGED <<pos, indexYear, drawn, slots, yearNumberToIndex>>
  BY DEF randomVars
<1>2. /\ \A z \in Years : job'[z] = IF z = yr THEN how ELSE job[z]
      /\ job' \in [Years -> {"none", "queued", "running", "ok", "failed", "threw", "skipped"}]
  BY DEF LoopInv, TypeOK
<1>3. loop = "run" /\ Holds(cur, yr) /\ ~(yr < First(cur)) /\ ~(End(cur) <= yr)
  BY BusyYear
<1>4. \A z \in Years : Started(z)' => Started(z)
  BY <1>2 DEF Started
<1>5. TypeOK'
  BY <1>1, <1>2, Kept DEF LoopInv, TypeOK, Slot, Stored, Series
<1>6. JobsInv'
  <2>1. ASSUME NEW z \in Years
        PROVE  /\ z < First(cur) => job'[z] \in {"ok", "skipped"}
               /\ End(cur) <= z => job'[z] = "none"
               /\ Holds(cur, z) => job'[z] # "none"
               /\ Started(z)' => Cut!Performed(z)
               /\ job'[z] = "skipped" => ~Cut!Performed(z)
    BY <1>2, <1>3, <1>4 DEF LoopInv, JobsInv
  <2> QED BY <1>1, <1>3, <2>1, Kept DEF JobsInv
<1>7. DrawnInv' /\ NumbersInv'
  BY <1>1, Kept DEF LoopInv, DrawnInv, NumbersInv
<1>8. FlagInv'
  BY <1>1, Kept DEF LoopInv, FlagInv
<1>9. SpacesInv'
  <2>1. \A k \in 1 .. Len(Perf(cur)) :
           /\ Started(Perf(cur)[k])' => Started(Perf(cur)[k])
           /\ job'[Perf(cur)[k]] = "ok" <=> job[Perf(cur)[k]] = "ok"
    <3>1. \A k \in 1 .. Len(Perf(cur)) : Perf(cur)[k] \in Years
      BY Current, RankOfPerformed
    <3> QED BY <1>1, <1>2, <1>4, <3>1, Kept DEF Started
  <2> QED BY <1>1, <1>3, <2>1, Kept DEF LoopInv, SpacesInv
<1>10. SeriesInv'
  BY <1>1, Kept DEF LoopInv, SeriesInv
<1>11. InputInv'
  BY <1>1, <1>4, Kept DEF LoopInv, InputInv
<1>12. LevelInv'
  <2>1. \A i \in 1 .. Len(sets) : \A k \in 1 .. Len(Perf(i)) :
           Started(Perf(i)[k])' => Started(Perf(i)[k])
    <3>1. \A i \in 1 .. Len(sets) : \A k \in 1 .. Len(Perf(i)) : Perf(i)[k] \in Years
      BY RankOfPerformed DEF Given
    <3> QED BY <1>4, <3>1, Kept DEF Started
  <2> QED BY <1>1, <2>1, Kept DEF LoopInv, LevelInv
<1>13. SumInv'
  BY <1>1, Kept DEF LoopInv, SumInv, IsPast, YearsOf
<1>14. BlankInv'
  BY <1>1, Kept DEF LoopInv, BlankInv
<1> QED BY <1>5, <1>6, <1>7, <1>8, <1>9, <1>10, <1>11, <1>12, <1>13, <1>14 DEF LoopInv

LEMMA YearSolvedInv ==
    ASSUME Given, LoopInv, pc = "built", UNCHANGED cutVars, NEW yr \in Years, YearSolved(yr)
    PROVE  LoopInv'
<1>1. /\ job[yr] = "running" /\ loop' = loop /\ cur' = cur
      /\ job' = [job EXCEPT ![yr] = "ok"]
      /\ spaces' = [spaces EXCEPT ![SpaceOf(yr)].finalLevel = IF conf.hotStart THEN yr ELSE @]
      /\ UNCHANGED <<series, firstSetRun, input, summed, costs>>
      /\ UNCHANGED <<pos, indexYear, drawn, slots, yearNumberToIndex>>
  BY DEF YearSolved, randomVars
<1>2. /\ \A z \in Years : job'[z] = IF z = yr THEN "ok" ELSE job[z]
      /\ job' \in [Years -> {"none", "queued", "running", "ok", "failed", "threw", "skipped"}]
  BY <1>1 DEF LoopInv, TypeOK
<1>3. /\ loop = "run" /\ Holds(cur, yr) /\ ~(yr < First(cur)) /\ ~(End(cur) <= yr)
      /\ Cut!Performed(yr)
      /\ \E k \in 1 .. Len(Perf(cur)) : Perf(cur)[k] = yr
  <2>1. Cut!Performed(yr)
    BY <1>1 DEF LoopInv, JobsInv, Started
  <2> QED BY <1>1, <2>1, BusyYear
<1>4. PICK r \in 1 .. Len(Perf(cur)) : Perf(cur)[r] = yr
  BY <1>3
<1>5. /\ SpaceOf(yr) = r - 1 /\ r - 1 \in Years
      /\ \A k \in 1 .. Len(Perf(cur)) : Perf(cur)[k] = yr => k = r
      /\ \A k \in 1 .. Len(Perf(cur)) : Perf(cur)[k] \in Years
  <2>1. r - 1 \in Years
    BY Current, YearsAreNats DEF Years, Cut!Years
  <2> QED BY <1>4, <2>1, Current, RankOfPerformed, RankIsUnique
<1>6. /\ spaces' \in [Years -> [year : Stored, finalLevel : Stored]]
      /\ \A n \in Years : spaces'[n].year = spaces[n].year
      /\ \A n \in Years : spaces'[n].finalLevel =
            IF conf.hotStart /\ n = r - 1 THEN yr ELSE spaces[n].finalLevel
  <2>1. spaces \in [Years -> [year : Stored, finalLevel : Stored]] /\ yr \in Stored
    BY DEF LoopInv, TypeOK, Stored
  <2>2. spaces' = [spaces EXCEPT ![r - 1].finalLevel = IF conf.hotStart THEN yr ELSE @]
    BY <1>1, <1>5
  <2> QED BY <1>5, <2>1, <2>2
<1>7. \A z \in Years : Started(z)' <=> Started(z)
  BY <1>1, <1>2 DEF Started
<1>8. TypeOK'
  BY <1>1, <1>2, <1>6, Kept DEF LoopInv, TypeOK, Slot, Stored, Series
<1>9. JobsInv'
  <2>1. ASSUME NEW z \in Years
        PROVE  /\ z < First(cur) => job'[z] \in {"ok", "skipped"}
               /\ End(cur) <= z => job'[z] = "none"
               /\ Holds(cur, z) => job'[z] # "none"
               /\ Started(z)' => Cut!Performed(z)
               /\ job'[z] = "skipped" => ~Cut!Performed(z)
    BY <1>2, <1>3, <1>7 DEF LoopInv, JobsInv
  <2> QED BY <1>1, <1>3, <2>1, Kept DEF JobsInv
<1>10. DrawnInv' /\ NumbersInv'
  BY <1>1, Kept DEF LoopInv, DrawnInv, NumbersInv
<1>11. FlagInv'
  BY <1>1, Kept DEF LoopInv, FlagInv
<1>12. SpacesInv'
  <2>1. \A k \in 1 .. Len(Perf(cur)) : k - 1 \in Years /\ (k - 1 = r - 1 <=> k = r)
    BY Current, YearsAreNats DEF Years, Cut!Years
  <2>2. \A k \in 1 .. Len(Perf(cur)) :
           /\ Started(Perf(cur)[k])' <=> Started(Perf(cur)[k])
           /\ job'[Perf(cur)[k]] = "ok" <=> job[Perf(cur)[k]] = "ok" \/ k = r
    BY <1>1, <1>2, <1>4, <1>5, <1>7, Kept DEF Started
  <2>3. \A k \in 1 .. Len(Perf(cur)) :
           Started(Perf(cur)[k])' => spaces'[k - 1].year = Perf(cur)[k]
    BY <1>3, <1>6, <2>1, <2>2 DEF LoopInv, SpacesInv
  <2>4. ASSUME conf.hotStart, NEW k \in 1 .. Len(Perf(cur)), job'[Perf(cur)[k]] = "ok"
        PROVE  spaces'[k - 1].finalLevel = Perf(cur)[k]
    BY <1>3, <1>4, <1>6, <2>1, <2>2, <2>4 DEF LoopInv, SpacesInv
  <2>5. ASSUME conf.hotStart, NEW h \in LastPerformedBefore(cur), NEW k \in 1 .. Len(Perf(h)),
               k \in 1 .. Len(Perf(cur)) => job'[Perf(cur)[k]] # "ok"
        PROVE  spaces'[k - 1].finalLevel = Perf(h)[k]
    <3>1. k # r /\ (k \in 1 .. Len(Perf(cur)) => job[Perf(cur)[k]] # "ok")
      BY <2>2, <2>5
    <3>2. spaces[k - 1].finalLevel = Perf(h)[k]
      BY <1>3, <2>5, <3>1 DEF LoopInv, SpacesInv
    <3>3. k - 1 \in Years /\ k - 1 # r - 1
      <4>1. h \in 1 .. Len(sets)
        BY Current DEF LastPerformedBefore, Laid
      <4>2. Perf(h) \in Seq(Years) /\ Len(Perf(h)) <= NbYears
        BY <4>1, Current DEF Laid
      <4>3. Len(Perf(h)) \in Nat
        BY <4>2
      <4> QED BY <3>1, <4>2, <4>3, YearsAreNats DEF Years, Cut!Years
    <3> QED BY <1>6, <3>2, <3>3
  <2> QED BY <1>1, <1>3, <2>3, <2>4, <2>5, Kept DEF SpacesInv
<1>13. SeriesInv'
  BY <1>1, Kept DEF LoopInv, SeriesInv
<1>14. InputInv'
  BY <1>1, <1>7, Kept DEF LoopInv, InputInv
<1>15. LevelInv'
  <2>1. \A i \in 1 .. Len(sets) : \A k \in 1 .. Len(Perf(i)) :
           Started(Perf(i)[k])' => Started(Perf(i)[k])
    <3>1. \A i \in 1 .. Len(sets) : \A k \in 1 .. Len(Perf(i)) : Perf(i)[k] \in Years
      BY RankOfPerformed DEF Given
    <3> QED BY <1>7, <3>1, Kept DEF Started
  <2> QED BY <1>1, <2>1, Kept DEF LoopInv, LevelInv
<1>16. SumInv'
  BY <1>1, Kept DEF LoopInv, SumInv, IsPast, YearsOf
<1>17. BlankInv'
  BY <1>1, Kept DEF LoopInv, BlankInv
<1> QED BY <1>8, <1>9, <1>10, <1>11, <1>12, <1>13, <1>14, <1>15, <1>16, <1>17 DEF LoopInv

LEMMA StartYearInv ==
    ASSUME Given, LoopInv, pc = "built", UNCHANGED cutVars, NEW yr \in Years, StartYear(yr)
    PROVE  LoopInv'
<1> DEFINE given == [ thermal |-> slots[yearNumberToIndex[yr]].thermal,
                      costs   |-> slots[yearNumberToIndex[yr]].costs,
                      level   |-> StartLevel(yr),
                      series  |-> series ]
<1>1. /\ loop = "run" /\ job[yr] = "queued" /\ loop' = loop /\ cur' = cur
      /\ Cut!Performed(yr)
      /\ job' = [job EXCEPT ![yr] = "running"]
      /\ input' = [input EXCEPT ![yr] = given]
      /\ spaces' = [spaces EXCEPT ![SpaceOf(yr)].year = yr]
      /\ UNCHANGED <<series, firstSetRun, summed, costs>>
      /\ UNCHANGED <<pos, indexYear, drawn, slots, yearNumberToIndex>>
  BY DEF StartYear, AtSet, randomVars
<1>2. /\ \A z \in Years : job'[z] = IF z = yr THEN "running" ELSE job[z]
      /\ job' \in [Years -> {"none", "queued", "running", "ok", "failed", "threw", "skipped"}]
  BY <1>1 DEF LoopInv, TypeOK
<1>3. /\ Holds(cur, yr) /\ ~(yr < First(cur)) /\ ~(End(cur) <= yr)
      /\ \E k \in 1 .. Len(Perf(cur)) : Perf(cur)[k] = yr
  BY <1>1, BusyYear
<1>4. PICK r \in 1 .. Len(Perf(cur)) : Perf(cur)[r] = yr
  BY <1>3
<1>5. /\ SpaceOf(yr) = r - 1 /\ r - 1 \in Years /\ r - 1 \in 0 .. NbYears
      /\ \A k \in 1 .. Len(Perf(cur)) : Perf(cur)[k] = yr => k = r
      /\ \A k \in 1 .. Len(Perf(cur)) : Perf(cur)[k] \in Years
  <2>1. r - 1 \in Years /\ r - 1 \in 0 .. NbYears
    BY Current, YearsAreNats DEF Years, Cut!Years
  <2> QED BY <1>4, <2>1, Current, RankOfPerformed, RankIsUnique
<1>6. /\ spaces' \in [Years -> [year : Stored, finalLevel : Stored]]
      /\ \A n \in Years : spaces'[n].finalLevel = spaces[n].finalLevel
      /\ \A n \in Years : spaces'[n].year = IF n = r - 1 THEN yr ELSE spaces[n].year
  <2>1. spaces \in [Years -> [year : Stored, finalLevel : Stored]] /\ yr \in Stored
    BY DEF LoopInv, TypeOK, Stored
  <2>2. spaces' = [spaces EXCEPT ![r - 1].year = yr]
    BY <1>1, <1>5
  <2> QED BY <1>5, <2>1, <2>2
\* What it is given.
<1>7. /\ yearNumberToIndex[yr] = r - 1
      /\ slots[r - 1].thermal = yr /\ slots[r - 1].costs = yr
      /\ ~(conf.hotStart /\ firstSetRun) => slots[r - 1].level = yr
  <2>1. yr < drawn
    BY <1>1, <1>3, Current, YearsAreNats DEF LoopInv, DrawnInv, Holds
  <2> QED BY <1>1, <1>4, <2>1 DEF LoopInv, NumbersInv
<1>8. /\ given.thermal = yr /\ given.costs = yr /\ given.series = series
      /\ given.level = IF conf.hotStart /\ firstSetRun THEN spaces[r - 1].finalLevel
                                                       ELSE slots[r - 1].level
  BY <1>5, <1>7 DEF StartLevel
<1>9. given \in [thermal : Stored, costs : Stored, level : Stored, series : Series]
  <2>1. /\ slots[r - 1] \in [thermal : Stored, costs : Stored, level : Stored]
        /\ spaces[r - 1] \in [year : Stored, finalLevel : Stored]
        /\ series \in Series
    BY <1>5 DEF LoopInv, TypeOK, Slot
  <2>2. StartLevel(yr) \in Stored
    BY <1>5, <1>7, <2>1 DEF StartLevel
  <2> QED BY <1>7, <2>1, <2>2
<1> HIDE DEF given
<1>10. /\ input' \in [Years -> [thermal : Stored, costs : Stored, level : Stored, series : Series]]
       /\ \A z \in Years : input'[z] = IF z = yr THEN given ELSE input[z]
  BY <1>1, <1>9 DEF LoopInv, TypeOK
<1>11. \A z \in Years : Started(z)' <=> Started(z) \/ z = yr
  BY <1>1, <1>2 DEF Started
<1>12. TypeOK'
  BY <1>1, <1>2, <1>6, <1>10, Kept DEF LoopInv, TypeOK, Slot, Stored, Series
<1>13. JobsInv'
  <2>1. ASSUME NEW z \in Years
        PROVE  /\ z < First(cur) => job'[z] \in {"ok", "skipped"}
               /\ End(cur) <= z => job'[z] = "none"
               /\ Holds(cur, z) => job'[z] # "none"
               /\ Started(z)' => Cut!Performed(z)
               /\ job'[z] = "skipped" => ~Cut!Performed(z)
    BY <1>1, <1>2, <1>3, <1>11 DEF LoopInv, JobsInv
  <2> QED BY <1>1, <2>1, Kept DEF JobsInv
<1>14. DrawnInv' /\ NumbersInv'
  BY <1>1, Kept DEF LoopInv, DrawnInv, NumbersInv
<1>15. FlagInv'
  BY <1>1, Kept DEF LoopInv, FlagInv
<1>16. SpacesInv'
  <2>1. \A k \in 1 .. Len(Perf(cur)) : k - 1 \in Years /\ (k - 1 = r - 1 <=> k = r)
    BY Current, YearsAreNats DEF Years, Cut!Years
  <2>2. \A k \in 1 .. Len(Perf(cur)) :
           /\ Started(Perf(cur)[k])' <=> Started(Perf(cur)[k]) \/ k = r
           /\ job'[Perf(cur)[k]] = "ok" <=> job[Perf(cur)[k]] = "ok"
    BY <1>1, <1>2, <1>4, <1>5, <1>11, Kept DEF Started
  <2>3. \A k \in 1 .. Len(Perf(cur)) :
           Started(Perf(cur)[k])' => spaces'[k - 1].year = Perf(cur)[k]
    BY <1>1, <1>4, <1>6, <2>1, <2>2 DEF LoopInv, SpacesInv
  <2>4. \A h \in LastPerformedBefore(cur) : \A k \in 1 .. Len(Perf(h)) : k - 1 \in Years
    <3>1. ASSUME NEW h \in LastPerformedBefore(cur)
          PROVE  Len(Perf(h)) \in Nat /\ Len(Perf(h)) <= NbYears
      <4>1. h \in 1 .. Len(sets)
        BY Current DEF LastPerformedBefore, Laid
      <4> QED BY <4>1, Current DEF Laid
    <3> QED BY <3>1, YearsAreNats DEF Years, Cut!Years
  <2> QED BY <1>1, <1>6, <2>1, <2>2, <2>3, <2>4, Kept DEF LoopInv, SpacesInv
<1>17. SeriesInv'
  BY <1>1, Kept DEF LoopInv, SeriesInv
<1>18. InputInv'
  <2>1. \A g \in Generated : series[g] = Period(yr, g)
    BY <1>1, <1>3 DEF LoopInv, SeriesInv
  <2>2. ASSUME NEW z \in Years, Started(z)'
        PROVE  /\ input'[z].thermal = z /\ input'[z].costs = z
               /\ \A g \in Generated : input'[z].series[g] = Period(z, g)
    <3>1. CASE z = yr
      BY <1>8, <1>10, <2>1, <3>1
    <3>2. CASE z # yr
      BY <1>10, <1>11, <2>2, <3>2 DEF LoopInv, InputInv
    <3> QED BY <3>1, <3>2
  <2> QED BY <2>2, Kept DEF InputInv
<1>19. LevelInv'
  <2>1. ASSUME ~conf.hotStart \/ (Cut!HotStartAccepted /\ Cut!StudyKnowsRefreshes)
        PROVE  /\ LastPerformedBefore(cur) = {} \/ ~conf.hotStart => given.level = yr
               /\ conf.hotStart => \A h \in LastPerformedBefore(cur) : given.level = Perf(h)[r]
    <3>1. firstSetRun <=> LastPerformedBefore(cur) # {}
      BY <1>1 DEF LoopInv, FlagInv
    <3>2. LastPerformedBefore(cur) = {} \/ ~conf.hotStart => given.level = yr
      BY <1>7, <1>8, <3>1
    <3>3. ASSUME conf.hotStart, NEW h \in LastPerformedBefore(cur)
          PROVE  given.level = Perf(h)[r]
      <4>1. h \in 1 .. Len(sets) /\ Perf(h) # <<>>
        BY Current DEF LastPerformedBefore, Laid, Perf
      <4>2. Len(Perf(cur)) <= Len(Perf(h)) /\ Len(Perf(h)) \in Nat
        BY <2>1, <3>3, <4>1, Current DEF Given, Roomy, Laid
      <4>3. r \in 1 .. Len(Perf(h))
        BY <4>2, Current
      <4>4. spaces[r - 1].finalLevel = Perf(h)[r]
        BY <1>1, <1>4, <3>3, <4>3 DEF LoopInv, SpacesInv
      <4> QED BY <1>8, <3>1, <3>3, <4>4
    <3> QED BY <3>2, <3>3
  <2>2. ASSUME NEW i \in 1 .. Len(sets), NEW k \in 1 .. Len(Perf(i))
        PROVE  /\ Perf(i)[k] \in Years
               /\ Perf(i)[k] = yr => i = cur /\ k = r
               /\ Started(Perf(i)[k])' <=> Started(Perf(i)[k]) \/ Perf(i)[k] = yr
               /\ input'[Perf(i)[k]] = IF Perf(i)[k] = yr THEN given ELSE input[Perf(i)[k]]
    <3>1. Perf(i)[k] \in Years /\ Holds(i, Perf(i)[k])
      BY RankOfPerformed, Current
    <3>2. Perf(i)[k] = yr => i = cur
      BY <1>3, <3>1, Current, OneSetHolds
    <3>3. Perf(i)[k] = yr => i = cur /\ k = r
      BY <1>5, <3>2
    <3>4. Started(Perf(i)[k])' <=> Started(Perf(i)[k]) \/ Perf(i)[k] = yr
      BY <1>11, <3>1, Kept DEF Started
    <3> QED BY <1>10, <3>1, <3>3, <3>4
  <2>3. ASSUME ~conf.hotStart \/ (Cut!HotStartAccepted /\ Cut!StudyKnowsRefreshes),
               NEW i \in 1 .. Len(sets), NEW k \in 1 .. Len(Perf(i)), Started(Perf(i)[k])'
        PROVE  /\ LastPerformedBefore(i) = {} \/ ~conf.hotStart =>
                     input'[Perf(i)[k]].level = Perf(i)[k]
               /\ conf.hotStart => \A h \in LastPerformedBefore(i) :
                     input'[Perf(i)[k]].level = Perf(h)[k]
    <3>1. CASE Perf(i)[k] = yr
      BY <2>1, <2>2, <2>3, <3>1
    <3>2. CASE Perf(i)[k] # yr
      BY <2>2, <2>3, <3>2 DEF LoopInv, LevelInv
    <3> QED BY <3>1, <3>2
  <2> QED BY <2>3, Kept DEF LevelInv
<1>20. SumInv'
  BY <1>1, Kept DEF LoopInv, SumInv, IsPast, YearsOf
<1>21. BlankInv'
  BY <1>1, Kept DEF LoopInv, BlankInv
<1> QED
  BY <1>12, <1>13, <1>14, <1>15, <1>16, <1>17, <1>18, <1>19, <1>20, <1>21 DEF LoopInv

LEMMA DrawYearInv == Given /\ LoopInv /\ pc = "built" /\ DrawYear /\ UNCHANGED cutVars => LoopInv'
<1> SUFFICES ASSUME Given, LoopInv, pc = "built", DrawYear, UNCHANGED cutVars PROVE LoopInv'
  OBVIOUS
<1> DEFINE yr == Set.years[pos]
<1>1. /\ loop = "draw" /\ loop' = loop /\ cur' = cur /\ pos \in DOMAIN Set.years
      /\ drawn' = drawn + 1 /\ pos' = pos + 1
      /\ slots' = [slots EXCEPT ![indexYear] = Filled(@, Cut!Performed(yr))]
      /\ UNCHANGED <<series, firstSetRun, job, spaces, input, summed, costs>>
  BY DEF DrawYear, AtSet, NextDraw
<1>2. IF Cut!Performed(yr)
      THEN /\ yearNumberToIndex' = [z \in DOMAIN yearNumberToIndex \cup {yr} |->
                  IF z = yr THEN indexYear ELSE yearNumberToIndex[z]]
           /\ indexYear' = indexYear + 1
      ELSE yearNumberToIndex' = yearNumberToIndex /\ indexYear' = indexYear
  BY DEF DrawYear
<1>3. /\ pos \in 1 .. Len(sets[cur].years) /\ Len(sets[cur].years) \in Nat
      /\ Len(sets[cur].years) = End(cur) - First(cur)
      /\ yr = First(cur) + (pos - 1)
      /\ drawn = First(cur) + (pos - 1)
      /\ indexYear \in 0 .. Len(Perf(cur))
      /\ \A k \in 1 .. Len(Perf(cur)) : k <= indexYear <=> Perf(cur)[k] < drawn
  <2>1. /\ sets[cur].years \in Seq(Years)
        /\ \A k \in 1 .. Len(sets[cur].years) : sets[cur].years[k] = First(cur) + (k - 1)
    BY Current DEF Laid
  <2>2. /\ Len(sets[cur].years) \in Nat /\ DOMAIN sets[cur].years = 1 .. Len(sets[cur].years)
    BY <2>1
  <2>3. Len(sets[cur].years) = End(cur) - First(cur)
    BY <2>2, Current DEF End, First
  <2>4. pos \in 1 .. Len(sets[cur].years) /\ yr = First(cur) + (pos - 1)
    BY <1>1, <2>1, <2>2, Current
  <2> QED BY <1>1, <2>2, <2>3, <2>4 DEF LoopInv, DrawnInv
<1> HIDE DEF yr
<1>4. /\ yr = drawn /\ yr \in Nat /\ pos \in Nat /\ yr < NbYears /\ yr \in Years
      /\ indexYear \in Nat /\ Holds(cur, yr)
  <2>1. yr = drawn /\ yr \in Nat /\ pos \in Nat /\ First(cur) <= yr /\ yr < End(cur)
    BY <1>3, Current
  <2> QED BY <1>3, <2>1, Current, YearsAreNats DEF Holds, Years, Cut!Years
<1>5. \A k \in 1 .. Len(Perf(cur)) : Perf(cur)[k] \in Nat
  BY Current, RankOfPerformed
\* The rank of the year, if it is performed, is the next one.
<1>6. ASSUME Cut!Performed(yr)
      PROVE  /\ indexYear + 1 \in 1 .. Len(Perf(cur)) /\ Perf(cur)[indexYear + 1] = yr
  <2>1. PICK r \in 1 .. Len(Perf(cur)) : Perf(cur)[r] = yr
    BY <1>4, <1>6, Current DEF Laid, Holds
  <2>2. ~(r <= indexYear)
    BY <1>3, <1>4, <2>1
  <2>3. CASE r = indexYear + 1
    BY <2>1, <2>3
  <2>4. CASE r # indexYear + 1
    <3>1. indexYear + 1 \in 1 .. Len(Perf(cur)) /\ indexYear + 1 < r
      BY <1>4, <2>1, <2>2, <2>4, Current
    <3>2. Perf(cur)[indexYear + 1] < Perf(cur)[r]
      BY <2>1, <3>1, Current DEF Laid
    <3>3. indexYear + 1 <= indexYear
      BY <1>3, <1>4, <2>1, <3>1, <3>2
    <3> QED BY <1>4, <3>3
  <2> QED BY <2>3, <2>4
<1>7. ASSUME ~Cut!Performed(yr)
      PROVE  \A k \in 1 .. Len(Perf(cur)) : Perf(cur)[k] # yr
  BY <1>7, Current, RankOfPerformed
<1>8. indexYear' \in 0 .. Len(Perf(cur))
  BY <1>2, <1>3, <1>4, <1>6, Current
<1>9. \A k \in 1 .. Len(Perf(cur)) : k <= indexYear' <=> Perf(cur)[k] < drawn'
  <2>1. CASE Cut!Performed(yr)
    <3>1. ASSUME NEW k \in 1 .. Len(Perf(cur)) PROVE k <= indexYear + 1 <=> Perf(cur)[k] < drawn + 1
      <4>1. /\ k < indexYear + 1 => Perf(cur)[k] < yr
            /\ indexYear + 1 < k => yr < Perf(cur)[k]
        BY <1>6, <2>1, Current DEF Laid
      <4>2. k = indexYear + 1 => Perf(cur)[k] = yr
        BY <1>6, <2>1
      <4>3. k \in Nat /\ Perf(cur)[k] \in Nat
        BY <1>5
      <4> QED BY <1>4, <4>1, <4>2, <4>3
    <3> QED BY <1>1, <1>2, <2>1, <3>1
  <2>2. CASE ~Cut!Performed(yr)
    <3>1. \A k \in 1 .. Len(Perf(cur)) : Perf(cur)[k] < drawn <=> Perf(cur)[k] < drawn + 1
      BY <1>4, <1>5, <1>7, <2>2
    <3> QED BY <1>1, <1>2, <1>3, <2>2, <3>1
  <2> QED BY <2>1, <2>2
\* What is stored.
<1>10. /\ indexYear \in 0 .. NbYears /\ slots[indexYear] \in Slot
       /\ Filled(slots[indexYear], Cut!Performed(yr)) \in Slot
  <2>1. indexYear \in 0 .. NbYears
    BY <1>3, Current, YearsAreNats
  <2>2. slots[indexYear] \in Slot
    BY <2>1 DEF LoopInv, TypeOK
  <2>3. drawn \in Stored /\ Unused \in Stored
    BY <1>4 DEF Stored
  <2> QED BY <2>1, <2>2, <2>3 DEF Filled, Slot
<1>11. /\ slots' \in [0 .. NbYears -> Slot]
       /\ slots'[indexYear] = Filled(slots[indexYear], Cut!Performed(yr))
       /\ \A n \in 0 .. NbYears : n # indexYear => slots'[n] = slots[n]
  BY <1>1, <1>10 DEF LoopInv, TypeOK
<1>12. Cut!Performed(yr) =>
          /\ slots'[indexYear].thermal = yr /\ slots'[indexYear].costs = yr
          /\ ~(conf.hotStart /\ firstSetRun) => slots'[indexYear].level = yr
  BY <1>4, <1>11 DEF Filled
<1>13. TypeOK'
  <2>1. \A z \in DOMAIN yearNumberToIndex' :
           z \in Years /\ yearNumberToIndex'[z] \in 0 .. NbYears
    <3>1. \A z \in DOMAIN yearNumberToIndex :
             z \in Years /\ yearNumberToIndex[z] \in 0 .. NbYears
      BY DEF LoopInv, TypeOK
    <3>2. CASE Cut!Performed(yr)
      BY <1>2, <1>4, <1>10, <3>1, <3>2
    <3>3. CASE ~Cut!Performed(yr)
      BY <1>2, <3>1, <3>3
    <3> QED BY <3>2, <3>3
  <2>2. pos' \in 1 .. NbYears + 1 /\ indexYear' \in 0 .. NbYears /\ drawn' \in 0 .. NbYears
    <3>1. pos' \in 1 .. NbYears + 1
      <4>1. pos <= NbYears /\ pos' = pos + 1 /\ NbYears \in Nat
        BY <1>1, <1>3, <1>4, Current, YearsAreNats
      <4> QED BY <1>4, <4>1
    <3>2. indexYear' \in 0 .. NbYears
      BY <1>8, Current, YearsAreNats
    <3>3. drawn' \in 0 .. NbYears
      BY <1>1, <1>4, YearsAreNats
    <3> QED BY <3>1, <3>2, <3>3
  <2> QED BY <1>1, <1>11, <2>1, <2>2, Kept DEF LoopInv, TypeOK, Slot, Stored, Series
<1>14. JobsInv'
  BY <1>1, Kept DEF LoopInv, JobsInv, Started
<1>15. DrawnInv'
  <2>1. /\ pos' \in 1 .. Len(sets[cur].years) + 1
        /\ drawn' = First(cur) + (pos' - 1)
    <3>1. /\ pos' = pos + 1 /\ drawn' = drawn + 1 /\ drawn = First(cur) + (pos - 1)
          /\ First(cur) \in Nat /\ pos \in 1 .. Len(sets[cur].years)
          /\ Len(sets[cur].years) \in Nat
      BY <1>1, <1>3, Current
    <3> QED BY <3>1
  <2> QED BY <1>1, <1>8, <1>9, <2>1, Kept DEF DrawnInv
<1>16. NumbersInv'
  <2>1. ASSUME NEW k \in 1 .. Len(Perf(cur)), Perf(cur)[k] < drawn'
        PROVE  /\ Perf(cur)[k] \in DOMAIN yearNumberToIndex'
               /\ yearNumberToIndex'[Perf(cur)[k]] = k - 1
               /\ slots'[k - 1].thermal = Perf(cur)[k]
               /\ slots'[k - 1].costs = Perf(cur)[k]
               /\ ~(conf.hotStart /\ firstSetRun) => slots'[k - 1].level = Perf(cur)[k]
    <3>1. k <= indexYear'
      BY <1>9, <2>1
    <3>2. CASE k <= indexYear
      <4>1. /\ Perf(cur)[k] \in DOMAIN yearNumberToIndex
            /\ yearNumberToIndex[Perf(cur)[k]] = k - 1
            /\ slots[k - 1].thermal = Perf(cur)[k]
            /\ slots[k - 1].costs = Perf(cur)[k]
            /\ ~(conf.hotStart /\ firstSetRun) => slots[k - 1].level = Perf(cur)[k]
        BY <1>1, <1>3, <3>2 DEF LoopInv, NumbersInv
      <4>2. slots'[k - 1] = slots[k - 1]
        <5>1. k - 1 \in 0 .. NbYears /\ k - 1 # indexYear
          BY <1>4, <3>2, Current, YearsAreNats
        <5> QED BY <1>11, <5>1
      <4>3. Perf(cur)[k] # yr
        BY <1>3, <1>4, <1>5, <3>2
      <4>4. /\ Perf(cur)[k] \in DOMAIN yearNumberToIndex'
            /\ yearNumberToIndex'[Perf(cur)[k]] = k - 1
        BY <1>2, <4>1, <4>3
      <4> QED BY <4>1, <4>2, <4>4
    <3>3. CASE ~(k <= indexYear)
      <4>1. Cut!Performed(yr) /\ k = indexYear + 1 /\ k - 1 = indexYear
        BY <1>2, <1>4, <3>1, <3>3
      <4>2. Perf(cur)[k] = yr
        BY <1>6, <4>1
      <4>3. yr \in DOMAIN yearNumberToIndex' /\ yearNumberToIndex'[yr] = indexYear
        BY <1>2, <4>1
      <4> QED BY <1>12, <4>1, <4>2, <4>3
    <3> QED BY <3>2, <3>3
  <2> QED BY <1>1, <2>1, Kept DEF NumbersInv
<1>17. FlagInv'
  BY <1>1, Kept DEF LoopInv, FlagInv
<1>18. SpacesInv'
  BY <1>1, Kept DEF LoopInv, SpacesInv, Started
<1>19. SeriesInv'
  BY <1>1, Kept DEF LoopInv, SeriesInv
<1>20. InputInv'
  BY <1>1, Kept DEF LoopInv, InputInv, Started
<1>21. LevelInv'
  BY <1>1, Kept DEF LoopInv, LevelInv, Started
<1>22. SumInv'
  BY <1>1, Kept DEF LoopInv, SumInv, IsPast, YearsOf
<1>23. BlankInv'
  <2>1. ASSUME Cut!StudyKnowsRefreshes PROVE indexYear < maxNbYearsPerformed
    <3>1. /\ maxNbYearsPerformed \in Nat /\ maxNbYearsPerformed # 0
          /\ Len(Perf(cur)) <= maxNbYearsPerformed
          /\ Len(Perf(cur)) = maxNbYearsPerformed => Perf(cur)[Len(Perf(cur))] = End(cur) - 1
      BY <2>1, Current DEF Given, Roomy
    <3>2. CASE Cut!Performed(yr)
      BY <1>4, <1>6, <3>1, <3>2, Current
    <3>3. CASE ~Cut!Performed(yr)
      <4>0. /\ indexYear \in Nat /\ indexYear <= Len(Perf(cur)) /\ Len(Perf(cur)) \in Nat
            /\ Len(Perf(cur)) <= maxNbYearsPerformed
            /\ maxNbYearsPerformed \in Nat /\ maxNbYearsPerformed # 0
        <5>1. Len(Perf(cur)) \in Nat
          BY Current
        <5>2. indexYear \in 0 .. Len(Perf(cur)) /\ indexYear \in Nat
          BY <1>3, <1>4
        <5> QED BY <3>1, <5>1, <5>2
      <4>1. SUFFICES ASSUME indexYear = maxNbYearsPerformed PROVE FALSE
        BY <4>0
      <4>2. Len(Perf(cur)) = indexYear /\ Len(Perf(cur)) \in 1 .. Len(Perf(cur))
        BY <4>0, <4>1
      <4>3. Perf(cur)[Len(Perf(cur))] < yr
        BY <1>3, <1>4, <4>2
      <4>4. Perf(cur)[Len(Perf(cur))] = End(cur) - 1
        BY <3>1, <4>1, <4>2
      <4> QED BY <1>4, <4>3, <4>4, Current DEF Holds
    <3> QED BY <3>2, <3>3
  <2>2. ASSUME Cut!StudyKnowsRefreshes, NEW n \in 0 .. NbYears, n >= maxNbYearsPerformed
        PROVE  slots'[n] = BlankSlot
    <3>1. n # indexYear
      BY <1>4, <2>1, <2>2 DEF Given, Roomy
    <3> QED BY <1>11, <2>2, <3>1 DEF LoopInv, BlankInv
  <2> QED BY <2>2, Kept DEF BlankInv, BlankSlot
<1> QED
  BY <1>13, <1>14, <1>15, <1>16, <1>17, <1>18, <1>19, <1>20, <1>21, <1>22, <1>23 DEF LoopInv

\* A remainder and a quotient are the only ones.
LEMMA SameRemainder ==
    ASSUME NEW n \in Nat \ {0}, NEW q \in Nat, NEW p \in Nat,
           NEW r \in 0 .. n - 1, NEW s \in 0 .. n - 1, n * q + r = n * p + s
    PROVE  r = s
<1>1. \A d \in Int : n * d < n /\ -n < n * d => d = 0
  OBVIOUS
<1>2. n * (q - p) = s - r
  OBVIOUS
<1> QED BY <1>1, <1>2

LEMMA Remainder ==
    ASSUME NEW z \in Nat, NEW n \in Nat \ {0}
    PROVE  z = n * (z \div n) + (z % n) /\ z % n \in 0 .. n - 1 /\ z \div n \in Nat
OBVIOUS

LEMMA StepWithinPeriod ==
    ASSUME NEW z \in Nat \ {0}, NEW n \in Nat \ {0}, z % n # 0
    PROVE  z - (z % n) = (z - 1) - ((z - 1) % n)
<1> DEFINE q == z \div n
           r == z % n
           p == (z - 1) \div n
           s == (z - 1) % n
<1>1. z = n * q + r /\ r \in 0 .. n - 1 /\ q \in Nat
  BY Remainder
<1>2. z - 1 = n * p + s /\ s \in 0 .. n - 1 /\ p \in Nat
  <2>1. z - 1 \in Nat
    OBVIOUS
  <2> QED BY <2>1, Remainder
<1>3. r # 0
  OBVIOUS
<1> HIDE DEF q, r, p, s
<1>4. n * q + (r - 1) = n * p + s /\ r - 1 \in 0 .. n - 1
  BY <1>1, <1>2, <1>3
<1>5. r - 1 = s
  BY <1>1, <1>2, <1>4, SameRemainder
<1>6. z - r = (z - 1) - s
  BY <1>1, <1>2, <1>5
<1> QED BY <1>6 DEF r, s

\* The kinds that the solver generates, and their intervals.
LEMMA SolverKindsRefresh ==
    ASSUME Laid
    PROVE  /\ \A k \in Cut!SolverKinds : k \in Kinds /\ k # Forced /\ conf.interval[k] \in Nat \ {0}
           /\ conf.interval[Thermal] \in Nat
<1>1. /\ conf.refreshed \in SUBSET Kinds /\ conf.interval \in [Kinds -> Nat]
      /\ \A k \in conf.refreshed : conf.interval[k] > 0
  BY DEF Laid, Cut!ConfigSpace
<1>2. Cut!SolverKinds \subseteq conf.refreshed
  BY DEF Cut!SolverKinds
<1>3. Thermal \in Kinds /\ Forced \notin Kinds
  BY YearLoopAssumption DEF Cut!ParallelYearsAssumption
<1> QED BY <1>1, <1>2, <1>3

\* A year that refreshes what is generated opens its set.
LEMMA GeneratedRefresh ==
    ASSUME Laid, NEW g \in Generated, NEW z, z % Interval(g) = 0
    PROVE  Cut!SolverRefreshing(z)
<1>1. CASE g = Forced
  BY <1>1, SolverKindsRefresh
  DEF Interval, Generated, Cut!SolverRefreshing, Cut!ForcedRefreshing
<1>2. CASE g # Forced
  BY <1>2 DEF Interval, Generated, Cut!SolverRefreshing, Cut!KindRefreshing
<1> QED BY <1>1, <1>2

\* The years of a set are in the same period.
LEMMA SamePeriod ==
    ASSUME Given, NEW i \in 1 .. Len(sets), NEW g \in Generated, Interval(g) \in Nat \ {0},
           NEW z \in Years, Holds(i, z)
    PROVE  Period(z, g) = Period(First(i), g)
<1> DEFINE S == {x \in Nat : First(i) <= x /\ x < End(i) /\ Period(x, g) # Period(First(i), g)}
<1>1. Laid /\ First(i) \in Nat /\ End(i) \in Nat /\ End(i) <= NbYears
  BY DEF Given, Laid
<1>2. z \in Nat /\ First(i) <= z /\ z < End(i)
  BY YearsAreNats DEF Holds
<1> SUFFICES ASSUME S # {} PROVE FALSE
  BY <1>2
<1>3. PICK x \in S : \A w \in S : x <= w
  BY CP!LeastOfNats, CutAssumption
<1>4. x \in Nat /\ First(i) < x /\ x < End(i) /\ Period(x, g) # Period(First(i), g)
  <2>1. x # First(i) /\ x \in Nat /\ First(i) <= x
    BY <1>3
  <2> QED BY <1>1, <1>3, <2>1
<1>5. ~(x - 1 \in S)
  BY <1>3, <1>4
<1>6. x - 1 \in Nat /\ First(i) <= x - 1 /\ x - 1 < End(i) /\ x \in Nat \ {0}
  BY <1>1, <1>4
<1>7. Period(x - 1, g) = Period(First(i), g)
  BY <1>5, <1>6
<1>8. x % Interval(g) # 0
  <2>1. x \in Years
    BY <1>1, <1>4, YearsAreNats DEF Years, Cut!Years
  <2>2. ~Cut!SolverRefreshing(x)
    BY <1>4, <2>1 DEF Given, Timely
  <2> QED BY <1>1, <2>2, GeneratedRefresh
<1>9. Period(x, g) = Period(x - 1, g)
  BY <1>6, <1>8, StepWithinPeriod DEF Period
<1> QED BY <1>4, <1>7, <1>9

LEMMA RefreshInv == Given /\ LoopInv /\ pc = "built" /\ Refresh /\ UNCHANGED cutVars => LoopInv'
<1> SUFFICES ASSUME Given, LoopInv, pc = "built", Refresh, UNCHANGED cutVars PROVE LoopInv'
  OBVIOUS
<1>1. /\ loop = "refresh" /\ loop' = "draw" /\ cur' = cur /\ pos' = 1 /\ indexYear' = 0
      /\ ~DividesByZero
      /\ series' = IF Set.regenerateTS THEN Regenerated(Set.yearForTSgeneration) ELSE series
      /\ UNCHANGED <<drawn, slots, yearNumberToIndex, firstSetRun, job, spaces, input, summed,
                     costs>>
  BY DEF Refresh, AtSet
<1>2. /\ Set.regenerateTS <=> Cut!SolverRefreshing(First(cur))
      /\ Set.regenerateTS => Set.yearForTSgeneration = First(cur)
  BY Current DEF Given, Timely
<1>3. First(cur) \in Years /\ First(cur) \in Nat
  BY Current, YearsAreNats DEF Years, Cut!Years
<1>4. drawn = First(cur)
  BY <1>1 DEF LoopInv, DrawnInv
<1>5. ASSUME NEW k \in 1 .. Len(Perf(cur)) PROVE ~(Perf(cur)[k] < drawn) /\ ~(k <= 0)
  <2>1. First(cur) <= Perf(cur)[k] /\ Perf(cur)[k] \in Nat
    BY Current, RankOfPerformed DEF Holds
  <2> QED BY <1>3, <1>4, <2>1
<1>6. ASSUME NEW g \in Generated PROVE Interval(g) \in Nat \ {0}
  <2>1. CASE cur > 1
    BY <2>1 DEF LoopInv, SeriesInv
  <2>2. CASE ~(cur > 1)
    <3>1. cur = 1 /\ First(cur) = 0
      BY <2>2, Current DEF Laid
    <3>2. CASE g # Forced
      BY <3>2, Current, SolverKindsRefresh DEF Interval, Generated
    <3>3. CASE g = Forced
      <4>1. conf.thermalForced /\ Interval(g) = conf.interval[Thermal]
        BY <3>3, Current, SolverKindsRefresh DEF Interval, Generated
      <4>2. Cut!KindRefreshing(0) => conf.interval[Thermal] # 0
        BY <1>1, <1>2, <3>1 DEF DividesByZero, Cut!SolverRefreshing
      <4>3. ~Cut!KindRefreshing(0) => conf.interval[Thermal] # 0
        BY <4>1 DEF Given, Timely, Cut!DividesByZero
      <4> QED BY <4>1, <4>2, <4>3, Current, SolverKindsRefresh
    <3> QED BY <3>2, <3>3
  <2> QED BY <2>1, <2>2
<1>7. series' \in Series /\ \A g \in Generated : g \in Kinds \cup {Forced}
  <2>1. \A g \in Generated : g \in Kinds \cup {Forced}
    BY Current, SolverKindsRefresh DEF Generated
  <2>2. series \in Series
    BY DEF LoopInv, TypeOK
  <2>3. First(cur) \in Stored
    BY <1>3 DEF Stored
  <2>4. Regenerated(First(cur)) \in Series
    BY <2>2, <2>3 DEF Regenerated, Series
  <2> QED BY <1>1, <1>2, <2>1, <2>2, <2>4
\* What is generated is of the period of the first year of the set.
<1>8. ASSUME NEW g \in Generated PROVE series'[g] = Period(First(cur), g)
  <2>1. Set.regenerateTS =>
           series'[g] = IF First(cur) % Interval(g) = 0 THEN First(cur) ELSE series[g]
    BY <1>1, <1>2, <1>7 DEF Regenerated
  <2>2. ~Set.regenerateTS => series'[g] = series[g] /\ First(cur) % Interval(g) # 0
    BY <1>1, <1>2, Current, GeneratedRefresh
  <2>3. CASE First(cur) % Interval(g) = 0
    BY <1>3, <2>1, <2>2, <2>3 DEF Period
  <2>4. CASE First(cur) % Interval(g) # 0
    <3>1. First(cur) # 0
      BY <1>6, <2>4
    <3>2. cur > 1
      BY <3>1, Current DEF Laid
    <3>3. series[g] = Period(First(cur) - 1, g)
      BY <1>1, <3>2 DEF LoopInv, SeriesInv
    <3>4. Period(First(cur), g) = Period(First(cur) - 1, g)
      BY <1>3, <1>6, <2>4, <3>1, StepWithinPeriod DEF Period
    <3> QED BY <2>1, <2>2, <2>4, <3>3, <3>4
  <2> QED BY <2>3, <2>4
<1>9. TypeOK'
  <2>1. pos' \in 1 .. NbYears + 1 /\ indexYear' \in 0 .. NbYears
    BY <1>1, YearsAreNats
  <2> QED BY <1>1, <1>7, <2>1, Kept DEF LoopInv, TypeOK, Slot, Stored, Series
<1>10. JobsInv'
  BY <1>1, Kept DEF LoopInv, JobsInv, Started
<1>11. DrawnInv'
  <2>1. pos' \in 1 .. Len(sets[cur].years) + 1 /\ drawn = First(cur) + (pos' - 1)
    <3>1. Len(sets[cur].years) \in Nat
      BY Current DEF Laid
    <3> QED BY <1>1, <1>3, <1>4, <3>1
  <2>2. indexYear' \in 0 .. Len(Perf(cur))
    BY <1>1, Current
  <2> QED BY <1>1, <1>5, <2>1, <2>2, Kept DEF DrawnInv
<1>12. NumbersInv'
  BY <1>1, <1>5, Kept DEF NumbersInv
<1>13. FlagInv' /\ SpacesInv'
  BY <1>1, Kept DEF LoopInv, FlagInv, SpacesInv
<1>14. SeriesInv'
  <2>1. \A g \in Generated : \A z \in Years : Holds(cur, z) => series'[g] = Period(z, g)
    BY <1>6, <1>8, Current, SamePeriod
  <2> QED BY <1>1, <1>6, <2>1, Kept DEF SeriesInv
<1>15. InputInv'
  BY <1>1, Kept DEF LoopInv, InputInv, Started
<1>16. LevelInv'
  BY <1>1, Kept DEF LoopInv, LevelInv, Started
<1>17. SumInv'
  BY <1>1, Kept DEF LoopInv, SumInv, IsPast, YearsOf
<1>18. BlankInv'
  BY <1>1, Kept DEF LoopInv, BlankInv
<1> QED
  BY <1>9, <1>10, <1>11, <1>12, <1>13, <1>14, <1>15, <1>16, <1>17, <1>18 DEF LoopInv

\* The last performed set before the next one is this one, unless it has no performed
\* year.
LEMMA LastPerformedNext ==
    ASSUME NEW i \in Nat \ {0}
    PROVE  LastPerformedBefore(i + 1) =
               IF Perf(i) # <<>> THEN {i} ELSE LastPerformedBefore(i)
<1>1. /\ (i + 1) - 1 = i /\ i \in 1 .. i /\ 1 .. i = (1 .. i - 1) \cup {i}
      /\ i + 1 .. i = {}
  OBVIOUS
<1>2. \A h \in 1 .. i - 1 : h # i /\ h + 1 .. i = (h + 1 .. i - 1) \cup {i}
  OBVIOUS
<1>3. LastPerformedBefore(i + 1) =
         {h \in 1 .. i : Perf(h) # <<>> /\ \A g \in h + 1 .. i : Perf(g) = <<>>}
  BY <1>1 DEF LastPerformedBefore, Perf
<1>4. LastPerformedBefore(i) =
         {h \in 1 .. i - 1 : Perf(h) # <<>> /\ \A g \in h + 1 .. i - 1 : Perf(g) = <<>>}
  BY DEF LastPerformedBefore, Perf
<1>5. CASE Perf(i) # <<>>
  <2>1. \A h \in 1 .. i - 1 : i \in h + 1 .. i
    OBVIOUS
  <2>2. \A h \in 1 .. i : h \in LastPerformedBefore(i + 1) <=> h = i
    BY <1>1, <1>3, <1>5, <2>1
  <2> QED BY <1>1, <1>3, <1>5, <2>2
<1>6. CASE Perf(i) = <<>>
  <2>1. \A h \in 1 .. i - 1 : h \in LastPerformedBefore(i + 1) <=> h \in LastPerformedBefore(i)
    BY <1>1, <1>2, <1>3, <1>4, <1>6
  <2>2. i \notin LastPerformedBefore(i + 1) /\ i \notin LastPerformedBefore(i)
    BY <1>2, <1>3, <1>4, <1>6
  <2> QED BY <1>1, <1>3, <1>4, <1>6, <2>1, <2>2
<1> QED BY <1>5, <1>6

\* When its set is summed up, a performed year is solved and its space holds it.
LEMMA SolvedAtSum ==
    ASSUME Given, LoopInv, pc = "built", loop = "sum", NEW k \in 1 .. Len(Perf(cur))
    PROVE  /\ Perf(cur)[k] \in Years /\ Holds(cur, Perf(cur)[k]) /\ Cut!Performed(Perf(cur)[k])
           /\ job[Perf(cur)[k]] = "ok" /\ SpaceOf(Perf(cur)[k]) = k - 1
           /\ spaces[k - 1].year = Perf(cur)[k]
<1>1. /\ Perf(cur)[k] \in Years /\ Holds(cur, Perf(cur)[k]) /\ Cut!Performed(Perf(cur)[k])
      /\ SpaceOf(Perf(cur)[k]) = k - 1
  BY Current, RankOfPerformed
<1>2. job[Perf(cur)[k]] = "ok"
  BY <1>1 DEF LoopInv, JobsInv
<1>3. spaces[k - 1].year = Perf(cur)[k]
  BY <1>2 DEF LoopInv, SpacesInv, Started
<1> QED BY <1>1, <1>2, <1>3

\* The elements of a sequence, and of a concatenation.
LEMMA Elements ==
    ASSUME NEW S, NEW s \in Seq(S)
    PROVE  s = [k \in DOMAIN s |-> s[k]] /\ \A k \in 1 .. Len(s) : s[k] \in S
<1>1. s \in [1 .. Len(s) -> S]
  OBVIOUS
<1> QED BY <1>1

LEMMA Joined ==
    ASSUME NEW S, NEW s \in Seq(S), NEW t \in Seq(S)
    PROVE  /\ s \o t \in Seq(S) /\ Len(s) \in Nat /\ Len(t) \in Nat
           /\ DOMAIN (s \o t) = 1 .. Len(s) + Len(t)
           /\ \A k \in 1 .. Len(s) : (s \o t)[k] = s[k]
           /\ \A k \in Len(s) + 1 .. Len(s) + Len(t) : (s \o t)[k] = t[k - Len(s)]
<1>1. s \o t \in Seq(S) /\ Len(s) \in Nat /\ Len(t) \in Nat /\ Len(s \o t) = Len(s) + Len(t)
  OBVIOUS
<1>2. \A k \in 1 .. Len(s) : (s \o t)[k] = s[k]
  OBVIOUS
<1>3. \A k \in Len(s) + 1 .. Len(s) + Len(t) : (s \o t)[k] = t[k - Len(s)]
  OBVIOUS
<1>4. DOMAIN (s \o t) = 1 .. Len(s) + Len(t)
  BY <1>1
<1> QED BY <1>1, <1>2, <1>3, <1>4

\* What summing a set up does to the results.
LEMMA SumUpSums ==
    ASSUME Given, LoopInv, pc = "built", loop = "sum",
           summed' = summed \o Contributions, costs' = costs \o CostsOfSet
    PROVE  /\ summed' \in Seq([year : Years, data : Stored]) /\ costs' \in Seq(Stored)
           /\ costs' = YearsOf(summed')
           /\ \A k \in DOMAIN summed' :
                 /\ summed'[k].year < End(cur) /\ Cut!Performed(summed'[k].year)
                 /\ summed'[k].data = summed'[k].year
           /\ \A k, l \in DOMAIN summed' : k < l => summed'[k].year < summed'[l].year
           /\ \A z \in Years : Cut!Performed(z) /\ z < End(cur) =>
                 \E k \in DOMAIN summed' : summed'[k].year = z
<1> DEFINE n == Len(summed)
           m == Len(Perf(cur))
<1>1. /\ summed \in Seq([year : Years, data : Stored]) /\ costs \in Seq(Stored)
      /\ costs = YearsOf(summed)
      /\ \A k \in DOMAIN summed :
            /\ summed[k].year < First(cur) /\ Cut!Performed(summed[k].year)
            /\ summed[k].data = summed[k].year
      /\ \A k, l \in DOMAIN summed : k < l => summed[k].year < summed[l].year
      /\ \A z \in Years : Cut!Performed(z) /\ z < First(cur) =>
            \E k \in DOMAIN summed : summed[k].year = z
  BY DEF LoopInv, TypeOK, SumInv, IsPast
<1>2. n \in Nat /\ DOMAIN summed = 1 .. n /\ m \in Nat /\ DOMAIN Perf(cur) = 1 .. m
  BY <1>1, Current
<1>3. /\ Contributions = [k \in 1 .. m |-> [year |-> Perf(cur)[k], data |-> Perf(cur)[k]]]
      /\ CostsOfSet = [k \in 1 .. m |-> Perf(cur)[k]]
  <2>1. \A k \in 1 .. m : /\ spaces[k - 1].year = Perf(cur)[k]
                          /\ spaces[SpaceOf(Perf(cur)[k])].year = Perf(cur)[k]
    BY SolvedAtSum
  <2> QED BY <1>2, <2>1, Current DEF Contributions, CostsOfSet
<1>4. \A k \in 1 .. m : /\ Perf(cur)[k] \in Years /\ Perf(cur)[k] \in Stored
                        /\ Perf(cur)[k] \in Nat /\ First(cur) <= Perf(cur)[k]
                        /\ Perf(cur)[k] < End(cur) /\ Cut!Performed(Perf(cur)[k])
  BY SolvedAtSum, YearsAreNats DEF Stored, Holds
<1>5. /\ Contributions \in Seq([year : Years, data : Stored]) /\ Len(Contributions) = m
      /\ CostsOfSet \in Seq(Stored) /\ Len(CostsOfSet) = m
  BY <1>2, <1>3, <1>4
<1> HIDE DEF n, m
<1>6. /\ summed' \in Seq([year : Years, data : Stored]) /\ costs' \in Seq(Stored)
      /\ DOMAIN summed' = 1 .. n + m
      /\ \A k \in 1 .. n : summed'[k] = summed[k]
      /\ \A k \in n + 1 .. n + m :
            summed'[k] = [year |-> Perf(cur)[k - n], data |-> Perf(cur)[k - n]]
  <2>1. /\ summed' \in Seq([year : Years, data : Stored])
        /\ DOMAIN summed' = 1 .. n + m
        /\ \A k \in 1 .. n : summed'[k] = summed[k]
        /\ \A k \in n + 1 .. n + m : summed'[k] = Contributions[k - n]
    BY <1>1, <1>5, Joined DEF n
  <2>2. costs' \in Seq(Stored)
    BY <1>1, <1>5, Joined
  <2>3. \A k \in n + 1 .. n + m : k - n \in 1 .. m
    BY <1>2
  <2> QED BY <1>3, <2>1, <2>2, <2>3
<1>7. costs' = YearsOf(summed')
  <2>1. Len(costs) = n /\ \A k \in 1 .. n : costs[k] = summed[k].year
    <3>1. costs = [k \in 1 .. n |-> summed[k].year]
      BY <1>1, <1>2 DEF YearsOf
    <3> QED BY <1>1, <1>2, <3>1
  <2>2. /\ DOMAIN costs' = 1 .. n + m
        /\ \A k \in 1 .. n : costs'[k] = costs[k]
        /\ \A k \in n + 1 .. n + m : costs'[k] = CostsOfSet[k - n]
    BY <1>1, <1>5, <2>1, Joined
  <2>3. \A k \in 1 .. n : costs'[k] = summed'[k].year
    BY <1>6, <2>1, <2>2
  <2>4. ASSUME NEW k \in n + 1 .. n + m PROVE costs'[k] = summed'[k].year
    <3>1. k - n \in 1 .. m
      BY <1>2
    <3>2. costs'[k] = Perf(cur)[k - n]
      BY <1>3, <2>2, <3>1
    <3>3. summed'[k] = [year |-> Perf(cur)[k - n], data |-> Perf(cur)[k - n]]
      BY <1>6
    <3> QED BY <3>2, <3>3
  <2>5. \A k \in 1 .. n + m : costs'[k] = summed'[k].year
    <3>1. \A k \in 1 .. n + m : k \in 1 .. n \/ k \in n + 1 .. n + m
      BY <1>2
    <3> QED BY <2>3, <2>4, <3>1
  <2>6. costs' = [k \in 1 .. n + m |-> costs'[k]]
    <3>1. ASSUME NEW c \in Seq(Stored), DOMAIN c = 1 .. n + m
          PROVE  c = [k \in 1 .. n + m |-> c[k]]
      BY <3>1, Elements
    <3> QED BY <1>6, <2>2, <3>1
  <2>7. costs' = [k \in 1 .. n + m |-> summed'[k].year]
    BY <2>5, <2>6
  <2> QED BY <1>6, <2>7 DEF YearsOf
<1>8. \A k \in 1 .. n + m :
         \/ k \in 1 .. n
         \/ k \in n + 1 .. n + m /\ k - n \in 1 .. m
  BY <1>2
<1>9. ASSUME NEW k \in 1 .. n
      PROVE  /\ summed[k].year \in Years /\ summed[k].year \in Nat
             /\ summed'[k].year = summed[k].year /\ summed'[k].data = summed[k].data
  <2>1. summed[k] \in [year : Years, data : Stored]
    <3>1. summed \in Seq([year : Years, data : Stored]) /\ k \in 1 .. Len(summed)
      BY <1>1 DEF n
    <3> QED BY <3>1, Elements
  <2>2. summed[k].year \in Years
    BY <2>1
  <2> QED BY <1>6, <2>2, YearsAreNats
<1>10. ASSUME NEW k \in n + 1 .. n + m
       PROVE  summed'[k].year = Perf(cur)[k - n] /\ summed'[k].data = Perf(cur)[k - n]
  <2>1. summed'[k] = [year |-> Perf(cur)[k - n], data |-> Perf(cur)[k - n]]
    BY <1>6
  <2> QED BY <2>1
<1>13. \A k \in DOMAIN summed' :
          /\ summed'[k].year < End(cur) /\ Cut!Performed(summed'[k].year)
          /\ summed'[k].data = summed'[k].year
  <2>1. ASSUME NEW k \in 1 .. n
        PROVE  /\ summed'[k].year < End(cur) /\ Cut!Performed(summed'[k].year)
               /\ summed'[k].data = summed'[k].year
    <3>1. /\ summed[k].year < First(cur) /\ Cut!Performed(summed[k].year)
          /\ summed[k].data = summed[k].year
      BY <1>1, <1>2
    <3>2. First(cur) \in Nat /\ End(cur) \in Nat /\ First(cur) < End(cur)
      BY Current
    <3>3. summed[k].year < End(cur)
      BY <1>9, <3>1, <3>2
    <3> QED BY <1>9, <3>1, <3>3
  <2>2. ASSUME NEW k \in n + 1 .. n + m, k - n \in 1 .. m
        PROVE  /\ summed'[k].year < End(cur) /\ Cut!Performed(summed'[k].year)
               /\ summed'[k].data = summed'[k].year
    BY <1>4, <1>10, <2>2
  <2> QED BY <1>6, <1>8, <2>1, <2>2
<1>11. ASSUME NEW k \in DOMAIN summed', NEW l \in DOMAIN summed', k < l
       PROVE  summed'[k].year < summed'[l].year
  <2>1. CASE l \in 1 .. n
    <3>1. k \in 1 .. n
      BY <1>2, <1>6, <1>11, <2>1
    <3> QED BY <1>1, <1>2, <1>6, <1>11, <2>1, <3>1
  <2>2. CASE l \in n + 1 .. n + m /\ l - n \in 1 .. m
    <3>1. CASE k \in 1 .. n
      <4>1. summed[k].year < First(cur) /\ summed[k].year \in Nat
        BY <1>1, <1>2, <1>9, <3>1
      <4>2. First(cur) <= Perf(cur)[l - n] /\ Perf(cur)[l - n] \in Nat /\ First(cur) \in Nat
        BY <1>4, <2>2, Current
      <4> QED BY <1>9, <1>10, <2>2, <3>1, <4>1, <4>2
    <3>2. CASE k \in n + 1 .. n + m /\ k - n \in 1 .. m
      <4>1. k - n < l - n
        BY <1>2, <1>11, <2>2, <3>2
      <4>2. Perf(cur)[k - n] < Perf(cur)[l - n]
        BY <2>2, <3>2, <4>1, Current DEF Laid, m
      <4> QED BY <1>10, <2>2, <3>2, <4>2
    <3> QED BY <1>6, <1>8, <3>1, <3>2
  <2> QED BY <1>6, <1>8, <2>1, <2>2
<1>12. ASSUME NEW z \in Years, Cut!Performed(z), z < End(cur)
       PROVE  \E k \in DOMAIN summed' : summed'[k].year = z
  <2>1. CASE z < First(cur)
    <3>1. PICK k \in DOMAIN summed : summed[k].year = z
      BY <1>1, <1>12, <2>1
    <3>2. k \in 1 .. n /\ k \in 1 .. n + m
      BY <1>2
    <3> QED BY <1>6, <1>9, <3>1, <3>2
  <2>2. CASE Holds(cur, z)
    <3>1. PICK k \in 1 .. m : Perf(cur)[k] = z
      BY <1>12, <2>2, Current DEF Laid, Holds, m
    <3>2. n + k \in n + 1 .. n + m /\ (n + k) - n = k /\ n + k \in 1 .. n + m
      BY <1>2
    <3>3. summed'[n + k].year = z
      BY <1>10, <3>1, <3>2
    <3> QED BY <1>6, <3>2, <3>3
  <2>3. ~(End(cur) <= z)
    BY <1>12, Current, YearsAreNats
  <2> QED BY <2>1, <2>2, <2>3, Current
<1> QED BY <1>6, <1>7, <1>11, <1>12, <1>13

LEMMA SumUpInv == Given /\ LoopInv /\ pc = "built" /\ SumUp /\ UNCHANGED cutVars => LoopInv'
<1> SUFFICES ASSUME Given, LoopInv, pc = "built", SumUp, UNCHANGED cutVars PROVE LoopInv'
  OBVIOUS
<1>1. /\ loop = "sum" /\ summed' = summed \o Contributions /\ costs' = costs \o CostsOfSet
      /\ slots' = Reset /\ yearNumberToIndex' = <<>>
      /\ UNCHANGED <<series, pos, indexYear, drawn, firstSetRun, job, spaces, input>>
  BY DEF SumUp, AtSet
<1>2. \/ cur < Len(sets) /\ cur' = cur + 1 /\ loop' = "refresh"
      \/ ~(cur < Len(sets)) /\ cur' = cur /\ loop' = "done"
  BY DEF SumUp
\* The next set, if there is one.
<1>3. ASSUME cur < Len(sets)
      PROVE  /\ cur + 1 \in 1 .. Len(sets) /\ cur + 1 > 1 /\ cur \in Nat \ {0}
             /\ First(cur + 1) = End(cur) /\ End(cur) < End(cur + 1) /\ End(cur + 1) \in Nat
  <2>1. cur + 1 \in 1 .. Len(sets) /\ cur \in 1 .. Len(sets) - 1 /\ cur \in Nat \ {0}
        /\ cur + 1 > 1
    BY <1>3, Current DEF Laid
  <2>2. First(cur + 1) = End(cur)
    BY <2>1, Current DEF Laid
  <2>3. First(cur + 1) < End(cur + 1) /\ End(cur + 1) \in Nat
    BY <2>1, Current DEF Laid
  <2> QED BY <2>1, <2>2, <2>3
<1>4. ~(cur < Len(sets)) => cur = Len(sets)
  BY Current DEF Laid
<1>5. /\ slots' \in [0 .. NbYears -> Slot]
      /\ \A n \in 0 .. NbYears : n >= maxNbYearsPerformed => slots'[n] = slots[n]
  <2>1. slots \in [0 .. NbYears -> Slot] /\ Blank \in Stored
    BY DEF LoopInv, TypeOK, Stored
  <2>2. maxNbYearsPerformed \in Nat
    BY DEF Given, Roomy
  <2>3. \A n \in 0 .. NbYears : n >= maxNbYearsPerformed => ~(n < maxNbYearsPerformed)
    BY <2>2, YearsAreNats
  <2>4. \A n \in 0 .. NbYears :
           [slots[n] EXCEPT !.costs = Blank, !.level = Blank] \in Slot
    BY <2>1 DEF Slot
  <2> QED BY <1>1, <2>1, <2>3, <2>4 DEF Reset
<1>6. \A z \in Years : Started(z)' <=> Started(z)
  BY <1>1 DEF Started
<1>7. TypeOK'
  <2>1. loop' \in {"refresh", "done"} /\ cur' \in 1 .. Len(sets)
    BY <1>2, <1>3, Current
  <2>2. DOMAIN yearNumberToIndex' = {}
    BY <1>1
  <2>3. summed' \in Seq([year : Years, data : Stored]) /\ costs' \in Seq(Stored)
    BY <1>1, SumUpSums
  <2> QED BY <1>1, <1>5, <2>1, <2>2, <2>3, Kept DEF LoopInv, TypeOK, Slot, Stored, Series
<1>8. JobsInv'
  <2>1. ASSUME NEW z \in Years
        PROVE  /\ z < End(cur) => job[z] \in {"ok", "skipped"}
               /\ End(cur) <= z => job[z] = "none"
               /\ Started(z) => Cut!Performed(z)
               /\ job[z] = "skipped" => ~Cut!Performed(z)
               /\ z \in Nat
    <3>1. z < End(cur) => z < First(cur) \/ Holds(cur, z)
      BY Current, YearsAreNats DEF Holds
    <3> QED BY <1>1, <3>1, YearsAreNats DEF LoopInv, JobsInv
  <2>2. CASE cur < Len(sets)
    <3>1. ASSUME NEW z \in Years
          PROVE  /\ z < First(cur + 1) => job[z] \in {"ok", "skipped"}
                 /\ End(cur + 1) <= z => job[z] = "none"
                 /\ Holds(cur + 1, z) => job[z] = "none"
      <4>1. /\ End(cur + 1) <= z => End(cur) <= z
            /\ Holds(cur + 1, z) => End(cur) <= z
        BY <1>3, <2>1, <2>2, Current DEF Holds
      <4> QED BY <1>3, <2>1, <2>2, <4>1
    <3> QED BY <1>1, <1>2, <1>6, <2>1, <2>2, <3>1, Kept DEF JobsInv
  <2>3. CASE ~(cur < Len(sets))
    <3>1. ASSUME NEW z \in Years
          PROVE  /\ z < First(cur) => job[z] \in {"ok", "skipped"}
                 /\ Holds(cur, z) => job[z] \in {"ok", "skipped"}
      BY <1>1 DEF LoopInv, JobsInv
    <3> QED BY <1>1, <1>2, <1>4, <1>6, <2>1, <2>3, <3>1, Kept DEF JobsInv
  <2> QED BY <2>2, <2>3
<1>9. drawn = End(cur)
  BY <1>1 DEF LoopInv, DrawnInv
<1>10. DrawnInv' /\ NumbersInv'
  <2>1. DrawnInv'
    BY <1>1, <1>2, <1>3, <1>9, Kept DEF DrawnInv
  <2> QED BY <1>2, <2>1 DEF NumbersInv
<1>11. firstSetRun <=> Perf(cur) # <<>> \/ LastPerformedBefore(cur) # {}
  BY <1>1 DEF LoopInv, FlagInv
<1>12. cur < Len(sets) =>
          LastPerformedBefore(cur + 1) =
              IF Perf(cur) # <<>> THEN {cur} ELSE LastPerformedBefore(cur)
  BY <1>3, LastPerformedNext
<1>13. FlagInv'
  <2>1. cur < Len(sets) => (firstSetRun <=> LastPerformedBefore(cur + 1) # {})
    BY <1>11, <1>12
  <2>2. CASE cur < Len(sets)
    BY <1>1, <1>2, <2>1, <2>2, Kept DEF FlagInv
  <2>3. CASE ~(cur < Len(sets))
    BY <1>1, <1>2, <1>11, <2>3, Kept DEF FlagInv
  <2> QED BY <2>2, <2>3
<1>14. SpacesInv'
  <2>1. ASSUME cur < Len(sets), NEW k \in 1 .. Len(Perf(cur + 1))
        PROVE  job[Perf(cur + 1)[k]] # "ok"
    <3>1. Perf(cur + 1)[k] \in Years /\ Holds(cur + 1, Perf(cur + 1)[k])
      BY <1>3, <2>1, Current, RankOfPerformed
    <3>2. End(cur) <= Perf(cur + 1)[k]
      BY <1>3, <2>1, <3>1 DEF Holds
    <3> QED BY <3>1, <3>2 DEF LoopInv, JobsInv
  <2>2. ASSUME cur < Len(sets), conf.hotStart, NEW h \in LastPerformedBefore(cur + 1),
               NEW k \in 1 .. Len(Perf(h))
        PROVE  spaces[k - 1].finalLevel = Perf(h)[k]
    <3>1. CASE Perf(cur) # <<>>
      <4>1. h = cur
        BY <1>12, <2>2, <3>1
      <4>2. job[Perf(cur)[k]] = "ok"
        BY <1>1, <4>1, SolvedAtSum
      <4> QED BY <1>1, <2>2, <4>1, <4>2 DEF LoopInv, SpacesInv
    <3>2. CASE Perf(cur) = <<>>
      <4>1. h \in LastPerformedBefore(cur) /\ ~(k \in 1 .. Len(Perf(cur)))
        BY <1>12, <2>2, <3>2
      <4> QED BY <1>1, <2>2, <4>1 DEF LoopInv, SpacesInv
    <3> QED BY <3>1, <3>2
  <2>3. CASE cur < Len(sets)
    <3>1. cur' = cur + 1 /\ loop' = "refresh"
      BY <1>2, <2>3
    <3>2. ASSUME NEW k \in 1 .. Len(Perf(cur + 1)) PROVE job'[Perf(cur + 1)[k]] # "ok"
      BY <1>1, <2>1, <2>3
    <3>3. ASSUME conf.hotStart, NEW h \in LastPerformedBefore(cur + 1),
                 NEW k \in 1 .. Len(Perf(h))
          PROVE  spaces'[k - 1].finalLevel = Perf(h)[k]
      BY <1>1, <2>2, <2>3, <3>3
    <3> QED BY <3>1, <3>2, <3>3, Kept DEF SpacesInv
  <2>4. CASE ~(cur < Len(sets))
    BY <1>2, <2>4 DEF SpacesInv
  <2> QED BY <2>3, <2>4
<1>15. SeriesInv'
  <2>1. \A g \in Generated : Interval(g) \in Nat \ {0}
    BY <1>1 DEF LoopInv, SeriesInv
  <2>2. ASSUME cur < Len(sets), NEW g \in Generated
        PROVE  series[g] = Period(First(cur + 1) - 1, g)
    <3>1. End(cur) - 1 \in Years /\ Holds(cur, End(cur) - 1)
      BY Current, YearsAreNats DEF Holds, Years, Cut!Years
    <3>2. series[g] = Period(End(cur) - 1, g)
      BY <1>1, <3>1 DEF LoopInv, SeriesInv
    <3> QED BY <1>3, <2>2, <3>2
  <2>3. CASE cur < Len(sets)
    <3>1. cur' = cur + 1 /\ loop' = "refresh"
      BY <1>2, <2>3
    <3>2. ASSUME NEW g \in Generated PROVE series'[g] = Period(First(cur + 1) - 1, g)
      BY <1>1, <2>2, <2>3
    <3> QED BY <2>1, <3>1, <3>2, Kept DEF SeriesInv
  <2>4. CASE ~(cur < Len(sets))
    BY <1>2, <2>1, <2>4, Kept DEF SeriesInv
  <2> QED BY <2>3, <2>4
<1>16. InputInv'
  BY <1>1, Kept DEF LoopInv, InputInv, Started
<1>17. LevelInv'
  <2>1. job' = job /\ input' = input
    BY <1>1
  <2> QED BY <2>1, Kept DEF LoopInv, LevelInv, Started
<1>18. SumInv'
  <2>1. \A z : IsPast(z)' <=> z < End(cur)
    BY <1>2, <1>3, Kept DEF IsPast
  <2> QED BY <1>1, <2>1, SumUpSums, Kept DEF SumInv
<1>19. BlankInv'
  BY <1>5, Kept DEF LoopInv, BlankInv, BlankSlot
<1> QED
  BY <1>7, <1>8, <1>10, <1>13, <1>14, <1>15, <1>16, <1>17, <1>18, <1>19 DEF LoopInv

-----------------------------------------------------------------------------
(* Every step keeps the invariant. *)

LEMMA YearStepInv ==
    ASSUME Given, LoopInv, pc = "built", UNCHANGED cutVars, NEW yr \in Years, YearStep(yr)
    PROVE  LoopInv'
<1>1. CASE StartYear(yr)
  BY <1>1, StartYearInv
<1>2. CASE YearSolved(yr)
  BY <1>2, YearSolvedInv
<1>3. CASE YearFailed(yr)
  <2>1. PICK how \in {"failed", "threw"} : job' = [job EXCEPT ![yr] = how]
    BY <1>3 DEF YearFailed
  <2>2. /\ job[yr] = "running"
        /\ UNCHANGED <<loop, cur, series, randomVars, firstSetRun, spaces, input, summed, costs>>
    BY <1>3 DEF YearFailed
  <2> QED BY <2>1, <2>2, IdleEnd
<1>4. CASE SkipYear(yr)
  <2>1. /\ job[yr] = "queued" /\ ~Cut!Performed(yr) /\ job' = [job EXCEPT ![yr] = "skipped"]
        /\ UNCHANGED <<loop, cur, series, randomVars, firstSetRun, spaces, input, summed, costs>>
    BY <1>4 DEF SkipYear
  <2> QED BY <2>1, IdleEnd
<1> QED BY <1>1, <1>2, <1>3, <1>4 DEF YearStep

LEMMA LoopStepInv ==
    CutFacts /\ LoopInv /\ pc = "built" /\ LoopStep => LoopInv'
<1> SUFFICES ASSUME CutFacts, LoopInv, pc = "built", LoopStep PROVE LoopInv'
  OBVIOUS
<1>1. Given /\ UNCHANGED cutVars
  BY SetsGiven DEF LoopStep
<1>2. CASE Refresh
  BY <1>1, <1>2, RefreshInv
<1>3. CASE Crash
  BY <1>1, <1>3, CrashInv
<1>4. CASE DrawYear
  BY <1>1, <1>4, DrawYearInv
<1>5. CASE AddJobs
  BY <1>1, <1>5, AddJobsInv
<1>6. CASE Join
  BY <1>1, <1>6, JoinInv
<1>7. CASE SumUp
  BY <1>1, <1>7, SumUpInv
<1>8. CASE \E yr \in Years : YearStep(yr)
  BY <1>1, <1>8, YearStepInv
<1> QED BY <1>2, <1>3, <1>4, <1>5, <1>6, <1>7, <1>8 DEF LoopStep

\* Before the sets are built only their construction takes steps, and it never does
\* afterwards.
LEMMA IdleStep == Idle /\ UNCHANGED loopVars => Idle'
BY DEF Idle, loopVars, BlankSlot

LEMMA BuiltIsLast == pc = "built" => ~Cut!Next
BY DEF Cut!Next, Cut!CountYear, Cut!Summarise, Cut!BuildYear, Cut!Crash, Cut!EndBuild,
       Cut!AtAYear

LEMMA NotYetBuilt ==
    ASSUME Idle, pc # "built", Next PROVE CutStep
<1>1. loop = "refresh" /\ \A yr \in Years : job[yr] = "none"
  BY DEF Idle
<1>2. ~LoopStep
  BY <1>1 DEF LoopStep, Refresh, Crash, DrawYear, AddJobs, Join, AfterJobs, SumUp, YearStep,
              StartYear, YearSolved, YearFailed, SkipYear, AtSet
<1> QED BY <1>2 DEF Next

LEMMA StutterInv == LoopInv /\ UNCHANGED <<cutVars, loopVars>> => LoopInv'
<1> SUFFICES ASSUME LoopInv, UNCHANGED <<cutVars, loopVars>> PROVE LoopInv'
  OBVIOUS
<1>1. /\ UNCHANGED cutVars
      /\ UNCHANGED <<loop, cur, series, pos, indexYear, drawn, slots, yearNumberToIndex,
                     firstSetRun, job, spaces, input, summed, costs>>
  BY DEF loopVars
<1>2. TypeOK'
  BY <1>1, Kept DEF LoopInv, TypeOK, Slot, Stored, Series
<1>3. JobsInv' /\ DrawnInv' /\ NumbersInv'
  BY <1>1, Kept DEF LoopInv, JobsInv, DrawnInv, NumbersInv, Started
<1>4. FlagInv' /\ SpacesInv' /\ SeriesInv'
  BY <1>1, Kept DEF LoopInv, FlagInv, SpacesInv, SeriesInv, Started
<1>5. InputInv' /\ LevelInv'
  BY <1>1, Kept DEF LoopInv, InputInv, LevelInv, Started
<1>6. SumInv' /\ BlankInv'
  BY <1>1, Kept DEF LoopInv, SumInv, BlankInv, IsPast, YearsOf, BlankSlot
<1> QED BY <1>2, <1>3, <1>4, <1>5, <1>6 DEF LoopInv

LEMMA InvStep ==
    CutFacts /\ CutFacts' /\ IInv /\ [Next]_<<cutVars, loopVars>> => IInv'
<1> SUFFICES ASSUME CutFacts, CutFacts', IInv, [Next]_<<cutVars, loopVars>> PROVE IInv'
  OBVIOUS
<1>1. CASE pc = "built"
  <2>1. LoopInv
    BY <1>1 DEF IInv
  <2>2. CASE UNCHANGED <<cutVars, loopVars>>
    BY <1>1, <2>1, <2>2, StutterInv DEF IInv, cutVars
  <2>3. CASE Next
    <3>1. LoopStep
      BY <1>1, <2>3, BuiltIsLast DEF Next, CutStep
    <3>2. pc' = pc
      BY <3>1 DEF LoopStep, cutVars
    <3> QED BY <1>1, <2>1, <3>1, <3>2, LoopStepInv DEF IInv
  <2> QED BY <2>2, <2>3
<1>2. CASE pc # "built"
  <2>1. Idle
    BY <1>2 DEF IInv
  <2>2. UNCHANGED loopVars
    BY <1>2, <2>1, NotYetBuilt DEF CutStep
  <2>3. Idle'
    BY <2>1, <2>2, IdleStep
  <2>4. ((Given /\ Idle /\ pc = "built") => LoopInv)'
    BY IdleStarts, PTL
  <2>5. (CutFacts /\ pc = "built" => Given)'
    BY SetsGiven, PTL
  <2> QED BY <2>3, <2>4, <2>5 DEF IInv
<1> QED BY <1>1, <1>2

\* The sets and the loop go through their steps together: what holds of both.
THEOREM LoopInvariant == Spec => [](CutFacts /\ IInv)
<1>1. Init => IInv
  <2> SUFFICES ASSUME Init PROVE IInv
    OBVIOUS
  <2>1. pc # "built"
    BY DEF Init, Cut!Init
  <2>2. Idle
    BY DEF Init, Idle
  <2> QED BY <2>1, <2>2 DEF IInv
<1>2. CutFacts /\ CutFacts' /\ IInv /\ [Next]_<<cutVars, loopVars>> => IInv'
  BY InvStep
<1> QED BY <1>1, <1>2, CutInvariant, PTL DEF Spec

-----------------------------------------------------------------------------
(* The theorems. *)

\* Nothing runs and nothing is summed up while the sets are built.
LEMMA IdleMeans ==
    Idle => /\ \A z \in Years : job[z] = "none" /\ ~Started(z)
            /\ loop = "refresh" /\ summed = <<>> /\ costs = <<>>
            /\ slots = [n \in 0 .. NbYears |-> BlankSlot]
BY DEF Idle, Started

LEMMA Invariants ==
    ASSUME CutFacts, IInv
    PROVE  \/ Idle /\ pc # "built"
           \/ Given /\ LoopInv /\ pc = "built"
BY SetsGiven DEF IInv

\* The type of every variable of the loop.
THEOREM TypeCorrect == Spec => []TypeOK
<1>1. CutFacts /\ IInv => TypeOK
  BY Invariants, IdleTypeOK DEF LoopInv
<1> QED BY <1>1, LoopInvariant, PTL

\* A year runs with the random numbers drawn for it, whatever the playlist, the
\* number of cores and the refreshes (computeRandomNumbers, yearJob).
THEOREM NumbersAreTheYears == Spec => []YearsDrawTheirOwn
<1>1. CutFacts /\ IInv => YearsDrawTheirOwn
  BY Invariants, IdleMeans DEF LoopInv, InputInv, YearsDrawTheirOwn
<1> QED BY <1>1, LoopInvariant, PTL

\* A year runs with the time series of its own refresh period, although the series
\* are generated once for all the years of a set (regenerateTimeSeries).
THEOREM SeriesAreThePeriods == Spec => []SeriesOfItsPeriod
<1>1. CutFacts /\ IInv => SeriesOfItsPeriod
  BY Invariants, IdleMeans DEF LoopInv, InputInv, SeriesOfItsPeriod, Period
<1> QED BY <1>1, LoopInvariant, PTL

\* Each year that was started has a set and a rank in it.
LEMMA RankOfStarted ==
    ASSUME Given, LoopInv, NEW z \in Years, Started(z)
    PROVE  \E i \in 1 .. Len(sets) : \E k \in 1 .. Len(Perf(i)) :
              Perf(i)[k] = z /\ SetOf(z) = i /\ RankOf(z) = k
<1>1. Laid /\ Cut!Performed(z)
  BY DEF Given, LoopInv, JobsInv
<1>2. PICK i \in 1 .. Len(sets) : Holds(i, z)
  BY <1>1, SomeSetHolds
<1>3. PICK k \in 1 .. Len(Perf(i)) : Perf(i)[k] = z
  BY <1>1, <1>2 DEF Laid, Holds
<1>4. SetOf(z) = i /\ RankOf(z) = k
  BY <1>1, <1>3, RankOfPerformed
<1> QED BY <1>3, <1>4

\* With a hot start that the study accepts, knowing the refreshes, a year starts from
\* the final level of the year that had its space in the performed set before; without
\* a hot start, from the level drawn for it.
THEOREM LevelsFollow == Spec => []LevelsAreChained
<1>1. CutFacts /\ IInv => LevelsAreChained
  <2> SUFFICES ASSUME CutFacts, IInv PROVE LevelsAreChained
    OBVIOUS
  <2>1. CASE Idle
    BY <2>1, IdleMeans DEF LevelsAreChained
  <2>2. CASE Given /\ LoopInv
    <3>1. ASSUME ~conf.hotStart \/ (Cut!HotStartAccepted /\ Cut!StudyKnowsRefreshes),
                 NEW z \in Years, Started(z)
          PROVE  LET before == IF conf.hotStart THEN LastPerformedBefore(SetOf(z)) ELSE {}
                 IN  IF before = {} THEN input[z].level = z
                     ELSE \A h \in before : input[z].level = sets[h].performed[RankOf(z)]
      <4>1. PICK i \in 1 .. Len(sets) : \E k \in 1 .. Len(Perf(i)) :
                     Perf(i)[k] = z /\ SetOf(z) = i /\ RankOf(z) = k
        BY <2>2, <3>1, RankOfStarted
      <4>2. PICK k \in 1 .. Len(Perf(i)) : Perf(i)[k] = z /\ SetOf(z) = i /\ RankOf(z) = k
        BY <4>1
      <4>3. /\ LastPerformedBefore(i) = {} \/ ~conf.hotStart => input[z].level = z
            /\ conf.hotStart => \A h \in LastPerformedBefore(i) :
                  input[z].level = sets[h].performed[k]
        BY <2>2, <3>1, <4>2 DEF LoopInv, LevelInv, Perf
      <4>4. CASE conf.hotStart
        BY <4>2, <4>3, <4>4
      <4>5. CASE ~conf.hotStart
        BY <4>3, <4>5
      <4> QED BY <4>4, <4>5
    <3> QED BY <3>1 DEF LevelsAreChained
  <2> QED BY <2>1, <2>2, Invariants
<1> QED BY <1>1, LoopInvariant, PTL

\* Two years that run together share neither a Variable::State nor a slot of random
\* numbers, and no slot is written past those allocated.
THEOREM RunnersShareNothing == Spec => []RunnersAreApart
<1>1. CutFacts /\ IInv => RunnersAreApart
  <2> SUFFICES ASSUME CutFacts, IInv PROVE RunnersAreApart
    OBVIOUS
  <2>1. CASE Idle
    BY <2>1, IdleMeans DEF RunnersAreApart
  <2>2. CASE Given /\ LoopInv /\ pc = "built"
    <3>1. ASSUME loop = "run", NEW z \in Years, job[z] = "running"
          PROVE  \E k \in 1 .. Len(Perf(cur)) :
                    /\ Perf(cur)[k] = z /\ SpaceOf(z) = k - 1
                    /\ spaces[k - 1].year = z /\ yearNumberToIndex[z] = k - 1
      <4>1. Started(z) /\ Cut!Performed(z)
        BY <2>2, <3>1 DEF Started, LoopInv, JobsInv
      <4>2. PICK k \in 1 .. Len(Perf(cur)) : Perf(cur)[k] = z
        BY <2>2, <3>1, <4>1, BusyYear
      <4>3. SpaceOf(z) = k - 1 /\ Holds(cur, z)
        BY <2>2, <4>2, Current, RankOfPerformed
      <4>4. z < drawn
        BY <2>2, <3>1, <4>3 DEF LoopInv, DrawnInv, Holds
      <4>5. spaces[k - 1].year = z
        BY <2>2, <3>1, <4>1, <4>2 DEF LoopInv, SpacesInv
      <4>6. yearNumberToIndex[z] = k - 1
        BY <2>2, <3>1, <4>2, <4>4 DEF LoopInv, NumbersInv
      <4> QED BY <4>2, <4>3, <4>5, <4>6
    <3>2. ASSUME loop = "run", NEW z \in Years, job[z] = "running"
          PROVE  /\ spaces[SpaceOf(z)].year = z
                 /\ \A x \in Years \ {z} : job[x] = "running" =>
                       SpaceOf(x) # SpaceOf(z) /\ yearNumberToIndex[x] # yearNumberToIndex[z]
      <4>1. PICK k \in 1 .. Len(Perf(cur)) :
                    /\ Perf(cur)[k] = z /\ SpaceOf(z) = k - 1
                    /\ spaces[k - 1].year = z /\ yearNumberToIndex[z] = k - 1
        BY <3>1, <3>2
      <4>2. ASSUME NEW x \in Years, x # z, job[x] = "running"
            PROVE  SpaceOf(x) # SpaceOf(z) /\ yearNumberToIndex[x] # yearNumberToIndex[z]
        <5>1. PICK l \in 1 .. Len(Perf(cur)) :
                    /\ Perf(cur)[l] = x /\ SpaceOf(x) = l - 1
                    /\ spaces[l - 1].year = x /\ yearNumberToIndex[x] = l - 1
          BY <3>1, <3>2, <4>2
        <5>2. l # k
          BY <4>1, <4>2, <5>1
        <5>3. l - 1 # k - 1
          BY <5>2
        <5> QED BY <4>1, <5>1, <5>3
      <4> QED BY <4>1, <4>2
    <3>3. ASSUME Cut!StudyKnowsRefreshes, NEW n \in DOMAIN slots, n >= maxNbYearsPerformed
          PROVE  slots[n] = BlankSlot
      BY <2>2, <3>3 DEF LoopInv, TypeOK, BlankInv
    <3> QED BY <3>2, <3>3 DEF RunnersAreApart
  <2> QED BY <2>1, <2>2, Invariants
<1> QED BY <1>1, LoopInvariant, PTL

\* Every performed year is summed up once, in order and from its own data; all of the
\* playlist in the end; and nothing after a failure.
THEOREM SummedInOrder == Spec => []SummedOnceInOrder
<1>1. CutFacts /\ IInv => SummedOnceInOrder
  <2> SUFFICES ASSUME CutFacts, IInv PROVE SummedOnceInOrder
    OBVIOUS
  <2>1. CASE Idle
    <3>1. DOMAIN summed = {} /\ YearsOf(summed) = <<>> /\ costs = <<>>
      BY <2>1, IdleMeans DEF YearsOf
    <3> QED BY <2>1, <3>1, IdleMeans DEF SummedOnceInOrder, Increasing
  <2>2. CASE Given /\ LoopInv /\ pc = "built"
    <3>1. ASSUME NEW k \in DOMAIN summed
          PROVE  /\ summed[k].year \in Years /\ Cut!Performed(summed[k].year)
                 /\ job[summed[k].year] = "ok" /\ summed[k].data = summed[k].year
      <4> DEFINE z == summed[k].year
      <4>1. IsPast(z) /\ Cut!Performed(z) /\ summed[k].data = z
        BY <2>2 DEF LoopInv, SumInv
      <4>2. z \in Years
        <5>1. summed \in Seq([year : Years, data : Stored])
          BY <2>2 DEF LoopInv, TypeOK
        <5>2. summed[k] \in [year : Years, data : Stored]
          <6>1. k \in 1 .. Len(summed)
            BY <5>1
          <6> QED BY <5>1, <6>1, Elements
        <5> QED BY <5>2
      <4> HIDE DEF z
      <4>3. loop = "done" /\ ~(z < First(cur)) => Holds(cur, z)
        BY <2>2, <4>1, <4>2, Current, YearsAreNats DEF IsPast, Holds
      <4>4. job[z] \in {"ok", "skipped"}
        BY <2>2, <4>1, <4>2, <4>3 DEF LoopInv, JobsInv, IsPast
      <4>5. job[z] = "ok"
        BY <2>2, <4>1, <4>2, <4>4 DEF LoopInv, JobsInv
      <4> QED BY <4>1, <4>2, <4>5 DEF z
    <3>2. Increasing(YearsOf(summed)) /\ costs = YearsOf(summed)
      BY <2>2 DEF LoopInv, SumInv, Increasing, YearsOf
    <3>3. ASSUME loop = "done" PROVE ToSet(YearsOf(summed)) = conf.playlist
      <4>1. ToSet(YearsOf(summed)) = {summed[k].year : k \in DOMAIN summed}
        BY DEF ToSet, YearsOf
      <4>2. conf.playlist \subseteq Years
        BY <2>2 DEF Given, Laid, Cut!ConfigSpace, Years
      <4>3. \A z \in Years : IsPast(z)
        BY <2>2, <3>3, Current, YearsAreNats DEF LoopInv, JobsInv, IsPast, Laid
      <4>4. \A z \in conf.playlist : \E k \in DOMAIN summed : summed[k].year = z
        BY <2>2, <4>2, <4>3 DEF LoopInv, SumInv, Cut!Performed
      <4> QED BY <3>1, <4>1, <4>4 DEF Cut!Performed
    <3>4. ASSUME NEW z \in Years, job[z] \in {"failed", "threw"}
          PROVE  SetOf(z) = cur /\ loop \in {"run", "fatal"}
      <4>1. Holds(cur, z)
        BY <2>2, <3>4, Current DEF LoopInv, JobsInv
      <4>2. loop \in {"run", "fatal"}
        BY <2>2, <3>4, <4>1 DEF LoopInv, TypeOK, JobsInv
      <4> QED BY <2>2, <4>1, <4>2, Current, SetOfYear
    <3> QED BY <3>1, <3>2, <3>3, <3>4 DEF SummedOnceInOrder
  <2> QED BY <2>1, <2>2, Invariants
<1> QED BY <1>1, LoopInvariant, PTL
=============================================================================
