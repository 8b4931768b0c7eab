------------------------- MODULE ParallelYearsProofs -------------------------
(***************************************************************************)
(* Proofs about ParallelYears, for every number of years and every         *)
(* setting: the cut made by buildSetsOfParallelYears is in order, gives    *)
(* each performed year one space, never needs more spaces than there are,  *)
(* opens a set at every year that regenerates time series and flags the    *)
(* first year of the simulation; where it reads the same settings, it runs *)
(* the sets that Study::getNumberOfCores counted.                          *)
(***************************************************************************)
EXTENDS ParallelYears, WellFoundedInduction, TLAPS

-----------------------------------------------------------------------------
(* Least and greatest elements of sets of natural numbers. *)

\* A set of naturals that is not empty has a least element.
LEMMA LeastOfNats ==
    ASSUME NEW S \in SUBSET Nat, S # {}
    PROVE  \E m \in S : \A x \in S : m <= x
<1>1. \E m \in S : \A x \in S : ~(<<x, m>> \in OpToRel(<, Nat))
  BY WFMin, NatLessThanWellFounded, Zenon
<1>2. PICK m \in S : \A x \in S : ~(<<x, m>> \in OpToRel(<, Nat))
  BY <1>1
<1>3. ASSUME NEW x \in S PROVE m <= x
  <2>1. ~(<<x, m>> \in OpToRel(<, Nat))
    BY <1>2
  <2>2. <<x, m>> \in Nat \X Nat
    OBVIOUS
  <2>3. ~(x < m)
    BY <2>1, <2>2 DEF OpToRel
  <2> QED BY <2>3
<1> QED BY <1>3

\* Min picks it.
LEMMA MinOfNats ==
    ASSUME NEW S \in SUBSET Nat, S # {}
    PROVE  Min(S) \in S
BY LeastOfNats DEF Min

\* Max picks the greatest element of a bounded set of naturals.
LEMMA MaxOfBounded ==
    ASSUME NEW S \in SUBSET Nat, S # {}, NEW B \in Nat, \A x \in S : x <= B
    PROVE  Max(S) \in S /\ \A x \in S : x <= Max(S)
<1> DEFINE Bounds == {b \in Nat : \A x \in S : x <= b}
<1>1. PICK m \in Bounds : \A b \in Bounds : m <= b
  <2> Bounds \in SUBSET Nat /\ B \in Bounds
    OBVIOUS
  <2> HIDE DEF Bounds
  <2> QED BY LeastOfNats
<1>2. m \in Nat /\ \A x \in S : x \in Nat /\ x <= m
  OBVIOUS
<1>3. m \in S
  <2>1. SUFFICES ASSUME m \notin S PROVE FALSE
    OBVIOUS
  <2>2. \A x \in S : x < m
    BY <1>2, <2>1
  <2>3. m > 0
    <3>1. PICK x \in S : x < m
      BY <2>2
    <3> QED BY <3>1, <1>2
  <2>4. m - 1 \in Nat /\ \A x \in S : x <= m - 1
    BY <1>2, <2>2, <2>3
  <2>5. m - 1 \in Bounds
    BY <2>4
  <2>6. m <= m - 1
    BY <1>1, <2>5
  <2> QED BY <1>2, <2>6
<1>4. \A x \in S : m >= x
  BY <1>2
<1> QED BY <1>2, <1>3, <1>4 DEF Max

-----------------------------------------------------------------------------
(* The inductive invariant. *)

\* While the study counts: no set is longer than the years seen, and a year of
\* the playlist that was seen left a set that is not empty.
CountInv ==
    pc = "count" =>
        /\ sets = <<>>
        /\ studySets # <<>> \/ (y = 0 /\ buildNewSet)
        /\ \A i \in DOMAIN studySets : Len(studySets[i]) <= y
        /\ \A yr \in conf.playlist : yr < y =>
              \E i \in DOMAIN studySets : studySets[i] # <<>>

\* While the solver builds: the next year opens a set or there is room for it
\* in the last one.
BuildInv ==
    pc # "count" =>
        \/ buildNewSet
        \/ sets # <<>> /\ Len(LastOf(sets).performed) < maxNbYearsInParallel

\* No year is passed before the first set is opened.
StartInv == pc # "count" /\ sets = <<>> => y = 0 /\ buildNewSet

IInv ==
    /\ TypeOK
    /\ CountInv
    /\ BuildInv
    /\ StartInv
    /\ SpacesFit
    /\ YearsCutInOrder
    /\ RefreshOpensSet
    /\ OneSpacePerYear

-----------------------------------------------------------------------------
(* Type correctness of the pieces. *)

\* The limit of the size of a set is a positive number.
LEMMA SizeLimitType ==
    ASSUME NEW c \in ConfigSpace
    PROVE  SizeLimit(c) \in Nat \ {0}
<1> DEFINE S == {c.interval[k] : k \in c.refreshed} \cup {c.cores, NbYears}
<1>1. /\ c.refreshed \subseteq Kinds
      /\ c.interval \in [Kinds -> Nat]
      /\ c.cores \in Nat \ {0}
      /\ \A k \in c.refreshed : c.interval[k] > 0
  BY DEF ConfigSpace
<1>2. S \subseteq Nat \ {0} /\ S # {}
  BY <1>1, ParallelYearsAssumption
<1> HIDE DEF S
<1>3. Min(S) \in S
  BY <1>2, MinOfNats
<1> QED BY <1>2, <1>3 DEF SizeLimit, S

LEMMA InitInv == Init => IInv
<1> SUFFICES ASSUME Init PROVE IInv
  OBVIOUS
<1>1. conf \in ConfigSpace
  BY ParallelYearsAssumption DEF Init
<1>2. maxNbYearsInParallel \in Nat \ {0}
  BY <1>1, SizeLimitType DEF Init
<1>3. NbYears \in Nat \ {0}
  BY ParallelYearsAssumption
<1>4. TypeOK
  <2>1. studySets \in Seq(Seq(Years)) /\ sets \in Seq(Subsets)
    BY DEF Init
  <2>2. /\ pc \in {"count", "build", "built", "crashed"}
        /\ y \in 0 .. NbYears
        /\ minNbYearsInParallel \in Nat
        /\ nbYearsReallyPerformed \in Nat
        /\ maxNbYearsPerformed \in Nat
    BY <1>3 DEF Init
  <2>3. buildNewSet \in BOOLEAN /\ allSetsHaveSameSize \in BOOLEAN /\ foundFirst \in BOOLEAN
    BY Zenon DEF Init
  <2> QED BY <2>1, <2>2, <2>3, <1>1, <1>2, Zenon DEF TypeOK
<1>5. CountInv /\ BuildInv /\ StartInv
  <2>1. \A yr \in conf.playlist : yr \in Nat
    BY <1>1 DEF ConfigSpace, Years
  <2> QED BY <2>1 DEF Init, CountInv, BuildInv, StartInv
<1>6. SpacesFit /\ YearsCutInOrder /\ RefreshOpensSet /\ OneSpacePerYear
  BY DEF Init, SpacesFit, YearsCutInOrder, RefreshOpensSet, OneSpacePerYear
<1> QED BY <1>4, <1>5, <1>6 DEF IInv

-----------------------------------------------------------------------------
(* The loop of the study. *)

\* One year of the loop of getNumberOfCores.
LEMMA CountYearInv == IInv /\ CountYear => IInv'
<1> SUFFICES ASSUME IInv, CountYear PROVE IInv'
  OBVIOUS
<1> DEFINE newSet == buildNewSet \/ StudyRefreshing(y)
           base   == IF newSet THEN Append(studySets, <<>>) ELSE studySets
           set    == IF Performed(y) THEN Append(LastOf(base), y) ELSE LastOf(base)
<1>1. /\ pc = "count" /\ pc' = "count" /\ y < NbYears /\ y' = y + 1
      /\ studySets' = [base EXCEPT ![Len(base)] = set]
      /\ buildNewSet' = (Len(set) = maxNbYearsInParallel)
      /\ UNCHANGED <<conf, maxNbYearsInParallel, minNbYearsInParallel,
                     allSetsHaveSameSize, sets, foundFirst, nbYearsReallyPerformed,
                     maxNbYearsPerformed>>
  BY DEF CountYear, AtAYear, solverVars
<1>2. TypeOK /\ CountInv
  BY DEF IInv
<1>3. y \in Nat /\ y \in Years /\ NbYears \in Nat \ {0} /\ y' \in 0 .. NbYears
  BY <1>1, <1>2, ParallelYearsAssumption DEF TypeOK, Years
<1>4. /\ studySets \in Seq(Seq(Years)) /\ <<>> \in Seq(Years)
      /\ DOMAIN studySets = 1 .. Len(studySets)
  BY <1>2 DEF TypeOK
<1>5. /\ base \in Seq(Seq(Years))
      /\ Len(base) \in 1 .. Len(base)
      /\ \A i \in 1 .. Len(base) : Len(base[i]) <= y
      /\ \A i \in 1 .. Len(studySets) : i \in 1 .. Len(base) /\ base[i] = studySets[i]
  <2>1. CASE newSet
    <3>1. base = Append(studySets, <<>>)
      BY <2>1
    <3> HIDE DEF base, newSet
    <3>2. /\ base \in Seq(Seq(Years))
          /\ Len(base) = Len(studySets) + 1
          /\ \A i \in 1 .. Len(studySets) : base[i] = studySets[i]
          /\ base[Len(studySets) + 1] = <<>>
      BY <3>1, <1>4
    <3>3. \A i \in 1 .. Len(studySets) : Len(studySets[i]) <= y
      BY <1>1, <1>2, <1>4 DEF CountInv
    <3>4. Len(<<>>) = 0
      OBVIOUS
    <3>5. Len(base[Len(studySets) + 1]) <= y
      BY <3>2, <3>4, <1>3
    <3>6. Len(studySets) \in Nat
      BY <1>4
    <3>7. \A i \in 1 .. Len(base) : i \in 1 .. Len(studySets) \/ i = Len(studySets) + 1
      BY <3>2, <3>6
    <3>8. \A i \in 1 .. Len(base) : Len(base[i]) <= y
      BY <3>2, <3>3, <3>5, <3>7
    <3> QED BY <3>2, <3>6, <3>8
  <2>2. CASE ~newSet
    <3>1. base = studySets /\ studySets # <<>>
      BY <2>2, <1>1, <1>2 DEF CountInv
    <3> HIDE DEF base, newSet
    <3> QED BY <3>1, <1>1, <1>2, <1>3, <1>4 DEF CountInv
  <2> QED BY <2>1, <2>2
<1> HIDE DEF base, newSet
<1>6. LastOf(base) \in Seq(Years) /\ Len(LastOf(base)) <= y
  BY <1>5 DEF LastOf
<1>7. /\ set \in Seq(Years)
      /\ Len(set) <= y + 1
      /\ LastOf(base) # <<>> => set # <<>>
      /\ Performed(y) => set # <<>>
  BY <1>3, <1>6
<1> HIDE DEF set
<1>8. /\ studySets' \in Seq(Seq(Years))
      /\ Len(studySets') = Len(base)
      /\ DOMAIN studySets' = 1 .. Len(base)
      /\ \A i \in 1 .. Len(base) : studySets'[i] = IF i = Len(base) THEN set ELSE base[i]
  BY <1>1, <1>5, <1>7
<1>9. TypeOK'
  BY <1>1, <1>2, <1>3, <1>8 DEF TypeOK
<1>10. CountInv'
  <2>1. sets' = <<>> /\ studySets' # <<>>
    BY <1>1, <1>2, <1>5, <1>8 DEF CountInv
  <2>2. \A i \in DOMAIN studySets' : Len(studySets'[i]) <= y'
    BY <1>1, <1>3, <1>5, <1>7, <1>8
  <2>3. ASSUME NEW yr \in conf.playlist, yr < y'
        PROVE  \E i \in DOMAIN studySets' : studySets'[i] # <<>>
    <3>1. yr \in Nat
      BY <1>2, <1>3 DEF TypeOK, ConfigSpace, Years
    <3>2. CASE yr = y
      BY <3>2, <1>5, <1>7, <1>8 DEF Performed
    <3>3. CASE yr < y
      <4>1. PICK i \in DOMAIN studySets : studySets[i] # <<>>
        BY <3>3, <1>1, <1>2 DEF CountInv
      <4>2. i \in 1 .. Len(base) /\ base[i] # <<>>
        BY <4>1, <1>4, <1>5
      <4>3. studySets'[i] # <<>>
        BY <4>2, <1>7, <1>8 DEF LastOf
      <4> QED BY <4>2, <4>3, <1>8
    <3> QED BY <2>3, <3>1, <3>2, <3>3, <1>1, <1>3
  <2>4. conf' = conf
    BY <1>1
  <2> QED BY <2>1, <2>2, <2>3, <2>4 DEF CountInv
<1>11. /\ BuildInv' /\ StartInv' /\ SpacesFit' /\ YearsCutInOrder'
       /\ RefreshOpensSet' /\ OneSpacePerYear'
  <2>1. sets' = <<>> /\ pc' = "count"
    BY <1>1, <1>2 DEF CountInv
  <2> QED BY <2>1 DEF BuildInv, StartInv, SpacesFit, YearsCutInOrder, RefreshOpensSet,
                      OneSpacePerYear
<1> QED BY <1>9, <1>10, <1>11 DEF IInv

\* The bounds published by the study: at least one year is counted, so the
\* biggest set is not empty.
LEMMA SummariseInv == IInv /\ Summarise => IInv'
<1> SUFFICES ASSUME IInv, Summarise PROVE IInv'
  OBVIOUS
<1> DEFINE biggest == Max(StudySizes)
<1>1. /\ pc = "count" /\ y = NbYears /\ pc' = "build" /\ y' = 0 /\ buildNewSet' = TRUE
      /\ minNbYearsInParallel' = Min({maxNbYearsInParallel} \cup (StudySizes \ {0}))
      /\ maxNbYearsInParallel' = IF conf.parallel THEN biggest ELSE 1
      /\ allSetsHaveSameSize' \in BOOLEAN
      /\ UNCHANGED <<conf, studySets, sets, foundFirst, nbYearsReallyPerformed,
                     maxNbYearsPerformed>>
  BY DEF Summarise, solverVars
<1>2. TypeOK /\ CountInv /\ NbYears \in Nat \ {0}
  BY ParallelYearsAssumption DEF IInv
<1>3. StudySizes \subseteq Nat /\ \A n \in StudySizes : n <= NbYears
  BY <1>1, <1>2 DEF StudySizes, TypeOK, CountInv
<1>4. PICK i \in DOMAIN studySets : studySets[i] # <<>>
  <2>1. PICK yr \in conf.playlist : yr < y
    BY <1>1, <1>2 DEF TypeOK, ConfigSpace, Years
  <2> QED BY <2>1, <1>1, <1>2 DEF CountInv
<1>5. Len(studySets[i]) \in StudySizes /\ Len(studySets[i]) > 0
  BY <1>2, <1>4 DEF StudySizes, TypeOK
<1>6. biggest \in Nat \ {0}
  <2>1. biggest \in StudySizes /\ \A n \in StudySizes : n <= biggest
    BY <1>2, <1>3, <1>5, MaxOfBounded
  <2> HIDE DEF biggest
  <2>2. biggest \in Nat /\ Len(studySets[i]) \in Nat /\ Len(studySets[i]) <= biggest
    BY <2>1, <1>3, <1>5
  <2> QED BY <2>2, <1>5
<1> HIDE DEF biggest
<1>7. minNbYearsInParallel' \in Nat
  <2> DEFINE S == {maxNbYearsInParallel} \cup (StudySizes \ {0})
  <2>1. S \in SUBSET Nat /\ S # {}
    BY <1>2, <1>3 DEF TypeOK
  <2> HIDE DEF S
  <2>2. Min(S) \in S
    BY <2>1, MinOfNats
  <2> QED BY <2>1, <2>2, <1>1 DEF S
<1>8. TypeOK'
  BY <1>1, <1>2, <1>6, <1>7 DEF TypeOK
<1>9. /\ CountInv' /\ BuildInv' /\ StartInv' /\ SpacesFit' /\ YearsCutInOrder'
      /\ RefreshOpensSet' /\ OneSpacePerYear'
  <2>1. sets' = <<>>
    BY <1>1, <1>2 DEF CountInv
  <2> QED BY <2>1, <1>1 DEF CountInv, BuildInv, StartInv, SpacesFit, YearsCutInOrder,
                            RefreshOpensSet, OneSpacePerYear
<1> QED BY <1>8, <1>9 DEF IInv

-----------------------------------------------------------------------------
(* The loop of the solver. *)

\* What a year adds to a set: the years and the performed years grow at their
\* end, what the set regenerates does not change.
LEMMA AddYearAdds ==
    ASSUME TypeOK, NEW s \in Subsets, NEW yr \in Years
    PROVE  /\ AddYear(s, yr) \in Subsets
           /\ AddYear(s, yr).years = Append(s.years, yr)
           /\ AddYear(s, yr).performed =
                IF Performed(yr) THEN Append(s.performed, yr) ELSE s.performed
           /\ AddYear(s, yr).regenerateTS = s.regenerateTS
           /\ AddYear(s, yr).yearForTSgeneration = s.yearForTSgeneration
<1>1. /\ s.years \in Seq(Years) /\ s.performed \in Seq(Years)
      /\ s.firstPerformed \in SUBSET Years
  BY DEF Subsets
<1>2. Append(s.years, yr) \in Seq(Years)
  BY <1>1
<1>3. (IF Performed(yr) THEN Append(s.performed, yr) ELSE s.performed) \in Seq(Years)
  BY <1>1
<1>4. (IF Performed(yr) /\ ~foundFirst
       THEN s.firstPerformed \cup {yr} ELSE s.firstPerformed) \in SUBSET Years
  BY <1>1
<1>5. s.regenerateTS \in BOOLEAN /\ s.yearForTSgeneration \in Years \cup {999999}
  BY DEF Subsets
<1> QED BY <1>2, <1>3, <1>4, <1>5 DEF AddYear, Subsets

\* The set a year opens.
LEMMA EmptySetType ==
    ASSUME NEW yr \in Years
    PROVE  /\ EmptySet(yr) \in Subsets
           /\ EmptySet(yr).years = <<>>
           /\ EmptySet(yr).performed = <<>>
           /\ EmptySet(yr).regenerateTS = SolverRefreshing(yr)
           /\ SolverRefreshing(yr) => EmptySet(yr).yearForTSgeneration = yr
<1>1. SolverRefreshing(yr) \in BOOLEAN
  BY DEF SolverRefreshing, KindRefreshing, ForcedRefreshing
<1> QED BY <1>1 DEF EmptySet, Subsets

\* One year of buildSetsOfParallelYears either opens a new last set or grows
\* the last set, and leaves the others alone.
LEMMA BuildYearCases ==
    ASSUME IInv, BuildYear
    PROVE  /\ pc = "build" /\ pc' = "build" /\ y \in Years /\ y' = y + 1
           /\ conf' = conf /\ maxNbYearsInParallel' = maxNbYearsInParallel
           /\ \E old, new \in Subsets :
                /\ new = AddYear(old, y)
                /\ sets' \in Seq(Subsets)
                /\ Len(sets') \in 1 .. Len(sets')
                /\ sets'[Len(sets')] = new
                /\ buildNewSet' <=> IsFull(Len(new.performed), y)
                /\ \/ /\ OpensSet(y)
                      /\ old = EmptySet(y)
                      /\ Len(sets') = Len(sets) + 1
                      /\ \A i \in 1 .. Len(sets) : sets'[i] = sets[i]
                   \/ /\ ~OpensSet(y)
                      /\ old = sets[Len(sets)]
                      /\ Len(sets') = Len(sets)
                      /\ \A i \in 1 .. Len(sets) - 1 : sets'[i] = sets[i]
<1> DEFINE base == IF OpensSet(y) THEN Append(sets, EmptySet(y)) ELSE sets
           set  == AddYear(LastOf(base), y)
<1>1. /\ pc = "build" /\ pc' = "build" /\ y < NbYears /\ y' = y + 1
      /\ conf' = conf /\ maxNbYearsInParallel' = maxNbYearsInParallel
      /\ sets' = [base EXCEPT ![Len(base)] = set]
      /\ buildNewSet' = IsFull(Len(set.performed), y)
  BY DEF BuildYear, AtAYear
<1>2. TypeOK /\ BuildInv
  BY DEF IInv
<1>3. y \in Years /\ sets \in Seq(Subsets)
  BY <1>1, <1>2, ParallelYearsAssumption DEF TypeOK, Years
<1>4. EmptySet(y) \in Subsets
  BY <1>3, EmptySetType
<1>5. ~OpensSet(y) => sets # <<>>
  BY <1>1, <1>2 DEF BuildInv, OpensSet
<1>6. /\ base \in Seq(Subsets)
      /\ Len(base) \in 1 .. Len(base)
      /\ OpensSet(y) => /\ Len(base) = Len(sets) + 1
                        /\ LastOf(base) = EmptySet(y)
                        /\ \A i \in 1 .. Len(sets) : base[i] = sets[i]
      /\ ~OpensSet(y) => base = sets /\ LastOf(base) = sets[Len(sets)]
  <2>1. CASE OpensSet(y)
    BY <2>1, <1>3, <1>4 DEF LastOf
  <2>2. CASE ~OpensSet(y)
    BY <2>2, <1>3, <1>5 DEF LastOf
  <2> QED BY <2>1, <2>2
<1> HIDE DEF base
<1>7. LastOf(base) \in Subsets
  BY <1>6 DEF LastOf
<1>8. set \in Subsets
  BY <1>2, <1>3, <1>7, AddYearAdds
<1> HIDE DEF set
<1>9. /\ sets' \in Seq(Subsets)
      /\ Len(sets') = Len(base)
      /\ sets'[Len(sets')] = set
      /\ \A i \in 1 .. Len(base) - 1 : sets'[i] = base[i]
  BY <1>1, <1>6, <1>8
<1>10. set = AddYear(LastOf(base), y)
  BY DEF set
<1>11. CASE OpensSet(y)
  <2>1. /\ Len(sets') = Len(sets) + 1
        /\ \A i \in 1 .. Len(sets) : sets'[i] = sets[i]
    BY <1>3, <1>6, <1>9, <1>11
  <2> QED BY <2>1, <1>1, <1>3, <1>6, <1>7, <1>8, <1>9, <1>10, <1>11
<1>12. CASE ~OpensSet(y)
  BY <1>1, <1>3, <1>6, <1>7, <1>8, <1>9, <1>10, <1>12
<1> QED BY <1>11, <1>12

\* The parts of the invariant, preserved by one year of the loop.
LEMMA BuildYearInv == IInv /\ BuildYear => IInv'
<1> SUFFICES ASSUME IInv, BuildYear PROVE IInv'
  OBVIOUS
<1>1. TypeOK /\ BuildInv /\ StartInv /\ SpacesFit /\ YearsCutInOrder /\ RefreshOpensSet
      /\ OneSpacePerYear
  BY DEF IInv
<1>2. /\ pc = "build" /\ pc' = "build" /\ y \in Years /\ y' = y + 1
      /\ conf' = conf /\ maxNbYearsInParallel' = maxNbYearsInParallel
  BY BuildYearCases
<1>3. PICK old, new \in Subsets :
        /\ new = AddYear(old, y)
        /\ sets' \in Seq(Subsets)
        /\ Len(sets') \in 1 .. Len(sets')
        /\ sets'[Len(sets')] = new
        /\ buildNewSet' <=> IsFull(Len(new.performed), y)
        /\ \/ /\ OpensSet(y)
              /\ old = EmptySet(y)
              /\ Len(sets') = Len(sets) + 1
              /\ \A i \in 1 .. Len(sets) : sets'[i] = sets[i]
           \/ /\ ~OpensSet(y)
              /\ old = sets[Len(sets)]
              /\ Len(sets') = Len(sets)
              /\ \A i \in 1 .. Len(sets) - 1 : sets'[i] = sets[i]
  BY BuildYearCases
<1>4. /\ y \in Nat /\ NbYears \in Nat /\ y < NbYears /\ maxNbYearsInParallel \in Nat \ {0}
      /\ sets \in Seq(Subsets) /\ Len(sets) \in Nat /\ DOMAIN sets = 1 .. Len(sets)
      /\ Len(sets') \in Nat \ {0} /\ DOMAIN sets' = 1 .. Len(sets') /\ sets' # <<>>
  <2>1. sets' \in Seq(Subsets) /\ Len(sets') \in 1 .. Len(sets')
    BY <1>3
  <2> QED BY <2>1, <1>1, <1>2, ParallelYearsAssumption DEF TypeOK, Years
<1>5. \A i \in 1 .. Len(sets') - 1 : i \in 1 .. Len(sets) /\ sets'[i] = sets[i]
  <2>1. CASE OpensSet(y)
    BY <2>1, <1>3, <1>4
  <2>2. CASE ~OpensSet(y)
    <3>1. Len(sets') = Len(sets) /\ \A i \in 1 .. Len(sets) - 1 : sets'[i] = sets[i]
      BY <2>2, <1>3
    <3> QED BY <3>1, <1>4
  <2> QED BY <2>1, <2>2
<1>6. /\ new.years = Append(old.years, y)
      /\ new.performed = IF Performed(y) THEN Append(old.performed, y) ELSE old.performed
      /\ new.regenerateTS = old.regenerateTS
      /\ new.yearForTSgeneration = old.yearForTSgeneration
      /\ old.years \in Seq(Years) /\ old.performed \in Seq(Years)
      /\ new.years \in Seq(Years) /\ new.performed \in Seq(Years)
  <2>1. new = AddYear(old, y)
    BY <1>3
  <2>2. /\ AddYear(old, y).years = Append(old.years, y)
        /\ AddYear(old, y).performed =
                IF Performed(y) THEN Append(old.performed, y) ELSE old.performed
        /\ AddYear(old, y).regenerateTS = old.regenerateTS
        /\ AddYear(old, y).yearForTSgeneration = old.yearForTSgeneration
    BY <1>1, <1>2, AddYearAdds
  <2>3. /\ old.years \in Seq(Years) /\ old.performed \in Seq(Years)
        /\ new.years \in Seq(Years) /\ new.performed \in Seq(Years)
    BY DEF Subsets
  <2> QED BY <2>1, <2>2, <2>3
<1>7. OpensSet(y) => old.years = <<>> /\ old.performed = <<>>
  BY <1>2, <1>3, EmptySetType
<1>8. ~OpensSet(y) => /\ Len(sets) \in DOMAIN sets
                      /\ Len(old.performed) < maxNbYearsInParallel
                      /\ old.years # <<>>
                      /\ LastOf(old.years) + 1 = y
  BY <1>1, <1>2, <1>3, <1>4 DEF OpensSet, BuildInv, YearsCutInOrder, LastOf
<1>9. Len(old.performed) \in Nat /\ Len(old.performed) < maxNbYearsInParallel
  <2>1. Len(<<>>) = 0
    OBVIOUS
  <2> QED BY <2>1, <1>4, <1>6, <1>7, <1>8
<1>10. Len(new.performed) \in Nat /\ Len(new.performed) <= maxNbYearsInParallel
  BY <1>4, <1>6, <1>9
<1>11. TypeOK'
  <2>1. foundFirst' \in BOOLEAN
    BY DEF BuildYear
  <2>2. buildNewSet' \in BOOLEAN
    BY DEF BuildYear, IsFull
  <2>3. maxNbYearsPerformed' \in Nat
    BY <1>1, <1>10, <2>1 DEF BuildYear, TypeOK
  <2>4. nbYearsReallyPerformed' \in Nat
    BY <1>1 DEF BuildYear, TypeOK
  <2>5. /\ studySets' = studySets /\ minNbYearsInParallel' = minNbYearsInParallel
        /\ allSetsHaveSameSize' = allSetsHaveSameSize
    BY DEF BuildYear, studyVars
  <2>6. y' \in 0 .. NbYears
    BY <1>2, <1>4
  <2> QED BY <1>1, <1>2, <1>3, <2>1, <2>2, <2>3, <2>4, <2>5, <2>6 DEF TypeOK
<1>12. CountInv' /\ StartInv'
  BY <1>2, <1>4 DEF CountInv, StartInv
<1>13. BuildInv'
  <2>1. LastOf(sets') = new
    BY <1>3 DEF LastOf
  <2>2. ~buildNewSet' => Len(new.performed) < maxNbYearsInParallel
    <3>1. CASE Performed(y)
      <4>1. ~buildNewSet' => Len(new.performed) # maxNbYearsInParallel
        BY <3>1, <1>3 DEF IsFull
      <4> QED BY <4>1, <1>4, <1>10
    <3>2. CASE ~Performed(y)
      BY <3>2, <1>6, <1>9
    <3> QED BY <3>1, <3>2
  <2> QED BY <2>1, <2>2, <1>2, <1>4 DEF BuildInv, LastOf
<1>14. SpacesFit'
  <2>1. ASSUME NEW i \in DOMAIN sets'
        PROVE  Len(sets'[i].performed) <= maxNbYearsInParallel
    <3>1. CASE i = Len(sets')
      BY <3>1, <1>3, <1>10
    <3>2. CASE i \in 1 .. Len(sets') - 1
      BY <3>2, <1>1, <1>4, <1>5 DEF SpacesFit
    <3> QED BY <3>1, <3>2, <1>4
  <2> QED BY <2>1, <1>2 DEF SpacesFit
<1>15. /\ new.years # <<>>
       /\ \A j \in DOMAIN new.years : new.years[j] = new.years[1] + (j - 1)
       /\ LastOf(new.years) = y
  <2>1. CASE OpensSet(y)
    <3>1. new.years = Append(<<>>, y)
      BY <2>1, <1>6, <1>7
    <3> QED BY <3>1, <1>4 DEF LastOf
  <2>2. CASE ~OpensSet(y)
    <3>1. \A j \in DOMAIN old.years : old.years[j] = old.years[1] + (j - 1)
      BY <2>2, <1>1, <1>3, <1>8 DEF YearsCutInOrder
    <3>2. /\ Len(old.years) \in Nat \ {0} /\ DOMAIN old.years = 1 .. Len(old.years)
          /\ Len(new.years) = Len(old.years) + 1 /\ DOMAIN new.years = 1 .. Len(new.years)
          /\ \A j \in 1 .. Len(old.years) : new.years[j] = old.years[j]
          /\ new.years[Len(old.years) + 1] = y
          /\ old.years[1] \in Years
      BY <2>2, <1>2, <1>6, <1>8
    <3>3. y = old.years[1] + Len(old.years)
      <4>1. Len(old.years) \in DOMAIN old.years
        BY <3>2
      <4>2. old.years[Len(old.years)] = old.years[1] + (Len(old.years) - 1)
        BY <3>1, <4>1
      <4>3. old.years[Len(old.years)] + 1 = y
        BY <2>2, <1>8 DEF LastOf
      <4>4. Len(old.years) \in Nat /\ old.years[1] \in Int
        BY <3>2, <1>4 DEF Years
      <4> QED BY <4>2, <4>3, <4>4
    <3>4. ASSUME NEW j \in DOMAIN new.years
          PROVE  new.years[j] = new.years[1] + (j - 1)
      <4>1. CASE j = Len(old.years) + 1
        BY <4>1, <3>2, <3>3
      <4>2. CASE j \in 1 .. Len(old.years)
        BY <4>2, <3>1, <3>2
      <4> QED BY <4>1, <4>2, <3>2
    <3> QED BY <3>2, <3>4 DEF LastOf
  <2> QED BY <2>1, <2>2
<1>16. YearsCutInOrder'
  <2>1. ASSUME NEW i \in DOMAIN sets'
        PROVE  /\ sets'[i].years # <<>>
               /\ \A j \in DOMAIN sets'[i].years :
                     sets'[i].years[j] = sets'[i].years[1] + (j - 1)
               /\ sets'[i].years[1] = IF i = 1 THEN 0 ELSE LastOf(sets'[i - 1].years) + 1
    <3>1. CASE i \in 1 .. Len(sets') - 1
      <4>1. /\ i \in DOMAIN sets /\ sets'[i] = sets[i]
            /\ i # 1 => sets'[i - 1] = sets[i - 1]
        BY <3>1, <1>4, <1>5
      <4> QED BY <4>1, <1>1 DEF YearsCutInOrder
    <3>2. CASE i = Len(sets') /\ OpensSet(y)
      <4>1. new.years = Append(<<>>, y)
        BY <3>2, <1>6, <1>7
      <4>2. new.years[1] = y
        BY <4>1, <1>4
      <4>3. i = Len(sets) + 1
        BY <3>2, <1>3
      <4>4. CASE Len(sets) = 0
        <5>1. sets = <<>>
          BY <4>4, <1>4
        <5>2. y = 0
          BY <5>1, <1>1, <1>2 DEF StartInv
        <5> QED BY <3>2, <4>2, <4>3, <4>4, <5>2, <1>3, <1>15
      <4>5. CASE Len(sets) # 0
        <5>1. sets # <<>> /\ i # 1 /\ i - 1 = Len(sets) /\ sets'[i - 1] = sets[Len(sets)]
          BY <3>2, <4>3, <4>5, <1>3, <1>4
        <5>2. LastOf(sets[Len(sets)].years) + 1 = y
          BY <5>1, <1>1 DEF YearsCutInOrder, LastOf
        <5> QED BY <3>2, <4>2, <5>1, <5>2, <1>3, <1>15
      <4> QED BY <4>4, <4>5
    <3>3. CASE i = Len(sets') /\ ~OpensSet(y)
      <4>1. Len(sets) \in DOMAIN sets /\ old = sets[Len(sets)] /\ i = Len(sets)
        BY <3>3, <1>3, <1>8
      <4>2. old.years # <<>> /\ old.years[1] = IF i = 1 THEN 0 ELSE LastOf(sets[i - 1].years) + 1
        BY <4>1, <1>1 DEF YearsCutInOrder
      <4>3. new.years[1] = old.years[1]
        BY <4>2, <1>2, <1>6
      <4>4. i # 1 => sets'[i - 1] = sets[i - 1]
        BY <4>1, <3>3, <1>4, <1>5
      <4> QED BY <3>3, <4>2, <4>3, <4>4, <1>3, <1>15
    <3> QED BY <3>1, <3>2, <3>3, <1>4
  <2>2. LastOf(LastOf(sets').years) + 1 = y'
    BY <1>2, <1>3, <1>15 DEF LastOf
  <2> QED BY <2>1, <2>2 DEF YearsCutInOrder
<1>17. RefreshOpensSet'
  <2>1. ASSUME NEW i \in DOMAIN sets'
        PROVE  /\ \A j \in DOMAIN sets'[i].years :
                     SolverRefreshing(sets'[i].years[j]) => j = 1
               /\ sets'[i].regenerateTS <=> SolverRefreshing(sets'[i].years[1])
               /\ sets'[i].regenerateTS =>
                     sets'[i].yearForTSgeneration = sets'[i].years[1]
    <3>1. CASE i \in 1 .. Len(sets') - 1
      <4>1. i \in DOMAIN sets /\ sets'[i] = sets[i]
        BY <3>1, <1>4, <1>5
      <4> QED BY <4>1, <1>1 DEF RefreshOpensSet
    <3>2. CASE i = Len(sets') /\ OpensSet(y)
      <4>1. new.years = Append(<<>>, y)
        BY <3>2, <1>6, <1>7
      <4>2. new.years[1] = y /\ DOMAIN new.years = 1 .. 1
        BY <4>1, <1>4
      <4>3. /\ new.regenerateTS <=> SolverRefreshing(y)
            /\ new.regenerateTS => new.yearForTSgeneration = y
        BY <3>2, <1>2, <1>3, <1>6, EmptySetType
      <4> QED BY <3>2, <4>2, <4>3, <1>3
    <3>3. CASE i = Len(sets') /\ ~OpensSet(y)
      <4>1. Len(sets) \in DOMAIN sets /\ old = sets[Len(sets)]
        BY <3>3, <1>3, <1>8
      <4>2. /\ old.years # <<>> /\ Len(old.years) \in Nat
            /\ \A j \in 1 .. Len(old.years) : SolverRefreshing(old.years[j]) => j = 1
            /\ old.regenerateTS <=> SolverRefreshing(old.years[1])
            /\ old.regenerateTS => old.yearForTSgeneration = old.years[1]
        BY <4>1, <3>3, <1>1, <1>6, <1>8 DEF RefreshOpensSet
      <4>3. /\ \A j \in 1 .. Len(old.years) : new.years[j] = old.years[j]
            /\ new.years[Len(old.years) + 1] = y
            /\ DOMAIN new.years = 1 .. Len(old.years) + 1
            /\ new.years[1] = old.years[1]
        BY <4>2, <1>2, <1>6
      <4>4. ~SolverRefreshing(y)
        BY <3>3 DEF OpensSet
      <4>5. \A j \in DOMAIN new.years : SolverRefreshing(new.years[j]) => j = 1
        BY <4>2, <4>3, <4>4
      <4> QED BY <3>3, <4>2, <4>3, <4>5, <1>3, <1>6
    <3> QED BY <3>1, <3>2, <3>3, <1>4
  <2>2. \A yr : SolverRefreshing(yr)' <=> SolverRefreshing(yr)
    BY <1>2 DEF SolverRefreshing, KindRefreshing, ForcedRefreshing, SolverKinds
  <2> QED BY <2>1, <2>2 DEF RefreshOpensSet
<1>18. OneSpacePerYear'
  <2>1. /\ \A a, b \in DOMAIN old.performed : a < b => old.performed[a] < old.performed[b]
        /\ \A yr \in Years :
              (\E j \in DOMAIN old.performed : old.performed[j] = yr)
              <=> Performed(yr) /\ \E j \in DOMAIN old.years : old.years[j] = yr
        /\ \A j \in DOMAIN old.years : old.years[j] < y
    <3>1. CASE OpensSet(y)
      <4>1. DOMAIN old.years = {} /\ DOMAIN old.performed = {}
        BY <3>1, <1>7
      <4> QED BY <4>1
    <3>2. CASE ~OpensSet(y)
      <4>1. Len(sets) \in DOMAIN sets /\ old = sets[Len(sets)]
        BY <3>2, <1>3, <1>8
      <4>2. /\ \A a, b \in DOMAIN old.performed :
                  a < b => old.performed[a] < old.performed[b]
            /\ \A yr \in Years :
                  (\E j \in DOMAIN old.performed : old.performed[j] = yr)
                  <=> Performed(yr) /\ \E j \in DOMAIN old.years : old.years[j] = yr
        BY <4>1, <1>1 DEF OneSpacePerYear
      <4>3. \A j \in DOMAIN old.years : old.years[j] = old.years[1] + (j - 1)
        BY <4>1, <1>1 DEF YearsCutInOrder
      <4>4. /\ DOMAIN old.years = 1 .. Len(old.years) /\ Len(old.years) \in Nat \ {0}
            /\ old.years[1] \in Int
        BY <3>2, <1>4, <1>6, <1>8 DEF Years
      <4>5. old.years[1] + (Len(old.years) - 1) + 1 = y
        <5>1. old.years[Len(old.years)] = old.years[1] + (Len(old.years) - 1)
          <6>1. Len(old.years) \in DOMAIN old.years
            BY <4>4
          <6> QED BY <4>3, <6>1
        <5>2. old.years[Len(old.years)] + 1 = y
          BY <3>2, <1>8 DEF LastOf
        <5> QED BY <5>1, <5>2
      <4>6. \A j \in DOMAIN old.years : old.years[j] < y
        BY <4>3, <4>4, <4>5, <1>4
      <4> QED BY <4>2, <4>6
    <3> QED BY <3>1, <3>2
  <2>2. /\ DOMAIN new.years = 1 .. Len(old.years) + 1
        /\ DOMAIN old.years = 1 .. Len(old.years) /\ Len(old.years) \in Nat
        /\ \A j \in DOMAIN old.years : new.years[j] = old.years[j]
        /\ new.years[Len(old.years) + 1] = y
    BY <1>2, <1>6
  <2>3. DOMAIN old.performed = 1 .. Len(old.performed) /\ Len(old.performed) \in Nat
    BY <1>6
  <2>4. Performed(y) => /\ DOMAIN new.performed = 1 .. Len(old.performed) + 1
                        /\ \A j \in DOMAIN old.performed :
                              new.performed[j] = old.performed[j]
                        /\ new.performed[Len(old.performed) + 1] = y
    BY <1>2, <1>6
  <2>5. ~Performed(y) => new.performed = old.performed
    BY <1>6
  <2>6. ASSUME NEW a \in DOMAIN new.performed, NEW b \in DOMAIN new.performed, a < b
        PROVE  new.performed[a] < new.performed[b]
    <3>1. CASE ~Performed(y)
      BY <3>1, <2>1, <2>5, <2>6
    <3>2. CASE Performed(y) /\ b \in DOMAIN old.performed
      BY <3>2, <2>1, <2>3, <2>4, <2>6
    <3>3. CASE Performed(y) /\ b = Len(old.performed) + 1
      <4>1. a \in DOMAIN old.performed
        BY <3>3, <2>3, <2>4, <2>6
      <4>2. PICK j \in DOMAIN old.years : old.years[j] = old.performed[a]
        BY <4>1, <2>1, <1>6
      <4> QED BY <3>3, <4>1, <4>2, <2>1, <2>4
    <3> QED BY <3>1, <3>2, <3>3, <2>3, <2>4
  <2>7. ASSUME NEW yr \in Years
        PROVE  (\E j \in DOMAIN new.performed : new.performed[j] = yr)
               <=> Performed(yr) /\ \E j \in DOMAIN new.years : new.years[j] = yr
    <3>1. (\E j \in DOMAIN new.years : new.years[j] = yr)
          <=> yr = y \/ \E j \in DOMAIN old.years : old.years[j] = yr
      BY <2>2
    <3>2. CASE Performed(y)
      <4>1. (\E j \in DOMAIN new.performed : new.performed[j] = yr)
            <=> yr = y \/ \E j \in DOMAIN old.performed : old.performed[j] = yr
        BY <3>2, <2>3, <2>4
      <4> QED BY <3>1, <3>2, <4>1, <2>1
    <3>3. CASE ~Performed(y)
      BY <3>1, <3>3, <2>1, <2>5
    <3> QED BY <3>2, <3>3
  <2>8. ASSUME NEW i \in DOMAIN sets'
        PROVE  LET p == sets'[i].performed
               IN  /\ \A a, b \in DOMAIN p : a < b => p[a] < p[b]
                   /\ \A yr \in Years :
                         (\E j \in DOMAIN p : p[j] = yr)
                         <=> /\ Performed(yr)
                             /\ \E j \in DOMAIN sets'[i].years : sets'[i].years[j] = yr
    <3>1. CASE i \in 1 .. Len(sets') - 1
      <4>1. i \in DOMAIN sets /\ sets'[i] = sets[i]
        BY <3>1, <1>4, <1>5
      <4> QED BY <4>1, <1>1 DEF OneSpacePerYear
    <3>2. CASE i = Len(sets')
      <4>1. sets'[i] = new
        BY <3>2, <1>3
      <4> QED BY <4>1, <2>6, <2>7
    <3> QED BY <3>1, <3>2, <1>4
  <2>9. \A yr : Performed(yr)' <=> Performed(yr)
    BY <1>2 DEF Performed
  <2> QED BY <2>8, <2>9 DEF OneSpacePerYear
<1> QED BY <1>11, <1>12, <1>13, <1>14, <1>16, <1>17, <1>18 DEF IInv

-----------------------------------------------------------------------------
(* The theorems. *)

\* A crash and the end of the loop only move pc.
LEMMA OtherInv == IInv /\ (Crash \/ EndBuild \/ UNCHANGED vars) => IInv'
<1> SUFFICES ASSUME IInv, Crash \/ EndBuild \/ UNCHANGED vars PROVE IInv'
  OBVIOUS
<1>1. /\ UNCHANGED <<conf, y, buildNewSet, maxNbYearsInParallel, studySets,
                     minNbYearsInParallel, allSetsHaveSameSize, sets, foundFirst,
                     nbYearsReallyPerformed, maxNbYearsPerformed>>
      /\ pc' = pc \/ (pc = "build" /\ pc' \in {"built", "crashed"})
  BY DEF Crash, EndBuild, AtAYear, vars, studyVars, solverVars
<1>2. TypeOK' /\ CountInv' /\ BuildInv' /\ StartInv'
  BY <1>1 DEF IInv, TypeOK, CountInv, BuildInv, StartInv
<1>3. SpacesFit' /\ YearsCutInOrder'
  BY <1>1 DEF IInv, SpacesFit, YearsCutInOrder
<1>4. RefreshOpensSet'
  <2>1. \A yr : SolverRefreshing(yr)' <=> SolverRefreshing(yr)
    BY <1>1 DEF SolverRefreshing, KindRefreshing, ForcedRefreshing, SolverKinds
  <2> QED BY <1>1, <2>1 DEF IInv, RefreshOpensSet
<1>5. OneSpacePerYear'
  BY <1>1 DEF IInv, OneSpacePerYear, Performed
<1> QED BY <1>2, <1>3, <1>4, <1>5 DEF IInv

\* The inductive invariant holds of every behaviour.
THEOREM Invariance == Spec => []IInv
<1>1. IInv /\ [Next]_vars => IInv'
  BY CountYearInv, SummariseInv, BuildYearInv, OtherInv DEF Next
<1> QED BY <1>1, InitInv, PTL DEF Spec

\* Every variable keeps its type.
THEOREM TypeCorrect == Spec => []TypeOK
<1>1. IInv => TypeOK
  BY DEF IInv
<1> QED BY <1>1, Invariance, PTL

\* No set of parallel years performs more years than there are spaces in the
\* memory allocated for maxNbYearsInParallel years (buildSetsOfParallelYears
\* against the allocation of Variable::State and of the weekly problems), with
\* or without a cluster that forces its own generation.
THEOREM SpacesAlwaysFit == Spec => []SpacesFit
<1>1. IInv => SpacesFit
  BY DEF IInv
<1> QED BY <1>1, Invariance, PTL

\* The sets cut the years into consecutive runs: none is skipped or repeated.
THEOREM CutInOrder == Spec => []YearsCutInOrder
<1>1. IInv => YearsCutInOrder
  BY DEF IInv
<1> QED BY <1>1, Invariance, PTL

\* A year of the playlist has exactly one space in its set, other years none.
THEOREM SpacesAreExclusive == Spec => []OneSpacePerYear
<1>1. IInv => OneSpacePerYear
  BY DEF IInv
<1> QED BY <1>1, Invariance, PTL

\* A year at which time series are regenerated is the first of its set, and the
\* set knows it: regenerateTimeSeries is called for it before any job runs.
THEOREM RefreshAlwaysOpensSet == Spec => []RefreshOpensSet
<1>1. IInv => RefreshOpensSet
  BY DEF IInv
<1> QED BY <1>1, Invariance, PTL

-----------------------------------------------------------------------------
(* Both loops grow a sequence of runs of years, one year at a time. *)

\* What the year z makes of the runs s: it may open a run, and the last run takes
\* z if it is in the playlist.
Grown(s, t, z) ==
    LET old == IF Len(t) = Len(s) THEN s[Len(s)] ELSE <<>>
    IN  /\ Len(t) \in {Len(s), Len(s) + 1} \ {0}
        /\ \A j \in 1 .. Len(t) - 1 : t[j] = s[j]
        /\ t[Len(t)] = IF Performed(z) THEN Append(old, z) ELSE old

\* A year keeps what is in the runs and adds itself at most.
LEMMA GrownElements ==
    ASSUME NEW s \in Seq(Seq(Years)), NEW t \in Seq(Seq(Years)), NEW z \in Years,
           Grown(s, t, z)
    PROVE  /\ \A j \in DOMAIN s : /\ j \in DOMAIN t
                                  /\ \A k \in DOMAIN s[j] : /\ k \in DOMAIN t[j]
                                                            /\ t[j][k] = s[j][k]
           /\ \A j \in DOMAIN t : \A k \in DOMAIN t[j] :
                 \/ j \in DOMAIN s /\ k \in DOMAIN s[j] /\ t[j][k] = s[j][k]
                 \/ j = Len(t) /\ k = Len(t[j]) /\ Performed(z) /\ t[j][k] = z
           /\ Len(t) \in DOMAIN t
           /\ Performed(z) => /\ Len(t[Len(t)]) \in DOMAIN t[Len(t)]
                              /\ t[Len(t)][Len(t[Len(t)])] = z
<1> DEFINE n   == Len(t)
           old == IF Len(t) = Len(s) THEN s[Len(s)] ELSE <<>>
<1>1. /\ n \in {Len(s), Len(s) + 1} \ {0}
      /\ \A j \in 1 .. n - 1 : t[j] = s[j]
      /\ t[n] = IF Performed(z) THEN Append(old, z) ELSE old
  BY DEF Grown
<1>2. /\ Len(s) \in Nat /\ n \in Nat /\ DOMAIN s = 1 .. Len(s) /\ DOMAIN t = 1 .. n
      /\ \A j \in 1 .. Len(s) : s[j] \in Seq(Years)
      /\ \A j \in 1 .. n : t[j] \in Seq(Years)
  OBVIOUS
<1>3. n \in 1 .. n
  <2>1. n \in Nat /\ n # 0
    BY <1>1, <1>2
  <2> HIDE DEF n
  <2> QED BY <2>1
<1>4. old \in Seq(Years)
  <2>1. CASE n = Len(s)
    <3>1. Len(s) \in 1 .. Len(s)
      BY <2>1, <1>3
    <3> QED BY <2>1, <3>1, <1>2
  <2>2. CASE n # Len(s)
    <3>1. <<>> \in Seq(Years)
      OBVIOUS
    <3> QED BY <2>2, <3>1
  <2> QED BY <2>1, <2>2
<1>5. n = Len(s) => old = s[n]
  OBVIOUS
<1>6. n # Len(s) => n = Len(s) + 1 /\ old = <<>> /\ DOMAIN old = {}
  BY <1>1
<1> HIDE DEF old, n
<1>7. /\ DOMAIN old = 1 .. Len(old) /\ Len(old) \in Nat
      /\ \A k \in DOMAIN old : k \in DOMAIN t[n] /\ t[n][k] = old[k]
      /\ \A k \in DOMAIN t[n] : \/ k \in DOMAIN old /\ t[n][k] = old[k]
                                \/ k = Len(t[n]) /\ Performed(z) /\ t[n][k] = z
      /\ Performed(z) => Len(t[n]) \in DOMAIN t[n] /\ t[n][Len(t[n])] = z
  <2>1. CASE Performed(z)
    <3>1. t[n] = Append(old, z)
      BY <2>1, <1>1
    <3> QED BY <2>1, <3>1, <1>4
  <2>2. CASE ~Performed(z)
    <3>1. t[n] = old
      BY <2>2, <1>1
    <3> QED BY <2>2, <3>1, <1>4
  <2> QED BY <2>1, <2>2
<1>8. ASSUME NEW j \in DOMAIN s
      PROVE  /\ j \in DOMAIN t
             /\ \A k \in DOMAIN s[j] : k \in DOMAIN t[j] /\ t[j][k] = s[j][k]
  <2>1. CASE j \in 1 .. n - 1
    <3>1. j \in DOMAIN t /\ t[j] = s[j]
      BY <2>1, <1>1, <1>2
    <3> QED BY <3>1
  <2>2. CASE j = n /\ n = Len(s)
    BY <2>2, <1>2, <1>3, <1>5, <1>7
  <2>3. j \in 1 .. Len(s) /\ (n = Len(s) \/ n = Len(s) + 1)
    <3>1. n \in {Len(s), Len(s) + 1}
      BY <1>1
    <3> QED BY <3>1, <1>2
  <2>4. j \in 1 .. n - 1 \/ (j = n /\ n = Len(s))
    <3> DEFINE m == Len(s)
    <3>1. m \in Nat /\ n \in Nat /\ j \in 1 .. m /\ (n = m \/ n = m + 1)
      BY <2>3, <1>2
    <3> HIDE DEF m
    <3>2. j \in 1 .. n - 1 \/ (j = n /\ n = m)
      BY <3>1
    <3> QED BY <3>2 DEF m
  <2> QED BY <2>1, <2>2, <2>4
<1>9. ASSUME NEW j \in DOMAIN t, NEW k \in DOMAIN t[j]
      PROVE  \/ j \in DOMAIN s /\ k \in DOMAIN s[j] /\ t[j][k] = s[j][k]
             \/ j = n /\ k = Len(t[j]) /\ Performed(z) /\ t[j][k] = z
  <2>1. CASE j \in 1 .. n - 1
    <3>1. t[j] = s[j]
      BY <2>1, <1>1
    <3>2. j \in DOMAIN s
      BY <2>1, <1>1, <1>2
    <3> QED BY <3>1, <3>2
  <2>2. CASE j = n /\ n = Len(s)
    <3>1. j \in DOMAIN s /\ s[j] = old
      BY <2>2, <1>2, <1>3, <1>5
    <3> QED BY <2>2, <3>1, <1>7
  <2>3. CASE j = n /\ n # Len(s)
    <3>1. k \notin DOMAIN old
      BY <2>3, <1>6
    <3> QED BY <2>3, <3>1, <1>7
  <2>4. j \in 1 .. n - 1 \/ j = n
    BY <1>2
  <2> QED BY <2>1, <2>2, <2>3, <2>4
<1> QED BY <1>2, <1>3, <1>7, <1>8, <1>9 DEF n

LEMMA YearsAreNats == \A z \in Years : z \in Nat
BY DEF Years

\* A sequence of years.
LEMMA YearSequences ==
    \A r \in Seq(Years) : /\ Len(r) \in Nat /\ DOMAIN r = 1 .. Len(r)
                          /\ \A k \in DOMAIN r : r[k] \in Nat /\ r[k] \in Years
                          /\ r # <<>> => Len(r) # 0 /\ 1 \in DOMAIN r /\ Len(r) \in DOMAIN r
<1>1. ASSUME NEW r \in Seq(Years)
      PROVE  /\ Len(r) \in Nat /\ DOMAIN r = 1 .. Len(r)
             /\ \A k \in DOMAIN r : r[k] \in Nat /\ r[k] \in Years
             /\ r # <<>> => Len(r) # 0 /\ 1 \in DOMAIN r /\ Len(r) \in DOMAIN r
  <2>1. Len(r) \in Nat /\ DOMAIN r = 1 .. Len(r) /\ \A k \in DOMAIN r : r[k] \in Years
    OBVIOUS
  <2>2. r # <<>> => Len(r) # 0
    OBVIOUS
  <2> QED BY <2>1, <2>2, YearsAreNats
<1> QED BY <1>1

\* The shape of the runs around that year.
LEMMA GrownShape ==
    ASSUME NEW s \in Seq(Seq(Years)), NEW t \in Seq(Seq(Years)), NEW z \in Years,
           Grown(s, t, z)
    PROVE  /\ Len(s) \in Nat /\ Len(t) \in Nat /\ DOMAIN s = 1 .. Len(s) /\ DOMAIN t = 1 .. Len(t)
           /\ Len(t) = Len(s) \/ Len(t) = Len(s) + 1
           /\ \A j \in DOMAIN t : j < Len(t) => j \in DOMAIN s /\ t[j] = s[j]
           /\ \A j \in DOMAIN s : /\ Len(s[j]) \in Nat /\ DOMAIN s[j] = 1 .. Len(s[j])
                                  /\ \A k \in DOMAIN s[j] : s[j][k] \in Nat
           /\ \A j \in DOMAIN t : /\ Len(t[j]) \in Nat /\ DOMAIN t[j] = 1 .. Len(t[j])
                                  /\ \A k \in DOMAIN t[j] : t[j][k] \in Nat
           /\ ~Performed(z) => t[Len(t)] = IF Len(t) = Len(s) THEN s[Len(t)] ELSE <<>>
           /\ Performed(z) => Len(t[Len(t)]) = IF Len(t) = Len(s) THEN Len(s[Len(t)]) + 1 ELSE 1
<1> DEFINE a == Len(s)
           b == Len(t)
<1>1. /\ a \in Nat /\ b \in Nat /\ DOMAIN s = 1 .. a /\ DOMAIN t = 1 .. b
      /\ \A j \in DOMAIN s : s[j] \in Seq(Years)
      /\ \A j \in DOMAIN t : t[j] \in Seq(Years)
  OBVIOUS
<1>2. /\ b \in {a, a + 1} \ {0}
      /\ \A j \in 1 .. b - 1 : t[j] = s[j]
      /\ t[b] = IF Performed(z) THEN Append(IF b = a THEN s[a] ELSE <<>>, z)
                                ELSE IF b = a THEN s[a] ELSE <<>>
  BY Zenon DEF Grown
<1> HIDE DEF a, b
<1>3. b = a \/ b = a + 1
  BY <1>2
<1>4. \A j \in DOMAIN t : j < b => j \in DOMAIN s /\ t[j] = s[j]
  <2>1. \A j \in DOMAIN t : j < b => j \in 1 .. b - 1 /\ j \in 1 .. a
    BY <1>1, <1>3
  <2> QED BY <2>1, <1>1, <1>2
<1>5. \A r \in Seq(Years) : /\ Len(r) \in Nat /\ DOMAIN r = 1 .. Len(r)
                            /\ \A k \in DOMAIN r : r[k] \in Nat
  BY YearSequences
<1>6. b = a => a \in DOMAIN s
  <2>1. b # 0
    BY <1>2
  <2> QED BY <2>1, <1>1
<1>7. ~Performed(z) => t[b] = IF b = a THEN s[b] ELSE <<>>
  BY <1>2
<1>8. Performed(z) => Len(t[b]) = IF b = a THEN Len(s[b]) + 1 ELSE 1
  <2>1. ASSUME NEW r \in Seq(Years) PROVE Len(Append(r, z)) = Len(r) + 1
    OBVIOUS
  <2>2. CASE Performed(z) /\ b = a
    <3>1. t[b] = Append(s[b], z) /\ s[b] \in Seq(Years)
      BY <2>2, <1>1, <1>2, <1>6
    <3> QED BY <2>1, <2>2, <3>1
  <2>3. CASE Performed(z) /\ b # a
    <3>1. t[b] = Append(<<>>, z)
      BY <2>3, <1>2
    <3>2. Len(t[b]) = 1
      BY <3>1
    <3> QED BY <2>3, <3>2
  <2> QED BY <2>2, <2>3
<1> QED BY <1>1, <1>3, <1>4, <1>5, <1>7, <1>8 DEF a, b

\* The performed years of the sets of the solver.
Runs == [j \in DOMAIN sets |-> sets[j].performed]

RunsOK ==
    /\ Runs \in Seq(Seq(Years))
    /\ Len(Runs) = Len(sets)
    /\ Len(sets) \in Nat
    /\ DOMAIN sets = 1 .. Len(sets)
    /\ \A j \in DOMAIN sets : Runs[j] = sets[j].performed

LEMMA RunsType == TypeOK => RunsOK
<1> SUFFICES ASSUME TypeOK PROVE RunsOK
  OBVIOUS
<1>1. sets \in Seq(Subsets)
  BY DEF TypeOK
<1>2. \A j \in DOMAIN sets : sets[j].performed \in Seq(Years)
  <2>1. \A s \in Subsets : s.performed \in Seq(Years)
    BY DEF Subsets
  <2> QED BY <1>1, <2>1
<1>3. Len(sets) \in Nat /\ DOMAIN sets = 1 .. Len(sets)
  BY <1>1
<1>4. /\ Runs \in [1 .. Len(sets) -> Seq(Years)] /\ DOMAIN Runs = 1 .. Len(sets)
      /\ \A j \in DOMAIN sets : Runs[j] = sets[j].performed
  BY <1>2, <1>3 DEF Runs
<1>5. Runs \in Seq(Seq(Years))
  <2> DEFINE S == Seq(Years)
  <2>1. Runs \in [1 .. Len(sets) -> S]
    BY <1>4
  <2> HIDE DEF S
  <2>2. Runs \in Seq(S)
    BY <2>1, <1>3
  <2> QED BY <2>2 DEF S
<1>6. Len(Runs) = Len(sets)
  BY <1>3, <1>4, <1>5
<1> QED BY <1>3, <1>4, <1>5, <1>6 DEF RunsOK

\* One year of the loop of the solver.
LEMMA BuildYearGrows ==
    ASSUME IInv, BuildYear
    PROVE  /\ pc = "build" /\ pc' = "build" /\ y \in Years /\ y' = y + 1
           /\ UNCHANGED <<conf, maxNbYearsInParallel, studySets, minNbYearsInParallel,
                          allSetsHaveSameSize>>
           /\ Runs \in Seq(Seq(Years)) /\ Runs' \in Seq(Seq(Years))
           /\ Grown(Runs, Runs', y)
           /\ OpensSet(y) => Len(Runs') = Len(Runs) + 1
           /\ ~OpensSet(y) => Len(Runs') = Len(Runs)
           /\ buildNewSet' <=> IsFull(Len(LastOf(Runs')), y)
           /\ foundFirst' <=> ~buildNewSet' /\ (foundFirst \/ Performed(y))
           /\ maxNbYearsPerformed' =
                IF buildNewSet' /\ Len(LastOf(Runs')) > maxNbYearsPerformed
                THEN Len(LastOf(Runs')) ELSE maxNbYearsPerformed
           /\ Len(sets') = IF OpensSet(y) THEN Len(sets) + 1 ELSE Len(sets)
           /\ Len(sets') \in DOMAIN sets'
           /\ DOMAIN sets' = 1 .. Len(sets') /\ DOMAIN sets = 1 .. Len(sets)
           /\ Len(sets) \in Nat
           /\ \A j \in 1 .. Len(sets') - 1 : j \in DOMAIN sets /\ sets'[j] = sets[j]
           /\ LastOf(sets').firstPerformed =
                IF Performed(y) /\ ~foundFirst
                THEN (IF OpensSet(y) THEN {} ELSE LastOf(sets).firstPerformed) \cup {y}
                ELSE IF OpensSet(y) THEN {} ELSE LastOf(sets).firstPerformed
<1>1. /\ pc = "build" /\ pc' = "build" /\ y \in Years /\ y' = y + 1
      /\ conf' = conf /\ maxNbYearsInParallel' = maxNbYearsInParallel
  BY BuildYearCases
<1>2. PICK old, new \in Subsets :
        /\ new = AddYear(old, y)
        /\ sets' \in Seq(Subsets)
        /\ Len(sets') \in 1 .. Len(sets')
        /\ sets'[Len(sets')] = new
        /\ buildNewSet' <=> IsFull(Len(new.performed), y)
        /\ \/ /\ OpensSet(y)
              /\ old = EmptySet(y)
              /\ Len(sets') = Len(sets) + 1
              /\ \A i \in 1 .. Len(sets) : sets'[i] = sets[i]
           \/ /\ ~OpensSet(y)
              /\ old = sets[Len(sets)]
              /\ Len(sets') = Len(sets)
              /\ \A i \in 1 .. Len(sets) - 1 : sets'[i] = sets[i]
  BY BuildYearCases
<1>3. TypeOK /\ TypeOK'
  BY BuildYearInv DEF IInv
<1>4. /\ Runs \in Seq(Seq(Years)) /\ Len(Runs) = Len(sets)
      /\ Len(sets) \in Nat /\ DOMAIN sets = 1 .. Len(sets)
      /\ \A j \in DOMAIN sets : Runs[j] = sets[j].performed
  BY <1>3, RunsType DEF RunsOK
<1>5. /\ Runs' \in Seq(Seq(Years)) /\ Len(Runs') = Len(sets')
      /\ Len(sets') \in Nat /\ DOMAIN sets' = 1 .. Len(sets')
      /\ \A j \in DOMAIN sets' : Runs'[j] = sets'[j].performed
  <2>1. RunsOK'
    BY <1>3, RunsType, PTL
  <2> QED BY <2>1 DEF RunsOK
<1>7. /\ new.performed = IF Performed(y) THEN Append(old.performed, y) ELSE old.performed
      /\ new.firstPerformed = IF Performed(y) /\ ~foundFirst
                              THEN old.firstPerformed \cup {y} ELSE old.firstPerformed
  BY <1>2 DEF AddYear
<1>8. OpensSet(y) => old.performed = <<>> /\ old.firstPerformed = {}
  BY <1>2 DEF EmptySet
<1>9. Len(sets') \in DOMAIN sets' /\ Len(sets') # 0
  BY <1>2, <1>5
<1>10. ~OpensSet(y) => /\ Len(sets) \in DOMAIN sets
                       /\ Runs[Len(sets)] = old.performed
  BY <1>2, <1>4, <1>5, <1>9
<1>11. \A j \in 1 .. Len(sets') - 1 : j \in DOMAIN sets /\ sets'[j] = sets[j]
  <2>1. CASE OpensSet(y)
    BY <2>1, <1>2, <1>4
  <2>2. CASE ~OpensSet(y)
    <3>1. Len(sets') = Len(sets) /\ \A i \in 1 .. Len(sets) - 1 : sets'[i] = sets[i]
      BY <2>2, <1>2
    <3> QED BY <3>1, <1>4
  <2> QED BY <2>1, <2>2
<1>12. LastOf(Runs') = new.performed
  BY <1>2, <1>5, <1>9 DEF LastOf
<1>13. Len(sets') = IF OpensSet(y) THEN Len(sets) + 1 ELSE Len(sets)
  BY <1>2
<1>14. /\ Grown(Runs, Runs', y)
       /\ OpensSet(y) => Len(Runs') = Len(Runs) + 1
       /\ ~OpensSet(y) => Len(Runs') = Len(Runs)
  <2>1. \A j \in 1 .. Len(Runs') - 1 : Runs'[j] = Runs[j]
    <3>1. ASSUME NEW j \in 1 .. Len(sets') - 1 PROVE Runs'[j] = Runs[j]
      <4>1. j \in DOMAIN sets'
        BY <1>5
      <4>2. j \in DOMAIN sets /\ sets'[j] = sets[j]
        BY <1>11
      <4> QED BY <4>1, <4>2, <1>4, <1>5
    <3> QED BY <3>1, <1>5
  <2>2. OpensSet(y) => Len(Runs') = Len(Runs) + 1
    BY <1>4, <1>5, <1>13
  <2>3. ~OpensSet(y) => Len(Runs') = Len(Runs)
    BY <1>4, <1>5, <1>13
  <2>4. Len(Runs') \in {Len(Runs), Len(Runs) + 1} \ {0}
    BY <1>5, <1>9, <2>2, <2>3
  <2>5. (IF Len(Runs') = Len(Runs) THEN Runs[Len(Runs)] ELSE <<>>) = old.performed
    <3>1. CASE OpensSet(y)
      BY <3>1, <2>2, <1>4, <1>8
    <3>2. CASE ~OpensSet(y)
      BY <3>2, <2>3, <1>4, <1>10
    <3> QED BY <3>1, <3>2
  <2>6. Runs'[Len(Runs')] = IF Performed(y) THEN Append(old.performed, y) ELSE old.performed
    BY <1>7, <1>12 DEF LastOf
  <2> QED BY <2>1, <2>2, <2>3, <2>4, <2>5, <2>6 DEF Grown
<1>15. LastOf(sets').firstPerformed =
         IF Performed(y) /\ ~foundFirst
         THEN (IF OpensSet(y) THEN {} ELSE LastOf(sets).firstPerformed) \cup {y}
         ELSE IF OpensSet(y) THEN {} ELSE LastOf(sets).firstPerformed
  <2>1. LastOf(sets') = new
    BY <1>2 DEF LastOf
  <2>2. (IF OpensSet(y) THEN {} ELSE LastOf(sets).firstPerformed) = old.firstPerformed
    BY <1>2, <1>8 DEF LastOf
  <2> QED BY <2>1, <2>2, <1>7
<1>16. UNCHANGED <<studySets, minNbYearsInParallel, allSetsHaveSameSize>>
  BY DEF BuildYear, studyVars
<1>17. /\ foundFirst' <=> ~buildNewSet' /\ (foundFirst \/ Performed(y))
       /\ maxNbYearsPerformed' =
            IF buildNewSet' /\ Len(new.performed) > maxNbYearsPerformed
            THEN Len(new.performed) ELSE maxNbYearsPerformed
  <2> DEFINE base == IF OpensSet(y) THEN Append(sets, EmptySet(y)) ELSE sets
             set  == AddYear(LastOf(base), y)
             n    == Len(set.performed)
  <2>1. /\ foundFirst' = (~IsFull(n, y) /\ (foundFirst \/ Performed(y)))
        /\ maxNbYearsPerformed' = IF IsFull(n, y) /\ n > maxNbYearsPerformed
                                  THEN n ELSE maxNbYearsPerformed
        /\ buildNewSet' = IsFull(n, y)
    BY DEF BuildYear
  <2>2. LastOf(base) = old
    <3>1. CASE OpensSet(y)
      <4>1. EmptySet(y) \in Subsets /\ sets \in Seq(Subsets)
        BY <1>1, <1>3, EmptySetType DEF TypeOK
      <4>2. base = Append(sets, EmptySet(y)) /\ old = EmptySet(y)
        BY <3>1, <1>2, <1>4
      <4> QED BY <4>1, <4>2 DEF LastOf
    <3>2. CASE ~OpensSet(y)
      BY <3>2, <1>2 DEF LastOf
    <3> QED BY <3>1, <3>2
  <2>3. set = new
    BY <2>2, <1>2
  <2> HIDE DEF base, set
  <2>4. n = Len(new.performed)
    BY <2>3
  <2> HIDE DEF n
  <2> QED BY <2>1, <2>4
<1> QED BY <1>1, <1>2, <1>4, <1>5, <1>9, <1>11, <1>12, <1>13, <1>14, <1>15, <1>16, <1>17

-----------------------------------------------------------------------------
(* The year that is told it is the first of the simulation. *)

\* Until the first year of the playlist no set performs a year and none holds a
\* first one; from there on a set holds that year, and no other can join it.
FirstInv ==
    /\ pc = "built" => y = NbYears
    /\ pc = "count" => ~foundFirst
    /\ pc # "count" =>
          /\ y <= Min(conf.playlist) =>
                /\ ~foundFirst
                /\ \A i \in DOMAIN sets : sets[i].performed = <<>> /\ sets[i].firstPerformed = {}
          /\ Min(conf.playlist) < y =>
                \E i \in DOMAIN sets :
                    /\ \A h \in 1 .. i - 1 : sets[h].performed = <<>>
                    /\ sets[i].firstPerformed = {Min(conf.playlist)}
                    /\ i = Len(sets) => foundFirst \/ buildNewSet

LEMMA FirstOfPlaylist ==
    ASSUME TypeOK
    PROVE  /\ Min(conf.playlist) \in Years
           /\ Performed(Min(conf.playlist))
           /\ \A yr \in conf.playlist : yr \in Nat /\ Min(conf.playlist) <= yr
<1>1. conf.playlist \in SUBSET Nat /\ conf.playlist # {} /\ conf.playlist \subseteq Years
  BY DEF TypeOK, ConfigSpace, Years
<1>2. Min(conf.playlist) \in conf.playlist /\ \A yr \in conf.playlist : Min(conf.playlist) <= yr
  BY <1>1, LeastOfNats DEF Min
<1> QED BY <1>1, <1>2 DEF Performed

LEMMA FirstBuildYear == IInv /\ FirstInv /\ BuildYear => FirstInv'
<1> SUFFICES ASSUME IInv, FirstInv, BuildYear PROVE FirstInv'
  OBVIOUS
<1> DEFINE m == Min(conf.playlist)
           n == Len(sets')
<1>1. /\ pc = "build" /\ pc' = "build" /\ y \in Nat /\ y' = y + 1 /\ conf' = conf
      /\ m \in Nat /\ Performed(m) /\ \A yr \in conf.playlist : yr \in Nat /\ m <= yr
  <2>1. TypeOK
    BY DEF IInv
  <2>2. \A yr \in Years : yr \in Nat
    BY DEF Years
  <2> QED BY <2>1, <2>2, BuildYearGrows, FirstOfPlaylist
<1>2. /\ n = IF OpensSet(y) THEN Len(sets) + 1 ELSE Len(sets)
      /\ n \in 1 .. n /\ DOMAIN sets' = 1 .. n
      /\ DOMAIN sets = 1 .. Len(sets) /\ Len(sets) \in Nat
      /\ \A j \in 1 .. n - 1 : j \in DOMAIN sets /\ sets'[j] = sets[j]
      /\ sets'[n].firstPerformed =
           IF Performed(y) /\ ~foundFirst
           THEN (IF OpensSet(y) THEN {} ELSE sets[Len(sets)].firstPerformed) \cup {y}
           ELSE IF OpensSet(y) THEN {} ELSE sets[Len(sets)].firstPerformed
      /\ foundFirst' <=> ~buildNewSet' /\ (foundFirst \/ Performed(y))
  BY BuildYearGrows DEF LastOf
<1>3. /\ n \in Nat /\ Len(sets) \in Nat
      /\ OpensSet(y) => n = Len(sets) + 1
      /\ ~OpensSet(y) => n = Len(sets)
  <2>1. n \in 1 .. n
    BY <1>2
  <2>2. n \in Nat
    <3> HIDE DEF n
    <3> QED BY <2>1
  <2>3. (OpensSet(y) => n = Len(sets) + 1) /\ (~OpensSet(y) => n = Len(sets))
    BY <1>2
  <2> QED BY <1>2, <2>2, <2>3
<1>4. sets'[n].performed =
        IF Performed(y)
        THEN Append(IF OpensSet(y) THEN <<>> ELSE sets[Len(sets)].performed, y)
        ELSE IF OpensSet(y) THEN <<>> ELSE sets[Len(sets)].performed
  <2>1. RunsOK /\ RunsOK'
    <3>1. TypeOK /\ TypeOK'
      BY BuildYearInv DEF IInv
    <3> QED BY <3>1, RunsType, PTL
  <2>2. /\ Grown(Runs, Runs', y)
        /\ OpensSet(y) => Len(Runs') = Len(Runs) + 1
        /\ ~OpensSet(y) => Len(Runs') = Len(Runs)
    BY BuildYearGrows
  <2>3. /\ Len(Runs) = Len(sets) /\ Len(Runs') = n /\ Runs'[n] = sets'[n].performed
        /\ ~OpensSet(y) => Runs[Len(Runs)] = sets[Len(sets)].performed
    BY <1>2, <2>1 DEF RunsOK
  <2>4. Runs'[n] = IF Performed(y)
                   THEN Append(IF n = Len(sets) THEN Runs[Len(Runs)] ELSE <<>>, y)
                   ELSE IF n = Len(sets) THEN Runs[Len(Runs)] ELSE <<>>
    BY <2>2, <2>3, Zenon DEF Grown
  <2>5. n = Len(sets) <=> ~OpensSet(y)
    <3> HIDE DEF n
    <3> QED BY <1>3
  <2> QED BY <2>3, <2>4, <2>5
<1>5. /\ y <= m => /\ ~foundFirst
                   /\ \A i \in DOMAIN sets : /\ sets[i].performed = <<>>
                                             /\ sets[i].firstPerformed = {}
      /\ m < y => \E i \in DOMAIN sets :
                    /\ \A h \in 1 .. i - 1 : sets[h].performed = <<>>
                    /\ sets[i].firstPerformed = {m}
                    /\ i = Len(sets) => foundFirst \/ buildNewSet
  BY <1>1 DEF FirstInv
<1>6. m' = m
  BY <1>1
<1> HIDE DEF m, n
<1>7. CASE y < m
  <2>1. ~Performed(y) /\ y' <= m /\ ~(m < y') /\ y <= m
    BY <1>1, <1>7 DEF Performed
  <2>2. ~foundFirst'
    BY <1>2, <1>5, <2>1
  <2>3. sets'[n].performed = <<>> /\ sets'[n].firstPerformed = {}
    <3>1. CASE OpensSet(y)
      BY <3>1, <1>2, <1>4, <2>1
    <3>2. CASE ~OpensSet(y)
      BY <3>2, <1>2, <1>4, <1>5, <2>1
    <3> QED BY <3>1, <3>2
  <2>4. \A i \in 1 .. n - 1 : sets'[i].performed = <<>> /\ sets'[i].firstPerformed = {}
    BY <1>2, <1>5, <2>1
  <2>5. \A i \in DOMAIN sets' : i \in 1 .. n - 1 \/ i = n
    BY <1>2
  <2>6. \A i \in DOMAIN sets' : sets'[i].performed = <<>> /\ sets'[i].firstPerformed = {}
    BY <2>3, <2>4, <2>5
  <2> QED BY <1>1, <1>6, <2>1, <2>2, <2>6 DEF FirstInv, m
<1>8. CASE y = m
  <2>1. Performed(y) /\ ~(y' <= m) /\ y <= m
    BY <1>1, <1>8
  <2>2. \A h \in 1 .. n - 1 : sets'[h].performed = <<>>
    BY <1>2, <1>5, <2>1
  <2>3. sets'[n].firstPerformed = {m}
    <3>1. CASE OpensSet(y)
      BY <3>1, <1>2, <1>5, <1>8, <2>1
    <3>2. CASE ~OpensSet(y)
      BY <3>2, <1>2, <1>5, <1>8, <2>1
    <3> QED BY <3>1, <3>2
  <2>4. foundFirst' \/ buildNewSet'
    BY <1>2, <2>1
  <2> QED BY <1>1, <1>2, <1>6, <2>1, <2>2, <2>3, <2>4 DEF FirstInv, m, n
<1>9. CASE m < y
  <2>1. ~(y' <= m) /\ m < y
    BY <1>1, <1>9
  <2>2. PICK i \in DOMAIN sets :
            /\ \A h \in 1 .. i - 1 : sets[h].performed = <<>>
            /\ sets[i].firstPerformed = {m}
            /\ i = Len(sets) => foundFirst \/ buildNewSet
    BY <1>5, <2>1
  <2>3. CASE i \in 1 .. n - 1
    <3>1. /\ i \in 1 .. n /\ i # n
          /\ \A h \in 1 .. i - 1 : h \in 1 .. n - 1
      BY <1>3, <2>3
    <3>2. \A h \in 1 .. n - 1 : sets'[h] = sets[h]
      BY <1>2
    <3>3. i \in DOMAIN sets' /\ sets'[i] = sets[i] /\ \A h \in 1 .. i - 1 : sets'[h] = sets[h]
      BY <3>1, <3>2, <2>3, <1>2
    <3> QED BY <1>1, <1>6, <2>1, <2>2, <3>1, <3>3 DEF FirstInv, m, n
  <2>4. CASE i = n
    <3>1. ~OpensSet(y) /\ i = Len(sets)
      <4>1. i \in 1 .. Len(sets)
        BY <1>2
      <4> QED BY <4>1, <2>4, <1>3
    <3>2. foundFirst
      BY <2>2, <3>1 DEF OpensSet
    <3>3. sets'[n].firstPerformed = {m} /\ (foundFirst' \/ buildNewSet')
      BY <1>2, <2>2, <3>1, <3>2
    <3>4. \A h \in 1 .. n - 1 : sets'[h].performed = <<>>
      BY <1>2, <2>2, <2>4
    <3> QED BY <1>1, <1>2, <1>6, <2>1, <3>3, <3>4 DEF FirstInv, m, n
  <2>5. i \in 1 .. n - 1 \/ i = n
    <3>1. i \in 1 .. Len(sets)
      BY <1>2
    <3> QED BY <3>1, <1>3
  <2> QED BY <2>3, <2>4, <2>5
<1> QED BY <1>1, <1>7, <1>8, <1>9

LEMMA FirstStep == IInv /\ FirstInv /\ [Next]_vars => FirstInv'
<1> SUFFICES ASSUME IInv, FirstInv, [Next]_vars PROVE FirstInv'
  OBVIOUS
<1>1. CASE CountYear
  BY <1>1 DEF CountYear, AtAYear, FirstInv, solverVars
<1>2. CASE Summarise
  <2>1. sets = <<>> /\ TypeOK
    BY <1>2 DEF Summarise, IInv, CountInv
  <2>2. Min(conf.playlist) \in Nat
    BY <2>1, FirstOfPlaylist DEF Years
  <2>3. pc' = "build" /\ y' = 0 /\ sets' = <<>> /\ conf' = conf /\ ~foundFirst'
    BY <1>2, <2>1 DEF Summarise, solverVars, FirstInv
  <2> QED BY <2>2, <2>3 DEF FirstInv
<1>3. CASE BuildYear
  BY <1>3, FirstBuildYear
<1>4. CASE Crash
  BY <1>4 DEF Crash, AtAYear, FirstInv, solverVars
<1>5. CASE EndBuild
  BY <1>5 DEF EndBuild, FirstInv, solverVars
<1>6. CASE UNCHANGED vars
  BY <1>6 DEF vars, studyVars, solverVars, FirstInv
<1> QED BY <1>1, <1>2, <1>3, <1>4, <1>5, <1>6 DEF Next

\* The invariant of the flag, and of the end of the loop of the solver.
LEMMA FirstInvariant == Spec => []FirstInv
<1>1. Init => FirstInv
  BY DEF Init, FirstInv
<1> QED BY <1>1, FirstStep, Invariance, PTL DEF Spec

\* The first performed year of the simulation, and no other, is told that it is:
\* isFirstPerformedYearOfASet singles it out in the first set that performs years.
THEOREM FirstYearIsTold == Spec => []FirstYearOfSimulation
<1>1. IInv /\ FirstInv => FirstYearOfSimulation
  <2> SUFFICES ASSUME IInv, FirstInv, pc = "built"
               PROVE  \E i \in DOMAIN sets :
                         /\ \A h \in 1 .. i - 1 : sets[h].performed = <<>>
                         /\ sets[i].firstPerformed = {Min(conf.playlist)}
    BY DEF FirstYearOfSimulation
  <2>1. TypeOK
    BY DEF IInv
  <2>2. Min(conf.playlist) < y
    BY <2>1, FirstOfPlaylist, ParallelYearsAssumption DEF FirstInv, Years
  <2> QED BY <2>2 DEF FirstInv
<1> QED BY <1>1, FirstInvariant, Invariance, PTL

-----------------------------------------------------------------------------
(* What the loop of the study finds. *)

\* The years the loop of the study has seen.
Seen == IF pc = "count" THEN y ELSE NbYears

\* The study cuts the years of the playlist into increasing runs.
StudyInOrder ==
    /\ \A i \in DOMAIN studySets : \A k \in DOMAIN studySets[i] :
          Performed(studySets[i][k]) /\ studySets[i][k] < Seen
    /\ \A i \in DOMAIN studySets : \A k, l \in DOMAIN studySets[i] :
          k < l => studySets[i][k] < studySets[i][l]
    /\ \A h, i \in DOMAIN studySets : h < i =>
          \A k \in DOMAIN studySets[h], l \in DOMAIN studySets[i] :
              studySets[h][k] < studySets[i][l]
    /\ \A yr \in conf.playlist : yr < Seen =>
          \E i \in DOMAIN studySets : \E k \in DOMAIN studySets[i] : studySets[i][k] = yr

\* No refresh is due within a run.
NoRefreshInRun ==
    \A i \in DOMAIN studySets : \A k \in DOMAIN studySets[i], z \in Years :
        studySets[i][1] < z /\ z <= studySets[i][k] => ~StudyRefreshing(z)

\* A refresh that comes after the run h and, at the latest, with the next years.
RefreshAfter(h) ==
    \E z \in Years : /\ StudyRefreshing(z)
                     /\ z < Seen
                     /\ \A k \in DOMAIN studySets[h] : studySets[h][k] < z
                     /\ \A i \in DOMAIN studySets : h < i =>
                           \A l \in DOMAIN studySets[i] : z <= studySets[i][l]

\* A run ends because it has as many years as a set may have, or at a refresh.
RunsEnd ==
    \A h \in DOMAIN studySets : h < Len(studySets) /\ studySets[h] # <<>> =>
        Len(studySets[h]) >= maxNbYearsInParallel \/ RefreshAfter(h)

\* While the study counts, about the set it is filling.
StudyFills ==
    pc = "count" =>
        /\ \A i \in DOMAIN studySets : Len(studySets[i]) <= maxNbYearsInParallel
        /\ studySets # <<>> =>
              /\ buildNewSet <=> Len(LastOf(studySets)) = maxNbYearsInParallel
              /\ LastOf(studySets) # <<>> =>
                    \A z \in Years : LastOf(studySets)[1] < z /\ z < y => ~StudyRefreshing(z)

\* What the study publishes when it has counted.
Published ==
    pc # "count" =>
        /\ \E i \in DOMAIN studySets : Len(studySets[i]) >= maxNbYearsInParallel
        /\ IF conf.parallel
           THEN \A i \in DOMAIN studySets : Len(studySets[i]) <= maxNbYearsInParallel
           ELSE maxNbYearsInParallel = 1
        /\ \A i \in DOMAIN studySets :
              studySets[i] # <<>> => minNbYearsInParallel <= Len(studySets[i])
        /\ conf.parallel /\ conf.hotStart /\ maxNbYearsInParallel > 1 /\ allSetsHaveSameSize =>
              \A i \in DOMAIN studySets : Len(studySets[i]) >= maxNbYearsInParallel

StudyInv == StudyInOrder /\ NoRefreshInRun /\ RunsEnd /\ StudyFills /\ Published

\* One year of the loop of the study.
LEMMA CountYearGrows ==
    ASSUME IInv, CountYear
    PROVE  /\ pc = "count" /\ pc' = "count" /\ y \in Years /\ y' = y + 1
           /\ UNCHANGED <<conf, maxNbYearsInParallel>>
           /\ studySets \in Seq(Seq(Years)) /\ studySets' \in Seq(Seq(Years))
           /\ Grown(studySets, studySets', y)
           /\ Len(studySets') = Len(studySets) + 1 <=> buildNewSet \/ StudyRefreshing(y)
           /\ buildNewSet' <=> Len(studySets'[Len(studySets')]) = maxNbYearsInParallel
<1> DEFINE opens == buildNewSet \/ StudyRefreshing(y)
           base  == IF opens THEN Append(studySets, <<>>) ELSE studySets
           set   == IF Performed(y) THEN Append(LastOf(base), y) ELSE LastOf(base)
<1>1. /\ pc = "count" /\ pc' = "count" /\ y < NbYears /\ y' = y + 1
      /\ conf' = conf /\ maxNbYearsInParallel' = maxNbYearsInParallel
      /\ studySets' = [base EXCEPT ![Len(base)] = set]
      /\ buildNewSet' = (Len(set) = maxNbYearsInParallel)
  BY DEF CountYear, AtAYear
<1>2. TypeOK /\ CountInv
  BY DEF IInv
<1>3. y \in Years /\ studySets \in Seq(Seq(Years)) /\ <<>> \in Seq(Years)
  BY <1>1, <1>2, ParallelYearsAssumption DEF TypeOK, Years
<1>4. ~opens => studySets # <<>>
  BY <1>1, <1>2 DEF CountInv
<1>5. CASE opens
  <2>1. base = Append(studySets, <<>>)
    BY <1>5
  <2> HIDE DEF base, opens
  <2>2. /\ base \in Seq(Seq(Years)) /\ Len(base) = Len(studySets) + 1
        /\ Len(studySets) \in Nat
        /\ \A j \in 1 .. Len(studySets) : base[j] = studySets[j]
        /\ base[Len(base)] = <<>>
    BY <2>1, <1>3
  <2>3. set = (IF Performed(y) THEN Append(<<>>, y) ELSE <<>>) /\ set \in Seq(Years)
    BY <2>2, <1>3 DEF LastOf
  <2> HIDE DEF set
  <2>4. /\ studySets' \in Seq(Seq(Years)) /\ Len(studySets') = Len(studySets) + 1
        /\ studySets'[Len(studySets')] = set
        /\ \A j \in 1 .. Len(studySets') - 1 : studySets'[j] = studySets[j]
    <3>1. Len(base) \in 1 .. Len(base)
      BY <2>2
    <3>2. studySets' \in Seq(Seq(Years)) /\ Len(studySets') = Len(base)
      BY <1>1, <2>2, <2>3
    <3>3. studySets'[Len(base)] = set
      BY <1>1, <2>2, <3>1
    <3>4. \A j \in 1 .. Len(studySets) : studySets'[j] = base[j]
      BY <1>1, <2>2
    <3>5. Len(studySets') - 1 = Len(studySets)
      BY <2>2, <3>2
    <3> QED BY <2>2, <3>2, <3>3, <3>4, <3>5
  <2>5. Len(studySets) \in Nat
    BY <2>2
  <2>6. /\ (IF Len(studySets') = Len(studySets) THEN studySets[Len(studySets)] ELSE <<>>) = <<>>
        /\ Len(studySets') \in {Len(studySets), Len(studySets) + 1} \ {0}
    BY <2>4, <2>5
  <2>7. Grown(studySets, studySets', y)
    BY <2>3, <2>4, <2>6 DEF Grown
  <2> QED BY <1>1, <1>3, <1>5, <2>4, <2>7 DEF opens
<1>6. CASE ~opens
  <2>1. base = studySets
    BY <1>6
  <2> HIDE DEF base, opens
  <2>2. Len(studySets) \in Nat /\ Len(studySets) \in DOMAIN studySets
    BY <1>3, <1>4, <1>6
  <2>3. /\ set = IF Performed(y) THEN Append(studySets[Len(studySets)], y)
                 ELSE studySets[Len(studySets)]
        /\ set \in Seq(Years)
    BY <2>1, <2>2, <1>3 DEF LastOf
  <2> HIDE DEF set
  <2>4. /\ studySets' \in Seq(Seq(Years)) /\ Len(studySets') = Len(studySets)
        /\ studySets'[Len(studySets')] = set
        /\ \A j \in 1 .. Len(studySets') - 1 : studySets'[j] = studySets[j]
    BY <1>1, <1>3, <2>1, <2>2, <2>3
  <2>5. Len(studySets') \in {Len(studySets), Len(studySets) + 1} \ {0}
    <3>1. Len(studySets) # 0
      BY <1>3, <2>2
    <3> QED BY <2>4, <3>1
  <2>6. Grown(studySets, studySets', y)
    <3>1. (IF Len(studySets') = Len(studySets) THEN studySets[Len(studySets)] ELSE <<>>)
          = studySets[Len(studySets)]
      BY <2>4
    <3> QED BY <3>1, <2>3, <2>4, <2>5 DEF Grown
  <2>7. Len(studySets') # Len(studySets) + 1
    BY <2>2, <2>4
  <2> QED BY <1>1, <1>3, <1>6, <2>4, <2>6, <2>7 DEF opens
<1> QED BY <1>5, <1>6

LEMMA CountYearRuns == IInv /\ StudyInv /\ CountYear => StudyInv'
<1> SUFFICES ASSUME IInv, StudyInv, CountYear PROVE StudyInv'
  OBVIOUS
<1> DEFINE s == studySets
           t == studySets'
           a == Len(s)
           b == Len(t)
<1>1. /\ pc = "count" /\ pc' = "count" /\ y \in Years /\ y \in Nat /\ y' = y + 1
      /\ conf' = conf /\ maxNbYearsInParallel' = maxNbYearsInParallel
      /\ s \in Seq(Seq(Years)) /\ t \in Seq(Seq(Years))
      /\ Grown(s, t, y)
      /\ b = a + 1 <=> buildNewSet \/ StudyRefreshing(y)
      /\ buildNewSet' <=> Len(t[b]) = maxNbYearsInParallel
  BY CountYearGrows DEF Years
<1>2. /\ \A j \in DOMAIN s : /\ j \in DOMAIN t
                             /\ \A k \in DOMAIN s[j] : k \in DOMAIN t[j] /\ t[j][k] = s[j][k]
      /\ \A j \in DOMAIN t : \A k \in DOMAIN t[j] :
            \/ j \in DOMAIN s /\ k \in DOMAIN s[j] /\ t[j][k] = s[j][k]
            \/ j = b /\ k = Len(t[j]) /\ Performed(y) /\ t[j][k] = y
      /\ b \in DOMAIN t
      /\ Performed(y) => Len(t[b]) \in DOMAIN t[b] /\ t[b][Len(t[b])] = y
  BY <1>1, GrownElements
<1>3. /\ a \in Nat /\ b \in Nat /\ DOMAIN s = 1 .. a /\ DOMAIN t = 1 .. b
      /\ b = a \/ b = a + 1
  <2>1. b \in {a, a + 1}
    BY <1>1 DEF Grown
  <2>2. a \in Nat /\ b \in Nat /\ DOMAIN s = 1 .. a /\ DOMAIN t = 1 .. b
    BY <1>1
  <2> QED BY <2>1, <2>2
<1>4. \A j \in DOMAIN s : /\ Len(s[j]) \in Nat /\ DOMAIN s[j] = 1 .. Len(s[j])
                           /\ \A k \in DOMAIN s[j] : s[j][k] \in Nat
  <2>1. \A j \in DOMAIN s : s[j] \in Seq(Years)
    BY <1>1
  <2>2. \A r \in Seq(Years) : /\ Len(r) \in Nat /\ DOMAIN r = 1 .. Len(r)
                              /\ \A k \in DOMAIN r : r[k] \in Years
    OBVIOUS
  <2>3. \A yr \in Years : yr \in Nat
    BY DEF Years
  <2> QED BY <2>1, <2>2, <2>3
<1>5. \A j \in DOMAIN t : Len(t[j]) \in Nat /\ DOMAIN t[j] = 1 .. Len(t[j])
  <2>1. \A j \in DOMAIN t : t[j] \in Seq(Years)
    BY <1>1
  <2>2. \A r \in Seq(Years) : Len(r) \in Nat /\ DOMAIN r = 1 .. Len(r)
    OBVIOUS
  <2> QED BY <2>1, <2>2
<1>6. /\ \A yr : Performed(yr)' <=> Performed(yr)
      /\ \A yr : StudyRefreshing(yr)' <=> StudyRefreshing(yr)
  BY <1>1 DEF Performed, StudyRefreshing
<1>7. Seen = y /\ Seen' = y + 1
  BY <1>1 DEF Seen
<1>8. /\ \A i \in DOMAIN s : \A k \in DOMAIN s[i] : Performed(s[i][k]) /\ s[i][k] < y
      /\ \A i \in DOMAIN s : \A k, l \in DOMAIN s[i] : k < l => s[i][k] < s[i][l]
      /\ \A h, i \in DOMAIN s : h < i =>
            \A k \in DOMAIN s[h], l \in DOMAIN s[i] : s[h][k] < s[i][l]
      /\ \A yr \in conf.playlist : yr < y =>
            \E i \in DOMAIN s : \E k \in DOMAIN s[i] : s[i][k] = yr
  BY <1>7 DEF StudyInv, StudyInOrder
<1>9. /\ \A i \in DOMAIN s : Len(s[i]) <= maxNbYearsInParallel
      /\ s # <<>> =>
            /\ buildNewSet <=> Len(s[a]) = maxNbYearsInParallel
            /\ s[a] # <<>> =>
                  \A z \in Years : s[a][1] < z /\ z < y => ~StudyRefreshing(z)
      /\ maxNbYearsInParallel \in Nat \ {0}
  BY <1>1 DEF StudyInv, StudyFills, LastOf, IInv, TypeOK
\* The last run of t, when it is not the one that was opened, goes on.
<1>10. b = a => ~buildNewSet /\ ~StudyRefreshing(y)
  <2>1. b = a => b # a + 1
    <3> HIDE DEF a, b
    <3> QED BY <1>3
  <2>2. ~(b = a + 1) => ~(buildNewSet \/ StudyRefreshing(y))
    BY <1>1
  <2> QED BY <2>1, <2>2
<1>11. t[b] = IF Performed(y) THEN Append(IF b = a THEN s[a] ELSE <<>>, y)
                              ELSE IF b = a THEN s[a] ELSE <<>>
  BY <1>1, Zenon DEF Grown
<1> HIDE DEF s, t, a, b
<1>12. \A i \in DOMAIN t : i < b => i \in DOMAIN s /\ t[i] = s[i]
  <2>1. \A j \in 1 .. b - 1 : t[j] = s[j]
    BY <1>1 DEF Grown, b
  <2>2. \A i \in DOMAIN t : i < b => i \in 1 .. b - 1 /\ i \in DOMAIN s
    BY <1>3
  <2> QED BY <2>1, <2>2
<1>13. StudyInOrder'
  <2>1. \A i \in DOMAIN t : \A k \in DOMAIN t[i] : Performed(t[i][k]) /\ t[i][k] < y + 1
    <3>1. ASSUME NEW i \in DOMAIN t, NEW k \in DOMAIN t[i]
          PROVE  Performed(t[i][k]) /\ t[i][k] < y + 1
      <4>1. CASE i \in DOMAIN s /\ k \in DOMAIN s[i] /\ t[i][k] = s[i][k]
        BY <4>1, <1>1, <1>8, <1>4
      <4>2. CASE Performed(y) /\ t[i][k] = y
        BY <4>2, <1>1
      <4> QED BY <4>1, <4>2, <1>2
    <3> QED BY <3>1
  <2>2. \A i \in DOMAIN t : \A k, l \in DOMAIN t[i] : k < l => t[i][k] < t[i][l]
    <3>1. ASSUME NEW i \in DOMAIN t, NEW k \in DOMAIN t[i], NEW l \in DOMAIN t[i], k < l
          PROVE  t[i][k] < t[i][l]
      <4>1. i \in DOMAIN s /\ k \in DOMAIN s[i] /\ t[i][k] = s[i][k]
        <5>1. Len(t[i]) \in Nat /\ k \in 1 .. Len(t[i]) /\ l \in 1 .. Len(t[i])
          BY <1>5
        <5>2. k # Len(t[i])
          BY <3>1, <5>1
        <5> QED BY <5>2, <1>2
      <4>2. CASE l \in DOMAIN s[i] /\ t[i][l] = s[i][l]
        BY <3>1, <4>1, <4>2, <1>8
      <4>3. CASE t[i][l] = y
        BY <4>1, <4>3, <1>8
      <4> QED BY <4>2, <4>3, <1>2
    <3> QED BY <3>1
  <2>3. \A h, i \in DOMAIN t : h < i => \A k \in DOMAIN t[h], l \in DOMAIN t[i] : t[h][k] < t[i][l]
    <3>1. ASSUME NEW h \in DOMAIN t, NEW i \in DOMAIN t, h < i,
                 NEW k \in DOMAIN t[h], NEW l \in DOMAIN t[i]
          PROVE  t[h][k] < t[i][l]
      <4>1. h \in DOMAIN s /\ t[h] = s[h]
        <5>1. h < b
          BY <3>1, <1>3
        <5> QED BY <5>1, <1>12
      <4>2. CASE i \in DOMAIN s /\ l \in DOMAIN s[i] /\ t[i][l] = s[i][l]
        BY <3>1, <4>1, <4>2, <1>8
      <4>3. CASE t[i][l] = y
        BY <4>1, <4>3, <1>8
      <4> QED BY <4>2, <4>3, <1>2
    <3> QED BY <3>1
  <2>4. \A yr \in conf.playlist : yr < y + 1 =>
            \E i \in DOMAIN t : \E k \in DOMAIN t[i] : t[i][k] = yr
    <3>1. ASSUME NEW yr \in conf.playlist, yr < y + 1
          PROVE  \E i \in DOMAIN t : \E k \in DOMAIN t[i] : t[i][k] = yr
      <4>1. yr \in Nat
        BY DEF IInv, TypeOK, ConfigSpace, Years
      <4>2. CASE yr = y
        <5>1. Performed(y)
          BY <4>2 DEF Performed
        <5> QED BY <4>2, <5>1, <1>2
      <4>3. CASE yr < y
        <5>1. PICK i \in DOMAIN s : \E k \in DOMAIN s[i] : s[i][k] = yr
          BY <4>3, <1>8
        <5>2. PICK k \in DOMAIN s[i] : s[i][k] = yr
          BY <5>1
        <5> QED BY <5>2, <1>2
      <4> QED BY <3>1, <4>1, <4>2, <4>3, <1>1
    <3> QED BY <3>1
  <2> QED BY <2>1, <2>2, <2>3, <2>4, <1>1, <1>6, <1>7 DEF StudyInOrder, t
<1>14. NoRefreshInRun'
  <2>1. ASSUME NEW i \in DOMAIN t, NEW k \in DOMAIN t[i], NEW z \in Years,
               t[i][1] < z, z <= t[i][k]
        PROVE  ~StudyRefreshing(z)
    <3>1. z \in Nat /\ Len(t[i]) \in Nat /\ k \in 1 .. Len(t[i])
      BY <1>5 DEF Years
    <3>2. CASE i \in DOMAIN s /\ k \in DOMAIN s[i] /\ t[i][k] = s[i][k]
      <4>1. 1 \in DOMAIN s[i]
        BY <3>2, <1>4
      <4>2. t[i][1] = s[i][1]
        BY <3>2, <4>1, <1>2
      <4> QED BY <2>1, <3>2, <4>2 DEF StudyInv, NoRefreshInRun, s
    <3>3. CASE i = b /\ k = Len(t[i]) /\ t[i][k] = y
      <4>1. k # 1 /\ 1 \in DOMAIN t[i]
        BY <2>1, <3>1, <3>3, <1>1, <1>5
      <4>2. i \in DOMAIN s /\ 1 \in DOMAIN s[i] /\ t[i][1] = s[i][1]
        BY <3>3, <4>1, <1>2
      <4>3. b = a /\ i = a /\ s # <<>> /\ s[a] # <<>>
        <5>1. i \in 1 .. a
          BY <4>2, <1>3
        <5>2. i = a /\ b = a
          BY <5>1, <3>3, <1>3
        <5> QED BY <4>2, <5>2
      <4>4. CASE z = y
        BY <4>3, <4>4, <1>10
      <4>5. CASE z < y
        BY <4>2, <4>3, <4>5, <2>1, <1>9
      <4> QED BY <2>1, <3>1, <3>3, <4>4, <4>5, <1>1
    <3> QED BY <3>2, <3>3, <1>2
  <2> QED BY <2>1, <1>6 DEF NoRefreshInRun, t
<1>15. RunsEnd'
  <2>1. ASSUME NEW h \in DOMAIN t, h < b, t[h] # <<>>
        PROVE  Len(t[h]) >= maxNbYearsInParallel \/ RefreshAfter(h)'
    <3>1. h \in DOMAIN s /\ t[h] = s[h]
      BY <2>1, <1>12
    <3>2. CASE h < a
      <4>1. Len(s[h]) >= maxNbYearsInParallel \/ RefreshAfter(h)
        BY <2>1, <3>1, <3>2 DEF StudyInv, RunsEnd, s, a
      <4>2. CASE RefreshAfter(h)
        <5>1. PICK z \in Years :
                /\ StudyRefreshing(z) /\ z < y
                /\ \A k \in DOMAIN s[h] : s[h][k] < z
                /\ \A i \in DOMAIN s : h < i => \A l \in DOMAIN s[i] : z <= s[i][l]
          BY <4>2, <1>7 DEF RefreshAfter, s
        <5>2. z \in Nat
          BY DEF Years
        <5>3. \A i \in DOMAIN t : h < i => \A l \in DOMAIN t[i] : z <= t[i][l]
          <6>1. ASSUME NEW i \in DOMAIN t, h < i, NEW l \in DOMAIN t[i] PROVE z <= t[i][l]
            <7>1. CASE i \in DOMAIN s /\ l \in DOMAIN s[i] /\ t[i][l] = s[i][l]
              BY <5>1, <6>1, <7>1
            <7>2. CASE t[i][l] = y
              BY <5>1, <5>2, <7>2, <1>1
            <7> QED BY <7>1, <7>2, <1>2
          <6> QED BY <6>1
        <5>4. z < y + 1
          BY <5>1, <5>2, <1>1
        <5> QED BY <5>1, <5>3, <5>4, <3>1, <1>6, <1>7 DEF RefreshAfter, t
      <4> QED BY <4>1, <4>2, <3>1
    <3>3. CASE h = a
      <4>1. b = a + 1 /\ s # <<>>
        <5>1. h \in 1 .. a
          BY <3>1, <1>3
        <5>2. b = a + 1
          BY <2>1, <3>3, <1>3
        <5>3. s # <<>>
          BY <3>1
        <5> QED BY <5>2, <5>3
      <4>2. CASE buildNewSet
        BY <3>1, <3>3, <4>1, <4>2, <1>9
      <4>3. CASE StudyRefreshing(y)
        <5>1. \A k \in DOMAIN s[h] : s[h][k] < y
          BY <3>1, <1>8
        <5>2. \A i \in DOMAIN t : h < i => \A l \in DOMAIN t[i] : y <= t[i][l]
          <6>1. ASSUME NEW i \in DOMAIN t, h < i, NEW l \in DOMAIN t[i] PROVE y <= t[i][l]
            <7>1. i \notin DOMAIN s
              BY <6>1, <3>3, <1>3
            <7>2. t[i][l] = y
              BY <7>1, <1>2
            <7> QED BY <7>2, <1>1
          <6> QED BY <6>1
        <5>3. y < y + 1
          BY <1>1
        <5> QED BY <5>1, <5>2, <5>3, <3>1, <4>3, <1>1, <1>6, <1>7 DEF RefreshAfter, t
      <4>4. buildNewSet \/ StudyRefreshing(y)
        BY <4>1, <1>1 DEF a, b
      <4> QED BY <4>2, <4>3, <4>4
    <3>4. h < a \/ h = a
      BY <3>1, <1>3
    <3> QED BY <3>2, <3>3, <3>4
  <2> QED BY <2>1, <1>1 DEF RunsEnd, t, b
<1>16. StudyFills'
  <2> DEFINE n == b
  <2>1. /\ Len(t[n]) <= maxNbYearsInParallel
        /\ t[n] # <<>> => \A z \in Years : t[n][1] < z /\ z < y + 1 => ~StudyRefreshing(z)
    <3>1. CASE b = a
      <4>1. n \in DOMAIN s /\ s # <<>>
        BY <3>1, <1>2, <1>3
      <4>2. t[n] = IF Performed(y) THEN Append(s[n], y) ELSE s[n]
        BY <3>1, <1>11
      <4>3. s[n] \in Seq(Years) /\ Len(s[n]) < maxNbYearsInParallel
        <5>1. Len(s[n]) # maxNbYearsInParallel /\ Len(s[n]) <= maxNbYearsInParallel
          BY <3>1, <4>1, <1>9, <1>10
        <5>2. s[n] \in Seq(Years) /\ Len(s[n]) \in Nat
          BY <4>1, <1>1, <1>4
        <5> QED BY <5>1, <5>2, <1>9
      <4>4. Len(t[n]) <= maxNbYearsInParallel
        BY <4>2, <4>3, <1>1, <1>9
      <4>5. ASSUME NEW z \in Years, t[n] # <<>>, t[n][1] < z, z < y + 1
            PROVE  ~StudyRefreshing(z)
        <5>1. z \in Nat
          BY DEF Years
        <5>2. CASE z = y
          BY <5>2, <3>1, <1>10
        <5>3. CASE z < y
          <6>1. s[n] # <<>>
            <7>1. s[n] = <<>> => t[n][1] = y
              BY <4>2, <4>5
            <7> QED BY <7>1, <4>5, <5>1, <5>3, <1>1
          <6>2. t[n][1] = s[n][1]
            BY <6>1, <4>2, <4>3, <1>1
          <6> QED BY <3>1, <4>1, <4>5, <5>3, <6>1, <6>2, <1>9
        <5> QED BY <4>5, <5>1, <5>2, <5>3, <1>1
      <4> QED BY <4>4, <4>5
    <3>2. CASE b # a
      <4>1. t[n] = IF Performed(y) THEN Append(<<>>, y) ELSE <<>>
        BY <3>2, <1>11
      <4>2. Len(t[n]) <= 1
        BY <4>1
      <4>3. t[n] # <<>> => t[n][1] = y
        BY <4>1
      <4>4. \A z \in Years : ~(y < z /\ z < y + 1)
        BY <1>1 DEF Years
      <4>5. Len(t[n]) \in Nat
        BY <1>2, <1>5
      <4> QED BY <4>2, <4>3, <4>4, <4>5, <1>9
    <3> QED BY <3>1, <3>2
  <2>2. \A i \in DOMAIN t : Len(t[i]) <= maxNbYearsInParallel
    <3>1. ASSUME NEW i \in DOMAIN t PROVE Len(t[i]) <= maxNbYearsInParallel
      <4>1. CASE i < b
        BY <4>1, <1>9, <1>12
      <4>2. CASE i = b
        BY <4>2, <2>1
      <4> QED BY <4>1, <4>2, <1>3
    <3> QED BY <3>1
  <2> HIDE DEF n
  <2> QED BY <2>1, <2>2, <1>1, <1>6 DEF StudyFills, LastOf, t, b, n
<1>17. Published'
  BY <1>1 DEF Published
<1> QED BY <1>13, <1>14, <1>15, <1>16, <1>17 DEF StudyInv

LEMMA SummariseRuns == IInv /\ StudyInv /\ Summarise => StudyInv'
<1> SUFFICES ASSUME IInv, StudyInv, Summarise PROVE StudyInv'
  OBVIOUS
<1> DEFINE biggest == Max(StudySizes)
           lengths == {maxNbYearsInParallel} \cup (StudySizes \ {0})
<1>1. /\ pc = "count" /\ y = NbYears /\ pc' = "build" /\ conf' = conf /\ studySets' = studySets
      /\ minNbYearsInParallel' = Min(lengths)
      /\ maxNbYearsInParallel' = IF conf.parallel THEN biggest ELSE 1
      /\ allSetsHaveSameSize' = (conf.hotStart /\ biggest > 1 =>
                                   \A n \in StudySizes : n = Len(studySets[1]))
  BY DEF Summarise
<1>2. /\ maxNbYearsInParallel \in Nat \ {0} /\ NbYears \in Nat
      /\ studySets \in Seq(Seq(Years))
  BY ParallelYearsAssumption DEF IInv, TypeOK
<1>3. \A i \in DOMAIN studySets : Len(studySets[i]) \in Nat
  BY <1>2
<1>4. \A i \in DOMAIN studySets : Len(studySets[i]) <= maxNbYearsInParallel
  BY <1>1 DEF StudyInv, StudyFills
<1>5. /\ StudySizes \in SUBSET Nat
      /\ \A n \in StudySizes : n <= maxNbYearsInParallel
      /\ \A i \in DOMAIN studySets : Len(studySets[i]) \in StudySizes
      /\ \A n \in StudySizes : \E i \in DOMAIN studySets : n = Len(studySets[i])
  BY <1>3, <1>4 DEF StudySizes
<1>6. PICK i \in DOMAIN studySets : studySets[i] # <<>>
  <2>1. PICK yr \in conf.playlist : yr < y
    BY <1>1, ParallelYearsAssumption DEF IInv, TypeOK, ConfigSpace, Years
  <2> QED BY <2>1, <1>1 DEF IInv, CountInv
<1>7. Len(studySets[i]) >= 1
  <2>1. studySets[i] \in Seq(Years)
    BY <1>2
  <2> QED BY <1>6, <2>1
<1>8. biggest \in StudySizes /\ \A n \in StudySizes : n <= biggest
  <2>1. StudySizes # {}
    BY <1>5
  <2> QED BY <1>2, <1>5, <2>1, MaxOfBounded
<1>9. biggest \in Nat /\ biggest >= 1 /\ biggest <= maxNbYearsInParallel
  <2>1. Len(studySets[i]) <= biggest
    BY <1>5, <1>8
  <2>2. biggest \in Nat /\ biggest <= maxNbYearsInParallel
    BY <1>5, <1>8
  <2> HIDE DEF biggest
  <2> QED BY <2>1, <2>2, <1>3, <1>7
<1>10. \A n \in lengths : Min(lengths) <= n
  <2>1. lengths \in SUBSET Nat /\ lengths # {}
    BY <1>2, <1>5
  <2> HIDE DEF lengths
  <2>2. \E m \in lengths : \A n \in lengths : m <= n
    BY <2>1, LeastOfNats
  <2> QED BY <2>2 DEF Min
<1> HIDE DEF biggest
<1>11. /\ maxNbYearsInParallel' \in Nat
       /\ maxNbYearsInParallel' <= maxNbYearsInParallel
  BY <1>1, <1>2, <1>9
<1>12. Seen' = Seen
  BY <1>1 DEF Seen
<1>13. /\ \A yr : Performed(yr)' <=> Performed(yr)
       /\ \A yr : StudyRefreshing(yr)' <=> StudyRefreshing(yr)
  BY <1>1 DEF Performed, StudyRefreshing
<1>14. StudyInOrder' /\ NoRefreshInRun'
  BY <1>1, <1>12, <1>13 DEF StudyInv, StudyInOrder, NoRefreshInRun
<1>15. RunsEnd'
  <2>1. ASSUME NEW h \in DOMAIN studySets, h < Len(studySets), studySets[h] # <<>>
        PROVE  Len(studySets[h]) >= maxNbYearsInParallel' \/ RefreshAfter(h)'
    <3>1. Len(studySets[h]) >= maxNbYearsInParallel \/ RefreshAfter(h)
      BY <2>1 DEF StudyInv, RunsEnd
    <3>2. RefreshAfter(h) => RefreshAfter(h)'
      BY <1>1, <1>12, <1>13 DEF RefreshAfter
    <3>3. Len(studySets[h]) \in Nat
      BY <1>3
    <3> QED BY <3>1, <3>2, <3>3, <1>2, <1>11
  <2> QED BY <2>1, <1>1 DEF RunsEnd
<1>16. StudyFills'
  BY <1>1 DEF StudyFills
<1>17. Published'
  <2>1. \E j \in DOMAIN studySets : Len(studySets[j]) >= maxNbYearsInParallel'
    <3>1. CASE conf.parallel
      <4>1. PICK j \in DOMAIN studySets : biggest = Len(studySets[j])
        BY <1>5, <1>8
      <4>2. maxNbYearsInParallel' = biggest
        BY <3>1, <1>1
      <4> QED BY <4>1, <4>2, <1>9
    <3>2. CASE ~conf.parallel
      BY <3>2, <1>1, <1>7
    <3> QED BY <3>1, <3>2
  <2>2. IF conf.parallel
        THEN \A j \in DOMAIN studySets : Len(studySets[j]) <= maxNbYearsInParallel'
        ELSE maxNbYearsInParallel' = 1
    BY <1>1, <1>5, <1>8
  <2>3. \A j \in DOMAIN studySets : studySets[j] # <<>> =>
                                      minNbYearsInParallel' <= Len(studySets[j])
    <3>1. ASSUME NEW j \in DOMAIN studySets, studySets[j] # <<>>
          PROVE  minNbYearsInParallel' <= Len(studySets[j])
      <4>1. Len(studySets[j]) # 0
        <5>1. studySets[j] \in Seq(Years)
          BY <1>2
        <5> QED BY <3>1, <5>1
      <4>2. Len(studySets[j]) \in lengths
        BY <4>1, <1>5
      <4> QED BY <4>2, <1>1, <1>10
    <3> QED BY <3>1
  <2>4. ASSUME conf.parallel, conf.hotStart, maxNbYearsInParallel' > 1, allSetsHaveSameSize',
               NEW j \in DOMAIN studySets
        PROVE  Len(studySets[j]) >= maxNbYearsInParallel'
    <3>1. maxNbYearsInParallel' = biggest
      BY <2>4, <1>1
    <3>2. \A n \in StudySizes : n = Len(studySets[1])
      BY <2>4, <3>1, <1>1
    <3>3. Len(studySets[j]) = biggest
      BY <3>2, <1>5, <1>8
    <3> QED BY <3>1, <3>3, <1>9
  <2> QED BY <2>1, <2>2, <2>3, <2>4, <1>1 DEF Published
<1> QED BY <1>14, <1>15, <1>16, <1>17 DEF StudyInv

\* The loop of the solver leaves what the study found.
LEMMA StudyKept ==
    /\ \/ /\ pc # "count" /\ pc' # "count"
       \/ /\ pc' = pc /\ y' = y /\ buildNewSet' = buildNewSet
    /\ UNCHANGED <<conf, maxNbYearsInParallel, studyVars>>
    /\ StudyInv
    => StudyInv'
<1> SUFFICES ASSUME (pc # "count" /\ pc' # "count")
                      \/ (pc' = pc /\ y' = y /\ buildNewSet' = buildNewSet),
                    UNCHANGED <<conf, maxNbYearsInParallel, studyVars>>,
                    StudyInv
             PROVE  StudyInv'
  OBVIOUS
<1>1. /\ conf' = conf /\ maxNbYearsInParallel' = maxNbYearsInParallel
      /\ studySets' = studySets /\ minNbYearsInParallel' = minNbYearsInParallel
      /\ allSetsHaveSameSize' = allSetsHaveSameSize
  BY DEF studyVars
<1>2. Seen' = Seen
  BY DEF Seen
<1>3. /\ \A yr : Performed(yr)' <=> Performed(yr)
      /\ \A yr : StudyRefreshing(yr)' <=> StudyRefreshing(yr)
  BY <1>1 DEF Performed, StudyRefreshing
<1>4. StudyInOrder' /\ NoRefreshInRun'
  BY <1>1, <1>2, <1>3 DEF StudyInv, StudyInOrder, NoRefreshInRun
<1>5. RunsEnd'
  <2>1. \A h : RefreshAfter(h) => RefreshAfter(h)'
    BY <1>1, <1>2, <1>3 DEF RefreshAfter
  <2> QED BY <1>1, <2>1 DEF StudyInv, RunsEnd
<1>6. StudyFills'
  BY <1>1, <1>3 DEF StudyInv, StudyFills
<1>7. Published'
  BY <1>1 DEF StudyInv, Published
<1> QED BY <1>4, <1>5, <1>6, <1>7 DEF StudyInv

\* What the loop of the study finds holds of every behaviour.
THEOREM StudyFinds == Spec => []StudyInv
<1>1. Init => StudyInv
  <2> SUFFICES ASSUME Init PROVE StudyInv
    OBVIOUS
  <2>1. pc = "count" /\ y = 0 /\ studySets = <<>> /\ conf \in ConfigSpace
    BY ParallelYearsAssumption DEF Init
  <2>2. \A yr \in conf.playlist : ~(yr < Seen)
    BY <2>1 DEF Seen, ConfigSpace, Years
  <2>3. StudyInOrder /\ NoRefreshInRun /\ RunsEnd /\ StudyFills /\ Published
    BY <2>1, <2>2 DEF StudyInOrder, NoRefreshInRun, RunsEnd, StudyFills, Published
  <2> QED BY <2>3 DEF StudyInv
<1>2. IInv /\ StudyInv /\ [Next]_vars => StudyInv'
  <2> SUFFICES ASSUME IInv, StudyInv, [Next]_vars PROVE StudyInv'
    OBVIOUS
  <2>1. CASE CountYear
    BY <2>1, CountYearRuns
  <2>2. CASE Summarise
    BY <2>2, SummariseRuns
  <2>3. CASE BuildYear
    BY <2>3, StudyKept DEF BuildYear, AtAYear
  <2>4. CASE Crash
    BY <2>4, StudyKept DEF Crash, AtAYear
  <2>5. CASE EndBuild
    BY <2>5, StudyKept DEF EndBuild
  <2>6. CASE UNCHANGED vars
    BY <2>6, StudyKept DEF vars
  <2> QED BY <2>1, <2>2, <2>3, <2>4, <2>5, <2>6 DEF Next
<1> QED BY <1>1, <1>2, Invariance, PTL DEF Spec

-----------------------------------------------------------------------------
(* The sets of the solver against the runs of the study. *)

\* The performed years of the sets are years seen of the playlist, and all of them;
\* the last year closes its set.
RunsInv ==
    pc # "count" =>
        /\ \A j \in DOMAIN Runs : \A k \in DOMAIN Runs[j] : Runs[j][k] < y
        /\ \A yr \in conf.playlist : yr < y =>
              \E j \in DOMAIN Runs : \E k \in DOMAIN Runs[j] : Runs[j][k] = yr
        /\ y = NbYears => buildNewSet

\* Where the solver cannot but run the sets of the study.
Agreed ==
    /\ conf.parallel /\ ~conf.thermalForced
    /\ conf.aggregated \/ \A i \in DOMAIN studySets : Len(studySets[i]) >= maxNbYearsInParallel

\* A set of the solver is a run of the study, or its beginning as long as the
\* solver fills it.
Matches(j, i) ==
    /\ Len(Runs[j]) <= Len(studySets[i])
    /\ \A k \in DOMAIN Runs[j] : k \in DOMAIN studySets[i] /\ Runs[j][k] = studySets[i][k]
    /\ Len(Runs[j]) < Len(studySets[i]) =>
          y <= studySets[i][Len(Runs[j]) + 1] /\ j = Len(Runs) /\ ~buildNewSet

Matched ==
    pc # "count" /\ Agreed =>
        \A j \in DOMAIN Runs : Runs[j] # <<>> => \E i \in DOMAIN studySets : Matches(j, i)

\* A run of the study that fills a set makes the solver fill one, which counts.
SlotsInv ==
    IF pc = "count"
    THEN maxNbYearsPerformed = 0
    ELSE
        /\ maxNbYearsPerformed <= maxNbYearsInParallel
        /\ ~conf.thermalForced =>
              \A i \in DOMAIN studySets : Len(studySets[i]) >= maxNbYearsInParallel =>
                  \A k \in 1 .. maxNbYearsInParallel : studySets[i][k] < y =>
                      \/ maxNbYearsPerformed = maxNbYearsInParallel
                      \/ ~buildNewSet /\ Runs # <<>> /\ Len(Runs[Len(Runs)]) >= k

LEMMA RunsBuildYear == IInv /\ RunsInv /\ BuildYear => RunsInv'
<1> SUFFICES ASSUME IInv, RunsInv, BuildYear PROVE RunsInv'
  OBVIOUS
<1>1. /\ pc = "build" /\ y \in Years /\ y \in Nat /\ y' = y + 1 /\ conf' = conf
      /\ Runs \in Seq(Seq(Years)) /\ Runs' \in Seq(Seq(Years)) /\ Grown(Runs, Runs', y)
      /\ buildNewSet' <=> IsFull(Len(LastOf(Runs')), y)
  BY BuildYearGrows, YearsAreNats
<1>2. PICK p \in Seq(Seq(Years)) : p = Runs
  BY <1>1
<1>3. PICK q \in Seq(Seq(Years)) : q = Runs'
  BY <1>1
<1>4. Grown(p, q, y)
  BY <1>1, <1>2, <1>3
<1>5. /\ \A j \in DOMAIN p : /\ j \in DOMAIN q
                             /\ \A k \in DOMAIN p[j] : k \in DOMAIN q[j] /\ q[j][k] = p[j][k]
      /\ \A j \in DOMAIN q : \A k \in DOMAIN q[j] :
            \/ j \in DOMAIN p /\ k \in DOMAIN p[j] /\ q[j][k] = p[j][k]
            \/ j = Len(q) /\ k = Len(q[j]) /\ Performed(y) /\ q[j][k] = y
      /\ Len(q) \in DOMAIN q
      /\ Performed(y) => /\ Len(q[Len(q)]) \in DOMAIN q[Len(q)]
                         /\ q[Len(q)][Len(q[Len(q)])] = y
  BY <1>1, <1>4, GrownElements
<1>6. /\ \A j \in DOMAIN p : \A k \in DOMAIN p[j] : p[j][k] < y /\ p[j][k] \in Nat
      /\ \A yr \in conf.playlist : yr < y =>
            \E j \in DOMAIN p : \E k \in DOMAIN p[j] : p[j][k] = yr
  <2>1. \A j \in DOMAIN p : \A k \in DOMAIN p[j] : p[j][k] \in Nat
    BY <1>1, <1>4, GrownShape
  <2> QED BY <2>1, <1>1, <1>2 DEF RunsInv
<1>7. \A j \in DOMAIN q : \A k \in DOMAIN q[j] : q[j][k] < y + 1
  <2>1. ASSUME NEW j \in DOMAIN q, NEW k \in DOMAIN q[j] PROVE q[j][k] < y + 1
    <3>1. CASE j \in DOMAIN p /\ k \in DOMAIN p[j] /\ q[j][k] = p[j][k]
      <4>1. p[j][k] < y /\ p[j][k] \in Nat
        BY <3>1, <1>6
      <4> QED BY <3>1, <4>1, <1>1
    <3>2. CASE q[j][k] = y
      BY <3>2, <1>1
    <3> QED BY <3>1, <3>2, <1>5
  <2> QED BY <2>1
<1>8. ASSUME NEW yr \in conf.playlist, yr < y + 1
      PROVE  \E j \in DOMAIN q : \E k \in DOMAIN q[j] : q[j][k] = yr
  <2>1. yr \in Nat
    BY DEF IInv, TypeOK, ConfigSpace, Years
  <2>2. CASE yr = y
    <3>1. Performed(y)
      BY <2>2 DEF Performed
    <3> QED BY <2>2, <3>1, <1>5
  <2>3. CASE yr < y
    <3>1. PICK j \in DOMAIN p : \E k \in DOMAIN p[j] : p[j][k] = yr
      BY <2>3, <1>6
    <3>2. PICK k \in DOMAIN p[j] : p[j][k] = yr
      BY <3>1
    <3> QED BY <3>2, <1>5
  <2> QED BY <1>8, <2>1, <2>2, <2>3, <1>1
<1>9. y' = NbYears => buildNewSet'
  <2>1. y + 1 = NbYears => y = NbYears - 1
    BY <1>1, ParallelYearsAssumption
  <2>2. y = NbYears - 1 => buildNewSet'
    BY <1>1 DEF IsFull
  <2> QED BY <2>1, <2>2, <1>1
<1> QED BY <1>1, <1>3, <1>7, <1>8, <1>9 DEF RunsInv

\* No year after the first performed one of the last set regenerates time series.
LEMMA LastSetQuiet ==
    ASSUME IInv, pc # "count", Runs # <<>>, NEW k \in DOMAIN Runs[Len(Runs)],
           NEW z \in Years, Runs[Len(Runs)][k] < z, z < y
    PROVE  ~SolverRefreshing(z)
<1> DEFINE n == Len(sets)
           s == sets[n].years
           p == sets[n].performed
<1>1. TypeOK /\ RunsOK
  BY RunsType DEF IInv
<1>2. Len(Runs) = n /\ n \in Nat /\ n \in DOMAIN sets /\ sets # <<>> /\ Runs[n] = p
  <2>1. Runs \in Seq(Seq(Years)) /\ Len(Runs) = n /\ DOMAIN sets = 1 .. n /\ n \in Nat
    BY <1>1 DEF RunsOK
  <2>2. Len(Runs) # 0
    BY <2>1
  <2>3. n \in 1 .. n
    BY <2>1, <2>2
  <2> QED BY <2>1, <2>3, <1>1 DEF RunsOK
<1>3. sets[n] \in Subsets
  BY <1>1, <1>2 DEF TypeOK
<1>4. s \in Seq(Years) /\ p \in Seq(Years)
  BY <1>3 DEF Subsets
<1>5. /\ s # <<>>
      /\ \A j \in DOMAIN s : s[j] = s[1] + (j - 1)
      /\ LastOf(s) + 1 = y
  BY <1>2 DEF IInv, YearsCutInOrder, LastOf
<1>6. \A j \in DOMAIN s : SolverRefreshing(s[j]) => j = 1
  BY <1>2 DEF IInv, RefreshOpensSet
<1>7. k \in DOMAIN p /\ p[k] < z /\ p[k] \in Years
  BY <1>2, <1>4
<1>8. PICK l \in DOMAIN s : s[l] = p[k]
  BY <1>2, <1>7 DEF IInv, OneSpacePerYear
<1> HIDE DEF s, p, n
<1>9. /\ Len(s) \in Nat \ {0} /\ DOMAIN s = 1 .. Len(s) /\ s[1] \in Nat /\ z \in Nat
      /\ s[Len(s)] + 1 = y
  BY <1>4, <1>5, YearsAreNats, YearSequences DEF LastOf
<1>10. s[Len(s)] = s[1] + (Len(s) - 1)
  <2>1. Len(s) \in DOMAIN s
    BY <1>9
  <2> QED BY <2>1, <1>5
<1>11. s[l] = s[1] + (l - 1)
  BY <1>5
<1> DEFINE j == z - s[1] + 1
<1>12. j \in DOMAIN s /\ j # 1 /\ s[1] + (j - 1) = z
  <2> DEFINE a == s[1]
             b == Len(s)
  <2>1. a \in Nat /\ b \in Nat /\ z \in Nat /\ l \in 1 .. b
    BY <1>9
  <2>2. a + (l - 1) < z /\ a + (b - 1) + 1 = y
    BY <1>7, <1>8, <1>9, <1>10, <1>11
  <2>3. z < y
    OBVIOUS
  <2> HIDE DEF a, b
  <2>4. z - a + 1 \in 1 .. b /\ z - a + 1 # 1 /\ a + (z - a + 1 - 1) = z
    BY <2>1, <2>2, <2>3
  <2> QED BY <2>4, <1>9 DEF a, b
<1> HIDE DEF j
<1>13. s[j] = z
  BY <1>5, <1>12
<1> QED BY <1>6, <1>12, <1>13

\* Where the two loops agree, a refresh of the solver is one of the study.
LEMMA RefreshesAgree ==
    ASSUME ~conf.thermalForced
    PROVE  /\ \A z : SolverRefreshing(z) => StudyRefreshing(z)
           /\ conf.aggregated => \A z : StudyRefreshing(z) => SolverRefreshing(z)
BY DEF SolverRefreshing, KindRefreshing, ForcedRefreshing, SolverKinds, StudyRefreshing

LEMMA MatchedBuildYear == IInv /\ StudyInv /\ RunsInv /\ Matched /\ BuildYear => Matched'
<1> SUFFICES ASSUME IInv, StudyInv, RunsInv, Matched, BuildYear, Agreed'
             PROVE  \A j \in DOMAIN Runs' : Runs'[j] # <<>> =>
                        \E i \in DOMAIN studySets' : Matches(j, i)'
  BY DEF Matched
<1>1. /\ pc = "build" /\ y \in Years /\ y \in Nat /\ y' = y + 1
      /\ conf' = conf /\ maxNbYearsInParallel' = maxNbYearsInParallel /\ studySets' = studySets
      /\ Runs \in Seq(Seq(Years)) /\ Runs' \in Seq(Seq(Years)) /\ Grown(Runs, Runs', y)
      /\ OpensSet(y) => Len(Runs') = Len(Runs) + 1
      /\ ~OpensSet(y) => Len(Runs') = Len(Runs)
      /\ buildNewSet' <=> IsFull(Len(LastOf(Runs')), y)
  BY BuildYearGrows, YearsAreNats
<1>2. Agreed
  BY <1>1 DEF Agreed
<1>3. /\ TypeOK /\ RunsOK /\ studySets \in Seq(Seq(Years))
      /\ maxNbYearsInParallel \in Nat /\ NbYears \in Nat /\ y < NbYears
  BY RunsType, <1>1, ParallelYearsAssumption DEF IInv, TypeOK, Years
<1>4. PICK p \in Seq(Seq(Years)) : p = Runs
  BY <1>1
<1>5. PICK q \in Seq(Seq(Years)) : q = Runs'
  BY <1>1
<1>6. PICK s \in Seq(Seq(Years)) : s = studySets
  BY <1>3
<1>7. PICK a \in Nat : a = Len(p)
  BY <1>4
<1>8. PICK b \in Nat : b = Len(q)
  BY <1>5
<1> DEFINE max == maxNbYearsInParallel
           Old(j, i) == /\ Len(p[j]) <= Len(s[i])
                        /\ \A k \in DOMAIN p[j] : k \in DOMAIN s[i] /\ p[j][k] = s[i][k]
                        /\ Len(p[j]) < Len(s[i]) =>
                              y <= s[i][Len(p[j]) + 1] /\ j = a /\ ~buildNewSet
           New(j, i) == /\ Len(q[j]) <= Len(s[i])
                        /\ \A k \in DOMAIN q[j] : k \in DOMAIN s[i] /\ q[j][k] = s[i][k]
                        /\ Len(q[j]) < Len(s[i]) =>
                              y + 1 <= s[i][Len(q[j]) + 1] /\ j = b /\ ~buildNewSet'
\* The runs before and after.
<1>9. Grown(p, q, y)
  BY <1>1, <1>4, <1>5
<1>10. /\ \A j \in DOMAIN q : \A k \in DOMAIN q[j] :
             \/ j \in DOMAIN p /\ k \in DOMAIN p[j] /\ q[j][k] = p[j][k]
             \/ j = b /\ k = Len(q[j]) /\ Performed(y) /\ q[j][k] = y
       /\ b \in DOMAIN q
       /\ Performed(y) => Len(q[b]) \in DOMAIN q[b] /\ q[b][Len(q[b])] = y
  <2>1. y \in Years
    BY <1>1
  <2>2. /\ \A j \in DOMAIN q : \A k \in DOMAIN q[j] :
              \/ j \in DOMAIN p /\ k \in DOMAIN p[j] /\ q[j][k] = p[j][k]
              \/ j = Len(q) /\ k = Len(q[j]) /\ Performed(y) /\ q[j][k] = y
        /\ Len(q) \in DOMAIN q
        /\ Performed(y) => /\ Len(q[Len(q)]) \in DOMAIN q[Len(q)]
                           /\ q[Len(q)][Len(q[Len(q)])] = y
    BY <2>1, <1>9, GrownElements
  <2> QED BY <2>2, <1>8, Zenon
<1>11. /\ DOMAIN p = 1 .. a /\ DOMAIN q = 1 .. b
       /\ \A j \in DOMAIN q : j < b => j \in DOMAIN p /\ q[j] = p[j]
       /\ ~Performed(y) => q[b] = IF b = a THEN p[b] ELSE <<>>
       /\ Performed(y) => Len(q[b]) = IF b = a THEN Len(p[b]) + 1 ELSE 1
  <2>1. y \in Years
    BY <1>1
  <2>2. /\ DOMAIN p = 1 .. Len(p) /\ DOMAIN q = 1 .. Len(q)
        /\ \A j \in DOMAIN q : j < Len(q) => j \in DOMAIN p /\ q[j] = p[j]
        /\ ~Performed(y) => q[Len(q)] = IF Len(q) = Len(p) THEN p[Len(q)] ELSE <<>>
        /\ Performed(y) => Len(q[Len(q)]) = IF Len(q) = Len(p) THEN Len(p[Len(q)]) + 1 ELSE 1
    BY <2>1, <1>9, GrownShape
  <2> QED BY <2>2, <1>7, <1>8, Zenon
<1>12. /\ \A j \in DOMAIN p : p[j] \in Seq(Years)
       /\ \A j \in DOMAIN q : q[j] \in Seq(Years)
       /\ \A i \in DOMAIN s : s[i] \in Seq(Years)
  OBVIOUS
<1>13. DOMAIN s = 1 .. Len(s) /\ Len(s) \in Nat
  OBVIOUS
<1>14. /\ OpensSet(y) => b = a + 1
       /\ ~OpensSet(y) => b = a /\ ~buildNewSet /\ ~SolverRefreshing(y)
       /\ OpensSet(y) => buildNewSet \/ SolverRefreshing(y)
  BY <1>1, <1>4, <1>5, <1>7, <1>8 DEF OpensSet
<1>15. buildNewSet' => (Performed(y) /\ Len(q[b]) = max) \/ y = NbYears - 1
  BY <1>1, <1>5, <1>8 DEF LastOf, IsFull
<1>16. ~buildNewSet => a \in DOMAIN p /\ Len(p[a]) < max
  <2> SUFFICES ASSUME ~buildNewSet PROVE a \in DOMAIN p /\ Len(p[a]) < max
    OBVIOUS
  <2>1. sets # <<>> /\ Len(LastOf(sets).performed) < max
    BY <1>1 DEF IInv, BuildInv
  <2>2. sets \in Seq(Subsets)
    BY <1>3 DEF TypeOK
  <2>3. Len(sets) = a /\ DOMAIN sets = 1 .. a /\ \A j \in DOMAIN sets : p[j] = sets[j].performed
    BY <1>3, <1>4, <1>7 DEF RunsOK
  <2>4. Len(sets) # 0
    BY <2>1, <2>2
  <2>5. a \in DOMAIN sets
    BY <2>3, <2>4
  <2> QED BY <2>1, <2>3, <2>5, <1>11 DEF LastOf
<1>17. ASSUME a \in DOMAIN p, NEW k \in DOMAIN p[a], NEW z \in Years, p[a][k] < z, z < y
       PROVE  ~SolverRefreshing(z)
  <2>1. Runs # <<>> /\ pc # "count" /\ Len(Runs) = a /\ Runs[a] = p[a]
    BY <1>17, <1>1, <1>4, <1>7
  <2> QED BY <2>1, <1>17, LastSetQuiet
<1>18. /\ \A j \in DOMAIN p : \A k \in DOMAIN p[j] : p[j][k] < y
       /\ \A yr \in conf.playlist : yr < y =>
             \E j \in DOMAIN p : \E k \in DOMAIN p[j] : p[j][k] = yr
  BY <1>1, <1>4 DEF RunsInv
<1>19. \A j \in DOMAIN p : p[j] # <<>> => \E i \in DOMAIN s : Old(j, i)
  BY <1>1, <1>2, <1>4, <1>6, <1>7 DEF Matched, Matches
\* The runs of the study.
<1>20. /\ \A i \in DOMAIN s : \A k \in DOMAIN s[i] : s[i][k] \in conf.playlist /\ s[i][k] < NbYears
       /\ \A i \in DOMAIN s : \A k, l \in DOMAIN s[i] : k < l => s[i][k] < s[i][l]
       /\ \A h, i \in DOMAIN s : h < i =>
             \A k \in DOMAIN s[h], l \in DOMAIN s[i] : s[h][k] < s[i][l]
       /\ \A yr \in conf.playlist : yr < NbYears =>
             \E i \in DOMAIN s : \E k \in DOMAIN s[i] : s[i][k] = yr
  BY <1>1, <1>6 DEF StudyInv, StudyInOrder, Seen, Performed
<1>21. ASSUME NEW i \in DOMAIN s, NEW k \in DOMAIN s[i], s[i][1] < y, y <= s[i][k]
       PROVE  ~SolverRefreshing(y)
  <2>1. ~StudyRefreshing(y)
    BY <1>1, <1>6, <1>21 DEF StudyInv, NoRefreshInRun
  <2> QED BY <2>1, <1>2, RefreshesAgree DEF Agreed
<1>22. ASSUME NEW h \in DOMAIN s, NEW i \in DOMAIN s, h < i, s[h] # <<>>
       PROVE  \/ Len(s[h]) >= max
              \/ \E z \in Years : /\ SolverRefreshing(z)
                                  /\ \A k \in DOMAIN s[h] : s[h][k] < z
                                  /\ \A l \in DOMAIN s[i] : z <= s[i][l]
  <2>1. h < Len(s)
    BY <1>13, <1>22
  <2>2. Len(s[h]) >= max \/ RefreshAfter(h)
    BY <2>1, <1>6, <1>22 DEF StudyInv, RunsEnd
  <2>3. CASE ~conf.aggregated
    BY <2>3, <1>2, <1>6 DEF Agreed
  <2>4. CASE conf.aggregated /\ RefreshAfter(h)
    <3>1. PICK z \in Years :
            /\ StudyRefreshing(z)
            /\ \A k \in DOMAIN s[h] : s[h][k] < z
            /\ \A j \in DOMAIN s : h < j => \A l \in DOMAIN s[j] : z <= s[j][l]
      BY <2>4, <1>6 DEF RefreshAfter
    <3>2. SolverRefreshing(z)
      BY <2>4, <3>1, <1>2, RefreshesAgree DEF Agreed
    <3> QED BY <3>1, <3>2, <1>22
  <2> QED BY <2>2, <2>3, <2>4
<1>23. \A i \in DOMAIN s : Len(s[i]) <= max
  BY <1>1, <1>2, <1>6 DEF StudyInv, Published, Agreed
<1>24. max \in Nat
  BY <1>3
<1>25. \A j \in DOMAIN p : p[j] # <<>> => Len(p[j]) \in Nat \ {0} /\ 1 \in DOMAIN p[j]
  BY <1>12, YearSequences
<1>26. y \in Nat /\ NbYears \in Nat /\ y < NbYears
  BY <1>1, <1>3
<1> HIDE DEF max, Old, New
\* The sets that were left.
<1>27. ASSUME NEW j \in DOMAIN q, j < b, q[j] # <<>>
       PROVE  \E i \in DOMAIN s : New(j, i)
  <2>1. j \in DOMAIN p /\ q[j] = p[j]
    BY <1>11, <1>27
  <2>2. PICK i \in DOMAIN s : Old(j, i)
    BY <2>1, <1>19, <1>27
  <2>3. /\ Len(p[j]) \in Nat /\ Len(s[i]) \in Nat /\ DOMAIN s[i] = 1 .. Len(s[i])
        /\ 1 \in DOMAIN p[j] /\ Len(p[j]) <= Len(s[i])
    <3>1. Len(p[j]) \in Nat /\ 1 \in DOMAIN p[j]
      BY <2>1, <1>25, <1>27
    <3>2. Len(s[i]) \in Nat /\ DOMAIN s[i] = 1 .. Len(s[i])
      BY <1>12, YearSequences
    <3> QED BY <3>1, <3>2, <2>2 DEF Old
  <2>4. Len(p[j]) = Len(s[i])
    <3>1. SUFFICES ASSUME Len(p[j]) < Len(s[i]) PROVE FALSE
      BY <2>3
    <3>2. y <= s[i][Len(p[j]) + 1] /\ j = a /\ ~buildNewSet
      BY <2>2, <3>1 DEF Old
    <3>3. b # a
      BY <3>2, <1>27
    <3>4. SolverRefreshing(y)
      BY <3>2, <3>3, <1>14
    <3>5. s[i][1] = p[j][1] /\ p[j][1] < y
      BY <2>1, <2>2, <2>3, <1>18 DEF Old
    <3>6. Len(p[j]) + 1 \in DOMAIN s[i]
      BY <2>3, <3>1
    <3> QED BY <3>2, <3>4, <3>5, <3>6, <1>21
  <2>5. New(j, i)
    BY <2>1, <2>2, <2>3, <2>4 DEF Old, New
  <2> QED BY <2>5
\* The last set, when the year is not in the playlist.
<1>28. ASSUME ~Performed(y), q[b] # <<>>
       PROVE  \E i \in DOMAIN s : New(b, i)
  <2>1. b = a /\ q[b] = p[b]
    BY <1>11, <1>28
  <2>2. b \in DOMAIN p
    BY <2>1, <1>10, <1>11
  <2>3. PICK i \in DOMAIN s : Old(b, i)
    BY <2>1, <2>2, <1>19, <1>28
  <2>4. ASSUME Len(q[b]) < Len(s[i])
        PROVE  y + 1 <= s[i][Len(q[b]) + 1] /\ ~buildNewSet'
    <3>1. y <= s[i][Len(q[b]) + 1]
      BY <2>1, <2>3, <2>4 DEF Old
    <3>2. /\ Len(q[b]) \in Nat /\ Len(s[i]) \in Nat /\ DOMAIN s[i] = 1 .. Len(s[i])
          /\ \A k \in DOMAIN s[i] : s[i][k] \in Nat
      BY <1>10, <1>12, YearSequences
    <3>3. Len(q[b]) + 1 \in DOMAIN s[i]
      BY <2>4, <3>2
    <3>4. /\ s[i][Len(q[b]) + 1] \in Nat
          /\ s[i][Len(q[b]) + 1] # y /\ s[i][Len(q[b]) + 1] < NbYears
      BY <3>2, <3>3, <1>20, <1>28 DEF Performed
    <3> DEFINE v == s[i][Len(q[b]) + 1]
    <3>5. v \in Nat /\ y <= v /\ v # y /\ v < NbYears
      BY <3>1, <3>4
    <3> HIDE DEF v
    <3>6. y + 1 <= v /\ y # NbYears - 1
      BY <3>5, <1>26
    <3> QED BY <3>6, <1>15, <1>28 DEF v
  <2>5. New(b, i)
    BY <2>1, <2>3, <2>4 DEF Old, New
  <2> QED BY <2>5
\* The last set, when the year is in the playlist and the k-th of the run i.
<1>29. ASSUME Performed(y), NEW i \in DOMAIN s, NEW k \in DOMAIN s[i], s[i][k] = y
       PROVE  Len(q[b]) = k /\ \A l \in DOMAIN q[b] : q[b][l] = s[i][l]
  <2>1. /\ Len(s[i]) \in Nat /\ DOMAIN s[i] = 1 .. Len(s[i])
        /\ \A l \in DOMAIN s[i] : s[i][l] \in Nat
        /\ Len(q[b]) \in Nat /\ DOMAIN q[b] = 1 .. Len(q[b])
    BY <1>10, <1>12, YearSequences
  <2>2. CASE k = 1
    <3>1. b = a => p[a] = <<>>
      <4> SUFFICES ASSUME b = a, p[a] # <<>> PROVE FALSE
        OBVIOUS
      <4>1. ~OpensSet(y) /\ ~buildNewSet /\ ~SolverRefreshing(y) /\ a \in DOMAIN p
        BY <1>10, <1>11, <1>14
      <4>2. PICK h \in DOMAIN s : Old(a, h)
        BY <4>1, <1>19
      <4>3. /\ Len(p[a]) \in Nat \ {0} /\ 1 \in DOMAIN p[a] /\ Len(p[a]) \in DOMAIN p[a]
            /\ Len(s[h]) \in Nat /\ DOMAIN s[h] = 1 .. Len(s[h])
            /\ \A l \in DOMAIN s[h] : s[h][l] \in Nat
        BY <4>1, <1>12, YearSequences
      <4>4. 1 \in DOMAIN s[h] /\ s[h][1] < y
        BY <4>1, <4>2, <4>3, <1>18 DEF Old
      <4>5. h < i
        <5>1. h # i
          BY <2>2, <4>3, <4>4, <1>1, <1>29
        <5>2. ~(i < h)
          <6>1. ASSUME i < h PROVE FALSE
            <7>1. s[i][k] < s[h][1]
              BY <6>1, <4>4, <1>20
            <7>2. s[h][1] \in Nat
              BY <4>3, <4>4
            <7> QED BY <7>1, <7>2, <4>4, <1>29, <1>26
          <6> QED BY <6>1
        <5>3. h \in Nat /\ i \in Nat
          BY <1>13
        <5> QED BY <5>1, <5>2, <5>3
      <4>6. Len(p[a]) = Len(s[h])
        <5>1. SUFFICES ASSUME Len(p[a]) < Len(s[h]) PROVE FALSE
          <6>1. Len(p[a]) <= Len(s[h])
            BY <4>2 DEF Old
          <6> QED BY <6>1, <4>3
        <5>2. y <= s[h][Len(p[a]) + 1]
          BY <4>2, <5>1 DEF Old
        <5>3. Len(p[a]) + 1 \in DOMAIN s[h]
          BY <4>3, <5>1
        <5>4. s[h][Len(p[a]) + 1] < s[i][k]
          BY <4>5, <5>3, <1>20
        <5>5. s[h][Len(p[a]) + 1] \in Nat
          BY <4>3, <5>3
        <5> QED BY <5>2, <5>4, <5>5, <1>29, <1>26
      <4>7. ~(Len(s[h]) >= max)
        BY <4>1, <4>3, <4>6, <1>16, <1>24
      <4>8. s[h] # <<>>
        BY <4>4
      <4>9. PICK z \in Years : /\ SolverRefreshing(z)
                               /\ \A l \in DOMAIN s[h] : s[h][l] < z
                               /\ \A l \in DOMAIN s[i] : z <= s[i][l]
        BY <4>5, <4>7, <4>8, <1>22
      <4>10. z # y /\ z <= y /\ z \in Nat
        BY <4>1, <4>9, <1>29, YearsAreNats
      <4>11. p[a][1] < z
        BY <4>2, <4>3, <4>4, <4>9 DEF Old
      <4>12. z < y
        BY <4>10, <1>1
      <4> QED BY <4>1, <4>3, <4>9, <4>11, <4>12, <1>17
    <3>2. Len(q[b]) = 1
      <4>1. CASE b = a
        <5>1. p[b] = <<>>
          BY <3>1, <4>1
        <5>2. Len(p[b]) = 0
          BY <5>1
        <5> QED BY <4>1, <5>2, <1>11, <1>29
      <4>2. CASE b # a
        BY <4>2, <1>11, <1>29
      <4> QED BY <4>1, <4>2
    <3>3. \A l \in DOMAIN q[b] : l = 1
      BY <2>1, <3>2
    <3> QED BY <2>2, <3>2, <3>3, <1>10, <1>29
  <2>3. CASE k # 1
    <3>1. k - 1 \in DOMAIN s[i] /\ 1 \in DOMAIN s[i] /\ 1 < k /\ k - 1 < k /\ k \in Nat
      BY <2>1, <2>3
    <3>2. s[i][k - 1] < y /\ s[i][1] < y /\ s[i][k - 1] \in conf.playlist
      BY <3>1, <1>20, <1>29
    <3>3. PICK j \in DOMAIN p : \E m \in DOMAIN p[j] : p[j][m] = s[i][k - 1]
      BY <3>2, <1>18
    <3>4. PICK m \in DOMAIN p[j] : p[j][m] = s[i][k - 1]
      BY <3>3
    <3>5. p[j] # <<>>
      BY <3>4
    <3>6. PICK h \in DOMAIN s : Old(j, h)
      BY <3>5, <1>19
    <3>7. m \in DOMAIN s[h] /\ s[h][m] = s[i][k - 1]
      BY <3>4, <3>6 DEF Old
    <3>8. s[i][k - 1] \in Nat
      BY <2>1, <3>1
    <3>9. h = i
      <4>1. ~(h < i) /\ ~(i < h)
        <5>1. h < i => s[h][m] < s[i][k - 1]
          BY <3>1, <3>7, <1>20
        <5>2. i < h => s[i][k - 1] < s[h][m]
          BY <3>1, <3>7, <1>20
        <5> QED BY <5>1, <5>2, <3>7, <3>8
      <4>2. h \in Nat /\ i \in Nat
        BY <1>13
      <4> QED BY <4>1, <4>2
    <3>10. m = k - 1
      <4>1. ~(m < k - 1) /\ ~(k - 1 < m)
        <5>1. m < k - 1 => s[i][m] < s[i][k - 1]
          BY <3>1, <3>7, <3>9, <1>20
        <5>2. k - 1 < m => s[i][k - 1] < s[i][m]
          BY <3>1, <3>7, <3>9, <1>20
        <5> QED BY <5>1, <5>2, <3>7, <3>8, <3>9
      <4>2. m \in Nat /\ k - 1 \in Nat
        BY <2>1, <3>1, <3>7, <3>9
      <4> QED BY <4>1, <4>2
    <3>11. Len(p[j]) \in Nat /\ DOMAIN p[j] = 1 .. Len(p[j])
      BY <1>12, YearSequences
    <3>12. k \notin DOMAIN p[j]
      <4>1. ASSUME k \in DOMAIN p[j] PROVE FALSE
        <5>1. p[j][k] = y /\ p[j][k] < y
          BY <4>1, <3>6, <3>9, <1>18, <1>29 DEF Old
        <5> QED BY <5>1, <1>1
      <4> QED BY <4>1
    <3>13. Len(p[j]) = k - 1
      BY <3>1, <3>4, <3>10, <3>11, <3>12
    <3>14. j = a /\ ~buildNewSet
      <4>1. Len(p[j]) < Len(s[i])
        BY <2>1, <3>1, <3>13
      <4> QED BY <4>1, <3>6, <3>9 DEF Old
    <3>15. ~SolverRefreshing(y)
      <4>1. y <= s[i][k]
        BY <1>1, <1>29
      <4> QED BY <4>1, <3>2, <1>21
    <3>16. b = a
      BY <3>14, <3>15, <1>14
    <3>17. Len(q[b]) = k
      BY <3>1, <3>13, <3>14, <3>16, <1>11, <1>29
    <3>18. ASSUME NEW l \in DOMAIN q[b] PROVE q[b][l] = s[i][l]
      <4>1. CASE l \in DOMAIN p[b] /\ q[b][l] = p[b][l]
        BY <4>1, <3>6, <3>9, <3>14, <3>16 DEF Old
      <4>2. CASE l = Len(q[b]) /\ q[b][l] = y
        BY <4>2, <3>17, <1>29
      <4> QED BY <4>1, <4>2, <1>10
    <3> QED BY <3>17, <3>18
  <2> QED BY <2>2, <2>3
<1>30. ASSUME Performed(y)
       PROVE  \E i \in DOMAIN s : New(b, i)
  <2>1. PICK i \in DOMAIN s : \E k \in DOMAIN s[i] : s[i][k] = y
    BY <1>3, <1>20, <1>30 DEF Performed
  <2>2. PICK k \in DOMAIN s[i] : s[i][k] = y
    BY <2>1
  <2>3. Len(q[b]) = k /\ \A l \in DOMAIN q[b] : q[b][l] = s[i][l]
    BY <2>2, <1>29, <1>30
  <2>4. /\ Len(s[i]) \in Nat /\ DOMAIN s[i] = 1 .. Len(s[i])
        /\ \A l \in DOMAIN s[i] : s[i][l] \in Nat
        /\ DOMAIN q[b] = 1 .. Len(q[b])
    BY <1>10, <1>12, YearSequences
  <2>5. k <= Len(s[i]) /\ k \in Nat /\ \A l \in 1 .. k : l \in DOMAIN s[i]
    BY <2>4
  <2>6. ASSUME k < Len(s[i])
        PROVE  y + 1 <= s[i][k + 1] /\ ~buildNewSet'
    <3>1. k + 1 \in DOMAIN s[i] /\ k < k + 1
      BY <2>4, <2>5, <2>6
    <3>2. y < s[i][k + 1] /\ s[i][k + 1] < NbYears /\ s[i][k + 1] \in Nat
      BY <2>2, <2>4, <3>1, <1>20
    <3>3. y # NbYears - 1 /\ y + 1 <= s[i][k + 1]
      BY <3>2, <1>26
    <3>4. k # max
      <4>1. Len(s[i]) <= max
        BY <1>23
      <4> QED BY <4>1, <2>4, <2>5, <2>6, <1>24
    <3> QED BY <2>3, <3>3, <3>4, <1>15
  <2>7. New(b, i)
    BY <2>3, <2>4, <2>5, <2>6 DEF New
  <2> QED BY <2>7
<1>31. \A j \in DOMAIN q : q[j] # <<>> => \E i \in DOMAIN s : New(j, i)
  <2>1. \A j \in DOMAIN q : j < b \/ j = b
    BY <1>11
  <2> QED BY <2>1, <1>27, <1>28, <1>30
<1>32. \A j \in DOMAIN q, i \in DOMAIN s : New(j, i) => Matches(j, i)'
  BY <1>1, <1>5, <1>6, <1>8 DEF New, Matches
<1> QED BY <1>1, <1>5, <1>6, <1>31, <1>32

LEMMA SlotsBuildYear == IInv /\ StudyInv /\ SlotsInv /\ BuildYear => SlotsInv'
<1> SUFFICES ASSUME IInv, StudyInv, SlotsInv, BuildYear PROVE SlotsInv'
  OBVIOUS
<1>1. /\ pc = "build" /\ pc' = "build" /\ y \in Years /\ y' = y + 1
      /\ conf' = conf /\ maxNbYearsInParallel' = maxNbYearsInParallel /\ studySets' = studySets
      /\ Runs \in Seq(Seq(Years)) /\ Runs' \in Seq(Seq(Years)) /\ Grown(Runs, Runs', y)
      /\ ~OpensSet(y) => Len(Runs') = Len(Runs)
      /\ buildNewSet' <=> IsFull(Len(LastOf(Runs')), y)
      /\ maxNbYearsPerformed' =
           IF buildNewSet' /\ Len(LastOf(Runs')) > maxNbYearsPerformed
           THEN Len(LastOf(Runs')) ELSE maxNbYearsPerformed
  BY BuildYearGrows
<1>2. IInv' /\ TypeOK /\ TypeOK' /\ RunsOK /\ RunsOK'
  <2>1. IInv' /\ TypeOK /\ TypeOK'
    BY BuildYearInv DEF IInv
  <2> QED BY <2>1, RunsType, PTL
<1>3. /\ studySets \in Seq(Seq(Years)) /\ NbYears \in Nat /\ y \in Nat
      /\ maxNbYearsInParallel \in Nat \ {0}
      /\ maxNbYearsPerformed \in Nat /\ maxNbYearsPerformed' \in Nat
  BY <1>1, <1>2, YearsAreNats, ParallelYearsAssumption DEF TypeOK
<1>4. PICK p \in Seq(Seq(Years)) : p = Runs
  BY <1>1
<1>5. PICK q \in Seq(Seq(Years)) : q = Runs'
  BY <1>1
<1>6. PICK s \in Seq(Seq(Years)) : s = studySets
  BY <1>3
<1>7. PICK a \in Nat : a = Len(p)
  BY <1>4
<1>8. PICK b \in Nat : b = Len(q)
  BY <1>5
<1>9. PICK max \in Nat \ {0} : max = maxNbYearsInParallel
  BY <1>3
<1>10. PICK n \in Nat : n = Len(q[b])
  <2>1. b \in DOMAIN q
    BY <1>1, <1>4, <1>5, <1>8, GrownElements
  <2>2. q[b] \in Seq(Years)
    BY <2>1
  <2> QED BY <2>2
<1>11. b \in DOMAIN q /\ q # <<>> /\ (~OpensSet(y) => b = a /\ a \in DOMAIN p)
  <2>1. Len(q) \in DOMAIN q
    BY <1>1, <1>4, <1>5, GrownElements
  <2>2. ~OpensSet(y) => b = a
    BY <1>1, <1>4, <1>5, <1>7, <1>8
  <2>3. DOMAIN p = 1 .. a /\ DOMAIN q = 1 .. b
    BY <1>7, <1>8
  <2>4. b \in DOMAIN q /\ q # <<>>
    BY <2>1, <1>8
  <2>5. b = a => a \in DOMAIN p
    BY <2>3, <2>4
  <2> QED BY <2>2, <2>4, <2>5
<1>12. /\ ~Performed(y) => q[b] = IF b = a THEN p[b] ELSE <<>>
       /\ Performed(y) => n = IF b = a THEN Len(p[b]) + 1 ELSE 1
  <2>1. /\ ~Performed(y) => q[Len(q)] = IF Len(q) = Len(p) THEN p[Len(q)] ELSE <<>>
        /\ Performed(y) => Len(q[Len(q)]) = IF Len(q) = Len(p) THEN Len(p[Len(q)]) + 1 ELSE 1
    BY <1>1, <1>4, <1>5, GrownShape
  <2> QED BY <2>1, <1>7, <1>8, <1>10, Zenon
<1>13. \A j \in DOMAIN p : Len(p[j]) \in Nat
  BY YearSequences
<1>14. \A i \in DOMAIN s : /\ Len(s[i]) \in Nat /\ DOMAIN s[i] = 1 .. Len(s[i])
                           /\ \A k \in DOMAIN s[i] : s[i][k] \in Nat
  BY YearSequences
<1>15. n <= max
  <2>1. SpacesFit' /\ max = maxNbYearsInParallel'
    BY <1>1, <1>2, <1>9 DEF IInv
  <2>2. b \in DOMAIN sets' /\ q[b] = sets'[b].performed
    <3>1. Len(q) = Len(sets') /\ DOMAIN sets' = 1 .. Len(sets')
          /\ \A j \in DOMAIN sets' : q[j] = sets'[j].performed
      BY <1>2, <1>5 DEF RunsOK
    <3>2. DOMAIN q = 1 .. Len(q)
      OBVIOUS
    <3> QED BY <3>1, <3>2, <1>11
  <2> QED BY <2>1, <2>2, <1>10 DEF SpacesFit
<1> DEFINE M == maxNbYearsPerformed
<1>16. /\ M \in Nat /\ M' \in Nat /\ M <= max
       /\ M' = IF buildNewSet' /\ n > M THEN n ELSE M
       /\ buildNewSet' <=> IsFull(n, y)
  <2>1. M <= max
    BY <1>1, <1>9 DEF SlotsInv
  <2>2. LastOf(Runs') = q[b]
    BY <1>5, <1>8 DEF LastOf
  <2> QED BY <2>1, <2>2, <1>1, <1>3, <1>10
<1> HIDE DEF M
<1>17. /\ M' <= max
       /\ M = max => M' = max
       /\ buildNewSet' /\ n = max => M' = max
  BY <1>15, <1>16
<1>18. ~buildNewSet => Len(p[a]) < max
  <2> SUFFICES ASSUME ~buildNewSet PROVE Len(p[a]) < max
    OBVIOUS
  <2>1. sets # <<>> /\ Len(LastOf(sets).performed) < max
    BY <1>1, <1>9 DEF IInv, BuildInv
  <2>2. sets \in Seq(Subsets)
    BY <1>2 DEF TypeOK
  <2>3. Len(sets) = a /\ DOMAIN sets = 1 .. a /\ \A j \in DOMAIN sets : p[j] = sets[j].performed
    BY <1>2, <1>4, <1>7 DEF RunsOK
  <2>4. Len(sets) # 0
    BY <2>1, <2>2
  <2>5. a \in DOMAIN sets
    BY <2>3, <2>4
  <2> QED BY <2>1, <2>3, <2>5 DEF LastOf
<1>19. /\ \A i \in DOMAIN s : \A k \in DOMAIN s[i] : s[i][k] < NbYears
       /\ \A i \in DOMAIN s : \A k, l \in DOMAIN s[i] : k < l => s[i][k] < s[i][l]
       /\ \A i \in DOMAIN s : \A k \in DOMAIN s[i] : Performed(s[i][k])
  BY <1>1, <1>6 DEF StudyInv, StudyInOrder, Seen
<1>20. ASSUME ~conf.thermalForced, NEW i \in DOMAIN s, Len(s[i]) >= max, M' # max
       PROVE  \A k \in 1 .. max : s[i][k] < y + 1 => ~buildNewSet' /\ n >= k
  <2>1. M # max
    BY <1>17, <1>20
  <2>2. \A k \in 1 .. max : s[i][k] < y => ~buildNewSet /\ Len(p[a]) >= k
    BY <2>1, <1>1, <1>4, <1>6, <1>7, <1>9, <1>20 DEF SlotsInv, M
  <2>3. /\ \A k \in 1 .. max : k \in DOMAIN s[i] /\ s[i][k] \in Nat /\ s[i][k] < NbYears
        /\ 1 \in 1 .. max /\ max \in 1 .. max
    BY <1>14, <1>19, <1>20
  <2>4. ~(s[i][max] < y)
    <3>1. ASSUME s[i][max] < y PROVE FALSE
      <4>1. ~buildNewSet /\ Len(p[a]) >= max
        BY <2>2, <2>3, <3>1
      <4>2. b = a => Len(p[a]) \in Nat
        BY <1>11, <1>13
      <4>3. a \in DOMAIN p
        <5>1. Runs # <<>>
          BY <2>1, <2>3, <3>1, <1>1, <1>6, <1>9, <1>20 DEF SlotsInv, M
        <5>2. a # 0
          BY <5>1, <1>4, <1>7
        <5>3. DOMAIN p = 1 .. a
          BY <1>7
        <5> QED BY <5>2, <5>3
      <4>4. Len(p[a]) \in Nat
        BY <4>3, <1>13
      <4> QED BY <4>1, <4>4, <1>18
    <3> QED BY <3>1
  <2>5. ASSUME NEW k \in 1 .. max, s[i][k] < y + 1 PROVE n >= k
    <3>1. s[i][1] \in Nat /\ s[i][k] \in Nat /\ s[i][max] \in Nat /\ k \in Nat
      BY <2>3
    <3>2. k # 1 => s[i][1] < s[i][k]
      BY <2>3, <1>19
    <3>3. CASE s[i][1] = y
      <4>1. k = 1
        BY <2>5, <3>1, <3>2, <3>3, <1>3
      <4>2. Performed(y)
        BY <2>3, <3>3, <1>19
      <4>3. n = IF b = a THEN Len(p[b]) + 1 ELSE 1
        BY <4>2, <1>12
      <4>4. b = a => Len(p[b]) \in Nat
        <5>1. b = a => b \in DOMAIN p
          <6>1. DOMAIN q = 1 .. b /\ DOMAIN p = 1 .. a
            BY <1>7, <1>8
          <6> QED BY <6>1, <1>11
        <5> QED BY <5>1, <1>13
      <4> QED BY <4>1, <4>3, <4>4
    <3>4. CASE s[i][1] # y
      <4>1. s[i][1] < y
        <5>1. y \in Nat
          BY <1>3
        <5>2. k = 1 => s[i][1] = s[i][k]
          OBVIOUS
        <5> DEFINE u == s[i][1]
                   v == s[i][k]
        <5>3. u \in Nat /\ v \in Nat /\ v < y + 1 /\ (u = v \/ u < v) /\ u # y
          BY <5>2, <2>5, <3>1, <3>2, <3>4
        <5> HIDE DEF u, v
        <5>4. u < y
          BY <5>1, <5>3
        <5> QED BY <5>4 DEF u
      <4>2. ~buildNewSet
        BY <2>2, <2>3, <4>1
      <4>3. ~SolverRefreshing(y)
        <5>1. y <= s[i][max]
          BY <2>4, <3>1, <1>3
        <5>2. ~StudyRefreshing(y)
          BY <2>3, <4>1, <5>1, <1>1, <1>6 DEF StudyInv, NoRefreshInRun
        <5> QED BY <5>2, <1>20, RefreshesAgree
      <4>4. b = a /\ Len(p[a]) \in Nat
        BY <4>2, <4>3, <1>11, <1>13 DEF OpensSet
      <4>5. /\ Performed(y) => n = Len(p[a]) + 1
            /\ ~Performed(y) => n = Len(p[a])
        BY <4>4, <1>10, <1>12
      <4>6. CASE s[i][k] < y
        BY <2>2, <4>4, <4>5, <4>6, <3>1
      <4>7. CASE s[i][k] = y
        <5>1. Performed(y) /\ k # 1
          BY <2>3, <3>4, <4>7, <1>19
        <5>2. k - 1 \in 1 .. max /\ k - 1 < k
          BY <3>1, <5>1
        <5>3. s[i][k - 1] < y
          BY <2>3, <4>7, <5>2, <1>19
        <5>4. Len(p[a]) >= k - 1
          BY <2>2, <5>2, <5>3
        <5>5. Len(p[a]) \in Nat /\ n = Len(p[a]) + 1
          BY <4>4, <4>5, <5>1
        <5> QED BY <3>1, <5>4, <5>5
      <4>8. y \in Nat
        BY <1>3
      <4> QED BY <2>5, <3>1, <4>6, <4>7, <4>8
    <3> QED BY <3>3, <3>4
  <2>6. ~buildNewSet'
    <3>1. ASSUME buildNewSet' PROVE FALSE
      <4>1. n # max
        BY <3>1, <1>17, <1>20
      <4>2. y = NbYears - 1
        BY <3>1, <4>1, <1>9, <1>16 DEF IsFull
      <4>3. s[i][max] < y + 1
        BY <2>3, <4>2, <1>3
      <4>4. n >= max
        BY <2>3, <2>5, <4>3
      <4> QED BY <4>1, <4>4, <1>15
    <3> QED BY <3>1
  <2> QED BY <2>5, <2>6
<1>21. ASSUME ~conf.thermalForced, NEW i \in DOMAIN s, Len(s[i]) >= max,
              NEW k \in 1 .. max, s[i][k] < y + 1
       PROVE  M' = max \/ (~buildNewSet' /\ q # <<>> /\ Len(q[b]) >= k)
  BY <1>10, <1>11, <1>20, <1>21
<1> QED BY <1>1, <1>5, <1>6, <1>8, <1>9, <1>17, <1>21 DEF SlotsInv, M

LEMMA SolverSummarise == IInv /\ SlotsInv /\ Summarise => (RunsInv /\ Matched /\ SlotsInv)'
<1> SUFFICES ASSUME IInv, SlotsInv, Summarise PROVE (RunsInv /\ Matched /\ SlotsInv)'
  OBVIOUS
<1>1. /\ pc = "count" /\ pc' = "build" /\ y' = 0 /\ sets' = sets /\ buildNewSet' = TRUE
      /\ conf' = conf /\ maxNbYearsPerformed' = maxNbYearsPerformed
  BY DEF Summarise, solverVars
<1>2. sets = <<>> /\ maxNbYearsPerformed = 0 /\ TypeOK'
  BY <1>1, SummariseInv DEF IInv, CountInv, SlotsInv
<1>3. DOMAIN Runs' = {}
  BY <1>1, <1>2 DEF Runs
<1>4. /\ maxNbYearsInParallel' \in Nat \ {0} /\ studySets' \in Seq(Seq(Years))
      /\ conf \in ConfigSpace /\ NbYears \in Nat \ {0}
  BY <1>1, <1>2, ParallelYearsAssumption DEF TypeOK
<1>5. \A yr \in conf.playlist : yr \in Nat
  BY <1>4 DEF ConfigSpace, Years
<1>6. RunsInv'
  BY <1>1, <1>3, <1>4, <1>5 DEF RunsInv
<1>7. Matched'
  BY <1>3 DEF Matched
<1>8. ASSUME NEW i \in DOMAIN studySets', Len(studySets'[i]) >= maxNbYearsInParallel',
             NEW k \in 1 .. maxNbYearsInParallel'
      PROVE  ~(studySets'[i][k] < y')
  <2>1. PICK r \in Seq(Years) : r = studySets'[i]
    BY <1>4
  <2>2. k \in DOMAIN r
    <3>1. Len(r) \in Nat /\ DOMAIN r = 1 .. Len(r)
      BY YearSequences
    <3> QED BY <2>1, <3>1, <1>4, <1>8
  <2>3. r[k] \in Nat
    BY <2>2, YearSequences
  <2> QED BY <2>1, <2>3, <1>1
<1>9. SlotsInv'
  BY <1>1, <1>2, <1>4, <1>8 DEF SlotsInv
<1> QED BY <1>6, <1>7, <1>9

\* A crash and the end of the loop leave the sets.
LEMMA SolverKept ==
    /\ pc' = pc \/ (pc # "count" /\ pc' # "count")
    /\ UNCHANGED <<conf, y, buildNewSet, maxNbYearsInParallel, studyVars, solverVars>>
    /\ RunsInv /\ Matched /\ SlotsInv
    => (RunsInv /\ Matched /\ SlotsInv)'
<1> SUFFICES ASSUME pc' = pc \/ (pc # "count" /\ pc' # "count"),
                    UNCHANGED <<conf, y, buildNewSet, maxNbYearsInParallel, studyVars, solverVars>>,
                    RunsInv, Matched, SlotsInv
             PROVE  (RunsInv /\ Matched /\ SlotsInv)'
  OBVIOUS
<1>1. /\ conf' = conf /\ y' = y /\ buildNewSet' = buildNewSet /\ studySets' = studySets
      /\ maxNbYearsInParallel' = maxNbYearsInParallel
      /\ maxNbYearsPerformed' = maxNbYearsPerformed /\ sets' = sets
  BY DEF studyVars, solverVars
<1>2. Runs' = Runs
  BY <1>1 DEF Runs
<1>3. RunsInv'
  BY <1>1, <1>2 DEF RunsInv
<1>4. Matched'
  <2>1. (Agreed' <=> Agreed) /\ \A i, j : Matches(j, i)' <=> Matches(j, i)
    BY <1>1, <1>2 DEF Agreed, Matches
  <2> QED BY <1>1, <1>2, <2>1 DEF Matched
<1>5. SlotsInv'
  BY <1>1, <1>2 DEF SlotsInv
<1> QED BY <1>3, <1>4, <1>5

\* What the loop of the solver does with the runs of the study, in every behaviour.
THEOREM SolverFollows == Spec => [](RunsInv /\ Matched /\ SlotsInv)
<1>1. Init => RunsInv /\ Matched /\ SlotsInv
  BY DEF Init, RunsInv, Matched, SlotsInv
<1>2. IInv /\ StudyInv /\ RunsInv /\ Matched /\ SlotsInv /\ [Next]_vars
      => (RunsInv /\ Matched /\ SlotsInv)'
  <2> SUFFICES ASSUME IInv, StudyInv, RunsInv, Matched, SlotsInv, [Next]_vars
               PROVE  (RunsInv /\ Matched /\ SlotsInv)'
    OBVIOUS
  <2>1. CASE CountYear
    BY <2>1 DEF CountYear, AtAYear, solverVars, RunsInv, Matched, SlotsInv
  <2>2. CASE Summarise
    BY <2>2, SolverSummarise
  <2>3. CASE BuildYear
    BY <2>3, RunsBuildYear, MatchedBuildYear, SlotsBuildYear
  <2>4. CASE Crash
    BY <2>4, SolverKept DEF Crash, AtAYear
  <2>5. CASE EndBuild
    BY <2>5, SolverKept DEF EndBuild
  <2>6. CASE UNCHANGED vars
    BY <2>6, SolverKept DEF vars
  <2> QED BY <2>1, <2>2, <2>3, <2>4, <2>5, <2>6 DEF Next
<1> QED BY <1>1, <1>2, Invariance, StudyFinds, PTL DEF Spec

Counted == IInv /\ StudyInv /\ RunsInv /\ Matched /\ SlotsInv /\ FirstInv

\* What the sets are when the solver has built them all.
LEMMA WhenBuilt ==
    ASSUME Counted, pc = "built"
    PROVE  /\ ~conf.thermalForced => maxNbYearsPerformed = maxNbYearsInParallel
           /\ Agreed => \A j \in DOMAIN sets : sets[j].performed # <<>> =>
                            \E i \in DOMAIN studySets : sets[j].performed = studySets[i]
           /\ Agreed => \A i \in DOMAIN studySets : studySets[i] # <<>> =>
                            \E j \in DOMAIN sets : sets[j].performed = studySets[i]
<1>1. /\ IInv /\ StudyInv /\ RunsInv /\ Matched /\ SlotsInv
      /\ y = NbYears /\ buildNewSet /\ TypeOK /\ RunsOK /\ NbYears \in Nat \ {0}
  <2>1. /\ IInv /\ StudyInv /\ RunsInv /\ Matched /\ SlotsInv /\ y = NbYears /\ TypeOK
    BY DEF Counted, FirstInv, IInv
  <2>2. buildNewSet
    BY <2>1 DEF RunsInv
  <2> QED BY <2>1, <2>2, RunsType, ParallelYearsAssumption
<1>2. /\ maxNbYearsInParallel \in Nat \ {0}
      /\ \A i \in DOMAIN studySets : studySets[i] \in Seq(Years)
      /\ DOMAIN studySets \subseteq Nat
      /\ DOMAIN Runs = DOMAIN sets
      /\ \A j \in DOMAIN sets : Runs[j] = sets[j].performed /\ Runs[j] \in Seq(Years)
  <2>1. /\ maxNbYearsInParallel \in Nat \ {0} /\ studySets \in Seq(Seq(Years))
    BY <1>1 DEF TypeOK
  <2>2. /\ Runs \in Seq(Seq(Years)) /\ DOMAIN Runs = DOMAIN sets
        /\ \A j \in DOMAIN sets : Runs[j] = sets[j].performed
    BY <1>1 DEF RunsOK, Runs
  <2>3. \A j \in DOMAIN Runs : Runs[j] \in Seq(Years)
    BY <2>2
  <2>4. \A i \in DOMAIN studySets : studySets[i] \in Seq(Years) /\ i \in Nat
    BY <2>1
  <2> QED BY <2>1, <2>2, <2>3, <2>4
<1>3. /\ \A i \in DOMAIN studySets : \A k \in DOMAIN studySets[i] :
            studySets[i][k] \in conf.playlist /\ studySets[i][k] < NbYears
      /\ \A h, i \in DOMAIN studySets : h < i =>
            \A k \in DOMAIN studySets[h], l \in DOMAIN studySets[i] :
                studySets[h][k] < studySets[i][l]
  BY <1>1 DEF StudyInv, StudyInOrder, Seen, Performed
<1>4. ASSUME ~conf.thermalForced PROVE maxNbYearsPerformed = maxNbYearsInParallel
  <2>1. PICK i \in DOMAIN studySets : Len(studySets[i]) >= maxNbYearsInParallel
    BY <1>1 DEF StudyInv, Published
  <2>2. maxNbYearsInParallel \in DOMAIN studySets[i]
    <3>1. Len(studySets[i]) \in Nat /\ DOMAIN studySets[i] = 1 .. Len(studySets[i])
      BY <1>2, YearSequences
    <3> QED BY <2>1, <3>1, <1>2
  <2>3. studySets[i][maxNbYearsInParallel] < y
    BY <2>2, <1>1, <1>3
  <2>4. maxNbYearsInParallel \in 1 .. maxNbYearsInParallel
    BY <1>2
  <2> QED BY <2>1, <2>3, <2>4, <1>1, <1>4 DEF SlotsInv
<1>5. ASSUME Agreed, NEW j \in DOMAIN sets, sets[j].performed # <<>>
      PROVE  \E i \in DOMAIN studySets : sets[j].performed = studySets[i]
  <2>1. PICK i \in DOMAIN studySets : Matches(j, i)
    BY <1>1, <1>2, <1>5 DEF Matched
  <2>2. PICK r \in Seq(Years) : r = Runs[j]
    BY <1>2
  <2>3. PICK s \in Seq(Years) : s = studySets[i]
    BY <1>2
  <2>4. Len(r) = Len(s) /\ \A k \in DOMAIN r : r[k] = s[k]
    <3>1. Len(r) <= Len(s) /\ ~(Len(r) < Len(s)) /\ \A k \in DOMAIN r : r[k] = s[k]
      BY <2>1, <2>2, <2>3, <1>1 DEF Matches
    <3>2. Len(r) \in Nat /\ Len(s) \in Nat
      OBVIOUS
    <3> QED BY <3>1, <3>2
  <2>5. r = s
    BY <2>4
  <2> QED BY <2>2, <2>3, <2>5, <1>2
<1>6. ASSUME Agreed, NEW i \in DOMAIN studySets, studySets[i] # <<>>
      PROVE  \E j \in DOMAIN sets : sets[j].performed = studySets[i]
  <2>1. 1 \in DOMAIN studySets[i] /\ studySets[i][1] \in Nat
    BY <1>2, <1>6, YearSequences
  <2>2. studySets[i][1] \in conf.playlist /\ studySets[i][1] < y
    BY <2>1, <1>1, <1>3
  <2>3. PICK j \in DOMAIN Runs : \E k \in DOMAIN Runs[j] : Runs[j][k] = studySets[i][1]
    BY <2>2, <1>1 DEF RunsInv
  <2>4. PICK k \in DOMAIN Runs[j] : Runs[j][k] = studySets[i][1]
    BY <2>3
  <2>5. j \in DOMAIN sets /\ sets[j].performed # <<>>
    BY <2>4, <1>2
  <2>6. PICK h \in DOMAIN studySets : sets[j].performed = studySets[h]
    BY <2>5, <1>5, <1>6
  <2>7. k \in DOMAIN studySets[h] /\ studySets[h][k] = studySets[i][1]
    BY <2>4, <2>5, <2>6, <1>2
  <2>8. ~(h < i) /\ ~(i < h)
    <3>1. h < i => studySets[h][k] < studySets[i][1]
      BY <2>1, <2>7, <1>3
    <3>2. i < h => studySets[i][1] < studySets[h][k]
      BY <2>1, <2>7, <1>3
    <3> QED BY <3>1, <3>2, <2>1, <2>7
  <2>9. h = i
    BY <2>8, <1>2
  <2> QED BY <2>5, <2>6, <2>9
<1> QED BY <1>4, <1>5, <1>6

-----------------------------------------------------------------------------
(* What the loop over the years needs to know of the sets it is given. *)

\* The sets are apart and in order; a set performs no more years than it has, and ends
\* with the year that fills it; a space is a slot; and the first year was looked at.
SetsInv ==
    pc # "count" =>
        /\ \A i \in DOMAIN sets : \A k \in DOMAIN sets[i].years : sets[i].years[k] < y
        /\ \A h, i \in DOMAIN sets : h < i =>
              \A k \in DOMAIN sets[h].years, l \in DOMAIN sets[i].years :
                  sets[h].years[k] < sets[i].years[l]
        /\ \A i \in DOMAIN sets :
              /\ Len(sets[i].performed) <= Len(sets[i].years)
              /\ Len(sets[i].performed) = maxNbYearsInParallel =>
                    LastOf(sets[i].performed) = LastOf(sets[i].years)
              /\ maxNbYearsInParallel = 1 /\ sets[i].performed # <<>> =>
                    maxNbYearsPerformed >= 1
        /\ y > 0 => ~DividesByZero(0)

LEMMA SetsBuildYear == IInv /\ SetsInv /\ BuildYear => SetsInv'
<1> SUFFICES ASSUME IInv, SetsInv, BuildYear PROVE SetsInv'
  OBVIOUS
<1>1. /\ pc = "build" /\ pc' = "build" /\ y \in Years /\ y' = y + 1
      /\ conf' = conf /\ maxNbYearsInParallel' = maxNbYearsInParallel
  BY BuildYearCases
<1>2. PICK old, new \in Subsets :
        /\ new = AddYear(old, y)
        /\ sets' \in Seq(Subsets)
        /\ Len(sets') \in 1 .. Len(sets')
        /\ sets'[Len(sets')] = new
        /\ buildNewSet' <=> IsFull(Len(new.performed), y)
        /\ \/ /\ OpensSet(y)
              /\ old = EmptySet(y)
              /\ Len(sets') = Len(sets) + 1
              /\ \A i \in 1 .. Len(sets) : sets'[i] = sets[i]
           \/ /\ ~OpensSet(y)
              /\ old = sets[Len(sets)]
              /\ Len(sets') = Len(sets)
              /\ \A i \in 1 .. Len(sets) - 1 : sets'[i] = sets[i]
  BY BuildYearCases
<1>3. /\ y \in Nat /\ maxNbYearsInParallel \in Nat \ {0} /\ maxNbYearsPerformed \in Nat
      /\ sets \in Seq(Subsets) /\ Len(sets) \in Nat /\ DOMAIN sets = 1 .. Len(sets)
      /\ Len(sets') \in Nat \ {0} /\ DOMAIN sets' = 1 .. Len(sets')
      /\ TypeOK /\ BuildInv
  <2>1. TypeOK /\ BuildInv
    BY DEF IInv
  <2> QED BY <2>1, <1>1, <1>2, YearsAreNats DEF TypeOK
<1>4. PICK oy \in Seq(Years) : oy = old.years
  BY DEF Subsets
<1>5. PICK op \in Seq(Years) : op = old.performed
  BY DEF Subsets
<1>6. PICK ny \in Seq(Years) : ny = new.years
  BY DEF Subsets
<1>7. PICK np \in Seq(Years) : np = new.performed
  BY DEF Subsets
<1>8. ny = Append(oy, y) /\ np = IF Performed(y) THEN Append(op, y) ELSE op
  <2>1. /\ AddYear(old, y).years = Append(old.years, y)
        /\ AddYear(old, y).performed =
             IF Performed(y) THEN Append(old.performed, y) ELSE old.performed
    BY <1>1, <1>3, AddYearAdds
  <2> QED BY <2>1, <1>2, <1>4, <1>5, <1>6, <1>7
\* The set before the year: every year of it is past, and it has room.
<1>9. /\ \A k \in DOMAIN oy : oy[k] < y
      /\ Len(op) <= Len(oy) /\ Len(op) < maxNbYearsInParallel
      /\ \A h \in 1 .. Len(sets') - 1 : h \in DOMAIN sets /\ sets'[h] = sets[h]
      /\ \A h \in 1 .. Len(sets') - 1 :
            \A k \in DOMAIN sets[h].years, l \in DOMAIN oy : sets[h].years[k] < oy[l]
  <2>1. CASE OpensSet(y)
    <3>1. oy = <<>> /\ op = <<>> /\ DOMAIN oy = {}
      BY <2>1, <1>1, <1>2, <1>4, <1>5, EmptySetType
    <3> QED BY <2>1, <3>1, <1>2, <1>3
  <2>2. CASE ~OpensSet(y)
    <3>1. /\ oy = sets[Len(sets)].years /\ op = sets[Len(sets)].performed
          /\ Len(sets') = Len(sets) /\ Len(sets) \in DOMAIN sets
      BY <2>2, <1>2, <1>3, <1>4, <1>5
    <3>2. \A k \in DOMAIN oy : oy[k] < y
      BY <3>1, <1>1 DEF SetsInv
    <3>3. Len(op) <= Len(oy)
      BY <3>1, <1>1 DEF SetsInv
    <3>4. Len(op) < maxNbYearsInParallel
      BY <2>2, <3>1, <1>1, <1>3 DEF BuildInv, OpensSet, LastOf
    <3>5. \A h \in 1 .. Len(sets') - 1 : h \in DOMAIN sets /\ sets'[h] = sets[h] /\ h < Len(sets)
      <4>1. \A i \in 1 .. Len(sets) - 1 : sets'[i] = sets[i]
        BY <2>2, <1>2
      <4> QED BY <3>1, <4>1, <1>3
    <3>6. \A h \in 1 .. Len(sets') - 1 :
             \A k \in DOMAIN sets[h].years, l \in DOMAIN oy : sets[h].years[k] < oy[l]
      BY <3>1, <3>5, <1>1 DEF SetsInv
    <3> QED BY <3>2, <3>3, <3>4, <3>5, <3>6
  <2> QED BY <2>1, <2>2
\* The set after it.
<1>10. /\ DOMAIN ny = 1 .. Len(ny) /\ Len(ny) = Len(oy) + 1 /\ ny[Len(ny)] = y
       /\ \A k \in DOMAIN ny : k = Len(ny) \/ (k \in DOMAIN oy /\ ny[k] = oy[k])
       /\ Performed(y) => Len(np) = Len(op) + 1 /\ np[Len(np)] = y
       /\ ~Performed(y) => np = op
       /\ Len(op) \in Nat /\ Len(oy) \in Nat
  <2>1. /\ Len(op) \in Nat /\ Len(oy) \in Nat
        /\ DOMAIN oy = 1 .. Len(oy) /\ DOMAIN ny = 1 .. Len(ny)
    OBVIOUS
  <2>2. /\ Len(ny) = Len(oy) + 1 /\ ny[Len(oy) + 1] = y
        /\ \A k \in 1 .. Len(oy) : ny[k] = oy[k]
    BY <1>1, <1>8
  <2>3. ASSUME Performed(y) PROVE Len(np) = Len(op) + 1 /\ np[Len(np)] = y
    <3>1. np = Append(op, y)
      BY <2>3, <1>8
    <3>2. Len(np) = Len(op) + 1
      BY <3>1
    <3>3. np[Len(op) + 1] = y
      BY <3>1
    <3>4. np[Len(np)] = y
      <4> DEFINE n == Len(np)
      <4>1. n = Len(op) + 1
        BY <3>2
      <4> HIDE DEF n
      <4>2. np[n] = y
        BY <3>3, <4>1
      <4> QED BY <4>2 DEF n
    <3> QED BY <3>2, <3>4
  <2>4. ~Performed(y) => np = op
    BY <1>8
  <2>5. ny[Len(ny)] = y
    <3> DEFINE n == Len(ny)
    <3>1. n = Len(oy) + 1
      BY <2>2
    <3> HIDE DEF n
    <3>2. ny[n] = y
      BY <2>2, <3>1
    <3> QED BY <3>2 DEF n
  <2>6. \A k \in DOMAIN ny : k = Len(ny) \/ (k \in DOMAIN oy /\ ny[k] = oy[k])
    <3>1. \A k \in DOMAIN ny : k = Len(ny) \/ k \in 1 .. Len(oy)
      BY <2>1, <2>2
    <3>2. ASSUME NEW k \in DOMAIN ny, k # Len(ny)
          PROVE  k \in DOMAIN oy /\ ny[k] = oy[k]
      <4>1. k \in 1 .. Len(oy)
        BY <3>1, <3>2
      <4> QED BY <4>1, <2>1, <2>2
    <3> QED BY <3>2, Zenon
  <2> QED BY <2>1, <2>2, <2>3, <2>4, <2>5, <2>6
<1>11. \A k \in DOMAIN ny : ny[k] < y + 1
  <2>1. \A k \in DOMAIN oy : oy[k] \in Nat
    BY YearSequences
  <2> QED BY <2>1, <1>3, <1>9, <1>10
<1>12. \A i \in DOMAIN sets' : i \in 1 .. Len(sets') - 1 \/ i = Len(sets')
  BY <1>3
<1>13. \A i \in DOMAIN sets : \A k \in DOMAIN sets[i].years : sets[i].years[k] \in Nat
  <2>1. \A i \in DOMAIN sets : sets[i].years \in Seq(Years)
    <3>1. \A x \in Subsets : x.years \in Seq(Years)
      BY DEF Subsets
    <3> QED BY <3>1, <1>3
  <2> QED BY <2>1, YearSequences
<1>14. \A i \in DOMAIN sets' : \A k \in DOMAIN sets'[i].years : sets'[i].years[k] < y'
  <2>1. ASSUME NEW i \in 1 .. Len(sets') - 1, NEW k \in DOMAIN sets'[i].years
        PROVE  sets'[i].years[k] < y'
    <3>1. i \in DOMAIN sets /\ sets'[i] = sets[i]
      BY <1>9
    <3>2. sets[i].years[k] < y /\ sets[i].years[k] \in Nat
      BY <2>1, <3>1, <1>1, <1>13 DEF SetsInv
    <3> QED BY <3>1, <3>2, <1>1, <1>3
  <2>2. \A k \in DOMAIN sets'[Len(sets')].years : sets'[Len(sets')].years[k] < y'
    BY <1>1, <1>2, <1>6, <1>11
  <2> QED BY <2>1, <2>2, <1>12
<1>15. ASSUME NEW h \in DOMAIN sets', NEW i \in DOMAIN sets', h < i,
              NEW k \in DOMAIN sets'[h].years, NEW l \in DOMAIN sets'[i].years
       PROVE  sets'[h].years[k] < sets'[i].years[l]
  <2>1. h \in 1 .. Len(sets') - 1 /\ h \in DOMAIN sets /\ sets'[h] = sets[h]
    BY <1>3, <1>9, <1>15
  <2>2. CASE i \in 1 .. Len(sets') - 1
    <3>1. i \in DOMAIN sets /\ sets'[i] = sets[i]
      BY <2>2, <1>9
    <3> QED BY <2>1, <3>1, <1>1, <1>15 DEF SetsInv
  <2>3. CASE i = Len(sets')
    <3>1. l \in DOMAIN ny /\ sets'[i].years[l] = ny[l]
      BY <2>3, <1>2, <1>6, <1>15
    <3>2. CASE l \in DOMAIN oy /\ ny[l] = oy[l]
      BY <2>1, <3>1, <3>2, <1>9
    <3>3. CASE l = Len(ny)
      BY <2>1, <3>1, <3>3, <1>1, <1>10 DEF SetsInv
    <3> QED BY <3>1, <3>2, <3>3, <1>10
  <2> QED BY <2>2, <2>3, <1>12
<1>16. /\ maxNbYearsPerformed' \in Nat
       /\ maxNbYearsPerformed' >= maxNbYearsPerformed
       /\ Performed(y) /\ Len(np) = maxNbYearsInParallel => maxNbYearsPerformed' >= Len(np)
  <2>5. /\ Runs' \in Seq(Seq(Years))
        /\ buildNewSet' <=> IsFull(Len(LastOf(Runs')), y)
        /\ maxNbYearsPerformed' = IF buildNewSet' /\ Len(LastOf(Runs')) > maxNbYearsPerformed
                                  THEN Len(LastOf(Runs')) ELSE maxNbYearsPerformed
    BY BuildYearGrows
  <2>1. PICK r \in Seq(Seq(Years)) : r = Runs'
    BY <2>5
  <2>2. /\ buildNewSet' <=> IsFull(Len(LastOf(r)), y)
        /\ maxNbYearsPerformed' = IF buildNewSet' /\ Len(LastOf(r)) > maxNbYearsPerformed
                                  THEN Len(LastOf(r)) ELSE maxNbYearsPerformed
    BY <2>1, <2>5
  <2>3. LastOf(r) = np
    <3>1. RunsOK'
      <4>1. TypeOK'
        BY BuildYearInv DEF IInv
      <4> QED BY <4>1, RunsType, PTL
    <3>2. /\ Len(r) = Len(sets')
          /\ \A j \in DOMAIN sets' : r[j] = sets'[j].performed
      BY <2>1, <3>1 DEF RunsOK, Runs
    <3>3. Len(sets') \in DOMAIN sets'
      BY <1>3
    <3> QED BY <3>2, <3>3, <1>2, <1>7 DEF LastOf
  <2>4. Len(np) \in Nat
    OBVIOUS
  <2> QED BY <2>2, <2>3, <2>4, <1>3 DEF IsFull
<1>17. ASSUME NEW i \in DOMAIN sets'
       PROVE  /\ Len(sets'[i].performed) <= Len(sets'[i].years)
              /\ Len(sets'[i].performed) = maxNbYearsInParallel =>
                    LastOf(sets'[i].performed) = LastOf(sets'[i].years)
              /\ maxNbYearsInParallel = 1 /\ sets'[i].performed # <<>> =>
                    maxNbYearsPerformed' >= 1
  <2>1. CASE i \in 1 .. Len(sets') - 1
    <3>1. i \in DOMAIN sets /\ sets'[i] = sets[i]
      BY <2>1, <1>9
    <3> QED BY <3>1, <1>1, <1>3, <1>16 DEF SetsInv
  <2>2. CASE i = Len(sets')
    <3>1. sets'[i].performed = np /\ sets'[i].years = ny
      BY <2>2, <1>2, <1>6, <1>7
    <3>2. CASE Performed(y)
      BY <3>1, <3>2, <1>3, <1>9, <1>10, <1>16 DEF LastOf
    <3>3. CASE ~Performed(y)
      <4>1. maxNbYearsInParallel = 1 => op = <<>>
        BY <1>9, <1>10
      <4> QED BY <3>1, <3>3, <4>1, <1>3, <1>9, <1>10
    <3> QED BY <3>2, <3>3
  <2> QED BY <2>1, <2>2, <1>12
<1>18. ~DividesByZero(0)'
  <2>1. ~DividesByZero(0)
    <3>1. y = 0 => ~DividesByZero(0)
      BY DEF BuildYear
    <3> QED BY <3>1, <1>1, <1>3 DEF SetsInv
  <2> QED BY <2>1, <1>1 DEF DividesByZero, KindRefreshing, SolverKinds
<1> QED BY <1>1, <1>14, <1>15, <1>17, <1>18 DEF SetsInv

LEMMA SetsStep == IInv /\ SetsInv /\ [Next]_vars => SetsInv'
<1> SUFFICES ASSUME IInv, SetsInv, [Next]_vars PROVE SetsInv'
  OBVIOUS
<1>1. CASE CountYear
  BY <1>1 DEF CountYear, AtAYear, SetsInv
<1>2. CASE Summarise
  <2>1. pc = "count" /\ y' = 0 /\ sets' = sets
    BY <1>2 DEF Summarise, solverVars
  <2>2. sets' = <<>>
    BY <2>1 DEF IInv, CountInv
  <2> QED BY <2>1, <2>2 DEF SetsInv
<1>3. CASE BuildYear
  BY <1>3, SetsBuildYear
<1>4. CASE Crash \/ EndBuild \/ UNCHANGED vars
  <2>1. /\ UNCHANGED <<conf, y, maxNbYearsInParallel, sets, maxNbYearsPerformed>>
        /\ pc = "count" <=> pc' = "count"
    BY <1>4 DEF Crash, EndBuild, AtAYear, vars, studyVars, solverVars
  <2>2. DividesByZero(0)' <=> DividesByZero(0)
    BY <2>1 DEF DividesByZero, KindRefreshing, SolverKinds
  <2> QED BY <2>1, <2>2 DEF SetsInv
<1> QED BY <1>1, <1>2, <1>3, <1>4 DEF Next

\* The sets, when loopThroughYears takes them.
Ready ==
    pc = "built" =>
        /\ y = NbYears
        /\ sets # <<>>
        /\ StudyKnowsRefreshes => maxNbYearsPerformed = maxNbYearsInParallel
        /\ StudyKnowsRefreshes /\ HotStartAccepted =>
              \A i, j \in DOMAIN sets : sets[i].performed # <<>> =>
                  Len(sets[j].performed) <= Len(sets[i].performed)

\* The sets of parallel years are cut as the loop over the years expects them to be.
THEOREM SetsAreReady == Spec => [](IInv /\ SetsInv /\ Ready)
<1>1. Init => SetsInv
  BY DEF Init, SetsInv
<1>2. Counted /\ SetsInv => Ready
  <2> SUFFICES ASSUME Counted, SetsInv, pc = "built"
               PROVE  /\ y = NbYears
                      /\ sets # <<>>
                      /\ StudyKnowsRefreshes => maxNbYearsPerformed = maxNbYearsInParallel
                      /\ StudyKnowsRefreshes /\ HotStartAccepted =>
                            \A i, j \in DOMAIN sets : sets[i].performed # <<>> =>
                                Len(sets[j].performed) <= Len(sets[i].performed)
    BY DEF Ready
  <2>1. /\ y = NbYears /\ TypeOK /\ RunsOK /\ IInv /\ SlotsInv /\ RunsInv /\ SpacesFit
        /\ NbYears \in Nat \ {0} /\ maxNbYearsInParallel \in Nat \ {0}
        /\ maxNbYearsPerformed \in Nat /\ conf \in ConfigSpace
    BY RunsType, ParallelYearsAssumption DEF Counted, FirstInv, IInv, TypeOK
  <2>2. sets # <<>>
    BY <2>1 DEF IInv, StartInv
  <2>3. \A k \in DOMAIN sets : /\ sets[k].performed \in Seq(Years)
                               /\ Len(sets[k].performed) \in Nat
    <3>1. \A k \in DOMAIN sets : sets[k].performed \in Seq(Years)
      BY <2>1 DEF RunsOK
    <3> QED BY <3>1, YearSequences
  <2>4. ASSUME ~conf.parallel
        PROVE  maxNbYearsInParallel = 1 /\ maxNbYearsPerformed = maxNbYearsInParallel
    <3>1. maxNbYearsInParallel = 1
      BY <2>4 DEF Counted, StudyInv, Published
    <3>2. PICK yr \in conf.playlist : yr \in Years
      BY <2>1 DEF ConfigSpace
    <3>3. yr < y
      BY <2>1, <3>2 DEF Years
    <3>4. PICK j \in DOMAIN Runs : \E k \in DOMAIN Runs[j] : Runs[j][k] = yr
      BY <2>1, <3>2, <3>3 DEF RunsInv
    <3>5. j \in DOMAIN sets /\ sets[j].performed # <<>>
      BY <3>4 DEF Runs
    <3>6. maxNbYearsPerformed >= 1
      BY <3>1, <3>5 DEF SetsInv
    <3>7. maxNbYearsPerformed <= maxNbYearsInParallel
      BY <2>1 DEF SlotsInv
    <3> QED BY <2>1, <3>1, <3>6, <3>7
  <2>5. ~conf.thermalForced => maxNbYearsPerformed = maxNbYearsInParallel
    BY WhenBuilt
  <2>6. ASSUME StudyKnowsRefreshes, HotStartAccepted, NEW i \in DOMAIN sets, NEW j \in DOMAIN sets,
               sets[i].performed # <<>>
        PROVE  Len(sets[j].performed) <= Len(sets[i].performed)
    <3>1. Len(sets[j].performed) <= maxNbYearsInParallel
      BY <2>1 DEF SpacesFit
    <3>2. Len(sets[i].performed) # 0
      BY <2>3, <2>6, YearSequences
    <3>3. Len(sets[i].performed) >= maxNbYearsInParallel
      <4>1. CASE maxNbYearsInParallel = 1
        BY <4>1, <2>3, <3>2
      <4>2. CASE maxNbYearsInParallel # 1
        <5>1. conf.hotStart /\ allSetsHaveSameSize /\ conf.parallel /\ ~conf.thermalForced
          BY <2>4, <2>6, <4>2 DEF HotStartAccepted, StudyKnowsRefreshes
        <5>2. \A h \in DOMAIN studySets : Len(studySets[h]) >= maxNbYearsInParallel
          BY <2>1, <4>2, <5>1 DEF Counted, StudyInv, Published
        <5>3. Agreed
          BY <5>1, <5>2 DEF Agreed
        <5>4. PICK h \in DOMAIN studySets : sets[i].performed = studySets[h]
          BY <2>6, <5>3, WhenBuilt
        <5> QED BY <5>2, <5>4
      <4> QED BY <4>1, <4>2
    <3> QED BY <2>1, <2>3, <3>1, <3>3
  <2> QED BY <2>1, <2>2, <2>4, <2>5, <2>6 DEF StudyKnowsRefreshes
<1> QED BY <1>1, <1>2, SetsStep, Invariance, StudyFinds, SolverFollows, FirstInvariant, PTL
    DEF Counted, Spec

-----------------------------------------------------------------------------
(* The study and the solver agree. *)

\* Study::getNumberOfCores counts the sets that buildSetsOfParallelYears runs: the
\* random numbers fit their slots, the same sets perform years on both sides and
\* the bounds of the study are those of the sets, where both read the same settings.
THEOREM StudyCountsRight == Spec => []StudyCountsWhatRuns
<1>1. Counted /\ Ready => StudyCountsWhatRuns
  <2> SUFFICES ASSUME Counted, Ready PROVE StudyCountsWhatRuns
    OBVIOUS
  <2>1. ASSUME StudyKnowsRefreshes PROVE SlotsFit
    BY <2>1 DEF Ready, SlotsFit, SpacesFit, Counted, IInv
  <2> SUFFICES ASSUME pc = "built", ~conf.thermalForced
               PROVE  conf.parallel /\ conf.aggregated =>
                           /\ {studySets[i] : i \in DOMAIN studySets} \ {<<>>}
                              = {sets[i].performed : i \in DOMAIN sets} \ {<<>>}
                           /\ maxNbYearsPerformed = maxNbYearsInParallel
                           /\ \A i \in DOMAIN sets : NonEmpty(sets[i].performed) =>
                                 Len(sets[i].performed) >= minNbYearsInParallel
    BY <2>1 DEF StudyCountsWhatRuns
  <2>2. maxNbYearsPerformed = maxNbYearsInParallel
    BY WhenBuilt
  <2>3. ASSUME conf.parallel, conf.aggregated
        PROVE  /\ {studySets[i] : i \in DOMAIN studySets} \ {<<>>}
                  = {sets[i].performed : i \in DOMAIN sets} \ {<<>>}
               /\ \A i \in DOMAIN sets : NonEmpty(sets[i].performed) =>
                     Len(sets[i].performed) >= minNbYearsInParallel
    <3>1. Agreed
      BY <2>3 DEF Agreed
    <3>2. /\ \A j \in DOMAIN sets : sets[j].performed # <<>> =>
                \E i \in DOMAIN studySets : sets[j].performed = studySets[i]
          /\ \A i \in DOMAIN studySets : studySets[i] # <<>> =>
                \E j \in DOMAIN sets : sets[j].performed = studySets[i]
      BY <3>1, WhenBuilt
    <3>3. {studySets[i] : i \in DOMAIN studySets} \ {<<>>}
          = {sets[i].performed : i \in DOMAIN sets} \ {<<>>}
      BY <3>2
    <3>4. ASSUME NEW j \in DOMAIN sets, sets[j].performed # <<>>
          PROVE  Len(sets[j].performed) >= minNbYearsInParallel
      <4>1. PICK i \in DOMAIN studySets : sets[j].performed = studySets[i]
        BY <3>2, <3>4
      <4>2. minNbYearsInParallel <= Len(studySets[i])
        BY <3>4, <4>1 DEF Counted, StudyInv, Published
      <4>3. minNbYearsInParallel \in Nat /\ Len(studySets[i]) \in Nat
        BY DEF Counted, IInv, TypeOK
      <4> QED BY <4>1, <4>2, <4>3
    <3> QED BY <3>3, <3>4 DEF NonEmpty
  <2> QED BY <2>2, <2>3
<1> QED BY <1>1, Invariance, StudyFinds, SolverFollows, FirstInvariant, SetsAreReady, PTL
    DEF Counted

\* A hot start that Study::checkHydroHotStart accepts finds, in every space of a
\* set, the final level left by the performed set before.
THEOREM HotStartIsFed == Spec => []HotStartFed
<1>1. Ready => HotStartFed
  BY DEF Ready, HotStartFed, NonEmpty
<1> QED BY <1>1, SetsAreReady, PTL
=============================================================================
