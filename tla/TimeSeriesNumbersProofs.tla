------------------------ MODULE TimeSeriesNumbersProofs ------------------------
(***************************************************************************)
(* Proofs about TimeSeriesNumbers, for all studies, areas and years: no    *)
(* year reads a series that does not exist, but in the two cases           *)
(* NumbersInRangeUntroubled sets apart.                                    *)
(*                                                                         *)
(* The argument: a number is drawn below DrawnFrom, which is the width the *)
(* holder will have unless it has a single series (Drawn).  An area's      *)
(* modes take the number of their leader, which is below its own width     *)
(* unless it is a single series followed by several, and the check of the  *)
(* area has found every other width to be this one or one (Bounded).  A    *)
(* rule is checked against the same width.  The generation then gives each *)
(* holder this width, or one, and a single series is read whatever the     *)
(* number says.                                                            *)
(***************************************************************************)
EXTENDS TimeSeriesNumbers, TLAPS, WellFoundedInduction

-----------------------------------------------------------------------------
(* The leader of an area. *)

\* A non-empty set of naturals has a least element.
LEMMA LeastElement ==
    ASSUME NEW S \in SUBSET Nat, S # {}
    PROVE  \E m \in S : \A n \in S : m <= n
<1>1. PICK m \in S : \A n \in S : ~(<<n, m>> \in OpToRel(<, Nat))
    BY WFMin, NatLessThanWellFounded, Zenon
<1>2. \A n \in S : ~(n < m)
    BY <1>1 DEF OpToRel
<1> QED
    BY <1>2

\* The members of a set of holders of inter-modal kinds have a leader.
LEMMA LeaderIsAMember ==
    ASSUME NEW members \in SUBSET Holder, members # {},
           \A h \in members : h.kind \in InterModalKinds
    PROVE  Leader(members) \in members
<1> DEFINE Places == {Place[h.kind] : h \in members}
<1>1. \A h \in members : Place[h.kind] \in Nat
    BY SMT DEF Place, InterModalKinds, GeneratedKinds, AreaKinds
<1>2. Places \in SUBSET Nat /\ Places # {}
    BY <1>1
<1>3. PICK p \in Places : \A q \in Places : p <= q
    <2> HIDE DEF Places
    <2> QED BY <1>2, LeastElement
<1>4. PICK f \in members : Place[f.kind] = p
    BY <1>3
<1> DEFINE Ranks == {h.rank : h \in {g \in members : g.kind = f.kind}}
<1>5. Ranks \in SUBSET Nat /\ Ranks # {}
    BY <1>4 DEF Holder
<1>6. PICK r \in Ranks : \A q \in Ranks : r <= q
    <2> HIDE DEF Ranks
    <2> QED BY <1>5, LeastElement
<1>7. PICK h \in members : h.kind = f.kind /\ h.rank = r
    BY <1>6
<1>8. \A g \in members : /\ Place[h.kind] <= Place[g.kind]
                         /\ h.kind = g.kind => h.rank <= g.rank
    BY <1>3, <1>4, <1>6, <1>7
<1> QED
    BY <1>8, Zenon DEF Leader

-----------------------------------------------------------------------------
(* Types. *)

LEMMA StudyFacts ==
    ASSUME study \in Studies
    PROVE  /\ Holders \subseteq Holder
           /\ \A h \in Holders : h.kind # "group" => h.area \in Areas
           /\ study.width \in [Holders -> Nat \ {0}]
           /\ study.generated \subseteq GeneratedKinds
           /\ study.nbTimeSeries \in [GeneratedKinds -> Nat \ {0}]
           /\ study.intraModal \subseteq IntraModalKinds
           /\ study.interModal \subseteq InterModalKinds
           /\ study.rules \in [Holders -> [Years -> Nat]]
           /\ study.derated => \A h \in Holders : study.rules[h] = [y \in Years |-> 0]
           /\ \A h \in Holders : h.kind # "thermal" => study.own[h] = "global"
    BY TimeSeriesNumbersAssumption DEF TimeSeriesNumbersAssumption, Holders

\* The common width of a mode is that of one of its holders, or one.
LEMMA CommonWidthType ==
    ASSUME TypeOK, NEW k
    PROVE  CommonWidth(k) \in Nat \ {0}
<1> DEFINE widths == {width[h] : h \in OfKind(k)} \ {1}
<1>1. widths \subseteq Nat \ {0}
    BY DEF TypeOK, OfKind
<1>2. CommonWidth(k) = IF widths = {} THEN 1 ELSE CHOOSE n \in widths : TRUE
    BY DEF CommonWidth
<1>3. widths # {} => (CHOOSE n \in widths : TRUE) \in widths
    BY Zenon
<1> HIDE DEF widths
<1>4. CASE widths = {}
    BY <1>2, <1>4
<1>5. CASE widths # {}
    BY <1>1, <1>2, <1>3, <1>5, Zenon
<1> QED
    BY <1>4, <1>5

LEMMA GeneratedWidthType ==
    ASSUME study \in Studies, NEW h \in Holders, DoWeGenerateTS(h)
    PROVE  GeneratedWidth(h) \in Nat \ {0}
<1>1. h.kind \in study.generated \/ h.kind = "thermal"
    BY StudyFacts DEF DoWeGenerateTS
<1>2. h.kind \in GeneratedKinds
    BY <1>1, StudyFacts DEF GeneratedKinds
<1>3. study.nbTimeSeries[h.kind] \in Nat \ {0}
    BY <1>2, StudyFacts
<1> QED
    BY <1>3 DEF GeneratedWidth

THEOREM TypeCorrect == Spec => []TypeOK
<1>1. Init => TypeOK
    <2> SUFFICES ASSUME Init PROVE TypeOK
        OBVIOUS
    <2>1. study \in Studies /\ width = study.width
        BY DEF Init
    <2> QED
        BY <2>1, StudyFacts DEF Init, TypeOK, Zero, Holders
<1>2. TypeOK /\ [Next]_vars => TypeOK'
    <2> SUFFICES ASSUME TypeOK, [Next]_vars PROVE TypeOK'
        OBVIOUS
    <2> USE DEF TypeOK, Holders
    <2>1. study \in Studies
        OBVIOUS
    <2>2. CASE GenerateDeratedMode
        BY <2>2 DEF GenerateDeratedMode, Zero
    <2>3. CASE CheckIntraModalConsistency
        <3>1. nb' \in [IntraModalKinds -> Nat]
            <4> DEFINE checked == study.intraModal \ study.generated
                       new == [k \in IntraModalKinds |->
                                 CASE k \in checked -> CommonWidth(k)
                                   [] k \in GeneratedKinds \ checked -> study.nbTimeSeries[k]
                                   [] OTHER -> 1]
            <4>1. nb' = nb \/ nb' = new
                BY <2>3 DEF CheckIntraModalConsistency
            <4>2. \A k \in GeneratedKinds : study.nbTimeSeries[k] \in Nat
                BY <2>1, StudyFacts
            <4>3. \A k \in IntraModalKinds : CommonWidth(k) \in Nat
                BY CommonWidthType
            <4>4. new \in [IntraModalKinds -> Nat]
                BY <4>2, <4>3
            <4> QED
                BY <4>1, <4>4
        <3> QED
            BY <2>3, <3>1 DEF CheckIntraModalConsistency
    <2>4. CASE DrawYear
        <3> DEFINE random == {h \in Holders : DrawnFrom(h) > 1}
                   values == UNION { 0 .. DrawnFrom(h) - 1 : h \in random }
        <3>1. values \subseteq Nat
            OBVIOUS
        <3>2. PICK draw \in [{DrawOf(h) : h \in random} -> values] :
                numbers' = [h \in Holders |-> [numbers[h] EXCEPT
                              ![year] = IF h \in random THEN draw[DrawOf(h)] ELSE 0]]
            BY <2>4, Zenon DEF DrawYear
        <3>3. \A h \in Holders : (IF h \in random THEN draw[DrawOf(h)] ELSE 0) \in Nat
            <4> HIDE DEF values
            <4> QED BY <3>1, <3>2
        <3> HIDE DEF random, values
        <3>4. numbers' \in [Holders -> [Years -> Nat]]
            BY <3>2, <3>3
        <3> QED
            BY <2>4, <3>4 DEF DrawYear
    <2>5. CASE MakeAreaAgree
        <3>1. numbers' \in [Holders -> [Years -> Nat]]
            <4>1. CASE numbers' = numbers
                BY <4>1, <2>5 DEF MakeAreaAgree
            <4>2. CASE numbers' = [h \in Holders |-> IF h \in Members(area)
                                    THEN numbers[Leader(Members(area))] ELSE numbers[h]]
                <5>1. Leader(Members(area)) \in Holders
                    <6>1. Members(area) \subseteq Holders /\ Members(area) # {}
                        BY <2>5 DEF MakeAreaAgree, Members
                    <6>2. Members(area) \in SUBSET Holder
                        BY <6>1, <2>1, StudyFacts
                    <6>3. \A h \in Members(area) : h.kind \in InterModalKinds
                        BY <2>1, StudyFacts DEF Members, InterModal
                    <6> QED
                        BY <6>1, <6>2, <6>3, LeaderIsAMember
                <5> QED
                    BY <4>2, <5>1, <2>5 DEF MakeAreaAgree
            <4> QED
                BY <4>1, <4>2, <2>5 DEF MakeAreaAgree
        <3> QED
            BY <2>5, <3>1 DEF MakeAreaAgree
    <2>6. CASE NoLeader
        BY <2>6 DEF NoLeader
    <2>7. CASE ApplyCustomScenario
        <3>1. \A h \in Holders, y \in Years :
                study.rules[h][y] \in Nat /\ (study.rules[h][y] > 0 => study.rules[h][y] - 1 \in Nat)
            BY <2>1, StudyFacts
        <3> QED
            BY <2>7, <3>1 DEF ApplyCustomScenario
    <2>8. CASE Regenerate
        <3>1. \A h \in Holders : DoWeGenerateTS(h) => GeneratedWidth(h) \in Nat \ {0}
            BY <2>1, GeneratedWidthType
        <3> QED
            BY <2>8, <3>1 DEF Regenerate
    <2>9. CASE RunYears
        BY <2>9 DEF RunYears, SeriesIndex
    <2>10. CASE StoreTimeSeriesNumbersIntoOutput
        BY <2>10 DEF StoreTimeSeriesNumbersIntoOutput, Fixed, Zero
    <2>11. CASE UNCHANGED vars
        BY <2>11 DEF vars
    <2> QED
        BY <2>2, <2>3, <2>4, <2>5, <2>6, <2>7, <2>8, <2>9, <2>10, <2>11 DEF Next
<1> QED
    BY <1>1, <1>2, PTL DEF Spec

-----------------------------------------------------------------------------
(* The invariant. *)

\* How many series a holder had when its number was drawn.
CountAtDraw(h) ==
    IF h.kind \in study.generated THEN study.nbTimeSeries[h.kind] ELSE study.width[h]

\* A number is below what it was drawn from.
Drawn(num, h) ==
    \A y \in Years :
        num[h][y] < IF h.kind \in study.intraModal \cup study.generated
                        THEN nb[h.kind] ELSE study.width[h]

Bounded(num, h) ==
    \/ FollowsASingleSeries(h)
    \/ CountAtDraw(h) = 1
    \/ \A y \in Years : num[h][y] < CountAtDraw(h)

\* The widths change once, when the series are generated.
WidthsOK ==
    /\ pc \in {"check", "draw", "inter", "scenario", "generate"} => width = study.width
    /\ pc \in {"run", "store", "done"} =>
          \A h \in Holders : OwnGeneration(h) \/ width[h] = 1 \/ width[h] = CountAtDraw(h)

\* A mode has as many series as each of its holders, the single ones apart.
ModesOK ==
    pc \in {"draw", "inter"} =>
        \A h \in Holders : h.kind \in study.intraModal \cup study.generated =>
            /\ nb[h.kind] \in Nat \ {0}
            /\ CountAtDraw(h) = 1 \/ nb[h.kind] = CountAtDraw(h)
            /\ h.kind \in study.generated => nb[h.kind] = CountAtDraw(h)

NumbersOK ==
    /\ pc = "check" => numbers = Zero
    /\ pc = "draw" => \A h \in Holders : Drawn(numbers, h)
    /\ pc = "inter" => \A h \in Holders : Bounded(numbers, h) /\ (h.area >= area => Drawn(numbers, h))
    /\ pc \in {"scenario", "generate", "run", "store", "done"} => \A h \in Holders : Bounded(numbers, h)

IInv == TypeOK /\ WidthsOK /\ ModesOK /\ NumbersOK /\ NumbersInRangeUntroubled

LEMMA CountIsPositive ==
    ASSUME study \in Studies, NEW h \in Holders
    PROVE  CountAtDraw(h) \in Nat \ {0}
<1>1. CASE h.kind \in study.generated
    BY <1>1, StudyFacts DEF CountAtDraw
<1>2. CASE h.kind \notin study.generated
    BY <1>2, StudyFacts DEF CountAtDraw
<1> QED
    BY <1>1, <1>2

\* What was drawn is bounded: a single series aside, a number is drawn from as
\* many series as the holder counts.
LEMMA DrawnIsBounded ==
    ASSUME study \in Studies, ModesOK, pc \in {"draw", "inter"}, NEW num,
           NEW h \in Holders, Drawn(num, h)
    PROVE  Bounded(num, h)
<1>1. CASE h.kind \in study.intraModal \cup study.generated
    BY <1>1 DEF ModesOK, Drawn, Bounded
<1>2. CASE h.kind \notin study.intraModal \cup study.generated
    <2>1. CountAtDraw(h) = study.width[h]
        BY <1>2 DEF CountAtDraw
    <2> QED
        BY <1>2, <2>1 DEF Drawn, Bounded
<1> QED
    BY <1>1, <1>2

\* The number of the leader is within the series of every member, but where
\* these follow a single series.
LEMMA LeaderIsBound ==
    ASSUME IInv, pc = "inter", NEW members, members = Members(area), members # {},
           CheckAllElementsIdenticalOrOne({Count(h) : h \in members}),
           NEW h \in members, ~FollowsASingleSeries(h), CountAtDraw(h) # 1
    PROVE  \A y \in Years : numbers[Leader(members)][y] < CountAtDraw(h)
<1> DEFINE l == Leader(members)
<1>1. study \in Studies /\ area \in Nat /\ numbers \in [Holders -> [Years -> Nat]]
    BY DEF IInv, TypeOK
<1>2. l \in members
    <2>1. members \subseteq Holders
        BY DEF Members
    <2>2. members \in SUBSET Holder
        BY <1>1, <2>1, StudyFacts
    <2>3. \A g \in members : g.kind \in InterModalKinds
        BY <1>1, StudyFacts DEF Members, InterModal
    <2> QED
        BY <2>2, <2>3, LeaderIsAMember
<1>3. l \in Holders /\ h \in Holders /\ l.area = area /\ h.area = area /\ h \in Members(h.area)
    BY <1>2 DEF Members
<1>4. CountAtDraw(l) \in Nat \ {0} /\ CountAtDraw(h) \in Nat \ {0}
    BY <1>1, <1>3, CountIsPositive
<1>5. \A g \in members : Count(g) = CountAtDraw(g)
    BY DEF IInv, WidthsOK, Count, CountAtDraw
<1>6. CountAtDraw(l) = 1 \/ CountAtDraw(l) = CountAtDraw(h)
    BY <1>2, <1>5 DEF CheckAllElementsIdenticalOrOne
<1>7. Drawn(numbers, l)
    BY <1>1, <1>3 DEF IInv, NumbersOK
<1> HIDE DEF l
<1>8. CASE l.kind \in study.generated
    <2>1. nb[l.kind] = CountAtDraw(l)
        BY <1>3, <1>8 DEF IInv, ModesOK
    <2> QED
        BY <1>1, <1>3, <1>4, <1>6, <1>7, <1>8, <2>1 DEF Drawn, l
<1>9. CASE l.kind \notin study.generated
    <2>1. CountAtDraw(l) = study.width[l]
        BY <1>9 DEF CountAtDraw
    <2>2. CASE l.kind \notin study.intraModal
        BY <1>1, <1>3, <1>4, <1>6, <1>7, <1>9, <2>1, <2>2 DEF Drawn, l
    <2>3. CASE l.kind \in study.intraModal
        <3>1. nb[l.kind] \in Nat \ {0} /\ (CountAtDraw(l) = 1 \/ nb[l.kind] = CountAtDraw(l))
            BY <1>3, <2>3 DEF IInv, ModesOK
        <3>2. ~(CountAtDraw(l) = 1 /\ nb[l.kind] > 1)
            BY <1>3, <1>9, <2>1, <2>3, Zenon DEF FollowsASingleSeries, l
        <3>3. nb[l.kind] = CountAtDraw(l)
            BY <3>1, <3>2
        <3> QED
            BY <1>1, <1>3, <1>4, <1>6, <1>7, <2>3, <3>3 DEF Drawn, l
    <2> QED
        BY <2>2, <2>3
<1> QED
    BY <1>8, <1>9

\* What Bounded and Drawn say of a number does not change once nb is known.
LEMMA BoundsAreStable ==
    ASSUME study' = study, nb' = nb
    PROVE  /\ Holders' = Holders
           /\ \A h : CountAtDraw(h)' = CountAtDraw(h)
           /\ \A h : FollowsASingleSeries(h)' <=> FollowsASingleSeries(h)
           /\ \A h : OwnGeneration(h)' <=> OwnGeneration(h)
<1>1. Holders' = Holders
    BY DEF Holders
<1>2. ASSUME NEW h PROVE CountAtDraw(h)' = CountAtDraw(h)
    BY DEF CountAtDraw
<1>3. InterModal' = InterModal
    BY DEF InterModal
<1>4. \A a : Members(a)' = Members(a)
    BY <1>1, <1>3 DEF Members
<1>5. ASSUME NEW h PROVE FollowsASingleSeries(h)' <=> FollowsASingleSeries(h)
    BY <1>4 DEF FollowsASingleSeries
<1>6. ASSUME NEW h PROVE OwnGeneration(h)' <=> OwnGeneration(h)
    BY DEF OwnGeneration, DoWeGenerateTS
<1> QED
    BY <1>1, <1>2, <1>5, <1>6

\* So a number that stays, or is below the count, stays bounded.
LEMMA BoundedStays ==
    ASSUME study' = study, nb' = nb, NEW h \in Holders,
           \/ Bounded(numbers, h) /\ numbers'[h] = numbers[h]
           \/ \A y \in Years : numbers'[h][y] < CountAtDraw(h)
    PROVE  Bounded(numbers, h)'
<1>1. CountAtDraw(h)' = CountAtDraw(h) /\ (FollowsASingleSeries(h)' <=> FollowsASingleSeries(h))
    BY BoundsAreStable
<1> QED
    BY <1>1 DEF Bounded

-----------------------------------------------------------------------------
(* The steps that change numbers, modes or widths. *)

\* The check of the modes leaves what the draws are bounded by.
LEMMA ModesAreChecked ==
    ASSUME IInv, TypeOK', CheckIntraModalConsistency
    PROVE  ModesOK' /\ NumbersOK'
<1>1. study \in Studies /\ study' = study /\ Holders' = Holders
    BY DEF CheckIntraModalConsistency, IInv, TypeOK, Holders
<1>2. CASE pc' = "failed"
    BY <1>2 DEF ModesOK, NumbersOK
<1>3. CASE pc' = "draw"
    <2> DEFINE checked == study.intraModal \ study.generated
    <2>1. /\ \A k \in checked :
               CheckAllElementsIdenticalOrOne({width[h] : h \in OfKind(k)})
          /\ nb' = [k \in IntraModalKinds |->
                      CASE k \in checked -> CommonWidth(k)
                        [] k \in GeneratedKinds \ checked -> study.nbTimeSeries[k]
                        [] OTHER -> 1]
        BY <1>3 DEF CheckIntraModalConsistency
    <2>2. width = study.width /\ numbers = Zero /\ numbers' = numbers
        BY DEF CheckIntraModalConsistency, IInv, WidthsOK, NumbersOK
    <2>3. ASSUME NEW h \in Holders, h.kind \in study.intraModal \cup study.generated
          PROVE  /\ nb'[h.kind] \in Nat \ {0}
                 /\ CountAtDraw(h) = 1 \/ nb'[h.kind] = CountAtDraw(h)
                 /\ h.kind \in study.generated => nb'[h.kind] = CountAtDraw(h)
        <3>1. h.kind \in IntraModalKinds
            BY <1>1, <2>3, StudyFacts DEF IntraModalKinds, InterModalKinds
        <3>2. CASE h.kind \in study.generated
            <4>a. h.kind \in GeneratedKinds \ checked /\ h.kind \notin checked
                BY <1>1, <3>2, StudyFacts
            <4>1. nb'[h.kind] = study.nbTimeSeries[h.kind]
                BY <2>1, <3>1, <4>a
            <4> QED
                BY <1>1, <3>2, <4>1, StudyFacts DEF CountAtDraw
        <3>3. CASE h.kind \notin study.generated
            <4> DEFINE widths == {width[g] : g \in OfKind(h.kind)}
            <4>1. h.kind \in checked /\ CountAtDraw(h) = width[h]
                BY <2>2, <2>3, <3>3 DEF CountAtDraw
            <4>2. nb'[h.kind] = CommonWidth(h.kind)
                BY <2>1, <3>1, <4>1
            <4>3. width[h] \in widths
                BY DEF OfKind
            <4>4. CommonWidth(h.kind) = IF widths \ {1} = {} THEN 1
                                        ELSE CHOOSE n \in widths \ {1} : TRUE
                BY DEF CommonWidth
            <4>5. \A m, n \in widths \ {1} : m = n
                BY <2>1, <4>1 DEF CheckAllElementsIdenticalOrOne
            <4> HIDE DEF widths
            <4>6. width[h] = 1 \/ CommonWidth(h.kind) = width[h]
                <5>1. SUFFICES ASSUME width[h] \in widths \ {1}
                               PROVE  CommonWidth(h.kind) = width[h]
                    BY <4>3
                <5>2. (CHOOSE n \in widths \ {1} : TRUE) \in widths \ {1}
                    BY <5>1, Zenon
                <5> QED
                    BY <4>4, <4>5, <5>1, <5>2, Zenon
            <4>7. CommonWidth(h.kind) \in Nat \ {0}
                BY CommonWidthType DEF IInv
            <4> QED
                BY <3>3, <4>1, <4>2, <4>6, <4>7
        <3> QED
            BY <3>2, <3>3
    <2>4. \A h : CountAtDraw(h)' = CountAtDraw(h)
        BY <1>1 DEF CountAtDraw
    <2>5. ModesOK'
        BY <1>1, <2>3, <2>4 DEF ModesOK
    <2>6. \A h \in Holders : study.width[h] \in Nat \ {0}
        BY <1>1, StudyFacts
    <2>7. \A h \in Holders, y \in Years : numbers'[h][y] = 0
        BY <2>2 DEF Zero
    <2>8. \A h \in Holders : Drawn(numbers, h)'
        BY <1>1, <2>3, <2>6, <2>7 DEF Drawn
    <2> QED
        BY <1>1, <1>3, <2>5, <2>8 DEF NumbersOK
<1> QED
    BY <1>2, <1>3 DEF CheckIntraModalConsistency

\* A number is drawn below what it is drawn from.
LEMMA YearIsDrawn ==
    ASSUME IInv, TypeOK', DrawYear
    PROVE  NumbersOK'
<1>1. study \in Studies /\ study' = study /\ Holders' = Holders /\ nb' = nb /\ pc = "draw"
    BY DEF DrawYear, IInv, TypeOK, Holders
<1> DEFINE random == {h \in Holders : DrawnFrom(h) > 1}
           values == UNION { 0 .. DrawnFrom(h) - 1 : h \in random }
<1>2. PICK draw \in [{DrawOf(h) : h \in random} -> values] :
        /\ \A h \in random : draw[DrawOf(h)] < DrawnFrom(h)
        /\ numbers' = [h \in Holders |-> [numbers[h] EXCEPT
                          ![year] = IF h \in random THEN draw[DrawOf(h)] ELSE 0]]
    BY Zenon DEF DrawYear
<1>3. width = study.width
    BY <1>1 DEF IInv, WidthsOK
<1>4. \A h \in Holders : DrawnFrom(h) \in Nat \ {0}
    BY <1>1, <1>3, StudyFacts DEF IInv, ModesOK, DrawnFrom
<1>5. \A h \in Holders : (IF h \in random THEN draw[DrawOf(h)] ELSE 0) < DrawnFrom(h)
    BY <1>2, <1>4
<1> HIDE DEF random, values
<1>6. ASSUME NEW h \in Holders, NEW y \in Years
      PROVE  numbers'[h][y] < DrawnFrom(h)
    <2>1. numbers[h][y] < DrawnFrom(h)
        BY <1>1, <1>3 DEF IInv, NumbersOK, Drawn, DrawnFrom
    <2>2. numbers'[h] = [numbers[h] EXCEPT
                          ![year] = IF h \in random THEN draw[DrawOf(h)] ELSE 0]
        BY <1>2
    <2>3. numbers[h] \in [Years -> Nat]
        BY DEF IInv, TypeOK
    <2>4. numbers'[h][y] = IF y = year THEN IF h \in random THEN draw[DrawOf(h)] ELSE 0
                           ELSE numbers[h][y]
        BY <2>2, <2>3
    <2> QED
        BY <1>5, <2>1, <2>4
<1>7. \A h \in Holders : Drawn(numbers, h)'
    BY <1>1, <1>3, <1>6 DEF Drawn, DrawnFrom
<1>8. \A h \in Holders : Drawn(numbers', h)
    BY <1>1, <1>3, <1>6 DEF Drawn, DrawnFrom
<1>9. \A h \in Holders : Bounded(numbers', h)
    BY <1>1, <1>8, DrawnIsBounded DEF IInv
<1>10. \A h \in Holders : Bounded(numbers, h)'
    BY <1>1, <1>9, BoundsAreStable DEF Bounded
<1> QED
    BY <1>1, <1>7, <1>10 DEF NumbersOK, DrawYear

\* An area that agrees is bounded, and the areas after it are as they were drawn.
LEMMA AreaAgrees ==
    ASSUME IInv, TypeOK', MakeAreaAgree
    PROVE  NumbersOK'
<1>1. /\ study \in Studies /\ study' = study /\ Holders' = Holders /\ nb' = nb
      /\ width' = width /\ pc = "inter" /\ area \in Nat
    BY DEF MakeAreaAgree, IInv, TypeOK, Holders
<1>2. CASE pc' = "failed"
    BY <1>2 DEF NumbersOK
<1>3. CASE pc' # "failed"
    <2> DEFINE members == Members(area)
    <2>1. /\ members # {}
          /\ CheckAllElementsIdenticalOrOne({Count(h) : h \in members})
          /\ numbers' = [h \in Holders |->
                           IF h \in members THEN numbers[Leader(members)] ELSE numbers[h]]
          /\ area' = area + 1
          /\ pc' \in {"inter", "scenario"}
        BY <1>3 DEF MakeAreaAgree
    <2>2. members \subseteq Holders /\ \A h \in members : h.area = area
        BY DEF Members
    <2> HIDE DEF members
    <2>3. ASSUME NEW h \in Holders
          PROVE  Bounded(numbers, h)'
        <3>1. CASE h \in members
            <4>1. numbers'[h] = numbers[Leader(members)]
                BY <2>1, <3>1
            <4>2. CASE FollowsASingleSeries(h) \/ CountAtDraw(h) = 1
                BY <1>1, <4>2, BoundsAreStable DEF Bounded
            <4>3. CASE ~FollowsASingleSeries(h) /\ CountAtDraw(h) # 1
                <5>1. \A y \in Years : numbers[Leader(members)][y] < CountAtDraw(h)
                    BY <1>1, <2>1, <3>1, <4>3, LeaderIsBound DEF members
                <5> QED
                    BY <1>1, <4>1, <5>1, BoundedStays
            <4> QED
                BY <4>2, <4>3
        <3>2. CASE h \notin members
            <4>1. numbers'[h] = numbers[h] /\ Bounded(numbers, h)
                BY <1>1, <2>1, <3>2 DEF IInv, NumbersOK
            <4> QED
                BY <1>1, <4>1, BoundedStays
        <3> QED
            BY <3>1, <3>2
    <2>4. ASSUME NEW h \in Holders, h.area >= area'
          PROVE  Drawn(numbers, h)'
        <3>1. h.area \in Nat
            BY <1>1, StudyFacts DEF Holder
        <3>2. h \notin members /\ h.area >= area
            BY <1>1, <2>1, <2>2, <2>4, <3>1
        <3>3. Drawn(numbers, h) /\ numbers'[h] = numbers[h]
            BY <1>1, <2>1, <3>2 DEF IInv, NumbersOK
        <3> QED
            BY <1>1, <3>3 DEF Drawn
    <2> QED
        BY <1>1, <2>1, <2>3, <2>4 DEF NumbersOK
<1> QED
    BY <1>2, <1>3

\* A rule is applied only if it names a series the holder counts.
LEMMA RulesAreBounded ==
    ASSUME IInv, TypeOK', ApplyCustomScenario
    PROVE  NumbersOK'
<1>1. /\ study \in Studies /\ study' = study /\ Holders' = Holders /\ nb' = nb
      /\ width = study.width /\ pc = "scenario" /\ pc' = "generate"
    BY DEF ApplyCustomScenario, IInv, TypeOK, WidthsOK, Holders
<1>2. ASSUME NEW h \in Holders
      PROVE  Bounded(numbers, h)'
    <2>1. Bounded(numbers, h)
        BY <1>1 DEF IInv, NumbersOK
    <2>2. \A y \in Years : \/ numbers'[h][y] = numbers[h][y]
                            \/ numbers'[h][y] < CountAtDraw(h)
        <3>1. Count(h) = CountAtDraw(h)
            BY <1>1 DEF Count, CountAtDraw
        <3>2. \A y \in Years :
                numbers'[h][y] = LET rule == study.rules[h][y]
                                 IN  IF rule > 0 /\ Valid(h, rule) /\ Applied(h) THEN rule - 1
                                                                                ELSE numbers[h][y]
            BY Zenon DEF ApplyCustomScenario
        <3> QED
            BY <3>1, <3>2 DEF Valid
    <2>3. FollowsASingleSeries(h)' <=> FollowsASingleSeries(h)
        BY <1>1, BoundsAreStable
    <2>4. CountAtDraw(h)' = CountAtDraw(h)
        BY <1>1, BoundsAreStable
    <2> QED
        BY <2>1, <2>2, <2>3, <2>4 DEF Bounded
<1> QED
    BY <1>1, <1>2 DEF NumbersOK

\* The generation gives a holder the series its number was drawn from, or one.
LEMMA WidthsAreAsDrawn ==
    ASSUME IInv, TypeOK', Regenerate
    PROVE  WidthsOK' /\ NumbersOK'
<1>1. /\ study' = study /\ Holders' = Holders /\ nb' = nb /\ numbers' = numbers
      /\ width = study.width /\ pc = "generate" /\ pc' = "run"
    BY DEF Regenerate, IInv, WidthsOK, Holders
<1>2. \A h \in Holders : OwnGeneration(h) \/ width'[h] = 1 \/ width'[h] = CountAtDraw(h)
    BY <1>1 DEF Regenerate, OwnGeneration, GeneratedWidth, CountAtDraw
<1>3. WidthsOK'
    BY <1>1, <1>2, BoundsAreStable DEF WidthsOK
<1>4. \A h \in Holders : Bounded(numbers, h)'
    BY <1>1, BoundedStays DEF IInv, NumbersOK
<1> QED
    BY <1>1, <1>3, <1>4 DEF NumbersOK

\* So the years read series that exist.
LEMMA YearsReadInRange ==
    ASSUME IInv, TypeOK', RunYears
    PROVE  NumbersInRangeUntroubled'
<1>1. /\ study \in Studies /\ study' = study /\ Holders' = Holders /\ nb' = nb
      /\ width' = width /\ pc = "run"
    BY DEF RunYears, IInv, TypeOK, Holders
<1>2. ASSUME NEW h \in Holders, NEW y \in Years
      PROVE  OwnGeneration(h) \/ FollowsASingleSeries(h) \/ read'[h][y] < width[h]
    <2>1. read'[h][y] = IF width[h] = 1 THEN 0 ELSE numbers[h][y]
        BY DEF RunYears, SeriesIndex
    <2>2. OwnGeneration(h) \/ width[h] = 1 \/ width[h] = CountAtDraw(h)
        BY <1>1 DEF IInv, WidthsOK
    <2>3. FollowsASingleSeries(h) \/ CountAtDraw(h) = 1 \/ numbers[h][y] < CountAtDraw(h)
        BY <1>1 DEF IInv, NumbersOK, Bounded
    <2> QED
        BY <2>1, <2>2, <2>3
<1> QED
    BY <1>1, <1>2, BoundsAreStable DEF NumbersInRangeUntroubled

-----------------------------------------------------------------------------
\* The invariant, of which the ranges and the scenario follow.
THEOREM InvariantHolds == Spec => []IInv
<1>1. Init => IInv
    <2> SUFFICES ASSUME Init PROVE IInv
        OBVIOUS
    <2>1. TypeOK
        <3>1. study \in Studies /\ width = study.width
            BY DEF Init
        <3> QED
            BY <3>1, StudyFacts DEF Init, TypeOK, Zero, Holders
    <2> QED
        BY <2>1 DEF Init, IInv, WidthsOK, ModesOK, NumbersOK, NumbersInRangeUntroubled, HasRead
<1>2. IInv /\ TypeOK' /\ [Next]_vars => IInv'
    <2> SUFFICES ASSUME IInv, TypeOK', [Next]_vars PROVE IInv'
        OBVIOUS
    <2>1. CASE GenerateDeratedMode
        <3>1. /\ study \in Studies /\ study' = study /\ Holders' = Holders /\ nb' = nb
              /\ \A h \in Holders, y \in Years : numbers'[h][y] = 0
            BY <2>1 DEF GenerateDeratedMode, IInv, TypeOK, Holders, Zero
        <3>2. \A h \in Holders : Bounded(numbers, h)'
            BY <3>1, BoundedStays, CountIsPositive
        <3>3. NumbersOK'
            BY <2>1, <3>1, <3>2 DEF GenerateDeratedMode, NumbersOK
        <3> QED
            BY <2>1, <3>3 DEF GenerateDeratedMode, IInv, WidthsOK, ModesOK,
                              NumbersInRangeUntroubled, HasRead
    <2>2. CASE CheckIntraModalConsistency
        <3>1. ModesOK' /\ NumbersOK'
            BY <2>2, ModesAreChecked
        <3> QED
            BY <2>2, <3>1 DEF CheckIntraModalConsistency, IInv, WidthsOK,
                              NumbersInRangeUntroubled, HasRead
    <2>3. CASE DrawYear
        <3>1. NumbersOK'
            BY <2>3, YearIsDrawn
        <3>2. ModesOK'
            BY <2>3, BoundsAreStable DEF DrawYear, IInv, ModesOK
        <3> QED
            BY <2>3, <3>1, <3>2 DEF DrawYear, IInv, WidthsOK, NumbersInRangeUntroubled, HasRead
    <2>4. CASE MakeAreaAgree
        <3>1. NumbersOK'
            BY <2>4, AreaAgrees
        <3>2. ModesOK'
            BY <2>4, BoundsAreStable DEF MakeAreaAgree, IInv, ModesOK
        <3> QED
            BY <2>4, <3>1, <3>2 DEF MakeAreaAgree, IInv, WidthsOK, NumbersInRangeUntroubled,
                                    HasRead
    <2>5. CASE NoLeader
        BY <2>5 DEF NoLeader, IInv, WidthsOK, ModesOK, NumbersOK, NumbersInRangeUntroubled,
                    HasRead
    <2>6. CASE ApplyCustomScenario
        <3>1. NumbersOK'
            BY <2>6, RulesAreBounded
        <3> QED
            BY <2>6, <3>1 DEF ApplyCustomScenario, IInv, WidthsOK, ModesOK,
                              NumbersInRangeUntroubled, HasRead
    <2>7. CASE Regenerate
        <3>1. WidthsOK' /\ NumbersOK'
            BY <2>7, WidthsAreAsDrawn
        <3> QED
            BY <2>7, <3>1 DEF Regenerate, IInv, ModesOK, NumbersInRangeUntroubled, HasRead
    <2>8. CASE RunYears
        <3>1. /\ study' = study /\ Holders' = Holders /\ nb' = nb /\ numbers' = numbers
              /\ width' = width /\ pc = "run" /\ pc' = "store"
            BY <2>8 DEF RunYears, Holders
        <3>2. \A h \in Holders : Bounded(numbers, h)'
            BY <3>1, BoundedStays DEF IInv, NumbersOK
        <3>3. NumbersOK' /\ WidthsOK' /\ ModesOK'
            BY <3>1, <3>2, BoundsAreStable DEF IInv, WidthsOK, NumbersOK, ModesOK
        <3> QED
            BY <2>8, <3>3, YearsReadInRange DEF IInv
    <2>9. CASE StoreTimeSeriesNumbersIntoOutput
        <3>1. /\ study \in Studies /\ study' = study /\ Holders' = Holders /\ nb' = nb
              /\ width' = width /\ read' = read /\ pc = "store" /\ pc' = "done"
            BY <2>9 DEF StoreTimeSeriesNumbersIntoOutput, Holders, IInv, TypeOK
        <3>2. ASSUME NEW h \in Holders PROVE Bounded(numbers, h)'
            <4>1. CASE numbers'[h] = numbers[h]
                BY <3>1, <4>1, BoundedStays DEF IInv, NumbersOK
            <4>2. CASE numbers'[h] = Zero[h]
                BY <3>1, <4>2, BoundedStays, CountIsPositive DEF Zero
            <4> QED
                BY <2>9, <4>1, <4>2 DEF StoreTimeSeriesNumbersIntoOutput, Fixed
        <3>3. NumbersOK' /\ WidthsOK' /\ ModesOK'
            BY <3>1, <3>2, BoundsAreStable DEF IInv, WidthsOK, NumbersOK, ModesOK
        <3>4. NumbersInRangeUntroubled'
            BY <3>1, BoundsAreStable DEF IInv, NumbersInRangeUntroubled, HasRead
        <3> QED
            BY <3>3, <3>4 DEF IInv
    <2>10. CASE UNCHANGED vars
        <3>1. /\ study' = study /\ Holders' = Holders /\ nb' = nb /\ numbers' = numbers
              /\ width' = width /\ read' = read /\ pc' = pc /\ area' = area
            BY <2>10 DEF vars, Holders
        <3>2. \A h \in Holders : (Bounded(numbers, h)' <=> Bounded(numbers, h))
                                /\ (Drawn(numbers, h)' <=> Drawn(numbers, h))
            BY <3>1, BoundsAreStable DEF Bounded, Drawn
        <3>3. NumbersOK' /\ WidthsOK' /\ ModesOK'
            BY <3>1, <3>2, BoundsAreStable DEF IInv, WidthsOK, NumbersOK, ModesOK, Zero
        <3>4. NumbersInRangeUntroubled'
            BY <3>1, BoundsAreStable DEF IInv, NumbersInRangeUntroubled, HasRead
        <3> QED
            BY <3>3, <3>4 DEF IInv
    <2> QED
        BY <2>1, <2>2, <2>3, <2>4, <2>5, <2>6, <2>7, <2>8, <2>9, <2>10 DEF Next
<1> QED
    BY <1>1, <1>2, TypeCorrect, PTL DEF Spec

\* No year reads a series that does not exist: getSeriesIndex is within the width
\* of the series, but for the clusters that decide of their generation alone and
\* for the modes that follow a single series.
THEOREM SeriesExist == Spec => []NumbersInRangeUntroubled
<1>1. IInv => NumbersInRangeUntroubled
    BY DEF IInv
<1> QED
    BY <1>1, InvariantHolds, PTL

\* What is written to the output is what the years read: the correction of the
\* single series uses the widths the years saw.
ReadOK ==
    /\ pc = "store" =>
          read = [h \in Holders |-> [y \in Years |-> SeriesIndex(h, y)]]
    /\ StoredWasRead

THEOREM OutputIsWhatWasRead == Spec => []StoredWasRead
<1>1. Init => ReadOK
    BY DEF Init, ReadOK, StoredWasRead
<1>2. TypeOK /\ ReadOK /\ [Next]_vars => ReadOK'
    <2> SUFFICES ASSUME TypeOK, ReadOK, [Next]_vars PROVE ReadOK'
        OBVIOUS
    <2>1. CASE RunYears
        <3>1. /\ study' = study /\ Holders' = Holders /\ numbers' = numbers /\ width' = width
              /\ pc' = "store"
            BY <2>1 DEF RunYears, Holders
        <3>2. \A h, y : SeriesIndex(h, y)' = SeriesIndex(h, y)
            BY <3>1 DEF SeriesIndex
        <3> QED
            BY <2>1, <3>1, <3>2 DEF RunYears, ReadOK, StoredWasRead
    <2>2. CASE StoreTimeSeriesNumbersIntoOutput
        <3>1. numbers' = [h \in Holders |-> Fixed(h)] /\ read' = read /\ pc = "store" /\ pc' = "done"
            BY <2>2 DEF StoreTimeSeriesNumbersIntoOutput
        <3>2. \A h \in Holders : Fixed(h) = [y \in Years |-> SeriesIndex(h, y)]
            BY DEF TypeOK, Fixed, Zero, SeriesIndex
        <3>3. numbers' = [h \in Holders |-> [y \in Years |-> SeriesIndex(h, y)]]
            BY <3>1, <3>2
        <3>4. numbers' = read'
            BY <3>1, <3>3 DEF ReadOK
        <3> QED
            BY <3>1, <3>4 DEF ReadOK, StoredWasRead
    <2>3. CASE pc' \notin {"store", "done"}
        BY <2>3 DEF ReadOK, StoredWasRead
    <2>4. CASE UNCHANGED vars
        <3>1. \A h, y : SeriesIndex(h, y)' = SeriesIndex(h, y)
            BY <2>4 DEF vars, SeriesIndex
        <3> QED
            BY <2>4, <3>1 DEF vars, ReadOK, StoredWasRead, Holders
    <2>5. CASE \/ GenerateDeratedMode \/ CheckIntraModalConsistency \/ DrawYear
               \/ MakeAreaAgree \/ NoLeader \/ ApplyCustomScenario \/ Regenerate
        <3>1. pc' \notin {"store", "done"}
            BY <2>5 DEF GenerateDeratedMode, CheckIntraModalConsistency, DrawYear,
                        MakeAreaAgree, NoLeader, ApplyCustomScenario, Regenerate
        <3> QED
            BY <2>3, <3>1
    <2> QED
        BY <2>1, <2>2, <2>4, <2>5 DEF Next
<1>3. ReadOK => StoredWasRead
    BY DEF ReadOK
<1> QED
    BY <1>1, <1>2, <1>3, TypeCorrect, PTL DEF Spec

-----------------------------------------------------------------------------
(* What is drawn together. *)

\* The kind a number was drawn for: for the areas before n, that of the leader.
SourceKind(n, h) ==
    IF h.kind \in InterModal /\ h.area < n THEN Leader(Members(h.area)).kind ELSE h.kind

\* The numbers drawn for one intra-modal mode are the same, and so are those of
\* an area before n.
AgreeBefore(num, n) ==
    /\ \A h, g \in Holders :
          SourceKind(n, h) = SourceKind(n, g) /\ SourceKind(n, h) \in study.intraModal
          => num[h] = num[g]
    /\ \A h, g \in Holders :
          {h.kind, g.kind} \subseteq InterModal /\ h.area = g.area /\ h.area < n
          => num[h] = num[g]

AgreeOK ==
    /\ pc \in {"check", "draw"} => area = 1
    /\ pc \in {"check", "draw", "inter"} => AgreeBefore(numbers, area)
    /\ pc \in {"scenario", "generate", "run"} /\ ~study.derated =>
          \A h, g \in Holders, y \in Years :
              Together(h, g) /\ Random(h, y) /\ Random(g, y) => numbers[h][y] = numbers[g][y]

LEMMA TogetherIsStable ==
    ASSUME study' = study
    PROVE  /\ Holders' = Holders
           /\ InterModal' = InterModal
           /\ \A a : Members(a)' = Members(a)
           /\ \A h, g : Together(h, g)' <=> Together(h, g)
           /\ \A h, y : Random(h, y)' <=> Random(h, y)
<1>1. Holders' = Holders /\ InterModal' = InterModal
    BY DEF Holders, InterModal
<1>2. \A a : Members(a)' = Members(a)
    BY <1>1 DEF Members
<1>3. ASSUME NEW h, NEW g PROVE Together(h, g)' <=> Together(h, g)
    BY <1>1, <1>2 DEF Together
<1>4. \A h, y : Random(h, y)' <=> Random(h, y)
    BY DEF Random
<1> QED
    BY <1>1, <1>2, <1>3, <1>4

LEMMA AgreementIsStable ==
    ASSUME study' = study, AgreeBefore(numbers', area')
    PROVE  AgreeBefore(numbers, area)'
<1>1. \A h : SourceKind(area, h)' = SourceKind(area', h)
    BY TogetherIsStable DEF SourceKind
<1> QED
    BY <1>1, TogetherIsStable DEF AgreeBefore

\* When every area agrees, what is together was drawn for one mode, or agrees.
LEMMA TogetherAgrees ==
    ASSUME study \in Studies, NEW n, NEW num, AgreeBefore(num, n),
           InterModal # {} => n \in Nat /\ n > NbAreas,
           NEW h \in Holders, NEW g \in Holders, Together(h, g)
    PROVE  num[h] = num[g]
<1>1. ASSUME NEW f \in Holders, f.kind \in InterModal
      PROVE  f.area < n
    <2>1. f.area \in 0 .. NbAreas
        BY StudyFacts DEF Holder
    <2> QED
        BY <1>1, <2>1, TimeSeriesNumbersAssumption DEF TimeSeriesNumbersAssumption
<1>2. CASE h.kind = g.kind /\ h.kind \in study.intraModal \ InterModal
    BY <1>2 DEF SourceKind, AgreeBefore
<1>3. CASE h.area = g.area /\ {h.kind, g.kind} \subseteq InterModal
    BY <1>1, <1>3 DEF AgreeBefore
<1>4. CASE /\ {h.kind, g.kind} \subseteq InterModal
           /\ Leader(Members(h.area)).kind = Leader(Members(g.area)).kind
           /\ Leader(Members(h.area)).kind \in study.intraModal
    BY <1>1, <1>4 DEF SourceKind, AgreeBefore
<1> QED
    BY <1>2, <1>3, <1>4 DEF Together

\* No area is before the first: a mode's numbers agree as they are drawn.
LEMMA DrawAgrees ==
    ASSUME TypeOK, AgreeOK, DrawYear
    PROVE  AgreeBefore(numbers', area)
<1>1. study \in Studies /\ area = 1
    BY DEF TypeOK, AgreeOK, DrawYear
<1>2. \A h \in Holders : h.kind \in InterModal => ~(h.area < 1)
    BY <1>1, StudyFacts DEF InterModal, InterModalKinds, GeneratedKinds, AreaKinds, Areas
<1>3. \A h \in Holders : SourceKind(area, h) = h.kind
    BY <1>1, <1>2 DEF SourceKind
<1> DEFINE random == {h \in Holders : DrawnFrom(h) > 1}
           values == UNION { 0 .. DrawnFrom(h) - 1 : h \in random }
<1>4. PICK draw \in [{DrawOf(h) : h \in random} -> values] :
        numbers' = [h \in Holders |-> [numbers[h] EXCEPT
                          ![year] = IF h \in random THEN draw[DrawOf(h)] ELSE 0]]
    BY Zenon DEF DrawYear
<1>5. ASSUME NEW h \in Holders, NEW g \in Holders,
             h.kind = g.kind, h.kind \in study.intraModal
      PROVE  numbers'[h] = numbers'[g]
    <2>1. DrawOf(h) = DrawOf(g) /\ (h \in random <=> g \in random)
        BY <1>5 DEF DrawOf, DrawnFrom
    <2>2. numbers[h] = numbers[g]
        BY <1>3, <1>5 DEF AgreeOK, AgreeBefore, DrawYear
    <2> HIDE DEF random, values
    <2> QED
        BY <1>4, <2>1, <2>2
<1> QED
    BY <1>1, <1>2, <1>3, <1>5 DEF AgreeBefore

\* An area that takes its leader's numbers agrees, and stands for its leader.
LEMMA AreaJoins ==
    ASSUME TypeOK, AgreeOK, MakeAreaAgree, pc' # "failed"
    PROVE  AgreeBefore(numbers', area + 1)
<1> DEFINE members == Members(area)
           l == Leader(members)
<1>1. /\ study \in Studies /\ area \in Nat /\ members # {} /\ pc = "inter"
      /\ numbers' = [h \in Holders |-> IF h \in members THEN numbers[l] ELSE numbers[h]]
    BY DEF TypeOK, MakeAreaAgree
<1>2. members \subseteq Holders
    BY DEF Members
<1>3. \A h \in Holders : h \in members <=> h.kind \in InterModal /\ h.area = area
    BY DEF Members
<1>4. l \in members
    <2>1. members \in SUBSET Holder
        BY <1>1, <1>2, StudyFacts
    <2>2. \A h \in members : h.kind \in InterModalKinds
        BY <1>1, StudyFacts DEF Members, InterModal
    <2> QED
        BY <1>1, <2>1, <2>2, LeaderIsAMember
<1>5. AgreeBefore(numbers, area)
    BY <1>1 DEF AgreeOK
<1> DEFINE Of(h) == IF h \in members THEN l ELSE h
<1>6. \A h \in Holders : h.area \in Nat
    BY <1>1, StudyFacts DEF Holder
<1>7. ASSUME NEW h \in Holders
      PROVE  /\ Of(h) \in Holders
             /\ numbers'[h] = numbers[Of(h)]
             /\ SourceKind(area + 1, h) = SourceKind(area, Of(h))
    <2>1. CASE h \in members
        <3>1. h.kind \in InterModal /\ h.area = area /\ l.area = area
            BY <1>2, <1>3, <1>4, <2>1
        <3>2. SourceKind(area + 1, h) = l.kind
            BY <1>1, <3>1 DEF SourceKind
        <3>3. SourceKind(area, l) = l.kind
            BY <1>1, <3>1 DEF SourceKind
        <3> QED
            BY <1>1, <1>2, <1>4, <2>1, <3>2, <3>3
    <2>2. CASE h \notin members
        <3>1. SourceKind(area + 1, h) = SourceKind(area, h)
            BY <1>1, <1>3, <1>6, <2>2 DEF SourceKind
        <3> QED
            BY <1>1, <2>2, <3>1
    <2> QED
        BY <2>1, <2>2
<1>8. ASSUME NEW h \in Holders, NEW g \in Holders,
             {h.kind, g.kind} \subseteq InterModal, h.area = g.area, h.area < area + 1
      PROVE  numbers'[h] = numbers'[g]
    <2>1. CASE h.area = area
        BY <1>1, <1>3, <1>8, <2>1
    <2>2. CASE h.area # area
        <3>1. h.area < area /\ h \notin members /\ g \notin members
            BY <1>1, <1>3, <1>6, <1>8, <2>2
        <3> QED
            BY <1>1, <1>5, <1>8, <3>1 DEF AgreeBefore
    <2> QED
        BY <2>1, <2>2
<1> HIDE DEF Of
<1>9. ASSUME NEW h \in Holders, NEW g \in Holders,
             SourceKind(area + 1, h) = SourceKind(area + 1, g),
             SourceKind(area + 1, h) \in study.intraModal
      PROVE  numbers'[h] = numbers'[g]
    <2>1. numbers[Of(h)] = numbers[Of(g)]
        BY <1>5, <1>7, <1>9 DEF AgreeBefore
    <2> QED
        BY <1>7, <2>1
<1> QED
    BY <1>8, <1>9 DEF AgreeBefore

\* In a year that nothing imposes, what is drawn together reads one number.
THEOREM DrawnTogetherReadsOne == Spec => []DrawnTogether
<1> DEFINE Inv2 == AgreeOK /\ DrawnTogether
<1>1. Init => Inv2
    <2> SUFFICES ASSUME Init PROVE Inv2
        OBVIOUS
    <2>1. AgreeBefore(numbers, area)
        BY DEF Init, Zero, AgreeBefore
    <2> QED
        BY <2>1 DEF Init, AgreeOK, DrawnTogether, HasRead
<1>2. TypeOK /\ Inv2 /\ [Next]_vars => Inv2'
    <2> SUFFICES ASSUME TypeOK, AgreeOK, DrawnTogether, [Next]_vars PROVE Inv2'
        OBVIOUS
    <2>0. study \in Studies /\ NbAreas \in Nat
        BY TimeSeriesNumbersAssumption DEF TypeOK, TimeSeriesNumbersAssumption
    <2>1. CASE GenerateDeratedMode
        BY <2>1 DEF GenerateDeratedMode, AgreeOK, DrawnTogether, HasRead
    <2>2. CASE CheckIntraModalConsistency
        <3>1. /\ study' = study /\ numbers' = numbers /\ area' = area /\ pc = "check"
              /\ pc' \in {"draw", "failed"}
            BY <2>2 DEF CheckIntraModalConsistency
        <3>2. AgreeBefore(numbers, area)'
            BY <3>1, AgreementIsStable DEF AgreeOK
        <3> QED
            BY <3>1, <3>2 DEF AgreeOK, DrawnTogether, HasRead
    <2>3. CASE DrawYear
        <3>a. /\ study' = study /\ area' = area /\ pc = "draw"
              /\ pc' = IF year + 1 < NbYears THEN "draw"
                       ELSE IF InterModal = {} THEN "scenario" ELSE "inter"
            BY <2>3, Zenon DEF DrawYear
        <3>1. /\ study' = study /\ area' = area /\ pc = "draw" /\ area = 1
              /\ pc' \in {"draw", "inter"} \/ (pc' = "scenario" /\ InterModal = {})
            <4>1. area = 1
                BY <3>a DEF AgreeOK
            <4>2. CASE year + 1 < NbYears
                BY <3>a, <4>1, <4>2
            <4>3. CASE ~(year + 1 < NbYears) /\ InterModal = {}
                BY <3>a, <4>1, <4>3
            <4>4. CASE ~(year + 1 < NbYears) /\ InterModal # {}
                BY <3>a, <4>1, <4>4
            <4> QED
                BY <4>2, <4>3, <4>4
        <3>2. AgreeBefore(numbers', area)
            BY <2>3, DrawAgrees
        <3>3. AgreeBefore(numbers, area)'
            BY <3>1, <3>2, AgreementIsStable
        <3>4. CASE pc' = "scenario"
            <4>1. \A h, g \in Holders : Together(h, g) => numbers'[h] = numbers'[g]
                BY <2>0, <3>1, <3>2, <3>4, TogetherAgrees
            <4> QED
                BY <3>1, <3>4, <4>1, TogetherIsStable DEF AgreeOK, DrawnTogether, HasRead
        <3> QED
            BY <3>1, <3>3, <3>4 DEF AgreeOK, DrawnTogether, HasRead
    <2>4. CASE MakeAreaAgree
        <3>1. study' = study /\ area \in Nat
            BY <2>4 DEF MakeAreaAgree, TypeOK
        <3>2. CASE pc' = "failed"
            BY <3>2 DEF AgreeOK, DrawnTogether, HasRead
        <3>3. CASE pc' # "failed"
            <4>a. CheckAllElementsIdenticalOrOne({Count(h) : h \in Members(area)})
                BY <2>4, <3>3, Zenon DEF MakeAreaAgree
            <4>b. /\ area' = area + 1
                  /\ pc' = IF area < NbAreas THEN "inter" ELSE "scenario"
                BY <2>4, <4>a, Zenon DEF MakeAreaAgree
            <4>1. /\ area' = area + 1
                  /\ pc' = "inter" \/ (pc' = "scenario" /\ ~(area < NbAreas))
                <5>1. CASE area < NbAreas
                    BY <4>b, <5>1
                <5>2. CASE ~(area < NbAreas)
                    BY <4>b, <5>2
                <5> QED
                    BY <5>1, <5>2
            <4>2. AgreeBefore(numbers', area + 1)
                BY <2>4, <3>3, AreaJoins
            <4>3. AgreeBefore(numbers, area)'
                BY <3>1, <4>1, <4>2, AgreementIsStable
            <4>4. CASE pc' = "scenario"
                <5>1. area + 1 \in Nat /\ area + 1 > NbAreas
                    BY <2>0, <3>1, <4>1, <4>4
                <5>2. \A h, g \in Holders : Together(h, g) => numbers'[h] = numbers'[g]
                    BY <2>0, <4>2, <5>1, TogetherAgrees
                <5> QED
                    BY <3>1, <4>4, <5>2, TogetherIsStable DEF AgreeOK, DrawnTogether, HasRead
            <4> QED
                BY <4>1, <4>3, <4>4 DEF AgreeOK, DrawnTogether, HasRead
        <3> QED
            BY <3>2, <3>3
    <2>5. CASE NoLeader
        BY <2>5 DEF NoLeader, AgreeOK, DrawnTogether, HasRead
    <2>6. CASE ApplyCustomScenario
        <3>1. study' = study /\ pc = "scenario" /\ pc' = "generate"
            BY <2>6 DEF ApplyCustomScenario
        <3>2. \A h \in Holders, y \in Years : Random(h, y) => numbers'[h][y] = numbers[h][y]
            <4>1. SUFFICES ASSUME NEW h \in Holders, NEW y \in Years, study.rules[h][y] = 0
                           PROVE  numbers'[h][y] = numbers[h][y]
                BY DEF Random
            <4>2. numbers'[h][y] = LET rule == study.rules[h][y]
                                   IN  IF rule > 0 /\ Valid(h, rule) /\ Applied(h) THEN rule - 1
                                                                                  ELSE numbers[h][y]
                BY <2>6, Zenon DEF ApplyCustomScenario
            <4> QED
                BY <4>1, <4>2
        <3> QED
            BY <3>1, <3>2, TogetherIsStable DEF AgreeOK, DrawnTogether, HasRead
    <2>7. CASE Regenerate
        BY <2>7, TogetherIsStable DEF Regenerate, AgreeOK, DrawnTogether, HasRead
    <2>8. CASE RunYears
        <3>1. /\ study' = study /\ width' = width /\ pc = "run" /\ pc' = "store"
              /\ \A h \in Holders, y \in Years :
                    read'[h][y] = IF width[h] = 1 THEN 0 ELSE numbers[h][y]
            BY <2>8 DEF RunYears, SeriesIndex
        <3>2. \A h, g \in Holders, y \in Years :
                ~study.derated /\ Together(h, g) /\ Random(h, y) /\ Random(g, y)
                /\ width[h] > 1 /\ width[g] > 1 => read'[h][y] = read'[g][y]
            BY <3>1 DEF AgreeOK
        <3> QED
            BY <3>1, <3>2, TogetherIsStable DEF AgreeOK, DrawnTogether, HasRead
    <2>9. CASE StoreTimeSeriesNumbersIntoOutput
        BY <2>9, TogetherIsStable DEF StoreTimeSeriesNumbersIntoOutput, AgreeOK, DrawnTogether,
                                      HasRead
    <2>10. CASE UNCHANGED vars
        <3>1. /\ study' = study /\ numbers' = numbers /\ area' = area /\ pc' = pc
              /\ width' = width /\ read' = read
            BY <2>10 DEF vars
        <3>2. AgreeBefore(numbers, area) => AgreeBefore(numbers, area)'
            BY <3>1, AgreementIsStable
        <3> QED
            BY <3>1, <3>2, TogetherIsStable DEF AgreeOK, DrawnTogether, HasRead
    <2> QED
        BY <2>1, <2>2, <2>3, <2>4, <2>5, <2>6, <2>7, <2>8, <2>9, <2>10 DEF Next
<1>3. Inv2 => DrawnTogether
    OBVIOUS
<1> QED
    BY <1>1, <1>2, <1>3, TypeCorrect, PTL DEF Spec

-----------------------------------------------------------------------------
(* What the scenario builder imposes. *)

\* The scenario builder imposes a number that the holder can follow, and the
\* groups sorted before it have valid rules only.
Imposed(h, y) ==
    /\ study.rules[h][y] > 0 /\ study.rules[h][y] <= CountAtDraw(h)
    /\ h.kind = "group" => \A g \in OfKind("group") : g.rank < h.rank =>
                              \A z \in Years : study.rules[g][z] <= CountAtDraw(g)

FollowOK ==
    /\ pc \in {"generate", "run"} =>
          \A h \in Holders, y \in Years : Imposed(h, y) => numbers[h][y] = study.rules[h][y] - 1
    /\ ScenarioIsFollowed

\* A rule names a series the holder counts, so it is applied.
LEMMA ImposedIsApplied ==
    ASSUME TypeOK, WidthsOK, ApplyCustomScenario, NEW h \in Holders, NEW y \in Years, Imposed(h, y)
    PROVE  numbers'[h][y] = study.rules[h][y] - 1
<1>1. /\ study \in Studies /\ width = study.width
    BY DEF ApplyCustomScenario, TypeOK, WidthsOK
<1>2. \A g \in Holders : /\ Count(g) = CountAtDraw(g) /\ CountAtDraw(g) \in Nat
                         /\ study.rules[g] \in [Years -> Nat]
    BY <1>1, CountIsPositive, StudyFacts DEF Count, CountAtDraw
<1>3. Valid(h, study.rules[h][y])
    BY <1>2 DEF Valid, Imposed
<1>4. Applied(h)
    <2> SUFFICES ASSUME h.kind = "group", NEW g \in OfKind("group"), g.rank < h.rank,
                        NEW z \in Years
                 PROVE  Valid(g, study.rules[g][z])
        BY DEF Applied, RulesHold
    <2>1. g \in Holders /\ study.rules[g][z] <= CountAtDraw(g)
        BY DEF OfKind, Imposed
    <2> QED
        BY <1>2, <2>1 DEF Valid
<1>5. numbers'[h][y] = LET rule == study.rules[h][y]
                       IN  IF rule > 0 /\ Valid(h, rule) /\ Applied(h) THEN rule - 1
                                                                      ELSE numbers[h][y]
    BY Zenon DEF ApplyCustomScenario
<1> QED
    BY <1>3, <1>4, <1>5 DEF Imposed

\* The series a holder has in the end are among those it counted when the rules
\* were checked.
LEMMA ImposedIsRead ==
    ASSUME TypeOK, WidthsOK, FollowOK, RunYears, NEW h \in Holders, NEW y \in Years,
           ~Random(h, y), study.rules[h][y] <= width[h], ~OwnGeneration(h),
           h.kind = "group" => \A g \in OfKind("group") : g.rank < h.rank =>
                                 \A z \in Years : study.rules[g][z] <= width[g]
    PROVE  read'[h][y] = study.rules[h][y] - 1
<1>1. /\ study \in Studies /\ pc = "run"
      /\ width \in [Holders -> Nat \ {0}] /\ study.rules \in [Holders -> [Years -> Nat]]
    BY StudyFacts DEF RunYears, TypeOK
<1>2. ASSUME NEW g \in Holders, ~OwnGeneration(g)
      PROVE  width[g] <= CountAtDraw(g) /\ CountAtDraw(g) \in Nat
    <2>1. width[g] = 1 \/ width[g] = CountAtDraw(g)
        BY <1>1, <1>2 DEF WidthsOK
    <2> QED
        BY <1>1, <2>1, CountIsPositive
<1>3. \A g \in OfKind("group") : g \in Holders /\ ~OwnGeneration(g)
    <2>1. ASSUME NEW g \in OfKind("group")
          PROVE  g \in Holders /\ study.own[g] = "global"
        BY <1>1, StudyFacts DEF OfKind
    <2> QED
        BY <2>1 DEF OwnGeneration, DoWeGenerateTS
<1>4. Imposed(h, y)
    <2>1. study.rules[h][y] > 0 /\ study.rules[h][y] <= CountAtDraw(h)
        BY <1>1, <1>2 DEF Random
    <2>2. ASSUME h.kind = "group", NEW g \in OfKind("group"), g.rank < h.rank, NEW z \in Years
          PROVE  study.rules[g][z] <= CountAtDraw(g)
        BY <1>1, <1>2, <1>3, <2>2
    <2> QED
        BY <2>1, <2>2 DEF Imposed
<1>5. numbers[h][y] = study.rules[h][y] - 1
    BY <1>1, <1>4 DEF FollowOK
<1>6. read'[h][y] = IF width[h] = 1 THEN 0 ELSE numbers[h][y]
    BY DEF RunYears, SeriesIndex
<1>7. study.rules[h][y] \in Nat /\ study.rules[h][y] # 0
    BY <1>1 DEF Random
<1> QED
    BY <1>5, <1>6, <1>7

\* A number the scenario builder imposes is the one the year reads.
THEOREM ScenarioFollowed == Spec => []ScenarioIsFollowed
<1>1. Init => FollowOK
    BY DEF Init, FollowOK, ScenarioIsFollowed, HasRead
<1>2. IInv /\ FollowOK /\ [Next]_vars => FollowOK'
    <2> SUFFICES ASSUME IInv, FollowOK, [Next]_vars PROVE FollowOK'
        OBVIOUS
    <2>1. TypeOK /\ WidthsOK
        BY DEF IInv
    <2>2. ASSUME study' = study
          PROVE  \A h, y : /\ Imposed(h, y)' <=> Imposed(h, y)
                           /\ Random(h, y)' <=> Random(h, y)
                           /\ OwnGeneration(h)' <=> OwnGeneration(h)
                           /\ OfKind(y)' = OfKind(y)
        BY <2>2 DEF Imposed, CountAtDraw, OfKind, Holders, Random, OwnGeneration, DoWeGenerateTS
    <2>3. CASE ApplyCustomScenario
        <3>1. study' = study /\ Holders' = Holders /\ pc' = "generate"
            BY <2>3 DEF ApplyCustomScenario, Holders
        <3>2. \A h \in Holders, y \in Years : Imposed(h, y) => numbers'[h][y] = study.rules[h][y] - 1
            BY <2>1, <2>3, ImposedIsApplied
        <3> QED
            BY <2>2, <3>1, <3>2 DEF FollowOK, ScenarioIsFollowed, HasRead
    <2>4. CASE Regenerate
        <3>1. /\ study' = study /\ Holders' = Holders /\ pc' = "run" /\ pc = "generate"
              /\ numbers' = numbers
            BY <2>4 DEF Regenerate, Holders
        <3> QED
            BY <2>2, <3>1 DEF FollowOK, ScenarioIsFollowed, HasRead
    <2>5. CASE RunYears
        <3>1. study' = study /\ Holders' = Holders /\ pc' = "store" /\ width' = width
            BY <2>5 DEF RunYears, Holders
        <3>2. ASSUME NEW h \in Holders, NEW y \in Years,
                     ~Random(h, y), study.rules[h][y] <= width[h], ~OwnGeneration(h),
                     h.kind = "group" => \A g \in OfKind("group") : g.rank < h.rank =>
                                           \A z \in Years : study.rules[g][z] <= width[g]
              PROVE  read'[h][y] = study.rules[h][y] - 1
            BY <2>1, <2>5, <3>2, ImposedIsRead
        <3> QED
            BY <2>2, <3>1, <3>2 DEF FollowOK, ScenarioIsFollowed
    <2>6. CASE StoreTimeSeriesNumbersIntoOutput
        <3>1. /\ study' = study /\ Holders' = Holders /\ pc' = "done" /\ pc = "store"
              /\ width' = width /\ read' = read
            BY <2>6 DEF StoreTimeSeriesNumbersIntoOutput, Holders
        <3> QED
            BY <2>2, <3>1 DEF FollowOK, ScenarioIsFollowed, HasRead
    <2>7. CASE \/ GenerateDeratedMode \/ CheckIntraModalConsistency \/ DrawYear
               \/ MakeAreaAgree \/ NoLeader
        <3>1. pc' \notin {"generate", "run", "store", "done"}
            BY <2>7 DEF GenerateDeratedMode, CheckIntraModalConsistency, DrawYear, MakeAreaAgree,
                        NoLeader
        <3> QED
            BY <3>1 DEF FollowOK, ScenarioIsFollowed, HasRead
    <2>8. CASE UNCHANGED vars
        <3>1. /\ study' = study /\ Holders' = Holders /\ pc' = pc /\ numbers' = numbers
              /\ width' = width /\ read' = read
            BY <2>8 DEF vars, Holders
        <3> QED
            BY <2>2, <3>1 DEF FollowOK, ScenarioIsFollowed, HasRead
    <2> QED
        BY <2>3, <2>4, <2>5, <2>6, <2>7, <2>8 DEF Next
<1>3. FollowOK => ScenarioIsFollowed
    BY DEF FollowOK
<1> QED
    BY <1>1, <1>2, <1>3, InvariantHolds, PTL DEF Spec
=============================================================================
