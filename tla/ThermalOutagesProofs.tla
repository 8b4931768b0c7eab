------------------------ MODULE ThermalOutagesProofs ------------------------
(***************************************************************************)
(* Proofs about the thermal generator, for any log, number of days and     *)
(* series, and any cluster whose data are valid.                            *)
(***************************************************************************)
EXTENDS ThermalOutages, TLAPS, WellFoundedInduction

-----------------------------------------------------------------------------
(* Induction on the natural numbers, stated for a set of them. *)

\* A set that contains 0 and the successor of its elements is Nat: the rest would
\* have a least element.  It is how the loops over the days and slots are reasoned about.
LEMMA SetInduction ==
  ASSUME NEW T, T \subseteq Nat, 0 \in T, \A n \in T : n + 1 \in T
  PROVE  T = Nat
<1>1. \A x \in Nat : x # 0 => x - 1 \in Nat /\ x - 1 < x
  OBVIOUS
<1>2. \A x \in Nat : x # 0 => <<x - 1, x>> \in OpToRel(<, Nat)
  BY <1>1, Zenon DEF OpToRel
<1>3. \A x \in Nat : x - 1 \in T => x \in T
  <2>1. \A x \in Nat : (x - 1) + 1 = x
    OBVIOUS
  <2> QED BY <2>1
<1>4. ASSUME Nat \ T # {} PROVE FALSE
  <2>1. PICK x \in Nat \ T : \A y \in Nat \ T : ~ (<<y, x>> \in OpToRel(<, Nat))
    BY <1>4, WFMin, NatLessThanWellFounded, Zenon
  <2>2. x # 0
    BY Zenon
  <2>3. x - 1 \in T
    BY <1>1, <1>2, <2>1, <2>2, Zenon
  <2> QED BY <1>3, <2>3, Zenon
<1> QED BY <1>4

-----------------------------------------------------------------------------
(* The sum of a log. *)

\* s[n] is the sum of the first n slots of the log.
PartialSums(s, log) ==
    /\ s \in [0 .. LogSize -> Int]
    /\ s[0] = 0
    /\ \A n \in 1 .. LogSize : s[n] = s[n - 1] + log[n - 1]

\* The recursive function of Total is defined, and is the function of the partial sums.
LEMMA TotalSums ==
  ASSUME NEW log \in [Slots -> Int]
  PROVE  \E s : PartialSums(s, log) /\ Total(log) = s[LogSize]
<1> DEFINE upTo[n \in 0 .. LogSize] == IF n = 0 THEN 0 ELSE upTo[n - 1] + log[n - 1]
<1> DEFINE Step(g, n) == IF n = 0 THEN 0 ELSE g[n - 1] + log[n - 1]
<1> DEFINE Sums(g, n) == /\ g \in [0 .. n -> Int]
                         /\ \A k \in 0 .. n : g[k] = Step(g, k)
<1>0. LogSize \in Nat
  BY ThermalOutagesAssumption
<1>1. \E g : Sums(g, LogSize)
  <2> DEFINE T == {n \in Nat : n <= LogSize => \E g : Sums(g, n)}
  <2>1. 0 \in T
    <3>1. Sums([k \in 0 .. 0 |-> 0], 0)
      OBVIOUS
    <3> QED BY <3>1
  <2>2. ASSUME NEW n \in T PROVE n + 1 \in T
    <3>1. SUFFICES ASSUME n + 1 <= LogSize PROVE \E g : Sums(g, n + 1)
      OBVIOUS
    <3>2. PICK g : Sums(g, n)
      BY <3>1, <1>0
    <3>3. log[n] \in Int
      BY <3>1, <1>0 DEF Slots
    <3> DEFINE h == [k \in 0 .. n + 1 |-> IF k = n + 1 THEN g[n] + log[n] ELSE g[k]]
    <3>4. h \in [0 .. n + 1 -> Int]
      BY <3>2, <3>3
    <3>5. ASSUME NEW k \in 0 .. n + 1 PROVE h[k] = Step(h, k)
      <4>1. CASE k = n + 1
        BY <3>2, <4>1
      <4>2. CASE k # n + 1
        BY <3>2, <4>2
      <4> QED BY <4>1, <4>2
    <3> QED BY <3>4, <3>5
  <2>3. T = Nat
    <3> HIDE DEF T
    <3> QED BY <2>1, <2>2, SetInduction DEF T
  <2> QED BY <2>3, <1>0
<1>2. PICK g : Sums(g, LogSize)
  BY <1>1
<1>3. g = [n \in 0 .. LogSize |-> Step(g, n)]
  BY <1>2
<1>4. upTo = [n \in 0 .. LogSize |-> IF n = 0 THEN 0 ELSE upTo[n - 1] + log[n - 1]]
  BY <1>3
<1>5. upTo[LogSize] = Total(log)
  BY DEF Total
<1>6. /\ upTo[0] = 0
      /\ \A n \in 1 .. LogSize : upTo[n] = upTo[n - 1] + log[n - 1]
  <2> HIDE DEF upTo
  <2>1. \A n \in 0 .. LogSize :
          upTo[n] = IF n = 0 THEN 0 ELSE upTo[n - 1] + log[n - 1]
    BY <1>4, Zenon
  <2>2. 0 \in 0 .. LogSize /\ \A n \in 1 .. LogSize : n \in 0 .. LogSize /\ n # 0
    BY <1>0
  <2> QED BY <2>1, <2>2, Zenon
<1>7. \A n \in 0 .. LogSize : upTo[n] \in Int
  <2> HIDE DEF upTo
  <2> DEFINE T == {n \in Nat : n <= LogSize => upTo[n] \in Int}
  <2>1. 0 \in T
    BY <1>6
  <2>2. ASSUME NEW n \in T PROVE n + 1 \in T
    <3>1. SUFFICES ASSUME n + 1 <= LogSize PROVE upTo[n + 1] \in Int
      OBVIOUS
    <3>2. upTo[n] \in Int /\ log[n] \in Int /\ n + 1 \in 1 .. LogSize
      BY <3>1, <1>0 DEF Slots
    <3> QED BY <3>2, <1>6
  <2>3. T = Nat
    <3> HIDE DEF T
    <3> QED BY <2>1, <2>2, SetInduction DEF T
  <2> QED BY <2>3, <1>0
<1>8. upTo \in [0 .. LogSize -> Int]
  <2> HIDE DEF upTo
  <2> QED BY <1>4, <1>7
<1>9. PartialSums(upTo, log)
  <2> HIDE DEF upTo
  <2> QED BY <1>6, <1>8 DEF PartialSums
<1> QED
  <2> HIDE DEF upTo
  <2> QED BY <1>5, <1>9

\* Adding to a slot adds to the sum.
LEMMA TotalPlus ==
  ASSUME NEW log \in [Slots -> Int], NEW at \in Slots, NEW units \in Int
  PROVE  /\ Plus(log, at, units) \in [Slots -> Int]
         /\ Total(Plus(log, at, units)) = Total(log) + units
<1> DEFINE new == Plus(log, at, units)
<1>0. LogSize \in Nat
  BY ThermalOutagesAssumption
<1>1. /\ new \in [Slots -> Int]
      /\ new[at] = log[at] + units
      /\ \A s \in Slots : s # at => new[s] = log[s]
  BY DEF Plus
<1> HIDE DEF new
<1>2. PICK s : PartialSums(s, log) /\ Total(log) = s[LogSize]
  BY TotalSums
<1>3. PICK t : PartialSums(t, new) /\ Total(new) = t[LogSize]
  BY <1>1, TotalSums
<1> DEFINE T == {n \in Nat : n <= LogSize =>
                               t[n] = s[n] + (IF n > at THEN units ELSE 0)}
<1>4. 0 \in T
  BY <1>2, <1>3 DEF PartialSums, Slots
<1>5. ASSUME NEW n \in T PROVE n + 1 \in T
  <2>1. SUFFICES ASSUME n + 1 <= LogSize
                 PROVE  t[n + 1] = s[n + 1] + (IF n + 1 > at THEN units ELSE 0)
    OBVIOUS
  <2>2. n \in Slots /\ n + 1 \in 1 .. LogSize /\ n \in 0 .. LogSize /\ at \in Int
    BY <2>1, <1>0 DEF Slots
  <2>3. t[n + 1] = t[n] + new[n] /\ s[n + 1] = s[n] + log[n]
    BY <2>2, <1>2, <1>3 DEF PartialSums
  <2>4. s[n] \in Int /\ log[n] \in Int
    BY <2>2, <1>2 DEF PartialSums
  <2>5. t[n] = s[n] + (IF n > at THEN units ELSE 0)
    BY <2>2
  <2>6. CASE n = at
    BY <2>2, <2>3, <2>4, <2>5, <2>6, <1>1
  <2>7. CASE n # at
    BY <2>2, <2>3, <2>4, <2>5, <2>7, <1>1
  <2> QED BY <2>6, <2>7
<1>6. T = Nat
  <2> HIDE DEF T
  <2> QED BY <1>4, <1>5, SetInduction DEF T
<1>7. t[LogSize] = s[LogSize] + units
  BY <1>6, <1>0 DEF Slots
<1> QED BY <1>1, <1>2, <1>3, <1>7 DEF new

\* Emptying a slot takes what it held from the sum.
LEMMA TotalCleared ==
  ASSUME NEW log \in [Slots -> Int], NEW at \in Slots
  PROVE  Total([log EXCEPT ![at] = 0]) = Total(log) - log[at]
<1>1. log[at] \in Int /\ -log[at] \in Int /\ log[at] + (-log[at]) = 0
  OBVIOUS
<1>2. [log EXCEPT ![at] = 0] = Plus(log, at, -log[at])
  BY <1>1 DEF Plus
<1>3. Total(Plus(log, at, -log[at])) = Total(log) + (-log[at])
  BY <1>1, TotalPlus
<1>4. PICK s : PartialSums(s, log) /\ Total(log) = s[LogSize]
  BY TotalSums
<1>5. Total(log) \in Int
  BY <1>4, ThermalOutagesAssumption DEF PartialSums
<1> QED BY <1>1, <1>2, <1>3, <1>5

\* The sum of a log that is nowhere above another one is not above its sum either; no
\* slot of a log is above its sum.
LEMMA TotalMonotone ==
  ASSUME NEW low \in [Slots -> Int], NEW high \in [Slots -> Int],
         \A s \in Slots : low[s] <= high[s]
  PROVE  Total(low) <= Total(high)
<1>0. LogSize \in Nat
  BY ThermalOutagesAssumption
<1>2. PICK s : PartialSums(s, low) /\ Total(low) = s[LogSize]
  BY TotalSums
<1>3. PICK t : PartialSums(t, high) /\ Total(high) = t[LogSize]
  BY TotalSums
<1> DEFINE T == {n \in Nat : n <= LogSize => s[n] <= t[n]}
<1>4. 0 \in T
  BY <1>2, <1>3 DEF PartialSums
<1>5. ASSUME NEW n \in T PROVE n + 1 \in T
  <2>1. SUFFICES ASSUME n + 1 <= LogSize PROVE s[n + 1] <= t[n + 1]
    OBVIOUS
  <2>2. n \in Slots /\ n + 1 \in 1 .. LogSize /\ n \in 0 .. LogSize
    BY <2>1, <1>0 DEF Slots
  <2>3. s[n + 1] = s[n] + low[n] /\ t[n + 1] = t[n] + high[n]
    BY <2>2, <1>2, <1>3 DEF PartialSums
  <2>4. s[n] \in Int /\ t[n] \in Int /\ low[n] \in Int /\ high[n] \in Int
    BY <2>2, <1>2, <1>3 DEF PartialSums
  <2>5. s[n] <= t[n] /\ low[n] <= high[n]
    BY <2>2
  <2> QED BY <2>3, <2>4, <2>5
<1>6. T = Nat
  <2> HIDE DEF T
  <2> QED BY <1>4, <1>5, SetInduction DEF T
<1> QED BY <1>0, <1>2, <1>3, <1>6

LEMMA TotalOfEmptyLog == EmptyLog \in [Slots -> Int] /\ Total(EmptyLog) = 0
<1>0. LogSize \in Nat /\ LogSize > 0 /\ 0 \in Slots
  BY ThermalOutagesAssumption DEF Slots
<1>1. EmptyLog \in [Slots -> Int]
  BY DEF EmptyLog
<1>2. PICK s : PartialSums(s, EmptyLog) /\ Total(EmptyLog) = s[LogSize]
  BY <1>1, TotalSums
<1> DEFINE T == {n \in Nat : n <= LogSize => s[n] = 0}
<1>4. 0 \in T
  BY <1>2 DEF PartialSums
<1>5. ASSUME NEW n \in T PROVE n + 1 \in T
  <2>1. SUFFICES ASSUME n + 1 <= LogSize PROVE s[n + 1] = 0
    OBVIOUS
  <2>2. n \in Slots /\ n + 1 \in 1 .. LogSize /\ n \in 0 .. LogSize
    BY <2>1, <1>0 DEF Slots
  <2>3. s[n + 1] = s[n] + EmptyLog[n] /\ EmptyLog[n] = 0 /\ s[n] = 0
    BY <2>2, <1>2 DEF PartialSums, EmptyLog
  <2> QED BY <2>3
<1>6. T = Nat
  <2> HIDE DEF T
  <2> QED BY <1>4, <1>5, SetInduction DEF T
<1> QED BY <1>0, <1>1, <1>2, <1>6

\* A log of units has a sum of at least each of its slots.
LEMMA TotalBounds ==
  ASSUME NEW log \in [Slots -> Nat]
  PROVE  /\ Total(log) \in Nat
         /\ \A s \in Slots : log[s] <= Total(log)
<1>1. log \in [Slots -> Int] /\ \A s \in Slots : EmptyLog[s] <= log[s]
  BY DEF EmptyLog
<1>2. \A other \in [Slots -> Int] : Total(other) \in Int
  <2> TAKE other \in [Slots -> Int]
  <2>1. PICK s : PartialSums(s, other) /\ Total(other) = s[LogSize]
    BY TotalSums
  <2> QED BY <2>1, ThermalOutagesAssumption DEF PartialSums
<1>3. Total(log) \in Nat
  BY <1>1, <1>2, TotalMonotone, TotalOfEmptyLog
<1>4. ASSUME NEW s \in Slots PROVE log[s] <= Total(log)
  <2> DEFINE rest == [log EXCEPT ![s] = 0]
  <2>1. rest \in [Slots -> Int] /\ \A r \in Slots : EmptyLog[r] <= rest[r]
    BY DEF EmptyLog
  <2>2. Total(rest) = Total(log) - log[s]
    BY <1>1, TotalCleared
  <2> HIDE DEF rest
  <2>3. 0 <= Total(rest)
    BY <2>1, TotalMonotone, TotalOfEmptyLog
  <2> QED BY <2>2, <2>3, <1>3
<1> QED BY <1>3, <1>4

-----------------------------------------------------------------------------
(* Arithmetic. *)

LEMMA Remainder ==
  ASSUME NEW n \in Nat
  PROVE  /\ n % LogSize \in Slots
         /\ n < LogSize => n % LogSize = n
         /\ LogSize <= n /\ n < 2 * LogSize => n % LogSize = n - LogSize
<1> QED BY ThermalOutagesAssumption, SMT DEF Slots

\* Units drawn for both reasons are counted once: there are enough units.
LEMMA Overlap ==
  ASSUME NEW n \in Nat \ {0}, NEW p \in 0 .. n, NEW f \in 0 .. n
  PROVE  /\ (p * f) \div n \in 0 .. p
         /\ (p * f) \div n \in 0 .. f
         /\ p + f - (p * f) \div n <= n
<1> QED BY SMTT(60)

-----------------------------------------------------------------------------
(* The inductive invariant. *)

Typing ==
    /\ cluster \in Clusters
    /\ pc \in {"begin", "return", "recall", "draw", "settle", "durations", "record", "done"}
    /\ tsIndex \in 0 .. NbSeries + 2
    /\ day \in Days
    /\ width \in {1, NbSeries}
    /\ AUN \in Nat
    /\ NPO_cur \in Int
    /\ stock \in Int
    /\ NOW \in Slots
    /\ index \in 0 .. LogSize
    /\ cible \in Nat
    /\ cumul \in 0 .. cible
    /\ FOC \in 0 .. AUN
    /\ POC \in 0 .. AUN
    /\ FOD_reel \in Nat
    /\ POD_reel \in Nat

LogTyping == LOG \in [Slots -> Nat] /\ LOGP \in [Slots -> Nat]

\* Before the first day nothing is out.
Untouched ==
    ~Generating => /\ AUN = 0 /\ NPO_cur = 0 /\ tsIndex = 0
                   /\ LOG = EmptyLog /\ LOGP = EmptyLog

\* What is known at each step of the day, in the loop of early returns above all:
\* unless it is over, the slots it went through hold no planned outage any more.
AtEachStep ==
    /\ pc = "begin" => tsIndex = 0
    /\ tsIndex = NbSeries + 2 => pc = "done"
    /\ pc # "recall" => cumul = 0 /\ cible = 0 /\ index = 0
    /\ ~Settled /\ pc # "settle" => FOC = 0 /\ POC = 0
    /\ pc \in {"draw", "settle"} => NPO_cur <= NPOmax
    /\ pc = "recall" =>
         /\ index >= 1
         /\ cible = NPO_cur - NPOmax
         /\ LOGP[NOW] = 0
         /\ cumul = cible \/ \A j \in 1 .. index - 1 : LOGP[(NOW + j) % LogSize] = 0

Counts == NoUnitIsLost /\ PlannedAreOut

IInv == Typing /\ LogTyping /\ Untouched /\ AtEachStep /\ Counts /\ NpoIsRespected

\* The data of the cluster.
LEMMA ClusterData ==
  ASSUME cluster \in Clusters, day \in Days
  PROVE  /\ unitCount \in Nat
         /\ NPOmin \in Nat /\ NPOmax \in Nat /\ NPOmin <= NPOmax /\ NPOmax <= unitCount
<1> QED BY ThermalOutagesAssumption DEF unitCount, NPOmin, NPOmax

LEMMA TotalIsInt == \A log \in [Slots -> Int] : Total(log) \in Int
<1> TAKE log \in [Slots -> Int]
<1>1. PICK s : PartialSums(s, log) /\ Total(log) = s[LogSize]
  BY TotalSums
<1> QED BY <1>1, ThermalOutagesAssumption DEF PartialSums

\* The ranges of TypeOK follow from the counts.
LEMMA TypesFromCounts == IInv => TypeOK
<1> SUFFICES ASSUME IInv PROVE TypeOK
  OBVIOUS
<1> USE DEF IInv, Typing, LogTyping, Counts
<1>1. unitCount \in Nat /\ NPOmax \in Nat
  BY ClusterData
<1>2. /\ Total(LOG) \in Nat /\ \A s \in Slots : LOG[s] <= Total(LOG)
      /\ Total(LOGP) \in Nat /\ \A s \in Slots : LOGP[s] <= Total(LOGP)
  BY TotalBounds
<1>3. Total(LOGP) <= Total(LOG)
  <2>1. LOG \in [Slots -> Int] /\ LOGP \in [Slots -> Int]
    OBVIOUS
  <2> QED BY <2>1, TotalMonotone DEF PlannedAreOut
<1>4. AUN + cumul + Total(LOG) <= unitCount
  <2>1. CASE Generating
    BY <2>1, <1>1, <1>2 DEF NoUnitIsLost
  <2>2. CASE ~Generating
    <3>1. AUN = 0 /\ cumul = 0 /\ Total(LOG) = 0
      BY <2>2, TotalOfEmptyLog DEF Untouched, AtEachStep, Generating
    <3> QED BY <3>1, <1>1
  <2> QED BY <2>1, <2>2
<1>5. NPO_cur \in 0 .. unitCount
  BY <1>1, <1>2, <1>3, <1>4 DEF PlannedAreOut
<1>6. cible \in 0 .. unitCount
  BY <1>1, <1>5 DEF AtEachStep
<1>7. AUN \in 0 .. unitCount
  BY <1>1, <1>2, <1>4
<1>8. \A s \in Slots : LOG[s] \in 0 .. unitCount /\ LOGP[s] \in 0 .. unitCount
  BY <1>1, <1>2, <1>3, <1>4
<1> QED BY <1>5, <1>6, <1>7, <1>8 DEF TypeOK

LEMMA InitInvariant == Init => IInv
<1> SUFFICES ASSUME Init PROVE IInv
  OBVIOUS
<1> USE DEF Init
<1>1. /\ 0 \in Slots /\ 0 \in Days /\ 0 \in 0 .. LogSize /\ 0 \in 0 .. NbSeries + 2
      /\ 0 # NbSeries + 2
  BY ThermalOutagesAssumption DEF Slots, Days
<1>2. ~Generating /\ ~Settled
  BY DEF Generating, Settled
<1>3. Typing
  BY <1>1 DEF Typing
<1>4. LogTyping
  BY DEF LogTyping, EmptyLog
<1>5. Untouched /\ AtEachStep /\ NpoIsRespected
  BY <1>1, <1>2 DEF Untouched, AtEachStep, NpoIsRespected, WithinNpo, OwedOnlyWhenBlocked
<1>6. Counts
  BY <1>2, TotalOfEmptyLog DEF Counts, NoUnitIsLost, PlannedAreOut, EmptyLog
<1> QED BY <1>3, <1>4, <1>5, <1>6 DEF IInv

-----------------------------------------------------------------------------
(* Each step preserves the invariant. *)

LEMMA BeginInvariant ==
  ASSUME IInv, NothingToGenerate \/ Begin PROVE IInv'
<1>0. /\ Typing /\ LogTyping /\ Untouched /\ AtEachStep /\ Counts /\ NpoIsRespected
      /\ pc = "begin" /\ pc' \in {"done", "return"}
      /\ UNCHANGED <<cluster, tsIndex, day, NPO_cur, stock, NOW, LOG, LOGP, index, cumul,
                     cible, FOC, POC, FOD_reel, POD_reel>>
      /\ width' \in {1, NbSeries}
  BY DEF IInv, NothingToGenerate, Begin, logs, recall, durations, Typing
<1>1. /\ tsIndex = 0 /\ ~Generating /\ ~Settled /\ ~Settled' /\ 0 # NbSeries + 2
      /\ AUN = 0 /\ NPO_cur = 0 /\ LOG = EmptyLog /\ LOGP = EmptyLog /\ FOC = 0 /\ POC = 0
      /\ cumul = 0 /\ cible = 0 /\ index = 0
  BY <1>0, ThermalOutagesAssumption DEF AtEachStep, Untouched, Generating, Settled
<1>2. /\ NothingToGenerate => AUN' = AUN /\ pc' = "done" /\ ~Generating'
      /\ Begin => AUN' = unitCount /\ pc' = "return" /\ Generating'
  BY <1>1 DEF NothingToGenerate, Begin, Generating
<1>3. unitCount \in Nat /\ unitCount' = unitCount
  BY <1>0, ClusterData DEF Typing, unitCount
<1>4. Typing'
  BY <1>0, <1>1, <1>2, <1>3 DEF Typing
<1>5. LogTyping'
  BY <1>0 DEF LogTyping
<1>6. Untouched' /\ AtEachStep' /\ NpoIsRespected'
  BY <1>0, <1>1, <1>2 DEF Untouched, AtEachStep, NpoIsRespected, WithinNpo, OwedOnlyWhenBlocked
<1>7. Counts'
  BY <1>0, <1>1, <1>2, <1>3, TotalOfEmptyLog
  DEF Counts, NoUnitIsLost, PlannedAreOut, EmptyLog
<1> QED BY <1>4, <1>5, <1>6, <1>7 DEF IInv

LEMMA ReturnInvariant ==
  ASSUME IInv, Return PROVE IInv'
<1>0. /\ Typing /\ LogTyping /\ AtEachStep /\ Counts
      /\ pc = "return" /\ pc' \in {"recall", "draw"}
      /\ UNCHANGED <<cluster, tsIndex, day, width, stock, NOW, cumul, FOC, POC, FOD_reel,
                     POD_reel>>
      /\ AUN' = AUN + LOG[NOW] /\ NPO_cur' = NPO_cur - LOGP[NOW]
      /\ LOG' = [LOG EXCEPT ![NOW] = 0] /\ LOGP' = [LOGP EXCEPT ![NOW] = 0]
  BY DEF IInv, Return, PlannedReturn, recall, durations
<1>1. /\ Generating /\ Generating' /\ ~Settled /\ ~Settled' /\ FOC = 0 /\ POC = 0
      /\ cumul = 0 /\ tsIndex # NbSeries + 2
  BY <1>0 DEF AtEachStep, Generating, Settled
<1>2. /\ unitCount' = unitCount /\ NPOmax' = NPOmax /\ NPOmax \in Nat
      /\ NOW \in Slots /\ LOG[NOW] \in Nat /\ LOGP[NOW] \in Nat
      /\ LOG \in [Slots -> Int] /\ LOGP \in [Slots -> Int]
      /\ 0 \in 0 .. LogSize /\ 1 \in 0 .. LogSize
  BY <1>0, ClusterData, ThermalOutagesAssumption
  DEF Typing, LogTyping, unitCount, NPOmax
<1>3. \/ NPO_cur' > NPOmax /\ pc' = "recall" /\ cible' = NPO_cur' - NPOmax /\ index' = 1
      \/ NPO_cur' <= NPOmax /\ pc' = "draw" /\ cible' = 0 /\ index' = 0
  BY <1>0 DEF Return, recall, AtEachStep
<1>4. Typing'
  <2>1. AUN' \in Nat /\ NPO_cur' \in Int
    BY <1>0, <1>2 DEF Typing
  <2>2. index' \in 0 .. LogSize
    BY <1>2, <1>3
  <2>3. cible' \in Nat
    BY <1>2, <1>3, <2>1
  <2>4. 0 \in 0 .. cible'
    BY <2>3
  <2> QED BY <1>0, <1>1, <2>1, <2>2, <2>3, <2>4 DEF Typing
<1>5. LogTyping'
  BY <1>0, <1>2 DEF LogTyping
<1>6. /\ Total(LOG') = Total(LOG) - LOG[NOW] /\ Total(LOG) \in Int
      /\ Total(LOGP') = Total(LOGP) - LOGP[NOW] /\ Total(LOGP) \in Int
  BY <1>0, <1>2, TotalCleared, TotalIsInt
<1>7. Counts'
  <2>1. NoUnitIsLost'
    BY <1>0, <1>1, <1>2, <1>6 DEF Counts, NoUnitIsLost, Typing
  <2>2. NPO_cur' = Total(LOGP') + cumul'
    BY <1>0, <1>1, <1>2, <1>6 DEF Counts, PlannedAreOut, Typing
  <2>3. \A s \in Slots : LOGP'[s] <= LOG'[s]
    BY <1>0, <1>2 DEF Counts, PlannedAreOut
  <2> QED BY <1>1, <2>1, <2>2, <2>3 DEF Counts, PlannedAreOut
<1>8. Untouched' /\ NpoIsRespected'
  BY <1>1 DEF Untouched, NpoIsRespected, WithinNpo, OwedOnlyWhenBlocked
<1>9. AtEachStep'
  <2>1. LOGP'[NOW'] = 0
    BY <1>0, <1>2
  <2> QED BY <1>0, <1>1, <1>2, <1>3, <2>1 DEF AtEachStep
<1> QED BY <1>4, <1>5, <1>7, <1>8, <1>9 DEF IInv

\* The two ways an iteration of the loop may go: some of the units of a slot come back.
LEMMA RecallCases ==
  ASSUME IInv, Recall
  PROVE  LET slot == (NOW + index) % LogSize IN
         /\ slot \in Slots /\ slot # NOW
         /\ \E units \in 0 .. LOGP[slot] :
              /\ LOGP' = Plus(LOGP, slot, -units)
              /\ LOG' = Plus(LOG, slot, -units)
              /\ cumul' = cumul + units
              /\ cumul' \in 0 .. cible
              /\ cumul' = cible \/ units = LOGP[slot]
<1> DEFINE slot == (NOW + index) % LogSize
<1>0. /\ Typing /\ LogTyping /\ AtEachStep /\ pc = "recall"
      /\ index < LogSize /\ cumul # cible /\ index >= 1
  BY DEF IInv, Recall, AtEachStep
<1>1. slot \in Slots /\ slot # NOW
  <2>1. NOW \in 0 .. LogSize - 1 /\ index \in 1 .. LogSize - 1 /\ LogSize \in Nat
    BY <1>0, ThermalOutagesAssumption DEF Typing, Slots
  <2>2. NOW + index \in Nat /\ NOW + index < 2 * LogSize
    BY <2>1
  <2>3. slot \in Slots /\ (slot = NOW + index \/ slot = NOW + index - LogSize)
    BY <2>1, <2>2, Remainder
  <2> HIDE DEF slot
  <2> QED BY <2>1, <2>3
<1>2. cumul \in Nat /\ cible \in Nat /\ cumul < cible
  BY <1>0 DEF Typing
<1> HIDE DEF slot
<1>3. LOGP[slot] \in Nat
  BY <1>0, <1>1 DEF LogTyping
<1>4. CASE /\ LOGP[slot] + cumul >= cible
           /\ EarlyReturn(slot, cible - cumul)
           /\ cumul' = cible
  <2>1. cible - cumul \in 0 .. LOGP[slot] /\ cumul' = cumul + (cible - cumul)
        /\ cumul' \in 0 .. cible
    BY <1>2, <1>3, <1>4
  <2> QED BY <1>1, <1>4, <2>1 DEF EarlyReturn, slot
<1>5. CASE /\ LOGP[slot] + cumul < cible
           /\ EarlyReturn(slot, LOGP[slot])
           /\ cumul' = cumul + LOGP[slot]
  <2>1. LOGP[slot] \in 0 .. LOGP[slot] /\ cumul' \in 0 .. cible
    BY <1>2, <1>3, <1>5
  <2> QED BY <1>1, <1>5, <2>1 DEF EarlyReturn, slot
<1> QED BY <1>4, <1>5 DEF Recall, slot

LEMMA RecallInvariant ==
  ASSUME IInv, Recall PROVE IInv'
<1> DEFINE slot == (NOW + index) % LogSize
<1>0. /\ Typing /\ LogTyping /\ AtEachStep /\ Counts
      /\ pc = "recall" /\ index < LogSize /\ index' = index + 1 /\ cumul # cible
      /\ UNCHANGED <<cluster, pc, tsIndex, day, width, AUN, NPO_cur, stock, NOW, cible, FOC,
                     POC, FOD_reel, POD_reel>>
  BY DEF IInv, Recall, position, durations
<1>1. slot \in Slots /\ slot # NOW
  BY RecallCases
<1>2. PICK units \in 0 .. LOGP[slot] :
              /\ LOGP' = Plus(LOGP, slot, -units)
              /\ LOG' = Plus(LOG, slot, -units)
              /\ cumul' = cumul + units
              /\ cumul' \in 0 .. cible
              /\ cumul' = cible \/ units = LOGP[slot]
  BY RecallCases
<1>3. /\ Generating /\ Generating' /\ ~Settled /\ ~Settled' /\ FOC = 0 /\ POC = 0
      /\ index >= 1 /\ index \in 1 .. LogSize - 1 /\ LogSize \in Nat /\ NOW \in Nat
  BY <1>0, ThermalOutagesAssumption DEF AtEachStep, Generating, Settled, Typing, Slots
<1> HIDE DEF slot
<1>4. /\ LOG \in [Slots -> Int] /\ LOGP \in [Slots -> Int]
      /\ LOG[slot] \in Nat /\ LOGP[slot] \in Nat /\ units \in Nat /\ -units \in Int
      /\ LOGP[slot] <= LOG[slot]
  BY <1>0, <1>1, <1>2 DEF LogTyping, Counts, PlannedAreOut
<1>5. /\ Total(LOG') = Total(LOG) - units /\ Total(LOG) \in Int
      /\ Total(LOGP') = Total(LOGP) - units /\ Total(LOGP) \in Int
  <2>1. Total(LOG') = Total(LOG) + (-units) /\ Total(LOGP') = Total(LOGP) + (-units)
    BY <1>1, <1>2, <1>4, TotalPlus
  <2> QED BY <1>4, <2>1, TotalIsInt
<1>6. /\ LOG'[slot] = LOG[slot] - units /\ LOGP'[slot] = LOGP[slot] - units
      /\ \A s \in Slots : s # slot => LOG'[s] = LOG[s] /\ LOGP'[s] = LOGP[s]
      /\ DOMAIN LOG' = Slots /\ DOMAIN LOGP' = Slots
      /\ LOG' = [s \in Slots |-> LOG'[s]] /\ LOGP' = [s \in Slots |-> LOGP'[s]]
  BY <1>1, <1>2, <1>4 DEF Plus
<1>7. Typing'
  <2>1. index' \in 0 .. LogSize
    BY <1>0, <1>3
  <2> QED BY <1>0, <1>2, <2>1 DEF Typing
<1>8. LogTyping'
  <2>1. \A s \in Slots : LOG'[s] \in Nat /\ LOGP'[s] \in Nat
    <3> TAKE s \in Slots
    <3>1. CASE s = slot
      BY <1>2, <1>4, <1>6, <3>1
    <3>2. CASE s # slot
      BY <1>0, <1>6, <3>2 DEF LogTyping
    <3> QED BY <3>1, <3>2
  <2> QED BY <1>6, <2>1 DEF LogTyping
<1>9. Counts'
  <2>1. NoUnitIsLost'
    BY <1>0, <1>2, <1>3, <1>4, <1>5 DEF Counts, NoUnitIsLost, Typing, unitCount
  <2>2. NPO_cur' = Total(LOGP') + cumul'
    BY <1>0, <1>2, <1>3, <1>4, <1>5 DEF Counts, PlannedAreOut, Typing
  <2>3. \A s \in Slots : LOGP'[s] <= LOG'[s]
    <3> TAKE s \in Slots
    <3>1. CASE s = slot
      BY <1>2, <1>4, <1>6, <3>1
    <3>2. CASE s # slot
      BY <1>0, <1>6, <3>2 DEF Counts, PlannedAreOut
    <3> QED BY <3>1, <3>2
  <2> QED BY <1>3, <2>1, <2>2, <2>3 DEF Counts, PlannedAreOut
<1>10. Untouched' /\ NpoIsRespected'
  BY <1>3 DEF Untouched, NpoIsRespected, WithinNpo, OwedOnlyWhenBlocked
<1>11. AtEachStep'
  <2>1. LOGP'[NOW'] = 0
    BY <1>0, <1>1, <1>6 DEF AtEachStep, Typing
  <2>2. ASSUME cumul' # cible, NEW j \in 1 .. index' - 1
        PROVE  LOGP'[(NOW' + j) % LogSize] = 0
    <3>1. j \in Nat /\ j >= 1 /\ j <= index /\ NOW + j \in Nat
      BY <1>0, <1>3
    <3>2. (NOW + j) % LogSize \in Slots
      BY <3>1, Remainder
    <3>3. LOGP'[slot] = 0
      BY <1>2, <1>4, <1>6, <2>2
    <3>4. CASE j = index
      BY <1>0, <3>3, <3>4 DEF slot
    <3>5. CASE j # index
      <4>1. j \in 1 .. index - 1
        BY <1>3, <3>1, <3>5
      <4>2. LOGP[(NOW + j) % LogSize] = 0
        BY <1>0, <4>1 DEF AtEachStep
      <4> QED BY <1>0, <1>6, <3>2, <3>3, <4>2
    <3> QED BY <3>4, <3>5
  <2>3. NPOmax' = NPOmax /\ index' >= 1
    BY <1>0, <1>3 DEF NPOmax
  <2> QED BY <1>0, <1>3, <2>1, <2>2, <2>3 DEF AtEachStep
<1> QED BY <1>7, <1>8, <1>9, <1>10, <1>11 DEF IInv

\* The loop that went round the log has found all the planned outages, which are at
\* least those NPOmax asks for.
LEMMA RecallIsComplete ==
  ASSUME IInv, EndRecall PROVE cumul = cible
<1>0. /\ Typing /\ LogTyping /\ AtEachStep /\ Counts
      /\ pc = "recall" /\ (index = LogSize \/ cumul = cible)
  BY DEF IInv, EndRecall
<1>1. SUFFICES ASSUME index = LogSize, cumul # cible PROVE FALSE
  BY <1>0
<1>2. /\ NOW \in 0 .. LogSize - 1 /\ LogSize \in Nat
      /\ cumul \in Nat /\ cible \in Nat /\ cumul < cible /\ NPO_cur \in Int
  BY <1>0, <1>1, ThermalOutagesAssumption DEF Typing, Slots
<1>3. ASSUME NEW s \in Slots PROVE LOGP[s] = EmptyLog[s]
  <2>1. s \in 0 .. LogSize - 1
    BY DEF Slots
  <2>2. CASE s = NOW
    BY <1>0, <2>2 DEF AtEachStep, EmptyLog
  <2>3. CASE s > NOW
    <3>1. /\ s - NOW \in 1 .. LogSize - 1 /\ NOW + (s - NOW) = s
          /\ s \in Nat /\ s < LogSize
      BY <1>2, <2>1, <2>3
    <3>2. (NOW + (s - NOW)) % LogSize = s
      BY <3>1, Remainder
    <3> QED BY <1>0, <1>1, <3>1, <3>2 DEF AtEachStep, EmptyLog
  <2>4. CASE s < NOW
    <3> DEFINE j == s - NOW + LogSize
    <3>1. /\ j \in 1 .. LogSize - 1 /\ NOW + j = s + LogSize
          /\ s + LogSize \in Nat /\ LogSize <= s + LogSize /\ s + LogSize < 2 * LogSize
          /\ (s + LogSize) - LogSize = s
      BY <1>2, <2>1, <2>4
    <3> HIDE DEF j
    <3>2. (NOW + j) % LogSize = s
      BY <3>1, Remainder
    <3> QED BY <1>0, <1>1, <3>1, <3>2 DEF AtEachStep, EmptyLog
  <2> QED BY <1>2, <2>1, <2>2, <2>3, <2>4
<1>4. LOGP = EmptyLog
  BY <1>0, <1>3 DEF LogTyping, EmptyLog
<1>5. NPO_cur = cumul
  BY <1>0, <1>2, <1>4, TotalOfEmptyLog DEF Counts, PlannedAreOut, Settled
<1>6. cible = NPO_cur - NPOmax /\ NPOmax \in Nat
  BY <1>0, ClusterData DEF AtEachStep, Typing
<1> QED BY <1>2, <1>5, <1>6

LEMMA EndRecallInvariant ==
  ASSUME IInv, EndRecall PROVE IInv'
<1>0. /\ Typing /\ LogTyping /\ AtEachStep /\ Counts
      /\ pc = "recall" /\ pc' = "draw" /\ AUN' = AUN + cible /\ NPO_cur' = NPOmax
      /\ index' = 0 /\ cumul' = 0 /\ cible' = 0
      /\ UNCHANGED <<cluster, tsIndex, day, width, stock, NOW, LOG, LOGP, FOC, POC,
                     FOD_reel, POD_reel>>
  BY DEF IInv, EndRecall, logs, durations
<1>1. cumul = cible
  BY RecallIsComplete
<1>2. /\ Generating /\ Generating' /\ ~Settled /\ ~Settled' /\ FOC = 0 /\ POC = 0
      /\ tsIndex # NbSeries + 2 /\ cible = NPO_cur - NPOmax
  BY <1>0 DEF AtEachStep, Generating, Settled
<1>3. /\ unitCount' = unitCount /\ NPOmax' = NPOmax /\ NPOmax \in Nat
      /\ 0 \in 0 .. LogSize /\ 0 \in 0 .. 0 /\ cible \in Nat /\ AUN \in Nat
      /\ AUN' \in Nat /\ 0 \in 0 .. AUN' /\ NPO_cur \in Int
  BY <1>0, ClusterData, ThermalOutagesAssumption DEF Typing, unitCount, NPOmax
<1>4. Typing'
  BY <1>0, <1>2, <1>3 DEF Typing
<1>5. LogTyping'
  BY <1>0 DEF LogTyping
<1>6. Total(LOG) \in Int /\ Total(LOGP) \in Int
  BY <1>0, TotalBounds DEF LogTyping
<1>7. Counts'
  <2>1. NoUnitIsLost'
    BY <1>0, <1>1, <1>2, <1>3, <1>6 DEF Counts, NoUnitIsLost
  <2>2. NPO_cur' = Total(LOGP') + cumul' + 0
    BY <1>0, <1>1, <1>2, <1>3, <1>6 DEF Counts, PlannedAreOut
  <2> QED BY <1>0, <1>2, <2>1, <2>2 DEF Counts, PlannedAreOut
<1>8. Untouched' /\ AtEachStep' /\ NpoIsRespected'
  BY <1>0, <1>2, <1>3
  DEF Untouched, AtEachStep, NpoIsRespected, WithinNpo, OwedOnlyWhenBlocked
<1> QED BY <1>4, <1>5, <1>7, <1>8 DEF IInv

LEMMA DrawInvariant ==
  ASSUME IInv, Draw PROVE IInv'
<1>0. /\ Typing /\ LogTyping /\ AtEachStep /\ Counts
      /\ pc = "draw" /\ pc' = "settle"
      /\ UNCHANGED <<cluster, tsIndex, day, width, AUN, NPO_cur, stock, NOW, LOG, LOGP,
                     index, cumul, cible, FOD_reel, POD_reel>>
  BY DEF IInv, Draw, logs, recall, durations
<1>1. /\ Generating /\ Generating' /\ ~Settled /\ ~Settled'
      /\ tsIndex # NbSeries + 2 /\ cumul = 0 /\ cible = 0 /\ index = 0
      /\ NPO_cur <= NPOmax
  BY <1>0 DEF AtEachStep, Generating, Settled
<1>2. FOC' \in 0 .. AUN /\ POC' \in 0 .. AUN
  <2>1. AUN \in Nat /\ stock \in Int
    BY <1>0 DEF Typing
  <2>2. AvailableForPlanned \in 0 .. AUN
    BY <2>1 DEF AvailableForPlanned
  <2>3. \A n \in 0 .. AvailableForPlanned : n \in 0 .. AUN
    BY <2>1, <2>2
  <2>4. 0 \in 0 .. AUN /\ AUN \in 0 .. AUN
    BY <2>1
  <2>5. FOC' \in 0 .. AUN
    BY <2>4 DEF Draw
  <2>6. POC' \in 0 .. AUN
    BY <2>3, <2>4 DEF Draw
  <2> QED BY <2>5, <2>6
<1>3. unitCount' = unitCount /\ NPOmax' = NPOmax
  BY <1>0 DEF unitCount, NPOmax
<1>4. Typing' /\ LogTyping'
  BY <1>0, <1>2 DEF Typing, LogTyping
<1>5. Counts'
  BY <1>0, <1>1, <1>3 DEF Counts, NoUnitIsLost, PlannedAreOut
<1>6. Untouched' /\ AtEachStep' /\ NpoIsRespected'
  BY <1>0, <1>1, <1>3
  DEF Untouched, AtEachStep, NpoIsRespected, WithinNpo, OwedOnlyWhenBlocked
<1> QED BY <1>4, <1>5, <1>6 DEF IInv

LEMMA CatchUpShape ==
  ASSUME AUN \in Nat, NEW candidat \in Int
  PROVE  LET due == CatchUp(candidat) IN
         /\ due.poc \in 0 .. AUN /\ due.stock \in Int
         /\ due.poc + due.stock = candidat
         /\ due.stock > 0 => due.poc = AUN
<1>1. CASE candidat \in 0 .. AUN
  BY <1>1 DEF CatchUp
<1>2. CASE candidat > AUN
  BY <1>2 DEF CatchUp
<1>3. CASE candidat < 0
  BY <1>3 DEF CatchUp
<1> QED BY <1>1, <1>2, <1>3

\* What settling the day leads to, whichever way it goes.
LEMMA SettleShape ==
  ASSUME IInv, Settle
  PROVE  /\ POC' \in 0 .. AUN /\ stock' \in Int /\ NPO_cur' \in Int
         /\ NPO_cur' = NPO_cur + POC'
         /\ POC' + stock' = POC + stock
         /\ NPO_cur' <= NPOmax
         /\ NPO_cur' >= NPOmin \/ POC' = AUN
         /\ stock' > 0 => NPO_cur' = NPOmax \/ POC' = AUN
<1> DEFINE due == CatchUp(POC + stock)
<1>0. /\ Typing /\ AtEachStep /\ pc = "settle"
  BY DEF IInv, Settle
<1>1. /\ AUN \in Nat /\ NPO_cur \in Int /\ POC \in Int /\ stock \in Int
      /\ POC + stock \in Int /\ NPO_cur <= NPOmax
      /\ NPOmin \in Nat /\ NPOmax \in Nat /\ NPOmin <= NPOmax
  BY <1>0, ClusterData DEF Typing, AtEachStep
<1>2. /\ due.poc \in 0 .. AUN /\ due.stock \in Int
      /\ due.poc + due.stock = POC + stock
      /\ due.stock > 0 => due.poc = AUN
  BY <1>1, CatchUpShape
<1>3. PICK poc \in 0 .. AUN, owed \in Int :
         /\ poc = due.poc /\ owed = due.stock
         /\ poc + owed = POC + stock /\ (owed > 0 => poc = AUN)
  BY <1>2
<1> HIDE DEF due
<1>4. CASE /\ poc + NPO_cur > NPOmax
           /\ stock' = owed + poc + NPO_cur - NPOmax
           /\ POC' = NPOmax - NPO_cur
           /\ NPO_cur' = NPOmax
  BY <1>1, <1>3, <1>4
<1>5. CASE /\ poc + NPO_cur <= NPOmax /\ poc + NPO_cur < NPOmin /\ NPOmin - NPO_cur > AUN
           /\ stock' = owed - (AUN - poc)
           /\ POC' = AUN
           /\ NPO_cur' = NPO_cur + AUN
  BY <1>1, <1>3, <1>5
<1>6. CASE /\ poc + NPO_cur <= NPOmax /\ poc + NPO_cur < NPOmin /\ NPOmin - NPO_cur <= AUN
           /\ stock' = owed - (NPOmin - (poc + NPO_cur))
           /\ POC' = NPOmin - NPO_cur
           /\ NPO_cur' = NPOmin
  BY <1>1, <1>3, <1>6
<1>7. CASE /\ poc + NPO_cur <= NPOmax /\ poc + NPO_cur >= NPOmin
           /\ stock' = owed
           /\ POC' = poc
           /\ NPO_cur' = NPO_cur + poc
  BY <1>1, <1>3, <1>7
<1>8. /\ TooMany(due.poc) <=> poc + NPO_cur > NPOmax
      /\ ~TooMany(due.poc) <=> poc + NPO_cur <= NPOmax
      /\ TooFew(due.poc) <=> poc + NPO_cur < NPOmin
      /\ ~TooFew(due.poc) <=> poc + NPO_cur >= NPOmin
      /\ ShortOfUnits <=> NPOmin - NPO_cur > AUN
      /\ ~ShortOfUnits <=> NPOmin - NPO_cur <= AUN
  BY <1>1, <1>3 DEF TooMany, TooFew, ShortOfUnits
<1> QED BY <1>3, <1>4, <1>5, <1>6, <1>7, <1>8 DEF Settle, due

LEMMA SettleInvariant ==
  ASSUME IInv, Settle PROVE IInv'
<1>0. /\ Typing /\ LogTyping /\ AtEachStep /\ Counts
      /\ pc = "settle" /\ pc' = "durations"
      /\ UNCHANGED <<cluster, tsIndex, day, width, AUN, NOW, LOG, LOGP, index, cumul, cible,
                     FOC, FOD_reel, POD_reel>>
  BY DEF IInv, Settle, logs, recall, durations
<1>1. /\ Generating /\ Generating' /\ ~Settled /\ Settled'
      /\ tsIndex # NbSeries + 2 /\ cumul = 0 /\ cible = 0 /\ index = 0
  BY <1>0 DEF AtEachStep, Generating, Settled
<1>2. /\ POC' \in 0 .. AUN /\ stock' \in Int /\ NPO_cur' \in Int
      /\ NPO_cur' = NPO_cur + POC'
      /\ NPO_cur' <= NPOmax
      /\ NPO_cur' >= NPOmin \/ POC' = AUN
      /\ stock' > 0 => NPO_cur' = NPOmax \/ POC' = AUN
  BY SettleShape
<1>3. unitCount' = unitCount /\ NPOmax' = NPOmax /\ NPOmin' = NPOmin
  BY <1>0 DEF unitCount, NPOmax, NPOmin
<1>4. Typing' /\ LogTyping'
  BY <1>0, <1>2 DEF Typing, LogTyping
<1>5. Counts'
  <2>1. Total(LOGP) \in Int /\ NPO_cur = Total(LOGP) /\ POC' \in Int
    BY <1>0, <1>1, <1>2, TotalBounds DEF Counts, PlannedAreOut, LogTyping
  <2>2. NoUnitIsLost'
    BY <1>0, <1>1, <1>3 DEF Counts, NoUnitIsLost
  <2>3. NPO_cur' = Total(LOGP') + cumul' + POC'
    BY <1>0, <1>1, <1>2, <2>1
  <2>4. \A s \in Slots : LOGP'[s] <= LOG'[s]
    BY <1>0 DEF Counts, PlannedAreOut
  <2>5. PlannedAreOut'
    BY <1>1, <2>3, <2>4 DEF PlannedAreOut
  <2> QED BY <2>2, <2>5 DEF Counts
<1>6. Untouched' /\ AtEachStep'
  BY <1>0, <1>1 DEF Untouched, AtEachStep
<1>7. NpoIsRespected'
  BY <1>0, <1>2, <1>3 DEF NpoIsRespected, WithinNpo, OwedOnlyWhenBlocked
<1> QED BY <1>4, <1>5, <1>6, <1>7 DEF IInv

LEMMA DurationsAreNat ==
  ASSUME NEW law \in Laws, NEW volatile \in BOOLEAN, NEW expec \in Nat \ {0},
         2 * expec < LogSize \div 2
  PROVE  /\ Durations(law, volatile, expec) # {}
         /\ Durations(law, volatile, expec) \subseteq 1 .. Limit
<1>1. /\ LogSize \in Nat /\ LogSize >= 4 /\ LogSize \div 2 \in Nat /\ LogSize \div 2 >= 2
      /\ Limit \in Nat /\ Limit >= 1 /\ 2 * expec <= Limit /\ expec <= Limit
      /\ 2 * expec >= 1
  BY ThermalOutagesAssumption DEF Limit
<1>2. MaxDraw \in Nat /\ MaxDraw >= 1
  BY ThermalOutagesAssumption
<1>3. UniformDurations(expec) = 1 .. 2 * expec
  BY DEF UniformDurations
<1>4. GeometricDurations = {Least(draw, Limit) : draw \in 1 .. MaxDraw}
  BY DEF GeometricDurations
<1>5. \A draw \in 1 .. MaxDraw : Least(draw, Limit) \in 1 .. Limit
  BY <1>1, <1>2 DEF Least
<1>6. GeometricDurations # {} /\ GeometricDurations \subseteq 1 .. Limit
  <2>1. 1 \in 1 .. MaxDraw
    BY <1>2
  <2> QED BY <1>4, <1>5, <2>1
<1>7. UniformDurations(expec) # {} /\ UniformDurations(expec) \subseteq 1 .. Limit
  <2>1. 1 \in 1 .. 2 * expec
    BY <1>1
  <2>2. ASSUME NEW n \in 1 .. 2 * expec PROVE n \in 1 .. Limit
    BY <1>1
  <2> QED BY <1>3, <2>1, <2>2
<1>8. {expec} # {} /\ {expec} \subseteq 1 .. Limit
  BY <1>1
<1> QED BY <1>6, <1>7, <1>8, Zenon DEF Durations

LEMMA DailyDurations ==
  ASSUME cluster \in Clusters, day \in Days
  PROVE  /\ ForcedDurations # {} /\ ForcedDurations \subseteq 1 .. Limit
         /\ PlannedDurations # {} /\ PlannedDurations \subseteq 1 .. Limit
<1>1. /\ cluster.forcedLaw \in Laws /\ cluster.plannedLaw \in Laws
      /\ cluster.forcedVolatile \in BOOLEAN /\ cluster.plannedVolatile \in BOOLEAN
  BY ThermalOutagesAssumption, Zenon
<1>2. /\ cluster.foDuration[day] \in Nat \ {0} /\ 2 * cluster.foDuration[day] < LogSize \div 2
      /\ cluster.poDuration[day] \in Nat \ {0} /\ 2 * cluster.poDuration[day] < LogSize \div 2
  BY ThermalOutagesAssumption
<1> QED BY <1>1, <1>2, DurationsAreNat, Zenon DEF ForcedDurations, PlannedDurations

LEMMA DrawDurationsInvariant ==
  ASSUME IInv, DrawDurations PROVE IInv'
<1>0. /\ Typing /\ LogTyping /\ AtEachStep /\ Counts /\ NpoIsRespected
      /\ pc = "durations" /\ pc' = "record"
      /\ UNCHANGED <<cluster, tsIndex, day, width, AUN, NPO_cur, stock, NOW, LOG, LOGP,
                     index, cumul, cible, FOC, POC>>
  BY DEF IInv, DrawDurations, logs, recall
<1>1. /\ Generating /\ Generating' /\ Settled /\ Settled' /\ tsIndex # NbSeries + 2
      /\ cumul = 0 /\ cible = 0 /\ index = 0
  BY <1>0 DEF AtEachStep, Generating, Settled
<1>2. FOD_reel' \in Nat /\ POD_reel' \in Nat
  <2>1. ForcedDurations \subseteq Nat /\ PlannedDurations \subseteq Nat
    <3>1. 1 .. Limit \subseteq Nat
      BY ThermalOutagesAssumption DEF Limit
    <3> QED BY <1>0, <3>1, DailyDurations DEF Typing
  <2> QED BY <1>0, <2>1 DEF DrawDurations, Typing
<1>3. unitCount' = unitCount /\ NPOmax' = NPOmax /\ NPOmin' = NPOmin
  BY <1>0 DEF unitCount, NPOmax, NPOmin
<1>4. Typing' /\ LogTyping'
  BY <1>0, <1>2 DEF Typing, LogTyping
<1>5. Counts'
  BY <1>0, <1>1, <1>3 DEF Counts, NoUnitIsLost, PlannedAreOut
<1>6. Untouched' /\ AtEachStep'
  BY <1>0, <1>1 DEF Untouched, AtEachStep
<1>7. NpoIsRespected'
  BY <1>0, <1>1, <1>3 DEF NpoIsRespected, WithinNpo, OwedOnlyWhenBlocked
<1> QED BY <1>4, <1>5, <1>6, <1>7 DEF IInv

\* The units that go out, those on planned outage among them.
LEMMA UnitsOut ==
  ASSUME IInv, pc = "record"
  PROVE  /\ PPO \in Nat /\ PFO \in Nat /\ MXO \in Nat
         /\ PPO + PFO + MXO <= AUN
         /\ PPO + MXO = POC
<1>0. AUN \in Nat /\ FOC \in 0 .. AUN /\ POC \in 0 .. AUN /\ unitCount \in Nat
  BY ClusterData DEF IInv, Typing
<1>1. CASE unitCount = 1
  <2>1. AUN \in 0 .. 1
    BY <1>1, TypesFromCounts, ClusterData DEF TypeOK
  <2>2. POC \in {0, 1} /\ FOC \in {0, 1}
    BY <1>0, <2>1
  <2> QED BY <1>0, <1>1, <2>1, <2>2 DEF PPO, PFO, MXO
<1>2. CASE unitCount # 1 /\ AUN = 0
  BY <1>0, <1>2 DEF PPO, PFO, MXO
<1>3. CASE unitCount # 1 /\ AUN # 0
  <2>1. MXO = (POC * FOC) \div AUN /\ PPO = POC - MXO /\ PFO = FOC - MXO
    BY <1>3 DEF PPO, PFO, MXO
  <2>2. MXO \in 0 .. POC /\ MXO \in 0 .. FOC /\ POC + FOC - MXO <= AUN
    BY <1>0, <1>3, <2>1, Overlap
  <2> HIDE DEF PPO, PFO, MXO
  <2> QED BY <1>0, <2>1, <2>2
<1> QED BY <1>1, <1>2, <1>3

LEMMA PlusUnits ==
  ASSUME NEW log \in [Slots -> Nat], NEW at \in Slots, NEW units \in Nat
  PROVE  /\ Plus(log, at, units) \in [Slots -> Nat]
         /\ Total(Plus(log, at, units)) = Total(log) + units
<1>1. log \in [Slots -> Int] /\ units \in Int
  OBVIOUS
<1>2. Plus(log, at, units) \in [Slots -> Nat]
  BY DEF Plus
<1> QED BY <1>1, <1>2, TotalPlus

LEMMA RecordInvariant ==
  ASSUME IInv, Record PROVE IInv'
<1> DEFINE f == Slot(NOW + FOD_reel)
           p == Slot(NOW + POD_reel)
           b == Slot(NOW + POD_reel + FOD_reel)
           afterForced == Plus(LOG, f, PFO)
           afterPlanned == Plus(afterForced, p, PPO)
           plannedAfter == Plus(LOGP, p, PPO)
<1>0. /\ Typing /\ LogTyping /\ AtEachStep /\ Counts /\ NpoIsRespected
      /\ pc = "record" /\ FOC' = 0 /\ POC' = 0
      /\ AUN' = AUN - (PPO + PFO + MXO)
      /\ LOG' = Plus(afterPlanned, b, MXO)
      /\ LOGP' = Plus(plannedAfter, b, MXO)
      /\ NOW' = (NOW + 1) % LogSize
      /\ UNCHANGED <<cluster, width, NPO_cur, stock, index, cumul, cible, FOD_reel, POD_reel>>
  BY DEF IInv, Record, recall, durations
<1>1. f \in Slots /\ p \in Slots /\ b \in Slots /\ NOW' \in Slots
  <2>1. NOW \in Nat /\ FOD_reel \in Nat /\ POD_reel \in Nat
    BY <1>0, ThermalOutagesAssumption DEF Typing, Slots
  <2>2. /\ NOW + FOD_reel \in Nat /\ NOW + POD_reel \in Nat
        /\ NOW + POD_reel + FOD_reel \in Nat /\ NOW + 1 \in Nat
    BY <2>1
  <2>3. \A n \in Nat : n % LogSize \in Slots /\ Slot(n) = n % LogSize
    BY Remainder DEF Slot
  <2> QED BY <1>0, <2>2, <2>3
<1> HIDE DEF f, p, b
<1>2. /\ PPO \in Nat /\ PFO \in Nat /\ MXO \in Nat
      /\ PPO + PFO + MXO <= AUN
      /\ PPO + MXO = POC
  BY <1>0, UnitsOut
<1> HIDE DEF PPO, PFO, MXO
<1>3. /\ afterForced \in [Slots -> Nat] /\ Total(afterForced) = Total(LOG) + PFO
      /\ plannedAfter \in [Slots -> Nat] /\ Total(plannedAfter) = Total(LOGP) + PPO
  BY <1>0, <1>1, <1>2, PlusUnits DEF LogTyping
<1>4. afterPlanned \in [Slots -> Nat] /\ Total(afterPlanned) = Total(afterForced) + PPO
  <2> HIDE DEF afterForced
  <2> QED BY <1>1, <1>2, <1>3, PlusUnits
<1>5. /\ \A s \in Slots : LOGP'[s] <= LOG'[s]
  BY <1>0, <1>1, <1>2 DEF Plus, LogTyping, Counts, PlannedAreOut
<1>6. /\ LogTyping'
      /\ Total(LOG') = Total(afterPlanned) + MXO /\ Total(LOGP') = Total(plannedAfter) + MXO
  <2> HIDE DEF afterPlanned, plannedAfter
  <2> QED BY <1>0, <1>1, <1>2, <1>3, <1>4, PlusUnits DEF LogTyping
<1>7. /\ Total(LOG') = Total(LOG) + (PPO + PFO + MXO) /\ Total(LOG) \in Nat
      /\ Total(LOGP') = Total(LOGP) + POC /\ Total(LOGP) \in Nat
  <2>1. Total(LOG) \in Nat /\ Total(LOGP) \in Nat
    BY <1>0, TotalBounds DEF LogTyping
  <2> HIDE DEF afterForced, afterPlanned, plannedAfter
  <2> QED BY <1>2, <1>3, <1>4, <1>6, <2>1
<1>8. /\ \/ /\ day' = day + 1 /\ day + 1 < DaysPerYear /\ tsIndex' = tsIndex
            /\ pc' = "return"
         \/ /\ day' = 0 /\ tsIndex' = tsIndex + 1 /\ tsIndex' # NbSeries + 2
            /\ pc' = "return"
         \/ /\ day' = 0 /\ tsIndex' = NbSeries + 2 /\ tsIndex' = tsIndex + 1
            /\ pc' = "done"
      /\ tsIndex # NbSeries + 2
  BY <1>0 DEF Record, AtEachStep
<1>9. /\ day' \in Days /\ tsIndex' \in 0 .. NbSeries + 2
      /\ Generating /\ Generating' /\ Settled /\ ~Settled' /\ pc' \in {"return", "done"}
      /\ tsIndex' = NbSeries + 2 => pc' = "done"
  BY <1>0, <1>8, ThermalOutagesAssumption DEF Typing, Days, Generating, Settled
<1>10. AUN' \in Nat /\ 0 \in 0 .. AUN'
  BY <1>0, <1>2 DEF Typing
<1>11. Typing'
  BY <1>0, <1>1, <1>9, <1>10 DEF Typing
<1>12. Counts'
  <2>1. cumul = 0 /\ AUN \in Nat /\ unitCount' = unitCount
    BY <1>0 DEF AtEachStep, Typing, unitCount
  <2>2. AUN + cumul + Total(LOG) = unitCount
    BY <1>0, <1>9 DEF Counts, NoUnitIsLost
  <2>3. AUN' + cumul' + Total(LOG') = unitCount'
    BY <1>0, <1>2, <1>7, <2>1, <2>2
  <2>4. POC \in Nat /\ NPO_cur = Total(LOGP) + cumul + POC
    BY <1>0, <1>2, <1>9 DEF Counts, PlannedAreOut
  <2>5. NPO_cur' = Total(LOGP') + cumul' + 0
    BY <1>0, <1>7, <2>1, <2>4
  <2> QED BY <1>5, <1>9, <2>3, <2>5 DEF Counts, NoUnitIsLost, PlannedAreOut
<1>13. Untouched' /\ AtEachStep' /\ NpoIsRespected'
  BY <1>0, <1>8, <1>9
  DEF Untouched, AtEachStep, NpoIsRespected, WithinNpo, OwedOnlyWhenBlocked
<1> QED BY <1>6, <1>11, <1>12, <1>13 DEF IInv

-----------------------------------------------------------------------------
(* The theorems. *)

LEMMA StepInvariant ==
  IInv /\ [Next]_vars => IInv'
<1> SUFFICES ASSUME IInv, [Next]_vars PROVE IInv'
  OBVIOUS
<1>1. CASE NothingToGenerate \/ Begin
  BY <1>1, BeginInvariant
<1>2. CASE Return
  BY <1>2, ReturnInvariant
<1>3. CASE Recall
  BY <1>3, RecallInvariant
<1>4. CASE EndRecall
  BY <1>4, EndRecallInvariant
<1>5. CASE Draw
  BY <1>5, DrawInvariant
<1>6. CASE Settle
  BY <1>6, SettleInvariant
<1>7. CASE DrawDurations
  BY <1>7, DrawDurationsInvariant
<1>8. CASE Record
  BY <1>8, RecordInvariant
<1>9. CASE UNCHANGED vars
  BY <1>9 DEF vars, position, logs, recall, durations, IInv, Typing, LogTyping, Untouched,
     AtEachStep, Counts, NpoIsRespected, NoUnitIsLost, PlannedAreOut, WithinNpo,
     OwedOnlyWhenBlocked, Generating, Settled, unitCount, NPOmin, NPOmax
<1> QED BY <1>1, <1>2, <1>3, <1>4, <1>5, <1>6, <1>7, <1>8, <1>9 DEF Next

LEMMA Invariance == Spec => []IInv
<1>1. Init => IInv
  BY InitInvariant
<1>2. IInv /\ [Next]_vars => IInv'
  BY StepInvariant
<1> QED BY <1>1, <1>2, PTL DEF Spec

\* Types and ranges: AUN, the index of the tables of probabilities, stays within the fleet.
THEOREM TypeCorrect == Spec => []TypeOK
<1>1. IInv => TypeOK
  BY TypesFromCounts
<1> QED BY <1>1, Invariance, PTL

\* No unit is lost or counted twice, for any log, fleet, data and draws of the generator.
THEOREM UnitsAreConserved == Spec => []NoUnitIsLost
<1>1. IInv => NoUnitIsLost
  BY DEF IInv, Counts
<1> QED BY <1>1, Invariance, PTL

\* The count of planned outages is that of the log at all times.
THEOREM PlannedOutagesAreCounted == Spec => []PlannedAreOut
<1>1. IInv => PlannedAreOut
  BY DEF IInv, Counts
<1> QED BY <1>1, Invariance, PTL

\* NPOmax is never exceeded, NPOmin is reached as far as there are units.
THEOREM NpoIsKept == Spec => []NpoIsRespected
<1>1. IInv => NpoIsRespected
  BY DEF IInv
<1> QED BY <1>1, Invariance, PTL

\* A planned outage that was drawn begins, is owed or was done ahead, in each settlement.
THEOREM StockIsBalanced == Spec => StockBalances
<1>1. IInv /\ [Next]_vars => [pc = "settle" => POC' + stock' = POC + stock]_vars
  <2> SUFFICES ASSUME IInv, Next, pc = "settle" PROVE POC' + stock' = POC + stock
    BY Zenon
  <2>1. Settle
    BY DEF Next, NothingToGenerate, Begin, Return, Recall, EndRecall, Draw, DrawDurations,
       Record
  <2> QED BY <2>1, SettleShape
<1> QED BY <1>1, Invariance, PTL DEF Spec, StockBalances

-----------------------------------------------------------------------------
(* The log implements the calendar. *)

\* Today's units came back, and the durations are those of the outages of the day.
TodayIsClear ==
    /\ pc \in {"recall", "draw", "settle", "durations", "record"} =>
         LOG[NOW] = 0 /\ LOGP[NOW] = 0
    /\ pc = "record" => /\ NeedsForced => FOD_reel \in ForcedDurations
                        /\ NeedsPlanned => POD_reel \in PlannedDurations

LEMMA TodayInit == Init => TodayIsClear
<1> QED BY DEF Init, TodayIsClear

LEMMA TodayStep == IInv /\ TodayIsClear /\ [Next]_vars => TodayIsClear'
<1> SUFFICES ASSUME IInv, TodayIsClear, [Next]_vars PROVE TodayIsClear'
  OBVIOUS
<1>0. Typing /\ LogTyping /\ NOW \in Slots
  BY DEF IInv, Typing
<1>1. CASE NothingToGenerate \/ Begin
  BY <1>1 DEF NothingToGenerate, Begin, TodayIsClear
<1>2. CASE Return
  BY <1>0, <1>2 DEF Return, PlannedReturn, TodayIsClear, LogTyping
<1>3. CASE Recall
  <2>1. PICK slot \in Slots, units \in Int :
              /\ slot # NOW
              /\ LOGP' = Plus(LOGP, slot, units)
              /\ LOG' = Plus(LOG, slot, units)
    <3>1. \A s \in Slots : \A units \in 0 .. LOGP[s] : -units \in Int
      BY <1>0 DEF LogTyping
    <3> QED BY <1>3, <3>1, RecallCases
  <2>2. LOG'[NOW] = LOG[NOW] /\ LOGP'[NOW] = LOGP[NOW]
    BY <1>0, <2>1 DEF Plus
  <2> QED BY <1>3, <2>2 DEF Recall, TodayIsClear, position
<1>4. CASE EndRecall
  BY <1>4 DEF EndRecall, TodayIsClear, logs
<1>5. CASE Draw \/ Settle
  BY <1>5 DEF Draw, Settle, TodayIsClear, logs
<1>6. CASE DrawDurations
  <2>1. /\ LOG' = LOG /\ LOGP' = LOGP /\ NOW' = NOW
        /\ NeedsForced' = NeedsForced /\ NeedsPlanned' = NeedsPlanned
        /\ ForcedDurations' = ForcedDurations /\ PlannedDurations' = PlannedDurations
    BY <1>6 DEF DrawDurations, logs, NeedsForced, NeedsPlanned, PFO, PPO, MXO, unitCount,
       ForcedDurations, PlannedDurations
  <2>2. /\ NeedsForced => FOD_reel' \in ForcedDurations
        /\ NeedsPlanned => POD_reel' \in PlannedDurations
        /\ pc = "durations"
    BY <1>6, Zenon DEF DrawDurations
  <2>3. LOG[NOW] = 0 /\ LOGP[NOW] = 0
    BY <2>2 DEF TodayIsClear
  <2> HIDE DEF NeedsForced, NeedsPlanned, ForcedDurations, PlannedDurations
  <2> QED BY <2>1, <2>2, <2>3, Zenon DEF TodayIsClear
<1>7. CASE Record
  <2>1. pc' \in {"return", "done"}
    BY <1>7 DEF Record
  <2> QED BY <2>1 DEF TodayIsClear
<1>8. CASE UNCHANGED vars
  BY <1>8 DEF vars, position, logs, durations, TodayIsClear, NeedsForced, NeedsPlanned, PFO,
     PPO, MXO, unitCount, ForcedDurations, PlannedDurations
<1> QED BY <1>1, <1>2, <1>3, <1>4, <1>5, <1>6, <1>7, <1>8 DEF Next

\* Different days ahead, up to the size of the log, have different slots.
LEMMA OneSlotPerDay ==
  ASSUME NOW \in Slots, NEW j \in 0 .. LogSize - 1, NEW k \in 0 .. LogSize - 1
  PROVE  /\ (NOW + j) % LogSize \in Slots
         /\ (NOW + j) % LogSize = (NOW + k) % LogSize <=> j = k
         /\ NOW % LogSize = NOW
<1>1. /\ LogSize \in Nat /\ NOW \in Nat /\ NOW < LogSize /\ j \in Nat /\ k \in Nat
      /\ j < LogSize /\ k < LogSize
      /\ NOW + j \in Nat /\ NOW + k \in Nat /\ NOW + j < 2 * LogSize /\ NOW + k < 2 * LogSize
  BY ThermalOutagesAssumption DEF Slots
<1>20. \A n \in Nat : n < 2 * LogSize =>
         n % LogSize = IF n < LogSize THEN n ELSE n - LogSize
  <2> TAKE n \in Nat
  <2>1. CASE n < LogSize
    BY <2>1, Remainder
  <2>2. CASE n >= LogSize
    BY <1>1, <2>2, Remainder
  <2> QED BY <1>1, <2>1, <2>2
<1>2. /\ (NOW + j) % LogSize = IF NOW + j < LogSize THEN NOW + j ELSE NOW + j - LogSize
      /\ (NOW + k) % LogSize = IF NOW + k < LogSize THEN NOW + k ELSE NOW + k - LogSize
      /\ (NOW + j) % LogSize \in Slots /\ NOW % LogSize = NOW
  BY <1>1, <1>20, Remainder
<1> DEFINE a == (NOW + j) % LogSize
           b == (NOW + k) % LogSize
<1>3. /\ a = IF NOW + j < LogSize THEN NOW + j ELSE NOW + j - LogSize
      /\ b = IF NOW + k < LogSize THEN NOW + k ELSE NOW + k - LogSize
  BY <1>2
<1> HIDE DEF a, b
<1>4. a = b <=> j = k
  BY <1>1, <1>3
<1> QED BY <1>2, <1>4 DEF a, b

\* The next day begins with the slot that follows.
LEMMA SlotTomorrow ==
  ASSUME NOW \in Slots, NEW k \in 0 .. LogSize - 1
  PROVE  /\ (((NOW + 1) % LogSize) + k) % LogSize = (NOW + (k + 1)) % LogSize
         /\ (NOW + LogSize) % LogSize = NOW
<1>1. /\ LogSize \in Nat /\ LogSize >= 4 /\ NOW \in Nat /\ NOW < LogSize /\ k \in Nat /\ k < LogSize
  BY ThermalOutagesAssumption DEF Slots
<1>2. (NOW + LogSize) % LogSize = NOW
  BY <1>1, Remainder
<1>3. CASE NOW + 1 < LogSize
  <2>1. (NOW + 1) % LogSize = NOW + 1
    BY <1>1, <1>3, Remainder
  <2>2. NOW + 1 + k = NOW + (k + 1)
    BY <1>1
  <2> QED BY <1>2, <2>1, <2>2
<1>4. CASE NOW + 1 = LogSize
  <2>1. (NOW + 1) % LogSize = 0
    BY <1>1, <1>4, Remainder
  <2>2. /\ 0 + k = k /\ k % LogSize = k
        /\ NOW + (k + 1) = k + LogSize /\ k + LogSize \in Nat /\ LogSize <= k + LogSize
        /\ k + LogSize < 2 * LogSize /\ (k + LogSize) - LogSize = k
    BY <1>1, <1>4, Remainder
  <2>3. (k + LogSize) % LogSize = k
    BY <2>2, Remainder
  <2> QED BY <1>2, <2>1, <2>2, <2>3
<1> QED BY <1>1, <1>3, <1>4

LEMMA CalendarInit == Init => Calendar!Init
<1> SUFFICES ASSUME Init PROVE Calendar!Init
  OBVIOUS
<1>1. ~Generating /\ unitCount \in Nat
  BY ThermalOutagesAssumption DEF Init, Generating, unitCount
<1>2. /\ NOW \in Slots /\ LogSize \in Nat /\ LOG = EmptyLog /\ LOGP = EmptyLog
  BY ThermalOutagesAssumption DEF Init, Slots
<1>3. \A k \in 0 .. 2 * LogSize : k < LogSize => EmptyLog[(NOW + k) % LogSize] = 0
  <2> TAKE k \in 0 .. 2 * LogSize
  <2> HAVE k < LogSize
  <2>1. NOW + k \in Nat
    BY <1>2 DEF Slots
  <2> QED BY <2>1, Remainder DEF EmptyLog
<1>4. FromToday(LOG) = [k \in 0 .. 2 * LogSize |-> 0]
      /\ FromToday(LOGP) = [k \in 0 .. 2 * LogSize |-> 0]
  BY <1>2, <1>3 DEF FromToday
<1> QED BY <1>1, <1>4 DEF Calendar!Init, Calendar!Offsets

\* What the calendar shows for a day is what the log holds in its slot.
LEMMA FromTodayAt ==
  ASSUME NEW log, NEW k \in 0 .. 2 * LogSize
  PROVE  /\ k < LogSize => FromToday(log)[k] = log[(NOW + k) % LogSize]
         /\ k >= LogSize => FromToday(log)[k] = 0
<1> QED BY ThermalOutagesAssumption DEF FromToday

LEMMA CalendarComeBack ==
  ASSUME IInv, Return PROVE Calendar!ComeBack
<1>0. /\ Typing /\ LogTyping /\ AtEachStep /\ pc = "return" /\ NOW \in Slots
      /\ pc' \in {"recall", "draw"}
      /\ UNCHANGED <<cluster, tsIndex, day, NOW, cumul>>
      /\ AUN' = AUN + LOG[NOW] /\ cumul = 0
      /\ LOG' = [LOG EXCEPT ![NOW] = 0] /\ LOGP' = [LOGP EXCEPT ![NOW] = 0]
  BY DEF IInv, Return, PlannedReturn, recall, Typing, AtEachStep
<1>1. Generating /\ Generating'
  BY <1>0 DEF Generating
<1>2. LogSize \in Nat /\ LogSize >= 4 /\ 0 \in 0 .. LogSize - 1 /\ 0 \in 0 .. 2 * LogSize
      /\ 0 < LogSize /\ NOW + 0 = NOW
  BY <1>0, ThermalOutagesAssumption DEF Slots
<1>3. \A log : FromToday(log)[0] = log[NOW]
  <2> TAKE log
  <2>1. (NOW + 0) % LogSize = NOW
    BY <1>0, <1>2, OneSlotPerDay
  <2> QED BY <1>2, <2>1, FromTodayAt
<1>4. ASSUME NEW log \in [Slots -> Nat]
      PROVE  [k \in 0 .. 2 * LogSize |->
                IF k < LogSize THEN [log EXCEPT ![NOW] = 0][(NOW + k) % LogSize] ELSE 0]
             = [FromToday(log) EXCEPT ![0] = 0]
  <2>1. ASSUME NEW k \in 0 .. 2 * LogSize, k < LogSize
        PROVE  [log EXCEPT ![NOW] = 0][(NOW + k) % LogSize]
               = IF k = 0 THEN 0 ELSE log[(NOW + k) % LogSize]
    <3>1. k \in 0 .. LogSize - 1
      BY <1>2, <2>1
    <3>2. /\ (NOW + k) % LogSize \in Slots
          /\ (NOW + k) % LogSize = NOW <=> k = 0
      <4>1. (NOW + 0) % LogSize = NOW
        BY <1>0, <1>2, OneSlotPerDay
      <4>2. /\ (NOW + k) % LogSize \in Slots
            /\ (NOW + k) % LogSize = (NOW + 0) % LogSize <=> k = 0
        BY <1>0, <1>2, <3>1, OneSlotPerDay
      <4> QED BY <4>1, <4>2, Zenon
    <3> QED BY <1>0, <3>2
  <2> QED BY <1>2, <2>1 DEF FromToday
<1>5. FromToday(LOG)' = [FromToday(LOG) EXCEPT ![0] = 0]
      /\ FromToday(LOGP)' = [FromToday(LOGP) EXCEPT ![0] = 0]
  <2>1. /\ FromToday(LOG)' =
             [k \in 0 .. 2 * LogSize |->
                IF k < LogSize THEN [LOG EXCEPT ![NOW] = 0][(NOW + k) % LogSize] ELSE 0]
        /\ FromToday(LOGP)' =
             [k \in 0 .. 2 * LogSize |->
                IF k < LogSize THEN [LOGP EXCEPT ![NOW] = 0][(NOW + k) % LogSize] ELSE 0]
    BY <1>0 DEF FromToday
  <2> QED BY <1>0, <1>4, <2>1, Zenon DEF LogTyping
<1>6. AUN' + cumul' = AUN + cumul + FromToday(LOG)[0]
  <2>1. LOG[NOW] \in Nat /\ AUN \in Nat
    BY <1>0 DEF Typing, LogTyping
  <2> QED BY <1>0, <1>3, <2>1
<1>7. ForcedDurations' = ForcedDurations /\ PlannedDurations' = PlannedDurations
  BY <1>0 DEF ForcedDurations, PlannedDurations
<1> QED BY <1>1, <1>5, <1>6, <1>7, Zenon DEF Calendar!ComeBack

LEMMA NoneTaken ==
  ASSUME NEW S, NEW f, f = [k \in S |-> f[k]], NEW i \in S, f[i] \in Nat
  PROVE  [f EXCEPT ![i] = @ - 0] = f
<1>1. f[i] - 0 = f[i]
  OBVIOUS
<1> QED BY <1>1, Zenon

LEMMA CalendarRecall ==
  ASSUME IInv, TodayIsClear, Recall
  PROVE  Calendar!Recall \/ UNCHANGED Calendar!vars
<1> DEFINE slot == (NOW + index) % LogSize
<1>0. /\ Typing /\ LogTyping /\ AtEachStep /\ pc = "recall" /\ NOW \in Slots
      /\ index < LogSize /\ cumul # cible /\ index >= 1 /\ Generating /\ Generating'
      /\ LOGP[NOW] = 0
      /\ UNCHANGED <<cluster, tsIndex, day, AUN, NOW>>
  BY DEF IInv, Recall, Typing, AtEachStep, Generating, position
<1>1. /\ LogSize \in Nat /\ LogSize >= 4 /\ index \in 0 .. LogSize - 1
      /\ index \in 0 .. 2 * LogSize /\ 0 \in 0 .. LogSize - 1
  BY <1>0, ThermalOutagesAssumption DEF Typing
<1>2. slot \in Slots
  BY RecallCases
<1>3. PICK units \in 0 .. LOGP[slot] :
              /\ LOGP' = Plus(LOGP, slot, -units)
              /\ LOG' = Plus(LOG, slot, -units)
              /\ cumul' = cumul + units
  BY RecallCases
<1>4. \A k \in 0 .. LogSize - 1 : /\ (NOW + k) % LogSize \in Slots
                                  /\ (NOW + k) % LogSize = slot <=> k = index
  BY <1>0, <1>1, OneSlotPerDay, Zenon
<1> HIDE DEF slot
<1>5. LOGP[slot] \in Nat /\ units \in Nat
  BY <1>0, <1>2 DEF LogTyping
<1>6. ForcedDurations' = ForcedDurations /\ PlannedDurations' = PlannedDurations
  BY <1>0 DEF ForcedDurations, PlannedDurations
<1>7. ASSUME NEW log \in [Slots -> Nat]
      PROVE  [k \in 0 .. 2 * LogSize |->
                IF k < LogSize THEN Plus(log, slot, -units)[(NOW + k) % LogSize] ELSE 0]
             = [FromToday(log) EXCEPT ![index] = @ - units]
  <2>1. ASSUME NEW k \in 0 .. 2 * LogSize, k < LogSize
        PROVE  Plus(log, slot, -units)[(NOW + k) % LogSize]
               = IF k = index THEN log[(NOW + k) % LogSize] - units
                 ELSE log[(NOW + k) % LogSize]
    <3>1. k \in 0 .. LogSize - 1
      BY <1>1, <2>1
    <3>2. (NOW + k) % LogSize \in Slots /\ ((NOW + k) % LogSize = slot <=> k = index)
      BY <1>4, <3>1
    <3>3. log[(NOW + k) % LogSize] \in Nat
      BY <3>2
    <3> QED BY <1>5, <3>2, <3>3 DEF Plus
  <2> DEFINE seen == FromToday(log)
             lhs == [k \in 0 .. 2 * LogSize |->
                       IF k < LogSize THEN Plus(log, slot, -units)[(NOW + k) % LogSize] ELSE 0]
  <2>2. seen = [k \in 0 .. 2 * LogSize |-> seen[k]]
    BY DEF FromToday
  <2>3. \A k \in 0 .. 2 * LogSize :
          lhs[k] = IF k = index THEN seen[k] - units ELSE seen[k]
    <3> TAKE k \in 0 .. 2 * LogSize
    <3>1. CASE k < LogSize
      BY <2>1, <3>1, FromTodayAt
    <3>2. CASE k >= LogSize
      BY <1>1, <3>2, FromTodayAt
    <3> QED BY <1>1, <3>1, <3>2
  <2>4. lhs = [k \in 0 .. 2 * LogSize |-> lhs[k]]
    OBVIOUS
  <2> HIDE DEF seen, lhs
  <2>5. lhs = [seen EXCEPT ![index] = @ - units]
    BY <1>1, <2>2, <2>3, <2>4
  <2> QED BY <2>5 DEF seen, lhs
<1>8. /\ FromToday(LOG)' = [FromToday(LOG) EXCEPT ![index] = @ - units]
      /\ FromToday(LOGP)' = [FromToday(LOGP) EXCEPT ![index] = @ - units]
  <2>1. /\ FromToday(LOG)' =
             [k \in 0 .. 2 * LogSize |->
                IF k < LogSize THEN Plus(LOG, slot, -units)[(NOW + k) % LogSize] ELSE 0]
        /\ FromToday(LOGP)' =
             [k \in 0 .. 2 * LogSize |->
                IF k < LogSize THEN Plus(LOGP, slot, -units)[(NOW + k) % LogSize] ELSE 0]
    BY <1>0, <1>3 DEF FromToday
  <2> QED BY <1>0, <1>7, <2>1, Zenon DEF LogTyping
<1>9. AUN' + cumul' = AUN + cumul + units
  BY <1>0, <1>3, <1>5 DEF Typing
<1>10. CASE units = 0
  <2>1. /\ [FromToday(LOG) EXCEPT ![index] = @ - 0] = FromToday(LOG)
        /\ [FromToday(LOGP) EXCEPT ![index] = @ - 0] = FromToday(LOGP)
    <3>1. /\ LOG[(NOW + index) % LogSize] \in Nat /\ LOGP[(NOW + index) % LogSize] \in Nat
      BY <1>0, <1>2 DEF LogTyping, slot
    <3>2. FromToday(LOG)[index] \in Nat /\ FromToday(LOGP)[index] \in Nat
      BY <1>0, <1>1, <3>1, FromTodayAt
    <3>3. /\ FromToday(LOG) = [k \in 0 .. 2 * LogSize |-> FromToday(LOG)[k]]
          /\ FromToday(LOGP) = [k \in 0 .. 2 * LogSize |-> FromToday(LOGP)[k]]
      BY DEF FromToday
    <3> QED BY <1>1, <3>2, <3>3, NoneTaken, Zenon
  <2>2. AUN' + cumul' = AUN + cumul
    BY <1>0, <1>9, <1>10 DEF Typing
  <2> QED BY <1>0, <1>6, <1>8, <1>10, <2>1, <2>2, Zenon DEF Calendar!vars
<1>11. CASE units # 0
  <2>1. FromToday(LOGP)[index] = LOGP[slot]
    BY <1>0, <1>1, FromTodayAt DEF slot
  <2>2. units \in 1 .. FromToday(LOGP)[index]
    BY <1>5, <1>11, <2>1
  <2>3. ASSUME NEW sooner \in 0 .. index - 1
        PROVE  FromToday(LOGP)[sooner] = 0
    <3>1. sooner \in 0 .. 2 * LogSize /\ sooner < LogSize
      BY <1>0, <1>1
    <3>2. CASE sooner = 0
      <4>1. NOW + 0 = NOW
        BY <1>0 DEF Slots
      <4>2. (NOW + 0) % LogSize = NOW
        BY <1>0, <1>1, <4>1, OneSlotPerDay
      <4> QED BY <1>0, <3>1, <3>2, <4>2, FromTodayAt
    <3>3. CASE sooner # 0
      <4>1. sooner \in 1 .. index - 1
        BY <1>1, <3>3
      <4> QED BY <1>0, <3>1, <4>1, FromTodayAt DEF AtEachStep
    <3> QED BY <3>2, <3>3
  <2>4. index \in Calendar!Offsets
    BY <1>1 DEF Calendar!Offsets
  <2>5. Calendar!Recall
    BY <1>0, <1>6, <1>8, <1>9, <2>2, <2>3, <2>4, Zenon DEF Calendar!Recall
  <2> QED BY <2>5
<1> QED BY <1>10, <1>11

LEMMA CalendarStutter ==
  ASSUME IInv, \/ NothingToGenerate \/ Begin \/ EndRecall \/ Draw \/ Settle \/ DrawDurations
               \/ UNCHANGED vars
  PROVE  UNCHANGED Calendar!vars
<1>0. /\ UNCHANGED <<cluster, tsIndex, day, NOW, LOG, LOGP>>
  BY DEF NothingToGenerate, Begin, EndRecall, Draw, Settle, DrawDurations, vars, logs, position
<1>1. /\ FromToday(LOG)' = FromToday(LOG) /\ FromToday(LOGP)' = FromToday(LOGP)
      /\ ForcedDurations' = ForcedDurations /\ PlannedDurations' = PlannedDurations
      /\ unitCount' = unitCount
  BY <1>0 DEF FromToday, ForcedDurations, PlannedDurations, unitCount
<1>2. (IF Generating THEN AUN + cumul ELSE unitCount)'
      = IF Generating THEN AUN + cumul ELSE unitCount
  <2>0. Typing /\ AtEachStep
    BY DEF IInv
  <2>1. CASE NothingToGenerate
    <3>1. ~Generating /\ ~Generating'
      BY <2>0, <2>1, ThermalOutagesAssumption
      DEF NothingToGenerate, Generating, AtEachStep, Typing
    <3> QED BY <1>1, <3>1
  <2>2. CASE Begin
    <3>1. ~Generating /\ Generating' /\ AUN' = unitCount /\ cumul' = 0
      BY <2>0, <2>2 DEF Begin, Generating, AtEachStep, recall
    <3>2. unitCount \in Nat
      BY <2>0, ClusterData DEF Typing
    <3> QED BY <1>1, <3>1, <3>2
  <2>3. CASE EndRecall
    <3>1. Generating /\ Generating' /\ AUN' = AUN + cible /\ cumul' = 0
      BY <2>3 DEF EndRecall, Generating
    <3>2. cumul = cible /\ AUN \in Nat /\ cible \in Nat
      BY <2>0, <2>3, RecallIsComplete DEF Typing
    <3> QED BY <3>1, <3>2
  <2>4. CASE Draw \/ Settle \/ DrawDurations
    <3>1. Generating /\ Generating' /\ AUN' = AUN /\ cumul' = cumul
      BY <2>4 DEF Draw, Settle, DrawDurations, Generating, recall
    <3> QED BY <3>1
  <2>5. CASE UNCHANGED vars
    <3>1. AUN' = AUN /\ cumul' = cumul /\ pc' = pc /\ tsIndex' = tsIndex
      BY <2>5 DEF vars, position, recall
    <3> QED BY <1>1, <3>1 DEF Generating
  <2> QED BY <2>1, <2>2, <2>3, <2>4, <2>5
<1> QED BY <1>1, <1>2, Zenon DEF Calendar!vars

\* The slots the outages of the day end in are those of their last day.
LEMMA CalendarNextDay ==
  ASSUME IInv, TodayIsClear, Record
  PROVE  Calendar!NextDay
<1>0. /\ Typing /\ LogTyping /\ AtEachStep /\ pc = "record" /\ NOW \in Slots
      /\ AUN' = AUN - (PPO + PFO + MXO) /\ cumul' = cumul /\ cumul = 0
      /\ NOW' = (NOW + 1) % LogSize
      /\ LOG[NOW] = 0 /\ LOGP[NOW] = 0 /\ Generating /\ AUN \in Nat
  BY DEF IInv, Record, Typing, AtEachStep, Generating, TodayIsClear, recall
<1>1. Generating'
  <2>1. pc' = "return" \/ tsIndex' > 0
    BY <1>0 DEF Record, Typing
  <2> QED BY <2>1 DEF Generating
<1>2. /\ LogSize \in Nat /\ LogSize >= 4 /\ 0 \in 0 .. LogSize - 1 /\ NOW + 0 = NOW
      /\ NOW \in Nat /\ NOW < LogSize /\ Limit \in Nat /\ 2 * Limit <= LogSize - 1
      /\ 0 \in 0 .. 2 * LogSize /\ 0 < LogSize
  BY <1>0, ThermalOutagesAssumption DEF Slots, Limit
<1>3. /\ PPO \in Nat /\ PFO \in Nat /\ MXO \in Nat
      /\ PPO + PFO + MXO <= AUN
  BY <1>0, UnitsOut
<1>4. /\ MXO = 0 => (~NeedsForced <=> PFO = 0) /\ (~NeedsPlanned <=> PPO = 0)
      /\ MXO # 0 => NeedsForced /\ NeedsPlanned
  BY <1>3 DEF NeedsForced, NeedsPlanned
<1>5. PICK f \in ForcedDurations, p \in PlannedDurations :
         /\ NeedsForced => f = FOD_reel
         /\ NeedsPlanned => p = POD_reel
  <2>1. ForcedDurations # {} /\ PlannedDurations # {}
    BY <1>0, DailyDurations DEF Typing
  <2>2. /\ NeedsForced => FOD_reel \in ForcedDurations
        /\ NeedsPlanned => POD_reel \in PlannedDurations
    BY <1>0, Zenon DEF TodayIsClear
  <2> HIDE DEF NeedsForced, NeedsPlanned, ForcedDurations, PlannedDurations
  <2> QED BY <2>1, <2>2, Zenon
<1>6. /\ f \in 1 .. LogSize - 1 /\ p \in 1 .. LogSize - 1 /\ f + p \in 1 .. LogSize - 1
      /\ p + f = f + p
  <2>1. f \in 1 .. Limit /\ p \in 1 .. Limit
    BY <1>0, <1>5, DailyDurations DEF Typing
  <2> QED BY <1>2, <2>1
<1> DEFINE OnPlan(d) == (IF d = p THEN PPO ELSE 0) + (IF d = f + p THEN MXO ELSE 0)
           Out(d) == (IF d = f THEN PFO ELSE 0) + OnPlan(d)
           fs == (NOW + f) % LogSize
           ps == (NOW + p) % LogSize
           bs == (NOW + (f + p)) % LogSize
           OnPlanAt(s) == (IF s = ps THEN PPO ELSE 0) + (IF s = bs THEN MXO ELSE 0)
           OutAt(s) == (IF s = fs THEN PFO ELSE 0) + OnPlanAt(s)
<1>7. \A s \in Slots : /\ LOG'[s] = LOG[s] + OutAt(s)
                       /\ LOGP'[s] = LOGP[s] + OnPlanAt(s)
  <2> TAKE s \in Slots
  <2>1. \A n \in Nat : Slot(n) = n % LogSize
    BY DEF Slot
  <2>2. /\ NOW + FOD_reel \in Nat /\ NOW + POD_reel \in Nat
        /\ NOW + POD_reel + FOD_reel \in Nat
        /\ NOW + POD_reel + FOD_reel = NOW + (FOD_reel + POD_reel)
    BY <1>0, <1>2 DEF Typing
  <2>3. /\ NeedsForced => Slot(NOW + FOD_reel) = fs
        /\ NeedsPlanned => Slot(NOW + POD_reel) = ps
        /\ NeedsForced /\ NeedsPlanned => Slot(NOW + POD_reel + FOD_reel) = bs
    BY <1>5, <2>1, <2>2
  <2> DEFINE fe == Slot(NOW + FOD_reel)
             pe == Slot(NOW + POD_reel)
             be == Slot(NOW + POD_reel + FOD_reel)
             x == IF s = fe THEN PFO ELSE 0
             y == IF s = pe THEN PPO ELSE 0
             z == IF s = be THEN MXO ELSE 0
  <2>4. LOG[s] \in Nat /\ LOGP[s] \in Nat
    BY <1>0 DEF LogTyping
  <2>5. /\ LOG' = Plus(Plus(Plus(LOG, fe, PFO), pe, PPO), be, MXO)
        /\ LOGP' = Plus(Plus(LOGP, pe, PPO), be, MXO)
    BY DEF Record
  <2> HIDE DEF fe, pe, be
  <2>6. LOG'[s] = LOG[s] + x + y + z /\ LOGP'[s] = LOGP[s] + y + z
    BY <1>3, <2>4, <2>5 DEF Plus
  <2>7. x = (IF s = fs THEN PFO ELSE 0)
    BY <1>3, <1>4, <2>3, Zenon DEF fe
  <2>8. y = (IF s = ps THEN PPO ELSE 0)
    BY <1>3, <1>4, <2>3, Zenon DEF pe
  <2>9. z = (IF s = bs THEN MXO ELSE 0)
    BY <1>3, <1>4, <2>3, Zenon DEF be
  <2>10. x \in Nat /\ y \in Nat /\ z \in Nat
    BY <1>3
  <2>11. OutAt(s) = x + (y + z) /\ OnPlanAt(s) = y + z
    BY <2>7, <2>8, <2>9, Zenon
  <2> HIDE DEF x, y, z, OutAt, OnPlanAt
  <2> QED BY <2>4, <2>6, <2>10, <2>11
<1>8. ASSUME NEW d \in 1 .. LogSize - 1
      PROVE  /\ OutAt((NOW + d) % LogSize) = Out(d)
             /\ OnPlanAt((NOW + d) % LogSize) = OnPlan(d)
             /\ (NOW + d) % LogSize \in Slots
  <2>1. /\ d \in 0 .. LogSize - 1 /\ f \in 0 .. LogSize - 1 /\ p \in 0 .. LogSize - 1
        /\ f + p \in 0 .. LogSize - 1
    BY <1>2, <1>6
  <2>2. /\ (NOW + d) % LogSize = fs <=> d = f
        /\ (NOW + d) % LogSize = ps <=> d = p
        /\ (NOW + d) % LogSize = bs <=> d = f + p
        /\ (NOW + d) % LogSize \in Slots
    BY <1>0, <2>1, OneSlotPerDay
  <2> QED BY <2>2, Zenon
<1>9. OutAt(NOW) = 0 /\ OnPlanAt(NOW) = 0
  <2>1. (NOW + 0) % LogSize = NOW
    BY <1>0, <1>2, OneSlotPerDay
  <2>2. /\ f \in 0 .. LogSize - 1 /\ p \in 0 .. LogSize - 1
        /\ f + p \in 0 .. LogSize - 1 /\ f # 0 /\ p # 0 /\ f + p # 0
    BY <1>2, <1>6
  <2>3. NOW # fs /\ NOW # ps /\ NOW # bs
    BY <1>0, <1>2, <2>1, <2>2, OneSlotPerDay
  <2> QED BY <2>3
<1>10. ASSUME NEW log, NEW newLog, NEW at, NEW added,
              \A s \in Slots : newLog[s] = log[s] + at[s],
              log \in [Slots -> Nat], log[NOW] = 0, at[NOW] = 0,
              \A d \in 1 .. LogSize - 1 : at[(NOW + d) % LogSize] = added[d],
              \A d \in LogSize .. 2 * LogSize + 1 : added[d] = 0
       PROVE  [k \in 0 .. 2 * LogSize |->
                 IF k < LogSize THEN newLog[(((NOW + 1) % LogSize) + k) % LogSize] ELSE 0]
              = [k \in 0 .. 2 * LogSize |->
                   (IF k = 2 * LogSize THEN 0 ELSE FromToday(log)[k + 1]) + added[k + 1]]
  <2>1. ASSUME NEW k \in 0 .. 2 * LogSize
        PROVE  (IF k < LogSize THEN newLog[(((NOW + 1) % LogSize) + k) % LogSize] ELSE 0)
               = (IF k = 2 * LogSize THEN 0 ELSE FromToday(log)[k + 1]) + added[k + 1]
    <3>1. CASE k + 1 < LogSize
      <4>1. /\ k < LogSize /\ k # 2 * LogSize /\ k \in 0 .. LogSize - 1
            /\ k + 1 \in 1 .. LogSize - 1 /\ k + 1 \in 0 .. LogSize - 1
            /\ k + 1 \in 0 .. 2 * LogSize
        BY <1>2, <3>1
      <4>2. (((NOW + 1) % LogSize) + k) % LogSize = (NOW + (k + 1)) % LogSize
        BY <1>0, <4>1, SlotTomorrow
      <4>3. FromToday(log)[k + 1] = log[(NOW + (k + 1)) % LogSize]
        BY <3>1, <4>1, FromTodayAt
      <4>4. (NOW + (k + 1)) % LogSize \in Slots
        BY <1>0, <4>1, OneSlotPerDay
      <4>5. newLog[(NOW + (k + 1)) % LogSize] = log[(NOW + (k + 1)) % LogSize] + added[k + 1]
        BY <1>10, <4>1, <4>4
      <4> QED BY <4>1, <4>2, <4>3, <4>5
    <3>2. CASE k + 1 = LogSize
      <4>1. /\ k < LogSize /\ k # 2 * LogSize /\ k \in 0 .. LogSize - 1
            /\ k + 1 \in LogSize .. 2 * LogSize + 1 /\ k + 1 \in 0 .. 2 * LogSize
        BY <1>2, <3>2
      <4>2. (((NOW + 1) % LogSize) + k) % LogSize = NOW
        BY <1>0, <3>2, <4>1, SlotTomorrow
      <4>3. newLog[NOW] = 0
        BY <1>0, <1>10
      <4>4. FromToday(log)[k + 1] = 0
        BY <1>2, <3>2, <4>1, FromTodayAt
      <4> QED BY <1>10, <4>1, <4>2, <4>3, <4>4
    <3>3. CASE k + 1 > LogSize
      <4>1. ~(k < LogSize) /\ k + 1 \in LogSize .. 2 * LogSize + 1
        BY <1>2, <3>3
      <4>2. k # 2 * LogSize => FromToday(log)[k + 1] = 0
        <5>1. k # 2 * LogSize => k + 1 \in 0 .. 2 * LogSize /\ k + 1 >= LogSize
          BY <1>2, <3>3
        <5> QED BY <5>1, FromTodayAt
      <4> QED BY <1>10, <4>1, <4>2
    <3> QED BY <1>2, <3>1, <3>2, <3>3
  <2> QED BY <2>1, Zenon
<1>11. \A d \in LogSize .. 2 * LogSize + 1 : Out(d) = 0 /\ OnPlan(d) = 0
  <2> TAKE d \in LogSize .. 2 * LogSize + 1
  <2>1. d # f /\ d # p /\ d # f + p
    BY <1>2, <1>6
  <2> QED BY <2>1
<1> DEFINE outAt == [s \in Slots |-> OutAt(s)]
           onPlanAt == [s \in Slots |-> OnPlanAt(s)]
           out == [d \in 1 .. 2 * LogSize + 1 |-> Out(d)]
           onPlan == [d \in 1 .. 2 * LogSize + 1 |-> OnPlan(d)]
           From(log) == [k \in 0 .. 2 * LogSize |->
                           IF k < LogSize THEN log[(((NOW + 1) % LogSize) + k) % LogSize]
                           ELSE 0]
           To(log, added) ==
             [k \in 0 .. 2 * LogSize |->
                (IF k = 2 * LogSize THEN 0 ELSE FromToday(log)[k + 1]) + added[k + 1]]
<1> HIDE DEF OutAt, OnPlanAt, Out, OnPlan, fs, ps, bs
<1>12. From(LOG') = To(LOG, out) /\ From(LOGP') = To(LOGP, onPlan)
  <2>1. /\ \A s \in Slots : LOG'[s] = LOG[s] + outAt[s]
        /\ \A s \in Slots : LOGP'[s] = LOGP[s] + onPlanAt[s]
    BY <1>7
  <2>2. outAt[NOW] = 0 /\ onPlanAt[NOW] = 0
    BY <1>0, <1>9
  <2>3. \A d \in 1 .. LogSize - 1 : /\ outAt[(NOW + d) % LogSize] = out[d]
                                    /\ onPlanAt[(NOW + d) % LogSize] = onPlan[d]
    <3> TAKE d \in 1 .. LogSize - 1
    <3>1. d \in 1 .. 2 * LogSize + 1
      BY <1>2
    <3> QED BY <1>8, <3>1
  <2>4. \A d \in LogSize .. 2 * LogSize + 1 : out[d] = 0 /\ onPlan[d] = 0
    <3> TAKE d \in LogSize .. 2 * LogSize + 1
    <3>1. d \in 1 .. 2 * LogSize + 1
      BY <1>2
    <3> QED BY <1>11, <3>1
  <2>5. LOG \in [Slots -> Nat] /\ LOGP \in [Slots -> Nat]
    BY <1>0 DEF LogTyping
  <2> HIDE DEF outAt, onPlanAt, out, onPlan
  <2>6. From(LOG') = To(LOG, out)
    BY <1>0, <1>10, <2>1, <2>2, <2>3, <2>4, <2>5
  <2>7. From(LOGP') = To(LOGP, onPlan)
    BY <1>0, <1>10, <2>1, <2>2, <2>3, <2>4, <2>5
  <2> QED BY <2>6, <2>7
<1>13. FromToday(LOG)' = To(LOG, out) /\ FromToday(LOGP)' = To(LOGP, onPlan)
  <2>1. FromToday(LOG)' = From(LOG') /\ FromToday(LOGP)' = From(LOGP')
    BY <1>0 DEF FromToday
  <2> QED BY <1>12, <2>1
<1>14. FromToday(LOG)[0] = 0
  <2>1. (NOW + 0) % LogSize = NOW
    BY <1>0, <1>2, OneSlotPerDay
  <2> QED BY <1>0, <1>2, <2>1, FromTodayAt
<1>15. /\ PFO \in 0 .. AUN + cumul /\ PPO \in 0 .. AUN + cumul /\ MXO \in 0 .. AUN + cumul
       /\ AUN' + cumul' = (AUN + cumul) - (PFO + PPO + MXO)
  BY <1>0, <1>3
<1>16. \A k \in 0 .. 2 * LogSize :
         /\ out[k + 1] = (IF k + 1 = f THEN PFO ELSE 0)
                         + ((IF k + 1 = p THEN PPO ELSE 0) + (IF k + 1 = f + p THEN MXO ELSE 0))
         /\ onPlan[k + 1] = (IF k + 1 = p THEN PPO ELSE 0)
                            + (IF k + 1 = f + p THEN MXO ELSE 0)
  <2> TAKE k \in 0 .. 2 * LogSize
  <2>1. k + 1 \in 1 .. 2 * LogSize + 1
    BY <1>2
  <2> QED BY <2>1 DEF Out, OnPlan
<1> HIDE DEF out, onPlan, From
<1>17. Calendar!GoOut(PFO, PPO, MXO)
  <2>1. /\ FromToday(LOG)' =
             [k \in 0 .. 2 * LogSize |->
                (IF k = 2 * LogSize THEN 0 ELSE FromToday(LOG)[k + 1])
                + ((IF k + 1 = f THEN PFO ELSE 0)
                   + ((IF k + 1 = p THEN PPO ELSE 0) + (IF k + 1 = f + p THEN MXO ELSE 0)))]
        /\ FromToday(LOGP)' =
             [k \in 0 .. 2 * LogSize |->
                (IF k = 2 * LogSize THEN 0 ELSE FromToday(LOGP)[k + 1])
                + ((IF k + 1 = p THEN PPO ELSE 0) + (IF k + 1 = f + p THEN MXO ELSE 0))]
    BY <1>13, <1>16, Zenon
  <2> HIDE DEF To
  <2> QED BY <1>5, <2>1, Zenon DEF Calendar!GoOut, Calendar!Tomorrow, Calendar!Offsets
<1> DEFINE available == IF Generating THEN AUN + cumul ELSE unitCount
<1>18. available = AUN + cumul /\ available' = AUN' + cumul'
  BY <1>0, <1>1, Zenon
<1>19. /\ PFO \in 0 .. available /\ PPO \in 0 .. available /\ MXO \in 0 .. available
       /\ available' = available - (PFO + PPO + MXO)
  <2>1. PFO \in 0 .. available /\ PPO \in 0 .. available /\ MXO \in 0 .. available
    BY <1>15, <1>18
  <2>2. available' = available - (PFO + PPO + MXO)
    BY <1>15, <1>18, Zenon
  <2> QED BY <2>1, <2>2, Zenon
<1> HIDE DEF To
<1> QED BY <1>14, <1>17, <1>19, Zenon DEF Calendar!NextDay

LEMMA CalendarStep ==
  ASSUME IInv, TodayIsClear, [Next]_vars
  PROVE  [Calendar!Next]_(Calendar!vars)
<1>1. CASE Return
  BY <1>1, CalendarComeBack, Zenon DEF Calendar!Next
<1>2. CASE Recall
  BY <1>2, CalendarRecall, Zenon DEF Calendar!Next
<1>3. CASE Record
  BY <1>3, CalendarNextDay, Zenon DEF Calendar!Next
<1>4. CASE \/ NothingToGenerate \/ Begin \/ EndRecall \/ Draw \/ Settle \/ DrawDurations
           \/ UNCHANGED vars
  BY <1>4, CalendarStutter, Zenon
<1> QED BY <1>1, <1>2, <1>3, <1>4, Zenon DEF Next

\* ImplementsCalendar: the circular log is the calendar without end, whatever the
\* durations drawn, as long as they are those of the laws.
THEOREM RefinesCalendar == Spec => ImplementsCalendar
<1>1. IInv /\ TodayIsClear /\ [Next]_vars => [Calendar!Next]_(Calendar!vars)
  BY CalendarStep
<1> QED BY <1>1, CalendarInit, TodayInit, TodayStep, Invariance,
           PTL DEF Spec, ImplementsCalendar, Calendar!Spec
=============================================================================
