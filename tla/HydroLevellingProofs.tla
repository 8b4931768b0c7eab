------------------------ MODULE HydroLevellingProofs ------------------------
(***************************************************************************)
(* Theorems about HydroLevelling: whatever the week, the hydro that is     *)
(* moved is kept and its hours are levelled, for a loop ends on the very   *)
(* difference these properties are about; and a level is always found, for *)
(* what hydro serves grows with the level, of less than the tolerance when *)
(* the bounds meet.                                                        *)
(***************************************************************************)
EXTENDS HydroLevelling, FiniteSetTheorems, TLAPS

Remainder == {"margin", "marginLevel", "done", "threw"}

\* The periods that were remixed, or left.
Over(a, o) == shave /\ (pc \in Remainder \/ a < area \/ (a = area /\ o < offset))

Position ==
    /\ pc \in {"period", "level"} => shave
    /\ offset \in Starts

\* What was not looked at yet is what the solver left.
Fresh ==
    pc \in {"period", "level"} =>
        \A a \in Areas : \A i \in Hours :
            a > area \/ (a = area /\ i >= offset) => H[a][i] = week[a][i].h /\ D[a][i] = week[a][i].d

AtLevel == pc = "level" => remix = MovableIn(area, offset)

Balanced ==
    \A a \in Areas :
        /\ \A i \in Hours : /\ H[a][i] + D[a][i] = week[a][i].h + week[a][i].d
                            /\ H[a][i] <= week[a][i].pmax
        /\ \A o \in Starts : \A i \in Block(o) \ MovableIn(a, o) : H[a][i] = week[a][i].h

LevelledIn(a, o) ==
    \A i, j \in MovableIn(a, o) :
        D[a][i] > 0 /\ H[a][i] < week[a][i].pmax /\ H[a][j] > 0
        => LoadServed(a, i) >= LoadServed(a, j)

Kept == \A a \in Areas : \A o \in Starts :
            Over(a, o) => (<<"remix", a>> \notin gaveUp => HydroIsKept(a, o))

Shaved == \A a \in Areas : \A o \in Starts : Over(a, o) => LevelledIn(a, o)

MarginsAreLevelled(a) ==
    \A i, j \in Hours :
        /\ margin[a][i] < Operational(a, i) + week[a][i].full - H[a][i]
        /\ margin[a][j] > Operational(a, j) - H[a][j]
        => margin[a][i] >= margin[a][j]

Margins ==
    \A a \in Areas : MarginDone(a) =>
        /\ <<"margin", a>> \notin gaveUp => MarginIsOfTheWeek(a)
        /\ MarginsAreLevelled(a)

-----------------------------------------------------------------------------
(* Periods *)

\* Two multiples of a length are apart by that length at least.
LEMMA MultiplesApart ==
  ASSUME NEW x \in Nat, NEW y \in Nat, NEW n \in Nat \ {0}, x % n = 0, y % n = 0, x < y
  PROVE  x + n <= y
<1> DEFINE p == x \div n
           q == y \div n
<1>1. p \in Int /\ q \in Int /\ x = n * p /\ y = n * q
  <2>1. x = n * (x \div n) + (x % n) /\ y = n * (y \div n) + (y % n)
    OBVIOUS
  <2> QED BY <2>1
<1> HIDE DEF p, q
<1>2. p < q
  <2>1. p >= q => n * p >= n * q
    BY <1>1
  <2> QED BY <1>1, <2>1
<1>3. n * q = n * (p + 1) + n * (q - p - 1)
  BY <1>1
<1>4. n * (q - p - 1) >= 0
  <2>1. q - p - 1 \in Nat
    BY <1>1, <1>2
  <2> QED BY <2>1
<1>5. n * (p + 1) = n * p + n
  BY <1>1
<1> QED BY <1>1, <1>3, <1>4, <1>5

LEMMA NextMultiple ==
  ASSUME NEW x \in Nat, NEW n \in Nat \ {0}, x % n = 0
  PROVE  (x + n) % n = 0
<1> DEFINE k == x \div n + 1
<1>1. k \in Int /\ x + n = n * k
  <2>1. x = n * (x \div n) + (x % n) /\ x \div n \in Int
    OBVIOUS
  <2>2. n * (x \div n + 1) = n * (x \div n) + n
    BY <2>1
  <2> QED BY <2>1, <2>2
<1> HIDE DEF k
<1> DEFINE y == x + n
           q == y \div n
           r == y % n
<1>2. y \in Nat /\ q \in Int /\ r \in 0 .. n - 1 /\ y = n * q + r
  OBVIOUS
<1> HIDE DEF q, r
<1>3. r = n * (k - q)
  BY <1>1, <1>2
<1>4. k - q >= 1 => n * (k - q) >= n
  <2>1. n * (k - q) = n + n * (k - q - 1)
    BY <1>1, <1>2
  <2>2. k - q - 1 >= 0 => n * (k - q - 1) >= 0
    BY <1>1, <1>2
  <2> QED BY <1>1, <1>2, <2>1, <2>2
<1>5. k - q <= -1 => n * (k - q) < 0
  BY <1>1, <1>2
<1>6. k - q = 0
  BY <1>1, <1>2, <1>3, <1>4, <1>5
<1>7. r = 0
  BY <1>3, <1>6
<1> QED BY <1>7 DEF r

\* The length of a period divides the week.
LEMMA Lengths ==
  ASSUME TypeOK
  PROVE  step \in Nat \ {0} /\ NbHours % step = 0 /\ NbHours \in Nat \ {0}
<1>1. NbHours % NbHours = 0
  BY HydroLevellingAssumption
<1> QED BY <1>1, HydroLevellingAssumption DEF TypeOK

\* Periods do not meet, and do not leave the week.
LEMMA PeriodsAreApart ==
  ASSUME TypeOK, NEW o \in Starts
  PROVE  /\ o \in Nat /\ o + step <= NbHours
         /\ Block(o) \subseteq Hours
         /\ \A u \in Starts : u < o => u + step <= o
         /\ \A u \in Starts : u # o => Block(u) \cap Block(o) = {}
         /\ o + step < NbHours => o + step \in Starts
<1> USE Lengths
<1>1. o \in Nat /\ o % step = 0 /\ o < NbHours
  BY DEF Starts, Hours
<1>2. o + step <= NbHours
  BY <1>1, MultiplesApart
<1>3. Block(o) \subseteq Hours
  BY <1>1, <1>2 DEF Block, Hours
<1>4. \A u \in Starts : u \in Nat /\ u % step = 0
  BY DEF Starts, Hours
<1>5. \A u \in Starts : u < o => u + step <= o
  BY <1>1, <1>4, MultiplesApart
<1>6. \A u \in Starts : o < u => o + step <= u
  BY <1>1, <1>4, MultiplesApart
<1>7. \A u \in Starts : u # o => Block(u) \cap Block(o) = {}
  BY <1>1, <1>4, <1>5, <1>6 DEF Block
<1>8. (o + step) % step = 0
  BY <1>1, NextMultiple
<1>9. o + step < NbHours => o + step \in Starts
  BY <1>1, <1>8 DEF Starts, Hours
<1> QED BY <1>1, <1>2, <1>3, <1>5, <1>7, <1>9

-----------------------------------------------------------------------------
(* Levels *)

LEMMA WeekFacts ==
  ASSUME TypeOK, NEW a \in Areas, NEW i \in Hours
  PROVE  /\ week[a][i].h \in Nat /\ week[a][i].d \in Nat /\ week[a][i].s \in Nat
         /\ week[a][i].m \in Nat /\ week[a][i].load \in Int /\ week[a][i].pmax \in Nat
         /\ week[a][i].full \in Nat
         /\ week[a][i].h <= week[a][i].pmax
         /\ H[a][i] \in Nat /\ D[a][i] \in Nat
         /\ Operational(a, i) \in Int
<1>1. week \in [Areas -> [Hours -> HourResults]]
  BY HydroLevellingAssumption DEF TypeOK
<1>2. week[a][i] \in HourResults
  BY <1>1
<1>3. week[a][i].h <= week[a][i].pmax
  BY HydroLevellingAssumption DEF TypeOK
<1>4. H[a][i] \in Nat /\ D[a][i] \in Nat
  BY DEF TypeOK
<1> QED BY <1>2, <1>3, <1>4 DEF HourResults, Operational

\* What an hour is given when its load is served up to a level: no more than it can use, and
\* a load served below the level only if it takes all it can.
LEMMA ServedFacts ==
  ASSUME TypeOK, NEW i \in Hours, NEW level \in Int
  PROVE  LET g == Served(level, i) IN
         /\ g \in Nat
         /\ g <= Wanted(i) /\ g <= week[area][i].pmax
         /\ g < Wanted(i) /\ g < week[area][i].pmax => Ground(i) + g >= level
         /\ g > 0 => Ground(i) + g <= level
<1>1. area \in Areas
  BY DEF TypeOK
<1>2. Wanted(i) \in Nat /\ week[area][i].load \in Int /\ week[area][i].pmax \in Nat
      /\ Ground(i) = week[area][i].load - Wanted(i)
  BY <1>1, WeekFacts DEF Wanted, Ground
<1> QED BY <1>2 DEF Served, Lesser

\* Margins that are brought to a level.
LEMMA LevelledFacts ==
  ASSUME TypeOK, NEW i \in Hours, NEW level \in Int
  PROVE  LET g == Levelled(level, area, i) IN
         /\ g \in Int
         /\ g < Operational(area, i) + week[area][i].full - H[area][i] => g >= level
         /\ g > Operational(area, i) - H[area][i] => g <= level
<1>1. area \in Areas
  BY DEF TypeOK
<1>2. Operational(area, i) \in Int /\ week[area][i].full \in Nat /\ H[area][i] \in Nat
  BY <1>1, WeekFacts
<1> QED BY <1>2 DEF Levelled, Lesser, Greater

LEMMA NiveauInt == TypeOK => Niveau \in Int
  BY DEF TypeOK, Niveau

-----------------------------------------------------------------------------
(* Types *)

\* What comes after a period or after the margins of an area.
LEMMA AfterPeriodType ==
  ASSUME TypeOK, offset \in Starts, NEW failed, AfterPeriod(failed)
  PROVE  area' \in Areas /\ offset' \in Starts /\ pc' \in {"period", "margin", "threw"}
<1> USE Lengths, HydroLevellingAssumption
<1>1. 1 \in Areas /\ area \in Areas
  BY DEF Areas, TypeOK
<1>2. area < NbAreas => area + 1 \in Areas
  BY <1>1 DEF Areas
<1>3. offset + step < NbHours => offset + step \in Starts
  BY PeriodsAreApart
<1>4. 0 \in Starts
  BY DEF Starts, Hours
<1> QED BY <1>1, <1>2, <1>3, <1>4 DEF AfterPeriod

LEMMA AfterMarginType ==
  ASSUME TypeOK, AfterMargin
  PROVE  area' \in Areas /\ pc' \in {"margin", "done"}
<1>1. area \in Areas
  BY DEF TypeOK
<1>2. area < NbAreas => area + 1 \in Areas
  BY <1>1, HydroLevellingAssumption DEF Areas
<1> QED BY <1>1, <1>2 DEF AfterMargin

LEMMA HalveType ==
  ASSUME TypeOK, NEW gap, Halve(gap), loop > 0
  PROVE  bottom' \in Int /\ top' \in Int /\ loop' \in 0 .. MaxLoops
BY NiveauInt, HydroLevellingAssumption DEF Halve, TypeOK

LEMMA LevelMarginsType ==
  ASSUME TypeOK, LevelMargins
  PROVE  margin' \in [Areas -> [Hours -> Int]]
<1>1. \A i \in Hours : Levelled(Niveau, area, i) \in Int
  BY NiveauInt, LevelledFacts
<1>2. [i \in Hours |-> Levelled(Niveau, area, i)] \in [Hours -> Int]
  BY <1>1
<1> QED BY <1>2 DEF LevelMargins, TypeOK

\* The loops are entered with at least one turn left.
Turning == pc \in {"level", "marginLevel"} => loop > 0

Sound == TypeOK /\ Position /\ Turning

LEMMA SoundInit == Init => Sound
<1> SUFFICES ASSUME Init PROVE Sound
  OBVIOUS
<1>1. 1 \in Areas /\ 0 \in Hours /\ 0 \in Starts
  BY HydroLevellingAssumption DEF Areas, Hours, Starts, Init
<1>2. \A a \in Areas, i \in Hours : week[a][i].h \in Nat /\ week[a][i].d \in Nat
  <2>1. week \in [Areas -> [Hours -> HourResults]]
    BY HydroLevellingAssumption DEF Init
  <2> SUFFICES ASSUME NEW a \in Areas, NEW i \in Hours
               PROVE  week[a][i].h \in Nat /\ week[a][i].d \in Nat
    OBVIOUS
  <2>2. week[a][i] \in HourResults
    BY <2>1
  <2> QED BY <2>2 DEF HourResults
<1>3. H \in [Areas -> [Hours -> Nat]] /\ D \in [Areas -> [Hours -> Nat]]
      /\ margin \in [Areas -> [Hours -> Int]]
  BY <1>2 DEF Init
<1> QED BY <1>1, <1>3, HydroLevellingAssumption DEF Init, Sound, Position, TypeOK, Turning

\* What RemixEnds writes.
LEMMA RemixWrites ==
  ASSUME TypeOK, RemixEnds
  PROVE  /\ H' \in [Areas -> [Hours -> Nat]] /\ D' \in [Areas -> [Hours -> Nat]]
         /\ \A a \in Areas : a # area => H'[a] = H[a] /\ D'[a] = D[a]
         /\ \A i \in Hours :
              H'[area][i] = IF i \in remix THEN Served(Niveau, i) ELSE H[area][i]
         /\ \A i \in Hours :
              D'[area][i] = IF i \in remix THEN Wanted(i) - Served(Niveau, i) ELSE D[area][i]
<1>1. area \in Areas /\ H \in [Areas -> [Hours -> Nat]] /\ D \in [Areas -> [Hours -> Nat]]
  BY DEF TypeOK
<1>2. \A i \in Hours : /\ Served(Niveau, i) \in Nat
                       /\ Wanted(i) \in Nat
                       /\ Wanted(i) - Served(Niveau, i) \in Nat
  <2> SUFFICES ASSUME NEW i \in Hours
               PROVE  /\ Served(Niveau, i) \in Nat
                      /\ Wanted(i) \in Nat
                      /\ Wanted(i) - Served(Niveau, i) \in Nat
    OBVIOUS
  <2>1. Wanted(i) \in Nat
    BY <1>1 DEF Wanted
  <2> QED BY <2>1, NiveauInt, ServedFacts
<1> DEFINE newH == [i \in Hours |-> IF i \in remix THEN Served(Niveau, i) ELSE H[area][i]]
           newD == [i \in Hours |-> IF i \in remix THEN Wanted(i) - Served(Niveau, i)
                                                   ELSE D[area][i]]
<1>3. newH \in [Hours -> Nat] /\ newD \in [Hours -> Nat]
  BY <1>1, <1>2
<1>4. H' = [H EXCEPT ![area] = newH] /\ D' = [D EXCEPT ![area] = newD]
  BY <1>1 DEF RemixEnds
<1>5. H'[area] = newH /\ D'[area] = newD
  BY <1>1, <1>4
<1>6. \A a \in Areas : a # area => H'[a] = H[a] /\ D'[a] = D[a]
  BY <1>1, <1>4
<1>7. H' \in [Areas -> [Hours -> Nat]] /\ D' \in [Areas -> [Hours -> Nat]]
  BY <1>1, <1>3, <1>4
<1> QED BY <1>5, <1>6, <1>7

LEMMA SoundNext == Sound /\ [Next]_vars => Sound'
<1> SUFFICES ASSUME Sound, [Next]_vars PROVE Sound'
  OBVIOUS
<1> USE HydroLevellingAssumption
<1>0. TypeOK /\ Position /\ Turning /\ area \in Areas /\ loop \in 0 .. MaxLoops /\ offset \in Starts
  BY DEF Sound, TypeOK, Position
<1>a. \A o \in Starts : o \in Hours
  BY DEF Starts
<1>1. CASE SkipPeriod
  <2>1. area' \in Areas /\ offset' \in Starts /\ pc' \in {"period", "margin", "threw"}
    BY <1>0, <1>1, AfterPeriodType DEF SkipPeriod
  <2> QED BY <1>0, <1>a, <1>1, <2>1 DEF SkipPeriod, Sound, TypeOK, Position, Turning, Starts
<1>2. CASE BeginPeriod
  <2>1. remix' \subseteq Hours
    BY <1>0, <1>2, PeriodsAreApart DEF BeginPeriod, Period
  <2>2. \A i \in remix' : Ground(i) \in Int /\ week[area][i].load \in Int
    BY <1>0, <2>1, WeekFacts DEF Ground, Wanted
  <2>3. bottom' \in Int
    BY <1>2, <2>2 DEF BeginPeriod, Least
  <2>4. top' \in Int
    BY <1>2, <2>2 DEF BeginPeriod, Greatest
  <2> QED BY <1>0, <1>2, <2>1, <2>3, <2>4 DEF BeginPeriod, Sound, TypeOK, Position, Turning, Starts
<1>3. CASE RemixAgain
  <2>1. bottom' \in Int /\ top' \in Int /\ loop' \in 0 .. MaxLoops /\ loop' > 0
    BY <1>0, <1>3, HalveType DEF RemixAgain, Halve
  <2> QED BY <1>0, <1>3, <2>1 DEF RemixAgain, Sound, TypeOK, Position, Turning, Starts
<1>4. CASE RemixEnds
  <2>1. area' \in Areas /\ offset' \in Starts /\ pc' \in {"period", "margin", "threw"}
    BY <1>0, <1>4, AfterPeriodType DEF RemixEnds
  <2>2. H' \in [Areas -> [Hours -> Nat]] /\ D' \in [Areas -> [Hours -> Nat]]
    BY <1>0, <1>4, RemixWrites
  <2>3. bottom' \in Int /\ top' \in Int /\ loop' \in 0 .. MaxLoops
    BY <1>0, <1>4, HalveType DEF RemixEnds, Turning
  <2>4. gaveUp' \subseteq {"remix", "margin"} \X Areas
    BY <1>0, <1>4 DEF RemixEnds, TypeOK
  <2>5. pc = "level" /\ shave /\ shave' = shave /\ step' = step /\ week' = week /\ remix' = remix
        /\ margin' = margin
    BY <1>0, <1>4 DEF RemixEnds, Position
  <2> QED BY <1>0, <1>a, <2>1, <2>2, <2>3, <2>4, <2>5 DEF Sound, TypeOK, Position, Turning, Starts
<1>5. CASE NoHydro
  <2>1. area' \in Areas /\ pc' \in {"margin", "done"}
    BY <1>0, <1>5, AfterMarginType DEF NoHydro
  <2>2. [i \in Hours |-> Operational(area, i)] \in [Hours -> Int]
    BY <1>0, WeekFacts
  <2>3. margin' \in [Areas -> [Hours -> Int]]
    BY <1>0, <1>5, <2>2 DEF NoHydro, TypeOK
  <2> QED BY <1>0, <1>5, <2>1, <2>3 DEF NoHydro, Sound, TypeOK, Position, Turning, Starts
<1>6. CASE BeginMargin
  <2>1. \A i \in Hours : Operational(area, i) \in Int
    BY <1>0, WeekFacts
  <2>2. bottom' \in Int
    BY <1>6, <2>1 DEF BeginMargin, Least
  <2>3. top' \in Int
    BY <1>6, <2>1 DEF BeginMargin, Greatest
  <2> QED BY <1>0, <1>6, <2>2, <2>3 DEF BeginMargin, Sound, TypeOK, Position, Turning, Starts
<1>7. CASE MarginAgain
  <2>1. bottom' \in Int /\ top' \in Int /\ loop' \in 0 .. MaxLoops /\ loop' > 0
    BY <1>0, <1>7, HalveType DEF MarginAgain, Halve
  <2>2. margin' \in [Areas -> [Hours -> Int]]
    BY <1>0, <1>7, LevelMarginsType DEF MarginAgain
  <2> QED BY <1>0, <1>7, <2>1, <2>2 DEF MarginAgain, Sound, TypeOK, Position, Turning, Starts
<1>8. CASE MarginEnds \/ MarginGivesUp
  <2>1. bottom' \in Int /\ top' \in Int /\ loop' \in 0 .. MaxLoops
    BY <1>0, <1>8, HalveType DEF MarginEnds, MarginGivesUp, Turning
  <2>2. margin' \in [Areas -> [Hours -> Int]]
    BY <1>0, <1>8, LevelMarginsType DEF MarginEnds, MarginGivesUp
  <2>3. area' \in Areas /\ pc' \in {"margin", "done"}
    BY <1>0, <1>8, AfterMarginType DEF MarginEnds, MarginGivesUp
  <2>4. gaveUp' \subseteq {"remix", "margin"} \X Areas
    BY <1>0, <1>8 DEF MarginEnds, MarginGivesUp, TypeOK
  <2> QED BY <1>0, <1>8, <2>1, <2>2, <2>3, <2>4
          DEF MarginEnds, MarginGivesUp, Sound, TypeOK, Position, Turning, Starts
<1>9. CASE UNCHANGED vars
  BY <1>9 DEF vars, Sound, TypeOK, Position, Turning, Starts
<1> QED BY <1>1, <1>2, <1>3, <1>4, <1>5, <1>6, <1>7, <1>8, <1>9 DEF Next

-----------------------------------------------------------------------------
(* Theorems about types *)

\* Every variable keeps its type: every index is in its week, every energy is a natural number.
THEOREM TypeCorrect == Spec => []TypeOK
<1>1. Sound => TypeOK
  BY DEF Sound
<1> QED BY SoundInit, SoundNext, <1>1, PTL DEF Spec

-----------------------------------------------------------------------------
(* The walk over the periods *)

\* A period that ends is the only one that is over from then on, and nothing
\* of what comes next was looked at.
LEMMA NextPeriod ==
  ASSUME Sound, pc \in {"period", "level"}, NEW failed, AfterPeriod(failed),
         shave' = shave, step' = step
  PROVE  /\ \A a \in Areas : \A o \in Starts :
              Over(a, o)' => Over(a, o) \/ (a = area /\ o = offset)
         /\ pc' = "period" => \A a \in Areas : \A i \in Hours :
              a > area' \/ (a = area' /\ i >= offset')
              => a > area \/ (a = area /\ i >= offset + step)
         /\ \A a \in Areas : ~MarginDone(a)'
<1>0. TypeOK /\ offset \in Starts /\ area \in Areas /\ shave
  BY DEF Sound, TypeOK, Position
<1>1. step \in Nat \ {0} /\ offset \in Nat /\ NbHours \in Nat
  BY <1>0, Lengths, PeriodsAreApart
<1>2. \A o \in Starts : o \in Nat /\ o < NbHours /\ (o < offset + step => o <= offset)
  <2> SUFFICES ASSUME NEW o \in Starts
               PROVE  o \in Nat /\ o < NbHours /\ (o < offset + step => o <= offset)
    OBVIOUS
  <2>1. o \in Nat /\ o < NbHours
    BY <1>1 DEF Starts, Hours
  <2>2. offset < o => offset + step <= o
    BY <1>0, PeriodsAreApart
  <2> QED BY <1>1, <2>1, <2>2
<1>3. \A a \in Areas : a \in Int /\ a <= NbAreas /\ 1 <= a
  BY HydroLevellingAssumption DEF Areas
<1>4. CASE offset + step < NbHours
  <2>1. pc' = "period" /\ offset' = offset + step /\ area' = area
    BY <1>4 DEF AfterPeriod
  <2> QED BY <1>0, <1>1, <1>2, <1>3, <2>1 DEF Over, MarginDone, Remainder
<1>5. CASE ~(offset + step < NbHours)
  <2>1. /\ offset' = 0
        /\ \/ area < NbAreas /\ pc' = "period" /\ area' = area + 1
           \/ ~(area < NbAreas) /\ pc' = "margin" /\ area' = 1
           \/ ~(area < NbAreas) /\ pc' = "threw" /\ area' = area
    BY <1>5 DEF AfterPeriod
  <2>2. \A o \in Starts : o <= offset
    BY <1>1, <1>2, <1>5
  <2>3. CASE area < NbAreas
    <3>1. pc' = "period" /\ area' = area + 1 /\ offset' = 0
      BY <2>1, <2>3
    <3> QED BY <1>0, <1>1, <1>2, <1>3, <2>2, <3>1 DEF Over, MarginDone, Remainder, Hours
  <2>4. CASE ~(area < NbAreas)
    <3>1. pc' \in {"margin", "threw"} /\ (pc' = "margin" => area' = 1)
      BY <2>1, <2>4
    <3>2. \A a \in Areas : a <= area
      BY <1>0, <1>3, <2>4, HydroLevellingAssumption
    <3> QED BY <1>0, <1>1, <1>2, <1>3, <2>2, <3>1, <3>2 DEF Over, MarginDone, Remainder
  <2> QED BY <2>3, <2>4
<1> QED BY <1>4, <1>5

\* The margins of an area are done when the next one begins.
LEMMA NextMargin ==
  ASSUME TypeOK, pc = "marginLevel" \/ pc = "margin", AfterMargin
  PROVE  \A a \in Areas : MarginDone(a)' => MarginDone(a) \/ a = area
<1>1. \A a \in Areas : a \in Int /\ a <= NbAreas
  BY HydroLevellingAssumption DEF Areas
<1>2. area \in Areas
  BY DEF TypeOK
<1> QED BY <1>1, <1>2, HydroLevellingAssumption DEF AfterMargin, MarginDone

\* What is said of a period depends on the results only.
LEMMA SamePeriod ==
  ASSUME NEW a, NEW o, week' = week, step' = step,
         \A i \in MovableIn(a, o) : H'[a][i] = H[a][i] /\ D'[a][i] = D[a][i]
  PROVE  /\ MovableIn(a, o)' = MovableIn(a, o)
         /\ HydroIsKept(a, o) => HydroIsKept(a, o)'
         /\ LevelledIn(a, o) => LevelledIn(a, o)'
<1>1. MovableIn(a, o)' = MovableIn(a, o)
  BY DEF MovableIn, Block
<1>2. [i \in MovableIn(a, o) |-> H'[a][i]] = [i \in MovableIn(a, o) |-> H[a][i]]
  OBVIOUS
<1>3. HydroIsKept(a, o) => HydroIsKept(a, o)'
  BY <1>1, <1>2 DEF HydroIsKept
<1>4. LevelledIn(a, o) => LevelledIn(a, o)'
  BY <1>1 DEF LevelledIn, LoadServed
<1> QED BY <1>1, <1>3, <1>4

Rest == Fresh /\ AtLevel /\ Balanced /\ Kept /\ Shaved /\ Margins

LEMMA RestInit == Init => Rest
<1> SUFFICES ASSUME Init PROVE Rest
  OBVIOUS
<1>0. TypeOK
  BY SoundInit DEF Sound
<1>1. \A a \in Areas, i \in Hours : H[a][i] = week[a][i].h /\ D[a][i] = week[a][i].d
  BY DEF Init
<1>2. Fresh /\ AtLevel
  BY <1>1 DEF Init, Fresh, AtLevel
<1>3. Balanced
  <2>1. \A a \in Areas, i \in Hours : week[a][i].h <= week[a][i].pmax
    BY <1>0, WeekFacts
  <2>2. \A o \in Starts : Block(o) \subseteq Hours
    BY <1>0, PeriodsAreApart
  <2> QED BY <1>1, <2>1, <2>2 DEF Balanced
<1>4. \A a \in Areas : \A o \in Starts : ~Over(a, o)
  <2>1. \A a \in Areas : a \in Int /\ a >= 1
    BY HydroLevellingAssumption DEF Areas
  <2>2. \A o \in Starts : o \in Nat
    BY <1>0, PeriodsAreApart
  <2> QED BY <2>1, <2>2 DEF Over, Remainder, Init
<1>5. \A a \in Areas : ~MarginDone(a)
  BY HydroLevellingAssumption DEF MarginDone, Init, Areas
<1> QED BY <1>2, <1>3, <1>4, <1>5 DEF Rest, Kept, Shaved, Margins

-----------------------------------------------------------------------------
(* The steps *)

\* A period that is left as it is was levelled already: it lacks energy or has no hydro to give.
LEMMA RestSkip == Sound /\ Rest /\ SkipPeriod => Rest'
<1> SUFFICES ASSUME Sound, Rest, SkipPeriod PROVE Rest'
  OBVIOUS
<1>0. /\ TypeOK /\ offset \in Starts /\ area \in Areas /\ pc = "period" /\ Period \subseteq Hours
      /\ pc' # "level" /\ Period = Block(offset)
      /\ step \in Nat \ {0} /\ offset \in Nat
  BY Lengths, PeriodsAreApart DEF Sound, TypeOK, Position, SkipPeriod, AfterPeriod, Period
<1>1. /\ week' = week /\ shave' = shave /\ step' = step /\ H' = H /\ D' = D /\ gaveUp' = gaveUp
      /\ margin' = margin
  BY DEF SkipPeriod
<1>2. /\ \A a \in Areas : \A o \in Starts : Over(a, o)' => Over(a, o) \/ (a = area /\ o = offset)
      /\ pc' = "period" => \A a \in Areas : \A i \in Hours :
              a > area' \/ (a = area' /\ i >= offset')
              => a > area \/ (a = area /\ i >= offset + step)
      /\ \A a \in Areas : ~MarginDone(a)'
  BY <1>0, <1>1, NextPeriod DEF SkipPeriod
<1>3. \A i \in Period : H[area][i] = week[area][i].h /\ D[area][i] = week[area][i].d
  BY <1>0 DEF Rest, Fresh, Period, Block
<1>4. Fresh'
  BY <1>0, <1>1, <1>2 DEF Rest, Fresh, Hours
<1>5. AtLevel'
  BY <1>0 DEF AtLevel
<1>6. Balanced'
  BY <1>1 DEF Rest, Balanced, Starts, Block, MovableIn
<1>7. HydroIsKept(area, offset)
  <2>1. [i \in MovableIn(area, offset) |-> week[area][i].h]
        = [i \in MovableIn(area, offset) |-> H[area][i]]
    BY <1>0, <1>3 DEF MovableIn
  <2> QED BY <2>1 DEF HydroIsKept
<1>8. LevelledIn(area, offset)
  <2> SUFFICES ASSUME NEW i \in MovableIn(area, offset), NEW j \in MovableIn(area, offset),
                      D[area][i] > 0, H[area][j] > 0
               PROVE  FALSE
    BY DEF LevelledIn
  <2>1. i \in Period /\ j \in Period /\ week[area][j].s + week[area][j].m = 0
    BY <1>0 DEF MovableIn
  <2>2. week[area][j].s = 0
    BY <1>0, <2>1, WeekFacts
  <2> QED BY <2>1, <2>2 DEF SkipPeriod, Missing, Usable
<1>9. \A a \in Areas, o \in Starts : Over(a, o)' =>
         /\ <<"remix", a>> \notin gaveUp' => HydroIsKept(a, o)'
         /\ LevelledIn(a, o)'
  BY <1>0, <1>1, <1>2, <1>7, <1>8, SamePeriod DEF Rest, Kept, Shaved
<1>10. Kept' /\ Shaved'
  BY <1>1, <1>9 DEF Kept, Shaved, Starts
<1>11. Margins'
  BY <1>2 DEF Margins
<1> QED BY <1>4, <1>5, <1>6, <1>10, <1>11 DEF Rest

\* A loop that goes on, or begins, changes nothing of the results.
LEMMA RestSearch ==
  ASSUME Sound, Rest, BeginPeriod \/ RemixAgain \/ BeginMargin \/ MarginAgain
  PROVE  Rest'
<1>0. TypeOK /\ area \in Areas /\ offset \in Starts
  BY DEF Sound, TypeOK, Position
<1>1. /\ week' = week /\ shave' = shave /\ step' = step /\ H' = H /\ D' = D /\ gaveUp' = gaveUp
      /\ area' = area /\ offset' = offset
      /\ pc' \in {"level", "marginLevel"}
      /\ pc' = "level" <=> pc \in {"period", "level"}
      /\ pc' = "marginLevel" <=> pc \in {"margin", "marginLevel"}
  BY DEF BeginPeriod, RemixAgain, BeginMargin, MarginAgain
<1>2. \A a \in Areas : a # area => margin'[a] = margin[a]
  <2>1. margin' = margin \/ LevelMargins
    BY DEF BeginPeriod, RemixAgain, BeginMargin, MarginAgain
  <2> QED BY <2>1 DEF LevelMargins, Sound, TypeOK
<1>3. Fresh'
  BY <1>1 DEF Rest, Fresh
<1>4. AtLevel'
  <2>1. CASE BeginPeriod
    <3>1. Period \subseteq Hours
      BY <1>0, PeriodsAreApart DEF Period
    <3>2. \A i \in Period : H[area][i] = week[area][i].h /\ D[area][i] = week[area][i].d
      BY <1>0, <2>1, <3>1, PeriodsAreApart, Lengths DEF BeginPeriod, Rest, Fresh, Period, Block
    <3>3. {i \in Period : Movable(i)} = MovableIn(area, offset)
      BY <3>2 DEF Movable, MovableIn, Wanted, Period
    <3> QED BY <1>1, <2>1, <3>3 DEF AtLevel, BeginPeriod, MovableIn, Block
  <2>2. CASE RemixAgain
    BY <1>1, <2>2 DEF AtLevel, RemixAgain, MovableIn, Block, Rest
  <2>3. CASE BeginMargin \/ MarginAgain
    BY <1>1, <2>3 DEF AtLevel, BeginMargin, MarginAgain
  <2> QED BY <2>1, <2>2, <2>3
<1>5. Balanced'
  BY <1>1 DEF Rest, Balanced, Starts, Block, MovableIn
<1>6. \A a \in Areas, o \in Starts : Over(a, o)' => Over(a, o)
  BY <1>1 DEF Over, Remainder
<1>7. \A a \in Areas, o \in Starts : Over(a, o)' =>
         /\ <<"remix", a>> \notin gaveUp' => HydroIsKept(a, o)'
         /\ LevelledIn(a, o)'
  BY <1>1, <1>6, SamePeriod DEF Rest, Kept, Shaved
<1>8. Kept' /\ Shaved'
  BY <1>1, <1>7 DEF Kept, Shaved, Starts
<1>9. Margins'
  <2> SUFFICES ASSUME NEW a \in Areas, MarginDone(a)'
               PROVE  /\ <<"margin", a>> \notin gaveUp' => MarginIsOfTheWeek(a)'
                      /\ MarginsAreLevelled(a)'
    BY DEF Margins
  <2>1. MarginDone(a) /\ a # area
    BY <1>0, <1>1, HydroLevellingAssumption DEF MarginDone, Areas
  <2>2. margin'[a] = margin[a]
    BY <1>2, <2>1
  <2>3. \A i \in Hours : Operational(a, i)' = Operational(a, i)
    BY <1>1 DEF Operational
  <2>4. [i \in Hours |-> Operational(a, i)' - margin'[a][i]]
        = [i \in Hours |-> Operational(a, i) - margin[a][i]]
    BY <2>2, <2>3
  <2>5. MarginIsOfTheWeek(a) => MarginIsOfTheWeek(a)'
    BY <2>4 DEF MarginIsOfTheWeek
  <2>6. MarginsAreLevelled(a) => MarginsAreLevelled(a)'
    BY <1>1, <2>2, <2>3 DEF MarginsAreLevelled
  <2> QED BY <1>1, <2>1, <2>5, <2>6 DEF Rest, Margins
<1> QED BY <1>3, <1>4, <1>5, <1>8, <1>9 DEF Rest

\* The period that ends is levelled by its last level, and its hydro is kept if the loop
\* ended on its own; the other periods do not meet it.
LEMMA RestRemix == Sound /\ Rest /\ RemixEnds => Rest'
<1> SUFFICES ASSUME Sound, Rest, RemixEnds PROVE Rest'
  OBVIOUS
<1>0. /\ TypeOK /\ offset \in Starts /\ area \in Areas /\ pc = "level" /\ Period \subseteq Hours
      /\ pc' # "level" /\ Period = Block(offset)
      /\ step \in Nat \ {0} /\ offset \in Nat /\ loop \in Int
      /\ \A a \in Areas, i \in Hours : H[a][i] \in Nat /\ D[a][i] \in Nat
  BY Lengths, PeriodsAreApart DEF Sound, TypeOK, Position, RemixEnds, AfterPeriod, Period
<1>1. /\ week' = week /\ shave' = shave /\ step' = step /\ remix' = remix /\ margin' = margin
      /\ gaveUp \subseteq gaveUp'
      /\ loop = 1 => <<"remix", area>> \in gaveUp'
      /\ AfterPeriod(gaveUp')
  BY DEF RemixEnds
<1>2. /\ \A a \in Areas : \A o \in Starts : Over(a, o)' => Over(a, o) \/ (a = area /\ o = offset)
      /\ pc' = "period" => \A a \in Areas : \A i \in Hours :
              a > area' \/ (a = area' /\ i >= offset')
              => a > area \/ (a = area /\ i >= offset + step)
      /\ \A a \in Areas : ~MarginDone(a)'
  BY <1>0, <1>1, NextPeriod
<1>3. remix = MovableIn(area, offset) /\ remix \subseteq Period /\ remix \subseteq Hours
  BY <1>0 DEF Rest, AtLevel, MovableIn
<1>4. \A i \in Period : H[area][i] = week[area][i].h /\ D[area][i] = week[area][i].d
  BY <1>0 DEF Rest, Fresh, Period, Block
<1>5. /\ \A a \in Areas : a # area => H'[a] = H[a] /\ D'[a] = D[a]
      /\ \A i \in Hours \ remix : H'[area][i] = H[area][i] /\ D'[area][i] = D[area][i]
      /\ \A i \in remix : /\ H'[area][i] = Served(Niveau, i)
                          /\ D'[area][i] = Wanted(i) - Served(Niveau, i)
  BY <1>0, <1>3, RemixWrites
<1>6. Niveau \in Int
  BY <1>0, NiveauInt
<1>7. \A i \in remix :
        /\ Wanted(i) \in Nat /\ week[area][i].load \in Int /\ week[area][i].pmax \in Nat
        /\ Served(Niveau, i) \in Nat
        /\ Served(Niveau, i) <= week[area][i].pmax
        /\ Served(Niveau, i) < Wanted(i) /\ Served(Niveau, i) < week[area][i].pmax
           => Ground(i) + Served(Niveau, i) >= Niveau
        /\ Served(Niveau, i) > 0 => Ground(i) + Served(Niveau, i) <= Niveau
  BY <1>0, <1>3, <1>6, WeekFacts, ServedFacts DEF Wanted
<1>8. Fresh'
  <2> SUFFICES ASSUME pc' = "period", NEW a \in Areas, NEW i \in Hours,
                      a > area' \/ (a = area' /\ i >= offset')
               PROVE  H'[a][i] = week'[a][i].h /\ D'[a][i] = week'[a][i].d
    BY <1>0 DEF Fresh
  <2>1. a > area \/ (a = area /\ i >= offset + step)
    BY <1>2
  <2>2. a # area \/ i \notin remix
    BY <1>0, <1>3, <2>1 DEF Period, Block, Areas
  <2>3. H'[a][i] = H[a][i] /\ D'[a][i] = D[a][i]
    BY <1>5, <2>2
  <2>4. a > area \/ (a = area /\ i >= offset)
    BY <1>0, <2>1 DEF Hours
  <2> QED BY <1>0, <1>1, <2>3, <2>4 DEF Rest, Fresh
<1>9. AtLevel'
  BY <1>0 DEF AtLevel
<1>10. Balanced'
  <2>1. \A a \in Areas, i \in Hours :
          H'[a][i] + D'[a][i] = week[a][i].h + week[a][i].d /\ H'[a][i] <= week[a][i].pmax
    <3> SUFFICES ASSUME NEW a \in Areas, NEW i \in Hours
                 PROVE  /\ H'[a][i] + D'[a][i] = week[a][i].h + week[a][i].d
                        /\ H'[a][i] <= week[a][i].pmax
      OBVIOUS
    <3>1. H[a][i] + D[a][i] = week[a][i].h + week[a][i].d /\ H[a][i] <= week[a][i].pmax
      BY DEF Rest, Balanced
    <3>2. CASE a = area /\ i \in remix
      BY <1>5, <1>7, <3>1, <3>2 DEF Wanted
    <3>3. CASE ~(a = area /\ i \in remix)
      BY <1>5, <3>1, <3>3
    <3> QED BY <3>2, <3>3
  <2>2. \A a \in Areas, o \in Starts : \A i \in Block(o) \ MovableIn(a, o) :
          H'[a][i] = week[a][i].h
    <3> SUFFICES ASSUME NEW a \in Areas, NEW o \in Starts, NEW i \in Block(o) \ MovableIn(a, o)
                 PROVE  H'[a][i] = week[a][i].h
      OBVIOUS
    <3>1. i \in Hours
      BY <1>0, PeriodsAreApart
    <3>2. H[a][i] = week[a][i].h
      BY DEF Rest, Balanced
    <3>3. a # area \/ i \notin remix
      BY <1>0, <1>3, PeriodsAreApart
    <3> QED BY <1>5, <3>1, <3>2, <3>3
  <2> QED BY <1>1, <2>1, <2>2 DEF Balanced, Starts, Block, MovableIn
<1>11. ASSUME NEW a \in Areas, NEW o \in Starts, a = area, o = offset
       PROVE  /\ LevelledIn(a, o)'
              /\ <<"remix", a>> \notin gaveUp' => HydroIsKept(a, o)'
  <2>1. MovableIn(a, o)' = remix
    BY <1>1, <1>3, <1>11 DEF MovableIn, Block
  <2>2. ASSUME NEW i \in remix, NEW j \in remix,
               D'[a][i] > 0, H'[a][i] < week[a][i].pmax, H'[a][j] > 0
        PROVE  week[a][i].load - D'[a][i] >= week[a][j].load - D'[a][j]
    <3>1. /\ H'[a][i] = Served(Niveau, i) /\ D'[a][i] = Wanted(i) - Served(Niveau, i)
          /\ H'[a][j] = Served(Niveau, j) /\ D'[a][j] = Wanted(j) - Served(Niveau, j)
      BY <1>5, <1>11
    <3>2. Ground(i) + Served(Niveau, i) >= Niveau
      BY <1>7, <1>11, <2>2, <3>1
    <3>3. Ground(j) + Served(Niveau, j) <= Niveau
      BY <1>7, <2>2, <3>1
    <3>4. Ground(i) = week[a][i].load - Wanted(i) /\ Ground(j) = week[a][j].load - Wanted(j)
      BY <1>11 DEF Ground
    <3>5. /\ week[a][i].load \in Int /\ week[a][j].load \in Int
          /\ Wanted(i) \in Nat /\ Wanted(j) \in Nat
          /\ Served(Niveau, i) \in Nat /\ Served(Niveau, j) \in Nat
      BY <1>7, <1>11
    <3> QED BY <1>6, <3>1, <3>2, <3>3, <3>4, <3>5
  <2>3. LevelledIn(a, o)'
    BY <1>1, <2>1, <2>2 DEF LevelledIn, LoadServed
  <2>4. ASSUME <<"remix", a>> \notin gaveUp'
        PROVE  HydroIsKept(a, o)'
    <3>1. Within(RemixGap, RemixEcart)
      BY <1>1, <1>11, <2>4 DEF RemixEnds
    <3>2. [i \in remix |-> H[area][i]] = [i \in remix |-> week[a][i].h]
      BY <1>3, <1>4, <1>11
    <3>3. [i \in remix |-> Served(Niveau, i)] = [i \in remix |-> H'[a][i]]
      BY <1>5, <1>11
    <3>4. Within(Total([i \in remix |-> week[a][i].h], remix)
                 - Total([i \in remix |-> H'[a][i]], remix), RemixEcart)
      BY <3>1, <3>2, <3>3 DEF RemixGap, RemixHydro, RemixStock
    <3> QED BY <1>1, <2>1, <3>4 DEF HydroIsKept, Within
  <2> QED BY <2>3, <2>4
<1>12. ASSUME NEW a \in Areas, NEW o \in Starts, Over(a, o)'
       PROVE  /\ LevelledIn(a, o)'
              /\ <<"remix", a>> \notin gaveUp' => HydroIsKept(a, o)'
  <2>1. CASE a = area /\ o = offset
    BY <1>11, <2>1
  <2>2. CASE ~(a = area /\ o = offset)
    <3>1. Over(a, o)
      BY <1>2, <1>12, <2>2
    <3>2. MovableIn(a, o) \subseteq Hours /\ (a # area \/ MovableIn(a, o) \cap remix = {})
      BY <1>0, <1>3, <2>2, PeriodsAreApart DEF MovableIn
    <3>3. \A i \in MovableIn(a, o) : H'[a][i] = H[a][i] /\ D'[a][i] = D[a][i]
      BY <1>5, <3>2
    <3>4. /\ HydroIsKept(a, o) => HydroIsKept(a, o)'
          /\ LevelledIn(a, o) => LevelledIn(a, o)'
      BY <1>1, <3>3, SamePeriod
    <3> QED BY <1>1, <3>1, <3>4 DEF Rest, Kept, Shaved
  <2> QED BY <2>1, <2>2
<1>13. Kept' /\ Shaved'
  BY <1>1, <1>12 DEF Kept, Shaved, Starts
<1>14. Margins'
  BY <1>2 DEF Margins
<1> QED BY <1>8, <1>9, <1>10, <1>13, <1>14 DEF Rest

\* The margins of the area that ends are levelled by its last level, and are those of the week
\* unless the loop was given up.
LEMMA RestMargin ==
  ASSUME Sound, Rest, NoHydro \/ MarginEnds \/ MarginGivesUp
  PROVE  Rest'
<1>0. /\ TypeOK /\ area \in Areas /\ offset \in Starts /\ pc \in {"margin", "marginLevel"}
      /\ AfterMargin
  BY DEF Sound, TypeOK, Position, NoHydro, MarginEnds, MarginGivesUp
<1>1. /\ week' = week /\ shave' = shave /\ step' = step /\ H' = H /\ D' = D /\ offset' = offset
      /\ gaveUp \subseteq gaveUp'
      /\ \A a \in Areas : <<"remix", a>> \in gaveUp' => <<"remix", a>> \in gaveUp
      /\ MarginGivesUp => <<"margin", area>> \in gaveUp'
      /\ pc' \in {"margin", "done"}
  BY <1>0, AfterMarginType DEF NoHydro, MarginEnds, MarginGivesUp
<1>2. \A a \in Areas : MarginDone(a)' => MarginDone(a) \/ a = area
  BY <1>0, NextMargin
<1>3. \A a \in Areas : a # area => margin'[a] = margin[a]
  BY DEF NoHydro, MarginEnds, MarginGivesUp, LevelMargins, Sound, TypeOK
<1>4. Fresh' /\ AtLevel'
  BY <1>1 DEF Fresh, AtLevel
<1>5. Balanced'
  BY <1>1 DEF Rest, Balanced, Starts, Block, MovableIn
<1>6. \A a \in Areas, o \in Starts : Over(a, o)' => Over(a, o)
  BY <1>0, <1>1 DEF Over, Remainder
<1>7. \A a \in Areas, o \in Starts : Over(a, o)' =>
         /\ <<"remix", a>> \notin gaveUp' => HydroIsKept(a, o)'
         /\ LevelledIn(a, o)'
  BY <1>1, <1>6, SamePeriod DEF Rest, Kept, Shaved
<1>8. Kept' /\ Shaved'
  BY <1>1, <1>7 DEF Kept, Shaved, Starts
<1>9. \A a \in Areas, i \in Hours : Operational(a, i)' = Operational(a, i)
  BY <1>1 DEF Operational
<1>10. ASSUME NEW a \in Areas, a = area
       PROVE  /\ <<"margin", a>> \notin gaveUp' => MarginIsOfTheWeek(a)'
              /\ MarginsAreLevelled(a)'
  <2>1. CASE NoHydro
    <3>1. \A i \in Hours : margin'[a][i] = Operational(a, i) /\ H[a][i] = 0
      BY <1>0, <1>10, <2>1 DEF NoHydro, TypeOK
    <3>2. \A i \in Hours : Operational(a, i) \in Int /\ week[a][i].full \in Nat
      BY <1>0, WeekFacts
    <3>3. [i \in Hours |-> Operational(a, i)' - margin'[a][i]] = [i \in Hours |-> 0]
      BY <1>9, <3>1, <3>2
    <3>4. MarginsAreLevelled(a)'
      BY <1>1, <1>9, <3>1, <3>2 DEF MarginsAreLevelled
    <3> QED BY <3>3, <3>4 DEF MarginIsOfTheWeek
  <2>2. CASE MarginEnds \/ MarginGivesUp
    <3>1. \A i \in Hours : margin'[a][i] = Levelled(Niveau, area, i)
      BY <1>0, <1>10, <2>2 DEF MarginEnds, MarginGivesUp, LevelMargins, TypeOK
    <3>2. \A i \in Hours :
            /\ Levelled(Niveau, area, i) \in Int
            /\ Levelled(Niveau, area, i) < Operational(area, i) + week[area][i].full - H[area][i]
               => Levelled(Niveau, area, i) >= Niveau
            /\ Levelled(Niveau, area, i) > Operational(area, i) - H[area][i]
               => Levelled(Niveau, area, i) <= Niveau
      BY <1>0, NiveauInt, LevelledFacts
    <3>3. \A i \in Hours :
            /\ margin'[a][i] \in Int
            /\ margin'[a][i] < Operational(a, i) + week[a][i].full - H[a][i]
               => margin'[a][i] >= Niveau
            /\ margin'[a][i] > Operational(a, i) - H[a][i] => margin'[a][i] <= Niveau
      BY <1>10, <3>1, <3>2
    <3>4. \A i, j \in Hours :
            /\ margin'[a][i] < Operational(a, i) + week[a][i].full - H[a][i]
            /\ margin'[a][j] > Operational(a, j) - H[a][j]
            => margin'[a][i] >= margin'[a][j]
      BY <1>0, <3>3, NiveauInt
    <3>5. MarginsAreLevelled(a)'
      BY <1>1, <1>9, <3>4 DEF MarginsAreLevelled
    <3>6. ASSUME MarginEnds
          PROVE  MarginIsOfTheWeek(a)'
      <4>1. Within(MarginGap, MarginEcart)
        BY <3>6 DEF MarginEnds
      <4>2. [i \in Hours |-> Operational(area, i) - Levelled(Niveau, area, i)]
            = [i \in Hours |-> Operational(a, i)' - margin'[a][i]]
        BY <1>9, <1>10, <3>1
      <4>3. Within(Total([i \in Hours |-> Operational(a, i)' - margin'[a][i]], Hours),
                   MarginEcart)
        BY <4>1, <4>2 DEF MarginGap
      <4> QED BY <4>3 DEF MarginIsOfTheWeek, Within
    <3> QED BY <1>1, <1>10, <2>2, <3>5, <3>6
  <2> QED BY <2>1, <2>2
<1>11. ASSUME NEW a \in Areas, a # area, MarginDone(a)
       PROVE  /\ <<"margin", a>> \notin gaveUp' => MarginIsOfTheWeek(a)'
              /\ MarginsAreLevelled(a)'
  <2>1. [i \in Hours |-> Operational(a, i)' - margin'[a][i]]
        = [i \in Hours |-> Operational(a, i) - margin[a][i]]
    BY <1>3, <1>9, <1>11
  <2>2. MarginIsOfTheWeek(a) => MarginIsOfTheWeek(a)'
    BY <2>1 DEF MarginIsOfTheWeek
  <2>3. MarginsAreLevelled(a) => MarginsAreLevelled(a)'
    BY <1>1, <1>3, <1>9, <1>11 DEF MarginsAreLevelled
  <2> QED BY <1>1, <1>11, <2>2, <2>3 DEF Rest, Margins
<1>12. Margins'
  BY <1>2, <1>10, <1>11 DEF Margins
<1> QED BY <1>4, <1>5, <1>8, <1>12 DEF Rest

LEMMA RestNext == Sound /\ Rest /\ [Next]_vars => Rest'
<1> SUFFICES ASSUME Sound, Rest, [Next]_vars PROVE Rest'
  OBVIOUS
<1>1. CASE SkipPeriod
  BY <1>1, RestSkip
<1>2. CASE BeginPeriod \/ RemixAgain \/ BeginMargin \/ MarginAgain
  BY <1>2, RestSearch
<1>3. CASE RemixEnds
  BY <1>3, RestRemix
<1>4. CASE NoHydro \/ MarginEnds \/ MarginGivesUp
  BY <1>4, RestMargin
<1>5. CASE UNCHANGED vars
  <2>1. Fresh' /\ AtLevel' /\ Balanced'
    BY <1>5 DEF vars, Rest, Fresh, AtLevel, Balanced, Starts, Block, MovableIn
  <2>2. Kept' /\ Shaved'
    BY <1>5 DEF vars, Rest, Kept, Shaved, Over, Starts, HydroIsKept, LevelledIn, LoadServed,
                MovableIn, Block
  <2>3. Margins'
    BY <1>5 DEF vars, Rest, Margins, MarginDone, MarginIsOfTheWeek, MarginsAreLevelled,
                Operational
  <2> QED BY <2>1, <2>2, <2>3 DEF Rest
<1> QED BY <1>1, <1>2, <1>3, <1>4, <1>5 DEF Next

-----------------------------------------------------------------------------
(* What the remix and the margins promise *)

\* What is said of an area holds of every period once the area is over.
LEMMA OverWhenRemixed ==
  ASSUME NEW a \in Areas, Remixed(a), NEW o \in Starts
  PROVE  Over(a, o)
BY DEF Remixed, Over, Remainder

LEMMA KeptImplied == Rest => EnergyIsKept
<1> SUFFICES ASSUME Rest, NEW a \in Areas
             PROVE  /\ Remixed(a) /\ <<"remix", a>> \notin gaveUp =>
                         \A o \in Starts : HydroIsKept(a, o)
                    /\ MarginDone(a) /\ <<"margin", a>> \notin gaveUp => MarginIsOfTheWeek(a)
  BY DEF EnergyIsKept, Rest, Balanced
<1> QED BY OverWhenRemixed DEF Rest, Kept, Margins

LEMMA ShavedImplied == Rest => HoursAreLevelled
<1> SUFFICES ASSUME Rest, NEW a \in Areas
             PROVE  /\ Remixed(a) => \A o \in Starts : LevelledIn(a, o)
                    /\ MarginDone(a) => MarginsAreLevelled(a)
  BY DEF HoursAreLevelled, LevelledIn, MarginsAreLevelled
<1> QED BY OverWhenRemixed DEF Rest, Shaved, Margins

\* Whatever the week, hydro that is moved replaces unsupplied energy hour by hour, within the
\* turbines and only where it may be moved, and a loop of Remix or PrepareMaxMRGFor that
\* ends keeps the energy of the period, or of the week, to its tolerance.
THEOREM EnergyIsMoved == Spec => []EnergyIsKept
<1>1. Init => Sound /\ Rest
  BY SoundInit, RestInit
<1>2. Sound /\ Rest /\ [Next]_vars => (Sound /\ Rest)'
  BY SoundNext, RestNext
<1> QED BY <1>1, <1>2, KeptImplied, PTL DEF Spec

\* Whatever the level a loop ends on, even one that is given up, no hour that lacks energy
\* could still take some from an hour of its period that serves more load, nor could a
\* margin be raised with the hydro of an hour that has a larger one.
THEOREM PeaksAreShaved == Spec => []HoursAreLevelled
<1>1. Init => Sound /\ Rest
  BY SoundInit, RestInit
<1>2. Sound /\ Rest /\ [Next]_vars => (Sound /\ Rest)'
  BY SoundNext, RestNext
<1> QED BY <1>1, <1>2, ShavedImplied, PTL DEF Spec
-----------------------------------------------------------------------------
(* Sums *)

\* A set that contains 0 and the successor of its elements is Nat: what is left out would have
\* a least element.
LEMMA NatFromZero ==
  ASSUME NEW T, T \subseteq Nat, 0 \in T, \A n \in T : n + 1 \in T
  PROVE  T = Nat
<1> SUFFICES ASSUME Nat \ T # {} PROVE FALSE
  OBVIOUS
<1>1. PICK x \in Nat \ T : \A y \in Nat \ T : ~ (<<y, x>> \in OpToRel(<, Nat))
  BY WFMin, NatLessThanWellFounded, Zenon
<1>2. x # 0 /\ x \in Nat
  BY <1>1
<1>3. x - 1 \in Nat /\ x - 1 < x /\ (x - 1) + 1 = x
  BY <1>2
<1>4. <<x - 1, x>> \in OpToRel(<, Nat)
  BY <1>2, <1>3, Zenon DEF OpToRel
<1>5. x - 1 \in T
  BY <1>1, <1>3, <1>4, Zenon
<1>6. x \in T
  BY <1>3, <1>5
<1> QED BY <1>1, <1>6

\* The element SumFunctionOnSet takes out of a set.
Chosen(s) == CHOOSE x \in s : TRUE

\* g is the sum of f over each subset of S.
SumsOf(g, f, S) ==
    /\ g \in [SUBSET S -> Int]
    /\ \A s \in SUBSET S : g[s] = IF s = {} THEN 0 ELSE f[Chosen(s)] + g[s \ {Chosen(s)}]

LEMMA ChosenIsIn == ASSUME NEW s, s # {} PROVE Chosen(s) \in s
BY DEF Chosen

LEMMA SumOfNothing == ASSUME NEW S, NEW f, NEW g, SumsOf(g, f, S) PROVE g[{}] = 0
<1>1. {} \in SUBSET S
  OBVIOUS
<1> QED BY <1>1, Zenon DEF SumsOf

\* The recursive function behind Total is defined.
LEMMA TotalSums ==
  ASSUME NEW S, IsFiniteSet(S), NEW f, \A x \in S : f[x] \in Int
  PROVE  \E g : SumsOf(g, f, S) /\ Total(f, S) = g[S]
<1> DEFINE Small(n) == {s \in SUBSET S : Cardinality(s) <= n}
           Body(g, s) == IF s = {} THEN 0 ELSE f[Chosen(s)] + g[s \ {Chosen(s)}]
           Sums(g, n) == g \in [Small(n) -> Int] /\ \A s \in Small(n) : g[s] = Body(g, s)
           T == {n \in Nat : \E g : Sums(g, n)}
<1>1. \A s \in SUBSET S : IsFiniteSet(s) /\ Cardinality(s) \in Nat
  BY FS_Subset, FS_CardinalityType
<1>2. \A s \in SUBSET S : s # {} =>
         /\ Chosen(s) \in S /\ s \ {Chosen(s)} \in SUBSET S
         /\ Cardinality(s \ {Chosen(s)}) = Cardinality(s) - 1
  BY <1>1, ChosenIsIn, FS_RemoveElement
<1>3. 0 \in T
  <2>1. \A s \in Small(0) : s = {}
    BY <1>1, FS_EmptySet
  <2>2. Sums([s \in Small(0) |-> 0], 0)
    BY <2>1
  <2> QED BY <2>2
<1>4. ASSUME NEW n \in T PROVE n + 1 \in T
  <2>1. PICK g : Sums(g, n)
    OBVIOUS
  <2>2. \A s \in Small(n + 1) : s # {} =>
           /\ Chosen(s) \in S
           /\ s \ {Chosen(s)} \in Small(n)
    BY <1>1, <1>2
  <2>3. \A s \in Small(n + 1) : Body(g, s) \in Int
    BY <2>1, <2>2
  <2> DEFINE h == [s \in Small(n + 1) |-> Body(g, s)]
  <2>4. \A s \in Small(n) : s \in Small(n + 1) /\ h[s] = g[s]
    BY <1>1, <2>1
  <2>5. ASSUME NEW s \in Small(n + 1) PROVE h[s] = Body(h, s)
    BY <2>2, <2>4
  <2>6. h \in [Small(n + 1) -> Int]
    BY <2>3
  <2>7. Sums(h, n + 1)
    <3> HIDE DEF h, Small, Body
    <3> QED BY <2>5, <2>6
  <2> HIDE DEF h, Sums
  <2> QED BY <2>7
<1>5. T = Nat
  <2> HIDE DEF T
  <2> QED BY <1>3, <1>4, NatFromZero DEF T
<1>6. PICK g : Sums(g, Cardinality(S))
  BY <1>1, <1>5
<1>7. Small(Cardinality(S)) = SUBSET S
  BY FS_Subset
<1>8. SumsOf(g, f, S)
  <2> HIDE DEF Small
  <2> QED BY <1>6, <1>7 DEF SumsOf
<1> DEFINE iter[s \in SUBSET S] == IF s = {} THEN 0 ELSE f[Chosen(s)] + iter[s \ {Chosen(s)}]
<1>9. Total(f, S) = iter[S]
  BY Zenon DEF Total, SumFunctionOnSet, FoldFunctionOnSet, MapThenFoldSet, Chosen
<1>10. g = [s \in SUBSET S |-> IF s = {} THEN 0 ELSE f[Chosen(s)] + g[s \ {Chosen(s)}]]
  BY <1>8 DEF SumsOf
<1>11. iter = [s \in SUBSET S |-> IF s = {} THEN 0 ELSE f[Chosen(s)] + iter[s \ {Chosen(s)}]]
  BY <1>10
<1> HIDE DEF iter, Small, T
<1>12. \A s \in SUBSET S : iter[s] = IF s = {} THEN 0 ELSE f[Chosen(s)] + iter[s \ {Chosen(s)}]
  BY <1>11, Zenon
<1> DEFINE U == {n \in Nat : \A s \in SUBSET S : Cardinality(s) <= n => iter[s] = g[s]}
<1>13. 0 \in U
  <2>1. \A s \in SUBSET S : Cardinality(s) <= 0 => s = {}
    BY <1>1, FS_EmptySet
  <2>2. {} \in SUBSET S
    OBVIOUS
  <2>3. iter[{}] = 0 /\ g[{}] = 0
    BY <1>8, <1>12, <2>2, SumOfNothing, Zenon
  <2> QED BY <2>1, <2>3
<1>14. ASSUME NEW n \in U PROVE n + 1 \in U
  <2> SUFFICES ASSUME NEW s \in SUBSET S, Cardinality(s) <= n + 1 PROVE iter[s] = g[s]
    OBVIOUS
  <2>1. CASE s = {}
    BY <2>1, <1>8, <1>12 DEF SumsOf
  <2>2. CASE s # {}
    <3>1. s \ {Chosen(s)} \in SUBSET S /\ Cardinality(s \ {Chosen(s)}) <= n
      BY <2>2, <1>1, <1>2
    <3> QED BY <2>2, <3>1, <1>8, <1>12 DEF SumsOf
  <2> QED BY <2>1, <2>2
<1>15. U = Nat
  <2> HIDE DEF U
  <2> QED BY <1>13, <1>14, NatFromZero DEF U
<1>16. iter[S] = g[S]
  BY <1>1, <1>15
<1> QED BY <1>8, <1>9, <1>16

\* What holds of the empty set and of a set when it holds of that set without the element
\* taken first holds of every subset.
LEMMA SubsetInduction ==
  ASSUME NEW S, IsFiniteSet(S), NEW G, {} \in G,
         \A s \in SUBSET S : s # {} /\ s \ {Chosen(s)} \in G => s \in G
  PROVE  S \in G
<1> DEFINE Bad == {s \in SUBSET S : s \notin G}
<1> SUFFICES ASSUME S \notin G PROVE FALSE
  OBVIOUS
<1>1. Bad \subseteq FiniteSubsetsOf(S) /\ Bad # {}
  BY FS_Subset DEF FiniteSubsetsOf
<1>2. PICK s \in Bad : \A t \in Bad : ~ (<<t, s>> \in StrictSubsetOrdering(S))
  <2> HIDE DEF Bad
  <2> QED BY <1>1, WFMin, FS_StrictSubsetOrderingWellFounded, Zenon
<1>3. s # {} /\ Chosen(s) \in s
  BY ChosenIsIn
<1>4. s \ {Chosen(s)} \in Bad
  BY <1>3
<1>5. <<s \ {Chosen(s)}, s>> \in StrictSubsetOrdering(S)
  BY <1>3 DEF StrictSubsetOrdering
<1> QED BY <1>2, <1>4, <1>5

LEMMA TotalIsInt ==
  ASSUME NEW S, IsFiniteSet(S), NEW f, \A x \in S : f[x] \in Int
  PROVE  Total(f, S) \in Int
<1>1. PICK g : SumsOf(g, f, S) /\ Total(f, S) = g[S]
  BY TotalSums
<1> QED BY <1>1 DEF SumsOf

\* Sums follow their terms.
LEMMA TotalMonotone ==
  ASSUME NEW S, IsFiniteSet(S), NEW low, NEW high,
         \A x \in S : low[x] \in Int /\ high[x] \in Int /\ low[x] <= high[x]
  PROVE  Total(low, S) <= Total(high, S)
<1>1. PICK l : SumsOf(l, low, S) /\ Total(low, S) = l[S]
  BY TotalSums
<1>2. PICK h : SumsOf(h, high, S) /\ Total(high, S) = h[S]
  BY TotalSums
<1> DEFINE G == {s \in SUBSET S : l[s] <= h[s]}
<1>3. {} \in G
  <2>1. l[{}] = 0 /\ h[{}] = 0
    BY <1>1, <1>2, SumOfNothing
  <2> QED BY <2>1
<1>4. ASSUME NEW s \in SUBSET S, s # {}, s \ {Chosen(s)} \in G PROVE s \in G
  <2>1. Chosen(s) \in S
    BY <1>4, ChosenIsIn
  <2> DEFINE rest == s \ {Chosen(s)}
  <2>2. rest \in SUBSET S /\ l[rest] \in Int /\ h[rest] \in Int /\ l[rest] <= h[rest]
    BY <1>1, <1>2, <1>4 DEF SumsOf
  <2>3. l[s] = low[Chosen(s)] + l[rest] /\ h[s] = high[Chosen(s)] + h[rest]
    BY <1>1, <1>2, <1>4 DEF SumsOf
  <2> HIDE DEF rest
  <2> QED BY <2>1, <2>2, <2>3
<1>5. S \in G
  <2> HIDE DEF G
  <2> QED BY <1>3, <1>4, SubsetInduction
<1> QED BY <1>1, <1>2, <1>5

\* Sums of terms that differ by one at most differ by the number of terms at most.
LEMMA TotalClose ==
  ASSUME NEW S, IsFiniteSet(S), NEW low, NEW high,
         \A x \in S : low[x] \in Int /\ high[x] \in Int /\ high[x] <= low[x] + 1
  PROVE  Total(high, S) <= Total(low, S) + Cardinality(S)
<1>1. PICK l : SumsOf(l, low, S) /\ Total(low, S) = l[S]
  BY TotalSums
<1>2. PICK h : SumsOf(h, high, S) /\ Total(high, S) = h[S]
  BY TotalSums
<1> DEFINE G == {s \in SUBSET S : h[s] <= l[s] + Cardinality(s)}
<1>3. {} \in G
  <2>1. l[{}] = 0 /\ h[{}] = 0
    BY <1>1, <1>2, SumOfNothing
  <2> QED BY <2>1, FS_EmptySet
<1>4. ASSUME NEW s \in SUBSET S, s # {}, s \ {Chosen(s)} \in G PROVE s \in G
  <2>1. Chosen(s) \in S /\ Chosen(s) \in s
    BY <1>4, ChosenIsIn
  <2> DEFINE rest == s \ {Chosen(s)}
  <2>2. /\ rest \in SUBSET S /\ l[rest] \in Int /\ h[rest] \in Int
        /\ h[rest] <= l[rest] + Cardinality(rest)
    BY <1>1, <1>2, <1>4 DEF SumsOf
  <2>3. l[s] = low[Chosen(s)] + l[rest] /\ h[s] = high[Chosen(s)] + h[rest]
    BY <1>1, <1>2, <1>4 DEF SumsOf
  <2>4. Cardinality(s) \in Nat /\ Cardinality(rest) = Cardinality(s) - 1
    BY <2>1, FS_Subset, FS_CardinalityType, FS_RemoveElement
  <2> HIDE DEF rest
  <2> QED BY <2>1, <2>2, <2>3, <2>4
<1>5. S \in G
  <2> HIDE DEF G
  <2> QED BY <1>3, <1>4, SubsetInduction
<1> QED BY <1>1, <1>2, <1>5

LEMMA TotalOfZeros == ASSUME NEW S, IsFiniteSet(S) PROVE Total([x \in S |-> 0], S) = 0
<1> DEFINE zero == [x \in S |-> 0]
<1>1. PICK g : SumsOf(g, zero, S) /\ Total(zero, S) = g[S]
  BY TotalSums
<1> DEFINE G == {s \in SUBSET S : g[s] = 0}
<1>2. {} \in G
  <2>1. g[{}] = 0
    BY <1>1, SumOfNothing
  <2> QED BY <2>1
<1>3. ASSUME NEW s \in SUBSET S, s # {}, s \ {Chosen(s)} \in G PROVE s \in G
  <2>1. Chosen(s) \in S
    BY <1>3, ChosenIsIn
  <2>2. g[s] = zero[Chosen(s)] + g[s \ {Chosen(s)}]
    BY <1>1, <1>3 DEF SumsOf
  <2> QED BY <1>3, <2>1, <2>2
<1>4. S \in G
  <2> HIDE DEF G, zero
  <2> QED BY <1>2, <1>3, SubsetInduction
<1> QED BY <1>1, <1>4

\* Powers of two.
LEMMA TwoToSteps ==
  /\ TwoTo[0] = 1
  /\ \A n \in 0 .. MaxLoops : TwoTo[n] \in Nat /\ TwoTo[n] >= 1
  /\ \A n \in 0 .. MaxLoops - 1 : TwoTo[n + 1] = 2 * TwoTo[n]
<1> DEFINE Body(g, n) == IF n = 0 THEN 1 ELSE 2 * g[n - 1]
           Powers(g, n) == g \in [0 .. n -> Nat] /\ \A k \in 0 .. n : g[k] = Body(g, k) /\ g[k] >= 1
           T == {n \in Nat : \E g : Powers(g, n)}
<1>0. MaxLoops \in Nat \ {0}
  BY HydroLevellingAssumption
<1>1. 0 \in T
  <2>1. Powers([k \in 0 .. 0 |-> 1], 0)
    OBVIOUS
  <2> QED BY <2>1
<1>2. ASSUME NEW n \in T PROVE n + 1 \in T
  <2>1. PICK g : Powers(g, n)
    OBVIOUS
  <2> DEFINE h == [k \in 0 .. n + 1 |-> IF k = n + 1 THEN 2 * g[n] ELSE g[k]]
  <2>2. h \in [0 .. n + 1 -> Nat]
    BY <2>1
  <2>3. ASSUME NEW k \in 0 .. n + 1 PROVE h[k] = Body(h, k) /\ h[k] >= 1
    <3>1. CASE k = n + 1
      BY <2>1, <3>1
    <3>2. CASE k # n + 1
      BY <2>1, <3>2
    <3> QED BY <3>1, <3>2
  <2>4. Powers(h, n + 1)
    <3> HIDE DEF h, Body
    <3> QED BY <2>2, <2>3
  <2> HIDE DEF h, Powers
  <2> QED BY <2>4
<1>3. T = Nat
  <2> HIDE DEF T
  <2> QED BY <1>1, <1>2, NatFromZero DEF T
<1>4. PICK g : Powers(g, MaxLoops)
  BY <1>0, <1>3
<1>5. g = [n \in 0 .. MaxLoops |-> IF n = 0 THEN 1 ELSE 2 * g[n - 1]]
  BY <1>4
<1>6. TwoTo = [n \in 0 .. MaxLoops |-> IF n = 0 THEN 1 ELSE 2 * TwoTo[n - 1]]
  BY <1>5 DEF TwoTo
<1>7. \A n \in 0 .. MaxLoops : TwoTo[n] = IF n = 0 THEN 1 ELSE 2 * TwoTo[n - 1]
  BY <1>6, Zenon
<1> DEFINE U == {n \in Nat : n <= MaxLoops => TwoTo[n] \in Nat /\ TwoTo[n] >= 1}
<1>8. 0 \in U
  BY <1>0, <1>7
<1>9. ASSUME NEW n \in U PROVE n + 1 \in U
  BY <1>0, <1>7
<1>10. U = Nat
  <2> HIDE DEF U
  <2> QED BY <1>8, <1>9, NatFromZero DEF U
<1>11. \A n \in 0 .. MaxLoops : TwoTo[n] \in Nat /\ TwoTo[n] >= 1
  BY <1>10
<1> QED BY <1>0, <1>7, <1>11
-----------------------------------------------------------------------------
(* The search of a level *)

\* What is left of the search: the level is between its bounds, which the turns that are left,
\* but the last, bring together.
Near == loop >= 2 /\ bottom <= top /\ top - bottom <= TwoTo[loop - 2]

RemixSearch ==
    pc = "level" =>
        /\ loop >= 2
        /\ remix # {} => /\ Near
                         /\ RemixStock(bottom) <= RemixHydro /\ RemixHydro <= RemixStock(top)

\* What the hydro of the week gives when the margins are brought to a level.
Given(level) == Total([i \in Hours |-> Operational(area, i) - Levelled(level, area, i)], Hours)

MarginSearch ==
    pc = "marginLevel" /\ NotIncreased(area) => Near /\ Given(bottom) >= 0 /\ Given(top) <= 0

NeverGivenUp ==
    \A a \in Areas : /\ <<"remix", a>> \notin gaveUp
                     /\ NotIncreased(a) => <<"margin", a>> \notin gaveUp

Found == RemixSearch /\ MarginSearch /\ NeverGivenUp

LEMMA HoursAreFinite ==
  ASSUME NEW S \in SUBSET Hours
  PROVE  IsFiniteSet(S) /\ Cardinality(S) \in Nat /\ Cardinality(S) <= NbHours
<1>1. IsFiniteSet(Hours) /\ Cardinality(Hours) = NbHours
  BY HydroLevellingAssumption, FS_Interval DEF Hours
<1> QED BY <1>1, FS_Subset, FS_CardinalityType

\* The higher the level, the more an hour is given, a unit for a unit at most.
LEMMA ServedGrows ==
  ASSUME TypeOK, NEW i \in Hours, NEW low \in Int, NEW high \in Int, low <= high
  PROVE  /\ Served(low, i) \in Int /\ Served(high, i) \in Int
         /\ Served(low, i) <= Served(high, i)
         /\ high <= low + 1 => Served(high, i) <= Served(low, i) + 1
<1>1. area \in Areas
  BY DEF TypeOK
<1>2. /\ Wanted(i) \in Nat /\ week[area][i].load \in Int /\ week[area][i].pmax \in Nat
      /\ Ground(i) = week[area][i].load - Wanted(i)
  BY <1>1, WeekFacts DEF Wanted, Ground
<1> QED BY <1>2 DEF Served, Lesser

LEMMA StockGrows ==
  ASSUME TypeOK, NEW low \in Int, NEW high \in Int, low <= high
  PROVE  /\ RemixStock(low) \in Int /\ RemixStock(high) \in Int /\ RemixHydro \in Int
         /\ RemixStock(low) <= RemixStock(high)
         /\ high <= low + 1 => RemixStock(high) <= RemixStock(low) + NbHours
<1>1. /\ remix \in SUBSET Hours /\ IsFiniteSet(remix)
      /\ Cardinality(remix) \in Nat /\ Cardinality(remix) <= NbHours
  BY HoursAreFinite DEF TypeOK
<1>2. \A i \in remix : H[area][i] \in Int
  BY <1>1 DEF TypeOK
<1> DEFINE l == [i \in remix |-> Served(low, i)]
           h == [i \in remix |-> Served(high, i)]
           g == [i \in remix |-> H[area][i]]
<1>3. \A i \in remix : /\ l[i] \in Int /\ h[i] \in Int /\ l[i] <= h[i] /\ g[i] \in Int
                       /\ high <= low + 1 => h[i] <= l[i] + 1
  BY <1>1, <1>2, ServedGrows
<1> HIDE DEF l, h, g
<1>4. /\ Total(l, remix) \in Int /\ Total(h, remix) \in Int /\ Total(g, remix) \in Int
      /\ Total(l, remix) <= Total(h, remix)
      /\ high <= low + 1 => Total(h, remix) <= Total(l, remix) + Cardinality(remix)
  BY <1>1, <1>3, TotalIsInt, TotalMonotone, TotalClose
<1> QED BY <1>1, <1>4, HydroLevellingAssumption DEF RemixStock, RemixHydro, l, h, g

\* The margins grow with the level, as far as the turbines hold what is stored in the hour.
LEMMA MarginGrows ==
  ASSUME TypeOK, NEW i \in Hours, NEW low \in Int, NEW high \in Int, low <= high,
         H[area][i] <= week[area][i].full
  PROVE  /\ Levelled(low, area, i) \in Int /\ Levelled(high, area, i) \in Int
         /\ Operational(area, i) \in Int
         /\ Levelled(low, area, i) <= Levelled(high, area, i)
         /\ high <= low + 1 => Levelled(high, area, i) <= Levelled(low, area, i) + 1
<1>1. area \in Areas
  BY DEF TypeOK
<1>2. Operational(area, i) \in Int /\ week[area][i].full \in Nat /\ H[area][i] \in Nat
  BY <1>1, WeekFacts
<1> QED BY <1>2 DEF Levelled, Lesser, Greater

LEMMA GivenFalls ==
  ASSUME TypeOK, NEW low \in Int, NEW high \in Int, low <= high,
         \A i \in Hours : H[area][i] <= week[area][i].full
  PROVE  /\ Given(low) \in Int /\ Given(high) \in Int
         /\ Given(high) <= Given(low)
         /\ high <= low + 1 => Given(low) <= Given(high) + NbHours
<1>1. IsFiniteSet(Hours) /\ Cardinality(Hours) \in Nat /\ Cardinality(Hours) <= NbHours
  BY HoursAreFinite
<1> DEFINE l == [i \in Hours |-> Operational(area, i) - Levelled(low, area, i)]
           h == [i \in Hours |-> Operational(area, i) - Levelled(high, area, i)]
<1>2. ASSUME NEW i \in Hours
      PROVE  /\ l[i] \in Int /\ h[i] \in Int /\ h[i] <= l[i]
             /\ high <= low + 1 => l[i] <= h[i] + 1
  BY MarginGrows
<1> HIDE DEF l, h
<1>3. /\ Total(l, Hours) \in Int /\ Total(h, Hours) \in Int
      /\ Total(h, Hours) <= Total(l, Hours)
      /\ high <= low + 1 => Total(l, Hours) <= Total(h, Hours) + Cardinality(Hours)
  BY <1>1, <1>2, TotalIsInt, TotalMonotone, TotalClose
<1> QED BY <1>1, <1>3, HydroLevellingAssumption DEF Given, l, h

\* The level tried is between the bounds and either half is half the width, rounded up.
LEMMA Midpoint ==
  ASSUME TypeOK, bottom <= top
  PROVE  /\ bottom <= Niveau /\ Niveau <= top
         /\ \A n \in Nat : top - bottom <= 2 * n => top - Niveau <= n /\ Niveau - bottom <= n
         /\ top - bottom <= 1 => Niveau <= bottom + 1 /\ top <= Niveau + 1
<1>1. bottom \in Int /\ top \in Int
  BY DEF TypeOK
<1> DEFINE m == Niveau
<1>2. m \in Int /\ 2 * m <= top + bottom /\ top + bottom <= 2 * m + 1
  BY <1>1 DEF Niveau
<1> HIDE DEF m
<1>3. /\ bottom <= m /\ m <= top
      /\ \A n \in Nat : top - bottom <= 2 * n => top - m <= n /\ m - bottom <= n
      /\ top - bottom <= 1 => m <= bottom + 1 /\ top <= m + 1
  BY <1>1, <1>2
<1> QED BY <1>3 DEF m

\* Two bounds within half a size of zero are no further apart than that size.
LEMMA WidthOfBounds ==
  ASSUME NEW size \in Nat, NEW high \in Int, NEW low \in Int, 0 <= high, 2 * high <= size,
         0 <= low \/ -size <= 2 * low
  PROVE  high - low <= size
OBVIOUS

\* A turn that is not the last of those that count leaves the bounds near enough.
LEMMA NearHalved ==
  ASSUME TypeOK, Near, NEW gap \in Int, Halve(gap), loop > 2
  PROVE  Near'
<1>1. bottom \in Int /\ top \in Int /\ loop \in 0 .. MaxLoops /\ MaxLoops \in Nat
  BY HydroLevellingAssumption DEF TypeOK
<1>2. loop' = loop - 1 /\ loop' >= 2
  BY <1>1 DEF Halve
<1>3. TwoTo[loop - 2] = 2 * TwoTo[loop' - 2] /\ TwoTo[loop' - 2] \in Nat
  <2>1. loop - 3 \in 0 .. MaxLoops - 1 /\ (loop - 3) + 1 = loop - 2 /\ loop - 3 \in 0 .. MaxLoops
    BY <1>1
  <2>2. TwoTo[(loop - 3) + 1] = 2 * TwoTo[loop - 3] /\ TwoTo[loop - 3] \in Nat
    BY <2>1, TwoToSteps
  <2>3. loop' - 2 = loop - 3
    BY <1>1, <1>2
  <2> QED BY <2>1, <2>2, <2>3
<1>4. /\ bottom <= Niveau /\ Niveau <= top
      /\ top - Niveau <= TwoTo[loop' - 2] /\ Niveau - bottom <= TwoTo[loop' - 2]
  BY <1>3, Midpoint DEF Near
<1>5. Niveau \in Int
  BY NiveauInt
<1> QED BY <1>1, <1>2, <1>4, <1>5 DEF Near, Halve

\* One level apart from its bounds, the search is over.
LEMMA RemixWithin ==
  ASSUME TypeOK, UnitIsFine, RemixSearch, pc = "level", ~Within(RemixGap, RemixEcart)
  PROVE  remix # {} /\ loop > 2
<1>1. ASSUME remix = {} PROVE FALSE
  <2>1. RemixGap = Total([i \in remix |-> H[area][i]], remix)
                   - Total([i \in remix |-> Served(Niveau, i)], remix)
    BY DEF RemixGap, RemixHydro, RemixStock
  <2>2. [i \in remix |-> H[area][i]] = [i \in remix |-> Served(Niveau, i)]
    BY <1>1
  <2>3. RemixGap = RemixHydro - RemixHydro
    BY <2>1, <2>2 DEF RemixHydro
  <2>4. RemixHydro \in Int
    BY NiveauInt, StockGrows
  <2>5. RemixGap = 0
    BY <2>3, <2>4
  <2> QED BY <2>5, HydroLevellingAssumption DEF Within
<1>2. ASSUME remix # {}, loop = 2 PROVE FALSE
  <2>1. /\ bottom \in Int /\ top \in Int /\ Niveau \in Int
        /\ bottom <= top /\ top - bottom <= 1
    <3>1. top - bottom <= TwoTo[0]
      BY <1>2 DEF RemixSearch, Near
    <3> QED BY <1>2, <3>1, TwoToSteps, NiveauInt DEF RemixSearch, Near, TypeOK
  <2>2. bottom <= Niveau /\ Niveau <= top /\ Niveau <= bottom + 1 /\ top <= Niveau + 1
    BY <2>1, Midpoint
  <2>3. /\ RemixStock(bottom) \in Int /\ RemixStock(top) \in Int /\ RemixStock(Niveau) \in Int
        /\ RemixHydro \in Int
        /\ RemixStock(Niveau) <= RemixStock(bottom) + NbHours
        /\ RemixStock(top) <= RemixStock(Niveau) + NbHours
    BY <2>1, <2>2, StockGrows
  <2>4. RemixStock(bottom) <= RemixHydro /\ RemixHydro <= RemixStock(top)
    BY <1>2 DEF RemixSearch
  <2> HIDE DEF RemixStock, RemixHydro
  <2>5. -NbHours <= RemixGap /\ RemixGap <= NbHours
    BY <2>3, <2>4, HydroLevellingAssumption DEF RemixGap
  <2>6. RemixGap \in Int
    BY <2>3 DEF RemixGap
  <2> QED BY <2>5, <2>6, HydroLevellingAssumption DEF Within, UnitIsFine
<1>3. loop \in Nat /\ loop >= 2
  BY DEF RemixSearch, TypeOK
<1> QED BY <1>1, <1>2, <1>3

LEMMA MarginWithin ==
  ASSUME TypeOK, UnitIsFine, MarginSearch, pc = "marginLevel", NotIncreased(area),
         \A i \in Hours : H[area][i] <= week[area][i].full
  PROVE  /\ loop >= 2
         /\ ~Within(MarginGap, MarginEcart) => loop > 2
<1>1. /\ bottom \in Int /\ top \in Int /\ Niveau \in Int /\ loop \in Nat
      /\ Near /\ Given(bottom) >= 0 /\ Given(top) <= 0
  BY NiveauInt DEF MarginSearch, TypeOK
<1>2. MarginGap = Given(Niveau)
  BY DEF MarginGap, Given
<1>3. ASSUME loop = 2 PROVE Within(MarginGap, MarginEcart)
  <2>1. bottom <= top /\ top - bottom <= 1
    <3>1. top - bottom <= TwoTo[0]
      BY <1>1, <1>3 DEF Near
    <3> QED BY <1>1, <3>1, TwoToSteps DEF Near
  <2>2. bottom <= Niveau /\ Niveau <= top /\ Niveau <= bottom + 1 /\ top <= Niveau + 1
    BY <2>1, Midpoint
  <2>3. /\ Given(bottom) \in Int /\ Given(top) \in Int /\ Given(Niveau) \in Int
        /\ Given(bottom) <= Given(Niveau) + NbHours
        /\ Given(Niveau) <= Given(top) + NbHours
    BY <1>1, <2>2, GivenFalls
  <2>4. -NbHours <= MarginGap /\ MarginGap <= NbHours /\ MarginGap \in Int
    BY <1>1, <1>2, <2>3, HydroLevellingAssumption
  <2> QED BY <2>4, HydroLevellingAssumption DEF Within, UnitIsFine
<1> QED BY <1>1, <1>3 DEF Near

\* What a turn compares does not change when the results do not.
LEMMA SameStock ==
  ASSUME UNCHANGED <<week, area, H, D, remix>>
  PROVE  /\ RemixHydro' = RemixHydro
         /\ RemixStock(bottom)' = RemixStock(bottom')
         /\ RemixStock(top)' = RemixStock(top')
         /\ Given(bottom)' = Given(bottom')
         /\ Given(top)' = Given(top')
         /\ NotIncreased(area)' = NotIncreased(area)
BY DEF RemixHydro, RemixStock, Served, Wanted, Ground, Given, Operational, Levelled, NotIncreased

\* The bounds a period begins with: with the lowest load none is given, with the highest
\* all that was turbined may be given.
LEMMA FoundBeginPeriod == Sound /\ Rest /\ Found /\ UnitIsFine /\ BeginPeriod => Found'
<1> SUFFICES ASSUME Sound, Rest, Found, UnitIsFine, BeginPeriod PROVE Found'
  OBVIOUS
<1>0. TypeOK /\ area \in Areas /\ offset \in Starts /\ week \in Weeks
  BY DEF Sound, TypeOK, Position
<1>1. /\ UNCHANGED <<week, area, H, D, gaveUp>> /\ pc = "period" /\ pc' = "level" /\ loop' = MaxLoops
      /\ MaxLoops >= 2 /\ MaxLoops \in Nat
      /\ remix' = {i \in Period : Movable(i)}
      /\ bottom' \in Least({DblMax} \cup {Ground(i) : i \in remix'})
      /\ top' \in Greatest({0} \cup {week[area][i].load : i \in remix'})
  BY HydroLevellingAssumption DEF BeginPeriod, UnitIsFine
<1>2. remix' \subseteq Hours
  BY <1>0, <1>1, PeriodsAreApart DEF Period
<1> DEFINE size == TwoTo[MaxLoops - 2]
<1>3. ASSUME NEW i \in remix'
      PROVE  /\ i \in Hours
             /\ H[area][i] \in Nat /\ D[area][i] \in Nat /\ Wanted(i) > 0
             /\ Wanted(i) = H[area][i] + D[area][i]
             /\ week[area][i].load \in Int /\ Ground(i) \in Int
             /\ Ground(i) = week[area][i].load - Wanted(i)
             /\ week[area][i].pmax \in Nat /\ H[area][i] <= week[area][i].pmax
             /\ -size <= 2 * Ground(i) /\ 2 * Ground(i) <= size
             /\ -size <= 2 * week[area][i].load /\ 2 * week[area][i].load <= size
  <2>1. i \in Hours /\ Movable(i)
    BY <1>1, <1>2
  <2>2. /\ H[area][i] \in Nat /\ D[area][i] \in Nat /\ week[area][i].load \in Int
        /\ week[area][i].pmax \in Nat
        /\ H[area][i] + D[area][i] = week[area][i].h + week[area][i].d
        /\ H[area][i] <= week[area][i].pmax
        /\ week[area][i].h \in Nat /\ week[area][i].d \in Nat
    BY <1>0, <2>1, WeekFacts DEF Rest, Balanced
  <2>3. /\ Wanted(i) = H[area][i] + D[area][i] /\ Wanted(i) > 0
        /\ Ground(i) = week[area][i].load - Wanted(i)
        /\ Ground(i) = week[area][i].load - week[area][i].h - week[area][i].d
    BY <2>1, <2>2 DEF Movable, Wanted, Ground
  <2>4. \A e \in {week[area][i].load, week[area][i].load - week[area][i].h - week[area][i].d} :
           -size <= 2 * e /\ 2 * e <= size
    BY <1>0, <2>1 DEF UnitIsFine
  <2> QED BY <2>1, <2>2, <2>3, <2>4
<1>4. /\ bottom' \in Int /\ top' \in Int /\ 0 <= top' /\ 2 * top' <= size
      /\ \A i \in remix' : bottom' <= Ground(i) /\ week[area][i].load <= top'
      /\ bottom' = DblMax \/ -size <= 2 * bottom'
      /\ size \in Nat
  <2>1. size \in Nat
    BY <1>1, TwoToSteps
  <2>2. bottom' = DblMax \/ \E i \in remix' : bottom' = Ground(i)
    BY <1>1 DEF Least
  <2>3. top' = 0 \/ \E i \in remix' : top' = week[area][i].load
    BY <1>1 DEF Greatest
  <2>4. bottom' <= DblMax /\ \A i \in remix' : bottom' <= Ground(i)
    BY <1>1 DEF Least
  <2>5. 0 <= top' /\ \A i \in remix' : week[area][i].load <= top'
    BY <1>1 DEF Greatest
  <2> HIDE DEF size
  <2> QED BY <2>1, <2>2, <2>3, <2>4, <2>5, <1>3, HydroLevellingAssumption
<1>5. ASSUME remix' # {} PROVE Near'
  <2>1. PICK i \in remix' : TRUE
    BY <1>5
  <2>2. bottom' < top'
    BY <2>1, <1>3, <1>4
  <2>3. top' - bottom' <= size
    <3>1. size \in Nat /\ top' \in Int /\ bottom' \in Int /\ 0 <= top' /\ 2 * top' <= size
      BY <1>4
    <3>2. 0 <= bottom' \/ -size <= 2 * bottom'
      BY <1>4, HydroLevellingAssumption
    <3> QED BY <3>1, <3>2, WidthOfBounds
  <2> QED BY <2>2, <2>3, <1>1, <1>4 DEF Near
<1> DEFINE none == [i \in remix' |-> Served(bottom', i)]
           turbined == [i \in remix' |-> H[area][i]]
           all == [i \in remix' |-> Served(top', i)]
<1>6. ASSUME NEW i \in remix'
      PROVE  /\ none[i] \in Int /\ turbined[i] \in Int /\ all[i] \in Int
             /\ none[i] <= turbined[i] /\ turbined[i] <= all[i]
  <2>1. bottom' <= Ground(i) /\ week[area][i].load <= top' /\ bottom' \in Int /\ top' \in Int
    BY <1>4
  <2>2. Served(bottom', i) = 0
    BY <1>3, <2>1 DEF Served, Lesser
  <2>3. Served(top', i) = Lesser(Wanted(i), week[area][i].pmax)
    BY <1>3, <2>1 DEF Served, Lesser
  <2> QED BY <1>3, <2>2, <2>3 DEF Lesser
<1>7. Total(none, remix') <= Total(turbined, remix') /\ Total(turbined, remix') <= Total(all, remix')
  <2>1. IsFiniteSet(remix')
    BY <1>2, HoursAreFinite
  <2> HIDE DEF none, turbined, all
  <2> QED BY <2>1, <1>6, TotalMonotone
<1>8. /\ RemixStock(bottom)' = Total(none, remix') /\ RemixStock(top)' = Total(all, remix')
      /\ RemixHydro' = Total(turbined, remix')
  BY <1>1 DEF RemixStock, RemixHydro, Served, Wanted, Ground
<1>9. RemixSearch'
  BY <1>1, <1>5, <1>7, <1>8 DEF RemixSearch
<1>10. MarginSearch'
  BY <1>1 DEF MarginSearch
<1>11. NeverGivenUp'
  BY <1>1 DEF Found, NeverGivenUp, NotIncreased
<1> QED BY <1>9, <1>10, <1>11 DEF Found

LEMMA FoundRemixAgain == Sound /\ Rest /\ Found /\ UnitIsFine /\ RemixAgain => Found'
<1> SUFFICES ASSUME Sound, Rest, Found, UnitIsFine, RemixAgain PROVE Found'
  OBVIOUS
<1>1. /\ TypeOK /\ pc = "level" /\ pc' = "level" /\ RemixSearch
      /\ UNCHANGED <<week, area, H, D, remix, gaveUp>> /\ Halve(RemixGap)
      /\ ~Within(RemixGap, RemixEcart)
  BY DEF Sound, Found, RemixAgain
<1>2. remix # {} /\ loop > 2 /\ Near
  BY <1>1, RemixWithin DEF RemixSearch
<1>3. /\ RemixStock(bottom) <= RemixHydro /\ RemixHydro <= RemixStock(top)
      /\ RemixStock(Niveau) \in Int /\ RemixHydro \in Int
  BY <1>1, <1>2, NiveauInt, StockGrows DEF RemixSearch
<1>4. RemixGap \in Int /\ (RemixGap > 0 <=> RemixHydro > RemixStock(Niveau))
  <2> HIDE DEF RemixStock, RemixHydro
  <2> QED BY <1>3 DEF RemixGap
<1>5. Near'
  BY <1>1, <1>2, <1>4, NearHalved
<1>6. RemixStock(bottom') <= RemixHydro /\ RemixHydro <= RemixStock(top')
  <2>1. CASE RemixGap > 0
    <3>1. bottom' = Niveau /\ top' = top
      BY <1>1, <2>1 DEF Halve
    <3> QED BY <3>1, <2>1, <1>3, <1>4
  <2>2. CASE ~(RemixGap > 0)
    <3>1. bottom' = bottom /\ top' = Niveau
      BY <1>1, <2>2 DEF Halve
    <3> QED BY <3>1, <2>2, <1>3, <1>4
  <2> QED BY <2>1, <2>2
<1>7. RemixSearch'
  BY <1>1, <1>5, <1>6, SameStock DEF RemixSearch, Near
<1> QED BY <1>1, <1>7 DEF Found, MarginSearch, NeverGivenUp, NotIncreased

LEMMA FoundRemixEnds == Sound /\ Rest /\ Found /\ UnitIsFine /\ RemixEnds => Found'
<1> SUFFICES ASSUME Sound, Rest, Found, UnitIsFine, RemixEnds PROVE Found'
  OBVIOUS
<1>1. TypeOK /\ offset \in Starts /\ loop \in Nat
  BY DEF Sound, Position, TypeOK
<1>2. week' = week /\ gaveUp' = gaveUp /\ pc' \in {"period", "margin", "threw"}
  BY <1>1, AfterPeriodType DEF RemixEnds, Found, RemixSearch
<1> QED BY <1>2 DEF Found, RemixSearch, MarginSearch, NeverGivenUp, NotIncreased

LEMMA FoundElsewhere ==
  ASSUME Sound, Found, SkipPeriod \/ NoHydro
  PROVE  Found'
<1>1. TypeOK /\ offset \in Starts
  BY DEF Sound, Position
<1>2. week' = week /\ gaveUp' = gaveUp /\ pc' \in {"period", "margin", "threw", "done"}
  BY <1>1, AfterPeriodType, AfterMarginType DEF SkipPeriod, NoHydro
<1> QED BY <1>2 DEF Found, RemixSearch, MarginSearch, NeverGivenUp, NotIncreased

\* The turbines hold what is stored in an hour when the credits are not increased.
LEMMA CreditsHold ==
  ASSUME Sound, Rest, NotIncreased(area), NEW i \in Hours
  PROVE  H[area][i] <= week[area][i].full
<1>1. TypeOK /\ area \in Areas
  BY DEF Sound, TypeOK
<1>2. /\ H[area][i] <= week[area][i].pmax /\ week[area][i].pmax <= week[area][i].full
      /\ H[area][i] \in Nat /\ week[area][i].pmax \in Nat /\ week[area][i].full \in Nat
  BY <1>1, WeekFacts DEF Rest, Balanced, NotIncreased
<1> QED BY <1>2

LEMMA FoundBeginMargin == Sound /\ Rest /\ Found /\ UnitIsFine /\ BeginMargin => Found'
<1> SUFFICES ASSUME Sound, Rest, Found, UnitIsFine, BeginMargin PROVE Found'
  OBVIOUS
<1>0. TypeOK /\ area \in Areas /\ week \in Weeks
  BY DEF Sound, TypeOK
<1>1. /\ UNCHANGED <<week, area, H, D, remix, gaveUp>> /\ pc' = "marginLevel" /\ loop' = MaxLoops
      /\ MaxLoops >= 2 /\ MaxLoops \in Nat
      /\ bottom' \in Least({DblMax} \cup {Operational(area, i) : i \in Hours})
      /\ top' \in Greatest({0} \cup {Operational(area, i) : i \in Hours})
  BY HydroLevellingAssumption DEF BeginMargin, UnitIsFine
<1> DEFINE size == TwoTo[MaxLoops - 2]
<1>2. ASSUME NEW i \in Hours
      PROVE  /\ Operational(area, i) \in Int
             /\ -size <= 2 * Operational(area, i) /\ 2 * Operational(area, i) <= size
  <2>1. \A e \in {week[area][i].s + week[area][i].m,
                  week[area][i].s + week[area][i].m - week[area][i].h - week[area][i].d} :
           -size <= 2 * e /\ 2 * e <= size
    BY <1>0 DEF UnitIsFine
  <2>2. Operational(area, i) = week[area][i].s + week[area][i].m - D[area][i]
    BY DEF Operational
  <2>3. /\ week[area][i].h \in Nat /\ week[area][i].d \in Nat
        /\ week[area][i].s \in Nat /\ week[area][i].m \in Nat
        /\ H[area][i] \in Nat /\ D[area][i] \in Nat
        /\ H[area][i] + D[area][i] = week[area][i].h + week[area][i].d
    BY <1>0, WeekFacts DEF Rest, Balanced
  <2>4. size \in Nat
    BY <1>1, TwoToSteps
  <2> HIDE DEF size
  <2> QED BY <2>1, <2>2, <2>3, <2>4
<1>3. /\ bottom' \in Int /\ top' \in Int /\ 0 <= top' /\ 2 * top' <= size
      /\ \A i \in Hours : bottom' <= Operational(area, i) /\ Operational(area, i) <= top'
      /\ bottom' = DblMax \/ -size <= 2 * bottom'
      /\ size \in Nat
  <2>1. size \in Nat
    BY <1>1, TwoToSteps
  <2>2. bottom' = DblMax \/ \E i \in Hours : bottom' = Operational(area, i)
    BY <1>1 DEF Least
  <2>3. top' = 0 \/ \E i \in Hours : top' = Operational(area, i)
    BY <1>1 DEF Greatest
  <2>4. bottom' <= DblMax /\ \A i \in Hours : bottom' <= Operational(area, i)
    BY <1>1 DEF Least
  <2>5. 0 <= top' /\ \A i \in Hours : Operational(area, i) <= top'
    BY <1>1 DEF Greatest
  <2> HIDE DEF size
  <2> QED BY <2>1, <2>2, <2>3, <2>4, <2>5, <1>2, HydroLevellingAssumption
<1>4. Near'
  <2>1. 0 \in Hours
    BY HydroLevellingAssumption DEF Hours
  <2>2. bottom' <= top'
    BY <2>1, <1>2, <1>3
  <2>3. top' - bottom' <= size
    <3>1. size \in Nat /\ top' \in Int /\ bottom' \in Int /\ 0 <= top' /\ 2 * top' <= size
      BY <1>3
    <3>2. 0 <= bottom' \/ -size <= 2 * bottom'
      BY <1>3, HydroLevellingAssumption
    <3> QED BY <3>1, <3>2, WidthOfBounds
  <2> QED BY <2>2, <2>3, <1>1, <1>3 DEF Near
<1>5. ASSUME NotIncreased(area) PROVE Given(bottom') >= 0 /\ Given(top') <= 0
  <2> DEFINE left == [i \in Hours |-> Operational(area, i) - Levelled(bottom', area, i)]
             owed == [i \in Hours |-> Operational(area, i) - Levelled(top', area, i)]
             zero == [i \in Hours |-> 0]
  <2>1. ASSUME NEW i \in Hours
        PROVE  /\ left[i] \in Int /\ owed[i] \in Int /\ zero[i] \in Int
               /\ zero[i] <= left[i] /\ owed[i] <= zero[i]
    <3>1. /\ H[area][i] <= week[area][i].full /\ H[area][i] \in Nat /\ week[area][i].full \in Nat
          /\ Operational(area, i) \in Int /\ bottom' \in Int /\ top' \in Int
          /\ bottom' <= Operational(area, i) /\ Operational(area, i) <= top'
      BY <1>0, <1>3, <1>5, CreditsHold, WeekFacts
    <3>2. Levelled(bottom', area, i) <= Operational(area, i) /\ Levelled(bottom', area, i) \in Int
      BY <3>1 DEF Levelled, Greater
    <3>3. Levelled(top', area, i) >= Operational(area, i) /\ Levelled(top', area, i) \in Int
      BY <3>1 DEF Levelled, Lesser, Greater
    <3> QED BY <3>1, <3>2, <3>3
  <2>2. IsFiniteSet(Hours)
    BY HoursAreFinite
  <2>3. Total(zero, Hours) = 0
    BY <2>2, TotalOfZeros
  <2>4. /\ Total(zero, Hours) <= Total(left, Hours) /\ Total(owed, Hours) <= Total(zero, Hours)
        /\ Total(left, Hours) \in Int /\ Total(owed, Hours) \in Int
    <3> HIDE DEF left, owed, zero
    <3> QED BY <2>1, <2>2, TotalMonotone, TotalIsInt
  <2> HIDE DEF zero
  <2> QED BY <2>3, <2>4 DEF Given
<1>6. MarginSearch'
  BY <1>1, <1>4, <1>5, SameStock DEF MarginSearch
<1> QED BY <1>1, <1>6 DEF Found, RemixSearch, NeverGivenUp, NotIncreased

LEMMA FoundMarginAgain == Sound /\ Rest /\ Found /\ UnitIsFine /\ MarginAgain => Found'
<1> SUFFICES ASSUME Sound, Rest, Found, UnitIsFine, MarginAgain PROVE Found'
  OBVIOUS
<1>1. /\ TypeOK /\ pc = "marginLevel" /\ pc' = "marginLevel" /\ MarginSearch
      /\ UNCHANGED <<week, area, H, D, remix, gaveUp>> /\ Halve(MarginGap)
      /\ ~Within(MarginGap, MarginEcart)
  BY DEF Sound, Found, MarginAgain
<1>2. ASSUME NotIncreased(area)
      PROVE  Near' /\ Given(bottom') >= 0 /\ Given(top') <= 0
  <2>1. \A i \in Hours : H[area][i] <= week[area][i].full
    BY <1>2, CreditsHold
  <2>2. loop > 2 /\ Near /\ Given(bottom) >= 0 /\ Given(top) <= 0
    BY <1>1, <1>2, <2>1, MarginWithin DEF MarginSearch
  <2>3. MarginGap = Given(Niveau) /\ MarginGap \in Int
    <3>1. MarginGap = Given(Niveau)
      BY DEF MarginGap, Given
    <3>2. Niveau \in Int /\ Niveau <= Niveau
      BY <1>1, NiveauInt
    <3> QED BY <1>1, <2>1, <3>1, <3>2, GivenFalls
  <2>4. Near'
    BY <1>1, <2>2, <2>3, NearHalved
  <2>5. CASE MarginGap > 0
    <3>1. bottom' = Niveau /\ top' = top
      BY <1>1, <2>5 DEF Halve
    <3> QED BY <3>1, <2>2, <2>3, <2>4, <2>5
  <2>6. CASE ~(MarginGap > 0)
    <3>1. bottom' = bottom /\ top' = Niveau
      BY <1>1, <2>6 DEF Halve
    <3> QED BY <3>1, <2>2, <2>3, <2>4, <2>6
  <2> QED BY <2>5, <2>6
<1>3. MarginSearch'
  BY <1>1, <1>2, SameStock DEF MarginSearch
<1> QED BY <1>1, <1>3 DEF Found, RemixSearch, NeverGivenUp, NotIncreased

LEMMA FoundMarginEnds == Sound /\ Rest /\ Found /\ UnitIsFine /\ (MarginEnds \/ MarginGivesUp) => Found'
<1> SUFFICES ASSUME Sound, Rest, Found, UnitIsFine, MarginEnds \/ MarginGivesUp PROVE Found'
  OBVIOUS
<1>1. TypeOK /\ area \in Areas /\ pc = "marginLevel" /\ week' = week
  BY DEF Sound, TypeOK, MarginEnds, MarginGivesUp
<1>2. pc' \in {"margin", "done"}
  BY <1>1, AfterMarginType DEF MarginEnds, MarginGivesUp
<1>3. gaveUp' = gaveUp \/ gaveUp' = gaveUp \cup {<<"margin", area>>}
  BY DEF MarginEnds, MarginGivesUp
<1>4. NotIncreased(area) => gaveUp' = gaveUp
  BY <1>1 DEF MarginEnds, MarginGivesUp, Found, MarginSearch, Near
<1>5. ASSUME NEW a \in Areas
      PROVE  /\ <<"remix", a>> \notin gaveUp'
             /\ NotIncreased(a)' => <<"margin", a>> \notin gaveUp'
  <2>1. /\ <<"remix", a>> # <<"margin", area>>
        /\ <<"margin", a>> = <<"margin", area>> => a = area
    OBVIOUS
  <2>2. /\ <<"remix", a>> \notin gaveUp
        /\ NotIncreased(a) => <<"margin", a>> \notin gaveUp
        /\ NotIncreased(a)' <=> NotIncreased(a)
    BY <1>1 DEF Found, NeverGivenUp, NotIncreased
  <2> QED BY <1>3, <1>4, <2>1, <2>2
<1> QED BY <1>2, <1>5 DEF Found, RemixSearch, MarginSearch, NeverGivenUp

LEMMA FoundInit == Init => Found
BY DEF Init, Found, RemixSearch, MarginSearch, NeverGivenUp

LEMMA FoundNext == Sound /\ Rest /\ Found /\ UnitIsFine /\ [Next]_vars => Found'
<1> SUFFICES ASSUME Sound, Rest, Found, UnitIsFine, [Next]_vars PROVE Found'
  OBVIOUS
<1>1. CASE UNCHANGED vars
  <2>1. Near' = Near
    BY <1>1 DEF vars, Near
  <2> QED BY <1>1, <2>1, SameStock
          DEF vars, Found, RemixSearch, MarginSearch, NeverGivenUp, NotIncreased
<1> QED BY <1>1, FoundBeginPeriod, FoundRemixAgain, FoundRemixEnds, FoundElsewhere,
           FoundBeginMargin, FoundMarginAgain, FoundMarginEnds DEF Next

\* The level is found on any week, when the tolerances and the turns are those of the code (UnitIsFine):
\* it stays between the bounds of the remix, no remix is given up, and no margins but those of
\* increased credits, so that MAX MRG uses all of the hydro of the week.
THEOREM LevelsAreFound == UnitIsFine => (Spec => []LevelIsFound)
<1> SUFFICES ASSUME UnitIsFine PROVE Spec => []LevelIsFound
  OBVIOUS
<1>1. Init => Sound /\ Rest /\ Found
  BY SoundInit, RestInit, FoundInit
<1>2. Sound /\ Rest /\ Found /\ [Next]_vars => (Sound /\ Rest /\ Found)'
  BY SoundNext, RestNext, FoundNext
<1>3. Sound /\ Rest /\ Found => LevelIsFound
  <2> SUFFICES ASSUME Rest, Found PROVE LevelIsFound
    OBVIOUS
  <2>1. EnergyIsKept
    BY KeptImplied
  <2> QED BY <2>1 DEF Found, RemixSearch, NeverGivenUp, LevelIsFound, EnergyIsKept
<1> QED BY <1>1, <1>2, <1>3, PTL DEF Spec
=============================================================================
