--------------------------- MODULE ThermalOutages ---------------------------
(***************************************************************************)
(* The generator of thermal time series for one cluster, day after day:    *)
(* GeneratorTempData::operator().  Units that go out are written in a       *)
(* circular log (LOG, and LOGP for the planned part of it) at the day they  *)
(* come back, the number of planned outages is kept between NPOmin and      *)
(* NPOmax, and the planned outages that could not begin on their day, or    *)
(* began ahead of it, are kept in stock.                                    *)
(*                                                                         *)
(* Probabilities are abstracted to what may be drawn: none, some or all of  *)
(* the units.  The hourly series is AUN times the capacity and modulation.  *)
(***************************************************************************)
EXTENDS Integers

CONSTANTS
    LogSize,      \* Log_size
    DaysPerYear,
    NbSeries,     \* nbTimeSeriesThermal
    Clusters,     \* the clusters to consider, with their data
    MaxDraw       \* bound: the longest duration a geometric law draws

Days == 0 .. DaysPerYear - 1
Slots == 0 .. LogSize - 1
Rates == {"none", "some", "all"}    \* of lf and lp: 0, up to 0.999, above
Laws == {"uniform", "geometric"}

\* What PreproThermal::loadFromFolder and normalizeAndCheckNPO accept.  Durations are
\* at most 365 there, for a log of 4000 days.
ASSUME ThermalOutagesAssumption ==
    /\ LogSize \in Nat /\ LogSize >= 4
    /\ DaysPerYear \in Nat \ {0}
    /\ NbSeries \in Nat
    /\ MaxDraw \in Nat \ {0}
    /\ \A c \in Clusters :
         /\ c.prepro \in BOOLEAN
         /\ c.unitCount \in Nat
         /\ c.nominalCapacity \in Nat
         /\ c.npoMin \in [Days -> Nat]
         /\ c.npoMax \in [Days -> Nat]
         /\ \A d \in Days : c.npoMin[d] <= c.npoMax[d] /\ c.npoMax[d] <= c.unitCount
         /\ c.foRate \in [Days -> Rates]
         /\ c.poRate \in [Days -> Rates]
         /\ c.foDuration \in [Days -> Nat \ {0}]
         /\ c.poDuration \in [Days -> Nat \ {0}]
         /\ \A d \in Days : /\ 2 * c.foDuration[d] < LogSize \div 2
                          /\ 2 * c.poDuration[d] < LogSize \div 2
         /\ c.forcedLaw \in Laws /\ c.plannedLaw \in Laws
         /\ c.forcedVolatile \in BOOLEAN /\ c.plannedVolatile \in BOOLEAN

VARIABLES
    cluster,
    pc,           \* what comes next in the day
    tsIndex,      \* the series, the first two of which are not kept
    day,          \* dayInTheYear
    width,        \* series.timeSeries.width
    AUN,          \* units available
    NPO_cur,      \* units on planned outage
    stock,        \* planned outages owed, or done ahead when negative
    NOW, LOG, LOGP,
    index, cumul, cible,   \* the loop of early returns
    FOC, POC,              \* the outages of the day, forced and planned
    FOD_reel, POD_reel     \* the durations drawn last

position == <<pc, tsIndex, day>>
logs == <<LOG, LOGP>>
recall == <<index, cumul, cible>>
durations == <<FOD_reel, POD_reel>>
vars == <<cluster, position, width, AUN, NPO_cur, stock, NOW, logs, recall, FOC, POC,
          durations>>

unitCount == cluster.unitCount
NPOmin == cluster.npoMin[day]
NPOmax == cluster.npoMax[day]
Least(a, b) == IF a <= b THEN a ELSE b

-----------------------------------------------------------------------------
(* The duration of an outage. *)

\* Wrong: a duration may fill the log, two do not fit.
LimitOfOne == LogSize - 1

\* The cap: two durations follow each other when a unit is out for both reasons.
Limit == (LogSize \div 2) - 1

\* What int(a + rnd * b) may be, with any volatility: twice expec is for rnd = 1.
UniformDurations(expec) == 1 .. 2 * expec

\* int(a + b * log(rnd)), capped.  rnd = 0 is left out: the conversion of an infinite
\* value is undefined.
GeometricDurations == {Least(draw, Limit) : draw \in 1 .. MaxDraw}

\* GeneratorTempData::durationGenerator.
Durations(law, volatile, expec) ==
    IF ~volatile \/ expec = 1 THEN {expec}
    ELSE IF law = "uniform" THEN UniformDurations(expec)
    ELSE GeometricDurations

ForcedDurations == Durations(cluster.forcedLaw, cluster.forcedVolatile,
                             cluster.foDuration[day])
PlannedDurations == Durations(cluster.plannedLaw, cluster.plannedVolatile,
                              cluster.poDuration[day])

\* The remainder of C: an index that is negative is not in the log.
Slot(n) == IF n >= 0 THEN n % LogSize ELSE -((-n) % LogSize)

\* log[at] += units.
Plus(log, at, units) == [s \in Slots |-> IF s = at THEN log[s] + units ELSE log[s]]

-----------------------------------------------------------------------------
(* The beginning of the generation and of a day. *)

EmptyLog == [s \in Slots |-> 0]

Init ==
    /\ cluster \in Clusters
    /\ pc = "begin"
    /\ tsIndex = 0 /\ day = 0
    /\ width \in {1, NbSeries}
    /\ AUN = 0 /\ NPO_cur = 0 /\ stock = 0
    /\ NOW = 0 /\ LOG = EmptyLog /\ LOGP = EmptyLog
    /\ index = 0 /\ cumul = 0 /\ cible = 0
    /\ FOC = 0 /\ POC = 0
    /\ FOD_reel = 0 /\ POD_reel = 0

\* Without its data nothing is generated; without units there is one empty series.
NothingToGenerate ==
    /\ pc = "begin"
    /\ ~cluster.prepro \/ unitCount = 0 \/ cluster.nominalCapacity = 0
    /\ pc' = "done"
    /\ width' = IF cluster.prepro THEN 1 ELSE width
    /\ UNCHANGED <<cluster, tsIndex, day, AUN, NPO_cur, stock, NOW, logs, recall, FOC, POC,
                   durations>>

Begin ==
    /\ pc = "begin"
    /\ cluster.prepro /\ unitCount # 0 /\ cluster.nominalCapacity # 0
    /\ pc' = "return"
    /\ width' = NbSeries
    /\ AUN' = unitCount
    /\ UNCHANGED <<cluster, tsIndex, day, NPO_cur, stock, NOW, logs, recall, FOC, POC,
                   durations>>

\* Wrong: the planned part of the log is left for the next time around.
PlannedReturnLeft == LOGP

\* LOGP[NOW] = 0.
PlannedReturn == [LOGP EXCEPT ![NOW] = 0]

\* The units whose outage ends today come back; then NPOmax of the day is looked at.
Return ==
    LET planned == NPO_cur - LOGP[NOW] IN
    /\ pc = "return"
    /\ AUN' = AUN + LOG[NOW]
    /\ LOG' = [LOG EXCEPT ![NOW] = 0]
    /\ LOGP' = PlannedReturn
    /\ NPO_cur' = planned
    /\ \/ /\ planned > NPOmax
          /\ pc' = "recall"
          /\ cible' = planned - NPOmax
          /\ index' = 1
          /\ UNCHANGED cumul
       \/ /\ planned <= NPOmax
          /\ pc' = "draw"
          /\ UNCHANGED recall
    /\ UNCHANGED <<cluster, tsIndex, day, width, stock, NOW, FOC, POC, durations>>

\* Wrong: a unit that comes back early is still expected on its day.
EarlyReturnFromPlannedOnly(slot, units) ==
    /\ LOGP' = Plus(LOGP, slot, -units)
    /\ UNCHANGED LOG

EarlyReturn(slot, units) ==
    /\ LOGP' = Plus(LOGP, slot, -units)
    /\ LOG' = Plus(LOG, slot, -units)

\* An iteration of the loop of early returns, those due first before the others.
Recall ==
    LET slot == (NOW + index) % LogSize IN
    /\ pc = "recall"
    /\ index < LogSize /\ cumul # cible
    /\ index' = index + 1
    /\ \/ /\ LOGP[slot] + cumul >= cible
          /\ EarlyReturn(slot, cible - cumul)
          /\ cumul' = cible
       \/ /\ LOGP[slot] + cumul < cible
          /\ EarlyReturn(slot, LOGP[slot])
          /\ cumul' = cumul + LOGP[slot]
    /\ UNCHANGED <<cluster, position, width, AUN, NPO_cur, stock, NOW, cible, FOC, POC,
                   durations>>

\* After the loop: the units are counted as available whatever it found.
EndRecall ==
    /\ pc = "recall"
    /\ index = LogSize \/ cumul = cible
    /\ pc' = "draw"
    /\ AUN' = AUN + cible
    /\ NPO_cur' = NPOmax
    /\ index' = 0 /\ cumul' = 0 /\ cible' = 0
    /\ UNCHANGED <<cluster, tsIndex, day, width, stock, NOW, logs, FOC, POC, durations>>

-----------------------------------------------------------------------------
(* The outages that begin today. *)

\* AUN_app: the outages owed have their units first.
AvailableForPlanned ==
    CASE stock \in 0 .. AUN -> AUN - stock
      [] stock > AUN -> 0
      [] OTHER -> AUN

Draw ==
    /\ pc = "draw"
    /\ pc' = "settle"
    /\ FOC' \in CASE cluster.foRate[day] = "none" -> {0}
                  [] cluster.foRate[day] = "some" -> 0 .. AUN
                  [] OTHER -> {AUN}
    /\ POC' \in CASE cluster.poRate[day] = "none" -> {0}
                  [] cluster.poRate[day] = "some" -> 0 .. AvailableForPlanned
                  [] OTHER -> {AUN}
    /\ UNCHANGED <<cluster, tsIndex, day, width, AUN, NPO_cur, stock, NOW, logs, recall,
                   durations>>

\* Wrong: what exceeds the units available is not owed.
CatchUpForgetful(candidat) ==
    CASE candidat \in 0 .. AUN -> [poc |-> candidat, stock |-> 0]
      [] candidat > AUN -> [poc |-> AUN, stock |-> 0]
      [] OTHER -> [poc |-> 0, stock |-> candidat]

\* The outages drawn and those in stock, as far as units are available.
CatchUp(candidat) ==
    CASE candidat \in 0 .. AUN -> [poc |-> candidat, stock |-> 0]
      [] candidat > AUN -> [poc |-> AUN, stock |-> candidat - AUN]
      [] OTHER -> [poc |-> 0, stock |-> candidat]

\* Whether NPOmin cannot be reached.
ShortOfUnits == NPOmin - NPO_cur > AUN

\* Wrong: the units that are out are not counted.
TooManyToday(poc) == poc > NPOmax

TooMany(poc) == poc + NPO_cur > NPOmax

TooFew(poc) == poc + NPO_cur < NPOmin

\* The stock first, then NPOmax and NPOmin.
Settle ==
    LET due == CatchUp(POC + stock) IN
    /\ pc = "settle"
    /\ pc' = "durations"
    /\ \/ /\ TooMany(due.poc)
          /\ stock' = due.stock + due.poc + NPO_cur - NPOmax
          /\ POC' = NPOmax - NPO_cur
          /\ NPO_cur' = NPOmax
       \/ /\ ~TooMany(due.poc) /\ TooFew(due.poc) /\ ShortOfUnits
          /\ stock' = due.stock - (AUN - due.poc)
          /\ POC' = AUN
          /\ NPO_cur' = NPO_cur + AUN
       \/ /\ ~TooMany(due.poc) /\ TooFew(due.poc) /\ ~ShortOfUnits
          /\ stock' = due.stock - (NPOmin - (due.poc + NPO_cur))
          /\ POC' = NPOmin - NPO_cur
          /\ NPO_cur' = NPOmin
       \/ /\ ~TooMany(due.poc) /\ ~TooFew(due.poc)
          /\ stock' = due.stock
          /\ POC' = due.poc
          /\ NPO_cur' = NPO_cur + due.poc
    /\ UNCHANGED <<cluster, tsIndex, day, width, AUN, NOW, logs, recall, FOC, durations>>

\* The units out for both reasons: their outages follow each other.
MXO == IF unitCount = 1 THEN (IF POC = 1 /\ FOC = 1 THEN 1 ELSE 0)
       ELSE IF AUN # 0 THEN (POC * FOC) \div AUN ELSE 0

PPO == IF unitCount # 1 /\ AUN = 0 THEN 0 ELSE POC - MXO
PFO == IF unitCount # 1 /\ AUN = 0 THEN 0 ELSE FOC - MXO

\* When durationGenerator is called for the forced outages; the planned ones alike.
NeedsForced == PFO # 0 \/ MXO # 0
NeedsPlanned == PPO # 0 \/ MXO # 0

DrawDurations ==
    /\ pc = "durations"
    /\ pc' = "record"
    /\ FOD_reel' \in IF NeedsForced THEN ForcedDurations ELSE {FOD_reel}
    /\ POD_reel' \in IF NeedsPlanned THEN PlannedDurations ELSE {POD_reel}
    /\ UNCHANGED <<cluster, tsIndex, day, width, AUN, NPO_cur, stock, NOW, logs, recall,
                   FOC, POC>>

\* The units go out, and the next day, or series, begins.
Record ==
    LET forcedEnd == Slot(NOW + FOD_reel)
        plannedEnd == Slot(NOW + POD_reel)
        bothEnd == Slot(NOW + POD_reel + FOD_reel) IN
    /\ pc = "record"
    /\ AUN' = AUN - (PPO + PFO + MXO)
    /\ LOG' = Plus(Plus(Plus(LOG, forcedEnd, PFO), plannedEnd, PPO), bothEnd, MXO)
    /\ LOGP' = Plus(Plus(LOGP, plannedEnd, PPO), bothEnd, MXO)
    /\ NOW' = (NOW + 1) % LogSize
    /\ FOC' = 0 /\ POC' = 0
    /\ \/ /\ day + 1 < DaysPerYear
          /\ day' = day + 1
          /\ pc' = "return"
          /\ UNCHANGED tsIndex
       \/ /\ day + 1 = DaysPerYear
          /\ day' = 0
          /\ tsIndex' = tsIndex + 1
          /\ pc' = IF tsIndex' = NbSeries + 2 THEN "done" ELSE "return"
    /\ UNCHANGED <<cluster, width, NPO_cur, stock, recall, durations>>

Next == \/ NothingToGenerate \/ Begin \/ Return \/ Recall \/ EndRecall
        \/ Draw \/ Settle \/ DrawDurations \/ Record

Spec == Init /\ [][Next]_vars

-----------------------------------------------------------------------------
(* Properties. *)

\* The units of a log, written as the sum of its slots.
Total(log) ==
    LET upTo[n \in 0 .. LogSize] == IF n = 0 THEN 0 ELSE upTo[n - 1] + log[n - 1]
    IN  upTo[LogSize]

Generating == pc \notin {"begin", "done"} \/ tsIndex > 0

Settled == pc \in {"durations", "record"}

\* Types and ranges: AUN is an index of the tables of probabilities (FPOW, PPOW), NOW
\* of the logs.
TypeOK ==
    /\ cluster \in Clusters
    /\ pc \in {"begin", "return", "recall", "draw", "settle", "durations", "record", "done"}
    /\ tsIndex \in 0 .. NbSeries + 2
    /\ day \in Days
    /\ width \in {1, NbSeries}
    /\ AUN \in 0 .. unitCount
    /\ NPO_cur \in 0 .. unitCount
    /\ stock \in Int
    /\ NOW \in Slots
    /\ LOG \in [Slots -> 0 .. unitCount]
    /\ LOGP \in [Slots -> 0 .. unitCount]
    /\ index \in 0 .. LogSize
    /\ cumul \in 0 .. cible
    /\ cible \in 0 .. unitCount
    /\ FOC \in 0 .. AUN
    /\ POC \in 0 .. AUN
    /\ FOD_reel \in Nat
    /\ POD_reel \in Nat

\* Over the days and the series each unit is available or in the log, once, whatever
\* outages overlap, end early or go round the log.
NoUnitIsLost == Generating => AUN + cumul + Total(LOG) = unitCount

\* The count of planned outages is that of the log: the outages of which NPOmax
\* asks the end early are found there, and a unit has one place in both logs.
PlannedAreOut ==
    /\ NPO_cur = Total(LOGP) + cumul + (IF Settled THEN POC ELSE 0)
    /\ \A s \in Slots : LOGP[s] <= LOG[s]

\* Once the day is settled the planned outages are at most NPOmax, and NPOmin is
\* reached unless all the units there are go out.
WithinNpo ==
    Settled => /\ NPO_cur <= NPOmax
               /\ NPO_cur >= NPOmin \/ POC = AUN

\* An outage is only put off when NPOmax is reached or all the units are out.
OwedOnlyWhenBlocked ==
    Settled /\ stock > 0 => NPO_cur = NPOmax \/ POC = AUN

\* NPOmin and NPOmax are kept as far as the units go, and outages are put off for no
\* other reason.
NpoIsRespected == WithinNpo /\ OwedOnlyWhenBlocked

\* A planned outage that was drawn begins, is owed, or was done ahead: none is added
\* and none forgotten.
StockBalances == [][pc = "settle" => POC' + stock' = POC + stock]_vars

\* A log seen from today, with the days beyond it.
FromToday(log) ==
    [k \in 0 .. 2 * LogSize |-> IF k < LogSize THEN log[(NOW + k) % LogSize] ELSE 0]

\* The log is the calendar, as long as it is longer than any outage.
Calendar == INSTANCE OutageCalendar WITH
    Horizon <- 2 * LogSize,
    available <- IF Generating THEN AUN + cumul ELSE unitCount,
    ahead <- FromToday(LOG),
    planned <- FromToday(LOGP),
    forcedSpan <- ForcedDurations,
    plannedSpan <- PlannedDurations

\* A unit is away as long as was drawn for it on the day it left, no less and no more,
\* except planned outages that are cut short, soonest first.
ImplementsCalendar == Calendar!Spec
=============================================================================
