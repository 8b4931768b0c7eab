--------------------------- MODULE OutageCalendar ---------------------------
(***************************************************************************)
(* What the circular log of the generator is for: a calendar with no end,   *)
(* seen from today.  A unit that goes out comes back when its outages have  *)
(* lasted what was drawn for them, or before if it is on planned outage and *)
(* those that come back sooner are recalled first.                          *)
(***************************************************************************)
EXTENDS Integers

CONSTANT Horizon   \* no outage ends later than Horizon days ahead

VARIABLES
    available,     \* the units available
    ahead,         \* how many come back in so many days
    planned,       \* how many of them are on planned outage
    forcedSpan, plannedSpan   \* what outages that begin today may last

vars == <<available, ahead, planned, forcedSpan, plannedSpan>>

Offsets == 0 .. Horizon

Init ==
    /\ available \in Nat
    /\ ahead = [k \in Offsets |-> 0]
    /\ planned = [k \in Offsets |-> 0]

ComeBack ==
    /\ available' = available + ahead[0]
    /\ ahead' = [ahead EXCEPT ![0] = 0]
    /\ planned' = [planned EXCEPT ![0] = 0]
    /\ UNCHANGED <<forcedSpan, plannedSpan>>

Recall ==
    /\ \E k \in Offsets : \E units \in 1 .. planned[k] :
         /\ \A sooner \in 0 .. k - 1 : planned[sooner] = 0
         /\ available' = available + units
         /\ ahead' = [ahead EXCEPT ![k] = @ - units]
         /\ planned' = [planned EXCEPT ![k] = @ - units]
    /\ UNCHANGED <<forcedSpan, plannedSpan>>

\* What a calendar becomes the next day when some units are added to it.
Tomorrow(calendar, Added(_)) ==
    [k \in Offsets |-> (IF k = Horizon THEN 0 ELSE calendar[k + 1]) + Added(k + 1)]

\* Forced and planned outages begin; a unit may be out for both in turn.
GoOut(forced, plan, both) ==
    \E f \in forcedSpan, p \in plannedSpan :
      LET OnPlan(day) == (IF day = p THEN plan ELSE 0) + (IF day = f + p THEN both ELSE 0)
          Out(day) == (IF day = f THEN forced ELSE 0) + OnPlan(day) IN
      /\ ahead' = Tomorrow(ahead, Out)
      /\ planned' = Tomorrow(planned, OnPlan)

NextDay ==
    /\ ahead[0] = 0
    /\ \E forced, plan, both \in 0 .. available :
         /\ available' = available - (forced + plan + both)
         /\ GoOut(forced, plan, both)

Next == ComeBack \/ Recall \/ NextDay

Spec == Init /\ [][Next]_vars
=============================================================================
