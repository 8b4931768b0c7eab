----------------------------- MODULE SetBarrier -----------------------------
(***************************************************************************)
(* What ISimulation::loopThroughYears expects of the thread pool, with no  *)
(* pool in sight: the sets of parallel years are run one after the other,  *)
(* the years of a set finish in any order, each once, and the summary of a *)
(* set starts when all its years are finished.                             *)
(***************************************************************************)
EXTENDS Naturals, Sequences

CONSTANTS Sets       \* the sets of years, in the order they are run

VARIABLES
    current,         \* the set being run, Len(Sets) + 1 at the end
    finished         \* the years finished so far

barrierVars == <<current, finished>>

YearsOf(i) == {Sets[i][k] : k \in DOMAIN Sets[i]}

\* A year of the current set finishes, once.
Finish(yr) ==
    /\ current \in DOMAIN Sets
    /\ yr \in YearsOf(current) \ finished
    /\ finished' = finished \cup {yr}
    /\ UNCHANGED current

\* The set is summed up and the next one starts.
Summarise ==
    /\ current \in DOMAIN Sets
    /\ YearsOf(current) \subseteq finished
    /\ current' = current + 1
    /\ UNCHANGED finished

Init == current = 1 /\ finished = {}

Next == Summarise \/ \E i \in DOMAIN Sets : \E yr \in YearsOf(i) : Finish(yr)

Spec == Init /\ [][Next]_barrierVars /\ WF_barrierVars(Next)
=============================================================================
