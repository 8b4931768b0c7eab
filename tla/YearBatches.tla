----------------------------- MODULE YearBatches -----------------------------
(***************************************************************************)
(* The use ISimulation::loopThroughYears makes of study.pQueueService: for *)
(* each set of parallel years, the jobs are added while the service is     *)
(* stopped, the service is started, waited for until it is idle, and       *)
(* stopped again; then the results of the set are read.                    *)
(***************************************************************************)
EXTENDS QueueService

CONSTANTS Sets       \* the jobs of each set of parallel years, in order

InSet(i, j) == \E k \in DOMAIN Sets[i] : Sets[i][k] = j

ASSUME YearBatchesAssumption ==
    /\ Sets \in Seq(Seq(Jobs))
    /\ \A i, h \in DOMAIN Sets : \A k \in DOMAIN Sets[i], l \in DOMAIN Sets[h] :
          Sets[i][k] = Sets[h][l] => i = h /\ k = l

VARIABLES
    phase,           \* where the main thread is in the loop over the sets
    set,             \* the set it is at
    added            \* how many jobs of this set were added

mainVars == <<phase, set, added>>
batchVars == <<vars, mainVars>>

\* AddTask: the job goes to the waiting room...
AddJob ==
    /\ phase = "add"
    /\ set \in DOMAIN Sets
    /\ added < Len(Sets[set])
    /\ Enqueue(Sets[set][added + 1])
    /\ phase' = "wakeup"
    /\ UNCHANGED <<set, added>>

\* ... and the threads of the pool, if there are any, are woken up.
WakeupAfterAdd ==
    /\ phase = "wakeup"
    /\ WakeupWorkers
    /\ added' = added + 1
    /\ phase' = "add"
    /\ UNCHANGED set

StartService ==
    /\ phase = "add"
    /\ set \in DOMAIN Sets
    /\ added = Len(Sets[set])
    /\ Start
    /\ phase' = "wait"
    /\ UNCHANGED <<set, added>>

WaitForIdle ==
    /\ phase = "wait"
    /\ WaitBegin
    /\ phase' = "waiting"
    /\ UNCHANGED <<set, added>>

IdleReached ==
    /\ phase = "waiting"
    /\ WaitEnd
    /\ phase' = "idle"
    /\ UNCHANGED <<set, added>>

StopService ==
    /\ phase = "idle"
    /\ StopBegin
    /\ phase' = "stopping"
    /\ UNCHANGED <<set, added>>

ServiceStopped ==
    /\ phase = "stopping"
    /\ StopEnd
    /\ phase' = "join"
    /\ UNCHANGED <<set, added>>

\* results.join(): every future of the set must be ready.
JoinResults ==
    /\ phase = "join"
    /\ \A k \in DOMAIN Sets[set] : ran[Sets[set][k]] > 0
    /\ phase' = "summary"
    /\ UNCHANGED <<vars, set, added>>

\* computeSummary and what follows; then the next set.
NextSet ==
    /\ phase = "summary"
    /\ set' = set + 1
    /\ added' = 0
    /\ phase' = "add"
    /\ UNCHANGED vars

MainStep ==
    \/ AddJob \/ WakeupAfterAdd \/ StartService \/ WaitForIdle \/ IdleReached
    \/ StopService \/ ServiceStopped \/ JoinResults \/ NextSet

\* The end of wait() and of stop() are the steps IdleReached and ServiceStopped.
InCall == CallStep /\ UNCHANGED mainVars

Worker(t) == ThreadStep(t) /\ UNCHANGED mainVars

Init == PoolInit /\ phase = "add" /\ set = 1 /\ added = 0

Next == MainStep \/ InCall \/ \E t \in Threads : Worker(t)

Spec == Init /\ [][Next]_batchVars

\* The main thread and the threads of the pool are scheduled fairly.
FairSpec ==
    /\ Spec
    /\ WF_batchVars(MainStep)
    /\ WF_batchVars(InCall)
    /\ \A t \in Threads : WF_batchVars(Worker(t))

-----------------------------------------------------------------------------
(* Properties *)

\* The type of every variable.
TypeOK ==
    /\ PoolTypeOK
    /\ phase \in {"add", "wakeup", "wait", "waiting", "idle", "stopping", "join", "summary"}
    /\ set \in 1 .. Len(Sets) + 1
    /\ added \in Nat

AfterIdle == phase \in {"idle", "stopping", "join", "summary"}

\* wait(qseIdle) is a barrier: once it has returned and until the next start,
\* no job is queued or running, so computeSummary, computeAnnualCostsStatistics
\* and the reset of the random numbers read and write data no thread uses.
IdleMeansQuiet ==
    AfterIdle => RoomEmpty /\ \A t \in Threads : ~Running(t)

\* ... and every job of the set was run exactly once, so results.join() does
\* not block and no year is summed up without having been computed.
IdleMeansDone ==
    AfterIdle => \A k \in DOMAIN Sets[set] : ran[Sets[set][k]] = 1

\* A job runs only during its own set, never before, after, or twice: the
\* spaces of a set are not used by the years of another set.
OnlyItsOwnSet ==
    \A j \in Jobs :
        /\ ran[j] <= 1
        /\ \A t \in Threads : job[t] = j => InSet(set, j) /\ ran[j] = 0
        /\ ran[j] = 1 => \E i \in 1 .. set : i \in DOMAIN Sets /\ InSet(i, j)

\* The service can be started again: when its main thread is not inside a call
\* and the service is stopped, none of its threads is alive and no worker is
\* left in pWorkerSet to prevent pSignalAllThreadHaveStopped.
StoppedMeansStopped ==
    status = "stopped" /\ call = "none" =>
        workers = {} /\ \A t \in Threads : ~Alive(t)

\* The pool implements the barrier the simulation needs, with its fairness: every
\* set is run to its end, neither wait() nor stop() nor join() hangs.
Barrier == INSTANCE SetBarrier WITH
    current <- set,
    finished <- {j \in Jobs : ran[j] > 0}
ImplementsBarrier == Barrier!Spec
=============================================================================
