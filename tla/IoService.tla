------------------------------ MODULE IoService ------------------------------
(***************************************************************************)
(* The use Application makes of ioQueueService: the service is started     *)
(* once, entries to write are added at any time by the threads that run    *)
(* the years and by the main thread, the main thread now and then waits    *)
(* for what it knows was added (IResultWriter::flush), and the service is  *)
(* stopped when it is destroyed, at the end.  The concurrency tests and    *)
(* EnsureQueueStartedIfNeeded use a service in the same way.  The names    *)
(* differ from those of YearBatches, for PoolProofs reasons about both.    *)
(***************************************************************************)
EXTENDS QueueService

CONSTANTS
    Adders,         \* the threads that add jobs
    Work            \* the jobs each of them adds, in order

ASSUME IoServiceAssumption ==
    /\ Work \in [Adders -> Seq(Jobs)]
    /\ \A a, b \in Adders : \A k \in DOMAIN Work[a], l \in DOMAIN Work[b] :
          Work[a][k] = Work[b][l] => a = b /\ k = l

VARIABLES
    stage,          \* where the main thread is
    next,           \* the next job of each adder
    enqueued,       \* the adder has enqueued its job but not woken the pool
    order           \* the jobs in the order they entered the waiting room

clientVars == <<stage, next, enqueued, order>>
ioVars == <<vars, clientVars>>

\* AddTask, first half: the job enters the waiting room.
AddTask(a) ==
    /\ stage \in {"serving", "waiting"}
    /\ ~enqueued[a]
    /\ next[a] \in DOMAIN Work[a]
    /\ Enqueue(Work[a][next[a]])
    /\ enqueued' = [enqueued EXCEPT ![a] = TRUE]
    /\ order' = Append(order, Work[a][next[a]])
    /\ UNCHANGED <<stage, next>>

\* AddTask, second half: wakeupWorkers.
WakeupAfterTask(a) ==
    /\ enqueued[a]
    /\ WakeupWorkers
    /\ enqueued' = [enqueued EXCEPT ![a] = FALSE]
    /\ next' = [next EXCEPT ![a] = @ + 1]
    /\ UNCHANGED <<stage, order>>

IoStart ==
    /\ stage = "begin"
    /\ Start
    /\ stage' = "serving"
    /\ UNCHANGED <<next, enqueued, order>>

\* wait(qseIdle), as ~EnsureQueueStartedIfNeeded does before stopping.
IoWait ==
    /\ stage = "serving"
    /\ WaitBegin
    /\ stage' = "waiting"
    /\ UNCHANGED <<next, enqueued, order>>

IoIdle ==
    /\ stage = "waiting"
    /\ WaitEnd
    /\ stage' = "serving"
    /\ UNCHANGED <<next, enqueued, order>>

AllAdded == \A a \in Adders : next[a] = Len(Work[a]) + 1

\* The last flush: every future is ready (FutureSet::join).
Join ==
    /\ stage = "serving"
    /\ AllAdded
    /\ \A j \in Jobs : ran[j] > 0
    /\ stage' = "joined"
    /\ UNCHANGED <<vars, next, enqueued, order>>

\* ~QueueService.
IoStop ==
    /\ stage = "joined"
    /\ StopBegin
    /\ stage' = "stopping"
    /\ UNCHANGED <<next, enqueued, order>>

IoStopped ==
    /\ stage = "stopping"
    /\ StopEnd
    /\ stage' = "stopped"
    /\ UNCHANGED <<next, enqueued, order>>

Adder(a) == AddTask(a) \/ WakeupAfterTask(a)

IoMain == IoStart \/ IoWait \/ IoIdle \/ Join \/ IoStop \/ IoStopped

IoCall == CallStep /\ UNCHANGED clientVars

IoWorker(t) == ThreadStep(t) /\ UNCHANGED clientVars

IoInit ==
    /\ PoolInit
    /\ stage = "begin"
    /\ next = [a \in Adders |-> 1]
    /\ enqueued = [a \in Adders |-> FALSE]
    /\ order = <<>>

IoNext ==
    \/ IoMain
    \/ IoCall
    \/ \E a \in Adders : Adder(a)
    \/ \E t \in Threads : IoWorker(t)

IoSpec == IoInit /\ [][IoNext]_ioVars

\* Waiting for idle is a choice of the main thread and is not owed; every other
\* thread, and the calls of the main thread, go on.
IoFairSpec ==
    /\ IoSpec
    /\ WF_ioVars(IoMain /\ ~IoWait)
    /\ WF_ioVars(IoCall)
    /\ \A a \in Adders : WF_ioVars(Adder(a))
    /\ \A t \in Threads : WF_ioVars(IoWorker(t))

-----------------------------------------------------------------------------
(* Properties *)

\* The type of every variable.
IoTypeOK ==
    /\ PoolTypeOK
    /\ stage \in {"begin", "serving", "waiting", "joined", "stopping", "stopped"}
    /\ next \in [Adders -> Nat] /\ \A a \in Adders : next[a] \in 1 .. Len(Work[a]) + 1
    /\ enqueued \in [Adders -> BOOLEAN]
    /\ order \in Seq(Jobs)

\* At the moment wait(qseIdle) returns, nothing is queued and nothing runs,
\* even when jobs are being added by other threads.
IdleIsIdle ==
    [][stage = "waiting" /\ stage' = "serving" =>
         RoomEmpty /\ \A t \in Threads : ~Running(t)]_ioVars

\* A pool of one thread, as Application creates, runs the jobs of the same
\* priority in the order they were added: entries reach the archive in order.
InOrder ==
    \A k \in DOMAIN order : \A h \in 1 .. k - 1 :
        Priority[order[h]] = Priority[order[k]] /\ ran[order[k]] > 0 => ran[order[h]] > 0

\* No job is lost, duplicated or run twice: a job that entered the waiting room
\* is there once, or runs on one thread, or was run once.
JobsConserved ==
    \A j \in Jobs :
        LET waiting == Cardinality({k \in DOMAIN waitingRoom[Priority[j]] :
                                        waitingRoom[Priority[j]][k] = j})
            onThread == Cardinality({t \in Threads : job[t] = j})
            entered == Cardinality({k \in DOMAIN order : order[k] = j})
        IN  waiting + onThread + ran[j] = entered

\* The jobs of a priority are served first come first served, each once, by threads that
\* hold one job at a time, whoever adds jobs and whatever the threads do in between.
Output == INSTANCE OutputQueue WITH
    Items <- Jobs,
    Classes <- Priorities,
    ClassOf <- Priority,
    Hands <- Threads,
    waiting <- waitingRoom,
    held <- [t \in Threads |-> {job[t]} \ {NoJob}],
    over <- {j \in Jobs : ran[j] > 0}
ImplementsOutput == Output!Spec

\* Every job is run: AddTask returns a future, and its get() returns
\* (test_concurrency.cpp: future.get(), then counter == 1).
EveryJobRuns == \A j \in Jobs : <>(ran[j] > 0)

\* service.h: all working threads will be destroyed at the very end of stop().
StopReturns == (stage = "stopping") ~> (stage = "stopped")
=============================================================================
