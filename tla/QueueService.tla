---------------------------- MODULE QueueService ----------------------------
(***************************************************************************)
(* The thread pool that runs the Monte-Carlo years and the writing of      *)
(* results: Yuni::Job::QueueService, its waiting room, and the loop of its *)
(* threads (QueueThread over IThread).                                     *)
(*                                                                         *)
(* This module holds the pool and the operations offered to its clients;   *)
(* YearBatches and IoService say who calls them and when.  One step is one *)
(* critical section of the code (a lock held, a flag or a signal accessed).*)
(***************************************************************************)
EXTENDS Naturals, Sequences, FiniteSets

CONSTANTS
    Threads,      \* the threads start() creates, pMinimumThreadCount of them
    MaxThreads,   \* pMaximumThreadCount
    Jobs,
    Priority,     \* the priority each job is added with
    NoJob, NoThread

\* 1 is priorityHigh, 2 priorityDefault, 3 priorityLow.
Priorities == 1 .. 3

ASSUME QueueServiceAssumption ==
    /\ IsFiniteSet(Threads)
    /\ Threads # {}
    /\ MaxThreads \in Nat
    /\ Cardinality(Threads) <= MaxThreads
    /\ Priority \in [Jobs -> Priorities]
    /\ NoJob \notin Jobs
    /\ NoThread \notin Threads

VARIABLES
    waitingRoom,  \* one list of jobs per priority
    status,       \* pStatus
    pool,         \* pThreads is not NULL: wakeupWorkers reaches the threads
    workers,      \* pWorkerSet
    allStopped,   \* pSignalAllThreadHaveStopped
    pc,           \* where each thread is in its loop
    level,        \* the priority a popping thread looks at
    job,          \* pJob of each thread
    wakeUp,       \* pSignalWakeUp of each thread
    shouldStop,   \* pShouldStop of each thread
    call,         \* where the controlling thread is in wait() or stop()
    toStop,       \* the threads a stop() has still to handle
    target,       \* the thread stop() waits for, whose mutex it holds
    ran           \* how many times each job was run to its end

threadVars == <<pc, level, job>>
flagVars   == <<wakeUp, shouldStop>>
callVars   == <<call, toStop, target>>
poolVars   == <<status, pool, workers, allStopped>>
vars == <<waitingRoom, poolVars, threadVars, flagVars, callVars, ran>>

RoomEmpty   == \A p \in Priorities : waitingRoom[p] = <<>>
Alive(t)    == pc[t] \notin {"off", "dead"}    \* IThread::pStarted
Running(t)  == pc[t] = "run"

-----------------------------------------------------------------------------
(* The waiting room and the worker set. *)

\* Wrong: the job is put before those that wait.
EnqueueFirst(j) ==
    /\ waitingRoom' = [waitingRoom EXCEPT ![Priority[j]] = <<j>> \o @]
    /\ UNCHANGED <<poolVars, threadVars, flagVars, callVars, ran>>

\* WaitingRoom::add.
Enqueue(j) ==
    /\ waitingRoom' = [waitingRoom EXCEPT ![Priority[j]] = Append(@, j)]
    /\ UNCHANGED <<poolVars, threadVars, flagVars, callVars, ran>>

\* QueueService::wakeupWorkers: every started thread is woken up, unless as
\* many threads are registered as the pool may have.
WakeupWorkers ==
    /\ wakeUp' = IF Cardinality(workers) < MaxThreads /\ pool
                 THEN [t \in Threads |-> wakeUp[t] \/ Alive(t)]
                 ELSE wakeUp
    /\ UNCHANGED <<waitingRoom, poolVars, threadVars, shouldStop, callVars, ran>>

\* Wrong: the last worker is only reported to stop().
UnregisterSilently(t) ==
    /\ workers' = workers \ {t}
    /\ IF t \in workers /\ workers = {t} /\ status = "stopping"
       THEN status' = "stopped" /\ allStopped' = TRUE
       ELSE UNCHANGED <<status, allStopped>>
    /\ UNCHANGED pool

\* QueueService::unregisterWorker: the last worker to leave signals it.
Unregister(t) ==
    /\ workers' = workers \ {t}
    /\ IF t \in workers /\ workers = {t}
       THEN /\ status' = IF status = "stopping" THEN "stopped" ELSE status
            /\ allStopped' = TRUE
       ELSE UNCHANGED <<status, allStopped>>
    /\ UNCHANGED pool

-----------------------------------------------------------------------------
(* The loop of a thread: threadCallbackExecute around QueueThread::onExecute. *)

Goto(t, there) == pc' = [pc EXCEPT ![t] = there]

\* registerWorker, at the beginning of onExecute.
Register(t) ==
    /\ pc[t] = "register"
    /\ workers' = workers \cup {t}
    /\ Goto(t, "pop")
    /\ level' = [level EXCEPT ![t] = 1]
    /\ UNCHANGED <<waitingRoom, status, pool, allStopped, job, flagVars, callVars, ran>>

\* Wrong: the job is read and stays in the waiting room.
PopFoundKept(t) ==
    /\ pc[t] = "pop"
    /\ waitingRoom[level[t]] # <<>>
    /\ job' = [job EXCEPT ![t] = Head(waitingRoom[level[t]])]
    /\ Goto(t, "run")
    /\ UNCHANGED <<waitingRoom, poolVars, level, flagVars, callVars, ran>>

\* WaitingRoom::pop on one priority: a job is found.
PopFound(t) ==
    /\ pc[t] = "pop"
    /\ waitingRoom[level[t]] # <<>>
    /\ job' = [job EXCEPT ![t] = Head(waitingRoom[level[t]])]
    /\ waitingRoom' = [waitingRoom EXCEPT ![level[t]] = Tail(@)]
    /\ Goto(t, "run")
    /\ UNCHANGED <<poolVars, level, flagVars, callVars, ran>>

\* WaitingRoom::pop on one priority: none there, look at the next priority; no
\* job at all ends onExecute, which asks for hibernation.
PopMissed(t) ==
    /\ pc[t] = "pop"
    /\ waitingRoom[level[t]] = <<>>
    /\ IF level[t] < 3
       THEN level' = [level EXCEPT ![t] = @ + 1] /\ UNCHANGED pc
       ELSE Goto(t, "check") /\ UNCHANGED level
    /\ UNCHANGED <<waitingRoom, poolVars, job, flagVars, callVars, ran>>

\* IJob::execute returns, whatever the job threw, and the job is released.
JobDone(t) ==
    /\ Running(t)
    /\ ran' = [ran EXCEPT ![job[t]] = @ + 1]
    /\ job' = [job EXCEPT ![t] = NoJob]
    /\ Goto(t, "abort")
    /\ UNCHANGED <<waitingRoom, poolVars, level, flagVars, callVars>>

\* shouldAbort, between two jobs.
Abort(t) ==
    /\ pc[t] = "abort"
    /\ Goto(t, IF shouldStop[t] THEN "exit" ELSE "pop")
    /\ level' = [level EXCEPT ![t] = 1]
    /\ UNCHANGED <<waitingRoom, poolVars, job, flagVars, callVars, ran>>

\* After onExecute: stop, or hibernate.
Check(t) ==
    /\ pc[t] = "check"
    /\ Goto(t, IF shouldStop[t] THEN "exit" ELSE "pause")
    /\ UNCHANGED <<waitingRoom, poolVars, level, job, flagVars, callVars, ran>>

\* onPause.
Pause(t) ==
    /\ pc[t] = "pause"
    /\ Unregister(t)
    /\ Goto(t, "sleep")
    /\ UNCHANGED <<waitingRoom, level, job, flagVars, callVars, ran>>

\* pSignalWakeUp.wait() returns.
Wake(t) ==
    /\ pc[t] = "sleep"
    /\ wakeUp[t]
    /\ Goto(t, "woken")
    /\ UNCHANGED <<waitingRoom, poolVars, level, job, flagVars, callVars, ran>>

\* Woken up to work, or to stop.
Woken(t) ==
    /\ pc[t] = "woken"
    /\ Goto(t, IF shouldStop[t] THEN "exit" ELSE "rearm")
    /\ UNCHANGED <<waitingRoom, poolVars, level, job, flagVars, callVars, ran>>

\* The thread takes its own mutex to reset pSignalWakeUp.
Rearm(t) ==
    /\ pc[t] = "rearm"
    /\ target # t
    /\ wakeUp' = [wakeUp EXCEPT ![t] = FALSE]
    /\ Goto(t, "register")
    /\ UNCHANGED <<waitingRoom, poolVars, level, job, shouldStop, callVars, ran>>

\* onStop.
Exit(t) ==
    /\ pc[t] = "exit"
    /\ Unregister(t)
    /\ Goto(t, "ended")
    /\ UNCHANGED <<waitingRoom, level, job, flagVars, callVars, ran>>

\* The thread marks itself as stopped and signals it.
Ended(t) ==
    /\ pc[t] = "ended"
    /\ shouldStop' = [shouldStop EXCEPT ![t] = TRUE]
    /\ Goto(t, "off")
    /\ UNCHANGED <<waitingRoom, poolVars, level, job, wakeUp, callVars, ran>>

ThreadStep(t) ==
    \/ Register(t) \/ PopFound(t) \/ PopMissed(t) \/ JobDone(t) \/ Abort(t)
    \/ Check(t) \/ Pause(t) \/ Wake(t) \/ Woken(t) \/ Rearm(t) \/ Exit(t)
    \/ Ended(t)

-----------------------------------------------------------------------------
(* The operations of the controlling thread. *)

\* start(): the mutex of the service is held until every thread has started,
\* so no thread registers before the end of it.
Start ==
    /\ call = "none"
    /\ status = "stopped"
    /\ status' = "running"
    /\ pool' = TRUE
    /\ allStopped' = FALSE
    /\ pc' = [t \in Threads |-> "register"]
    /\ wakeUp' = [t \in Threads |-> FALSE]
    /\ shouldStop' = [t \in Threads |-> FALSE]
    /\ UNCHANGED <<waitingRoom, workers, level, job, callVars, ran>>

\* wait(qseIdle) on a service that is not stopped.
WaitBegin ==
    /\ call = "none"
    /\ status # "stopped"
    /\ call' = "wait"
    /\ UNCHANGED <<waitingRoom, poolVars, threadVars, flagVars, toStop, target, ran>>

\* waitForAllThreads: pSignalAllThreadHaveStopped.wait() returns.
WaitSignalled ==
    /\ call = "wait"
    /\ allStopped
    /\ call' = "recheck"
    /\ UNCHANGED <<waitingRoom, poolVars, threadVars, flagVars, toStop, target, ran>>

\* Wrong: the jobs that wait are forgotten.
StillBusyByWorkers == status = "running" /\ workers # {}

\* A running service may have got work in the meantime.
StillBusy == status = "running" /\ (workers # {} \/ ~RoomEmpty)

WaitAgain ==
    /\ call = "recheck"
    /\ StillBusy
    /\ allStopped' = FALSE
    /\ call' = "wait"
    /\ UNCHANGED <<waitingRoom, status, pool, workers, threadVars, flagVars,
                   toStop, target, ran>>

\* Wrong: the wait is given up before the signal.
WaitEndOnTimeout ==
    /\ call = "wait"
    /\ call' = "none"
    /\ UNCHANGED <<waitingRoom, poolVars, threadVars, flagVars, toStop, target, ran>>

WaitEnd ==
    /\ call = "recheck"
    /\ ~StillBusy
    /\ call' = "none"
    /\ UNCHANGED <<waitingRoom, poolVars, threadVars, flagVars, toStop, target, ran>>

\* stop(): the pool is taken away, then ThreadArray::stop.
StopBegin ==
    /\ call = "none"
    /\ status = "running"
    /\ status' = "stopping"
    /\ pool' = FALSE
    /\ call' = "graceful"
    /\ toStop' = Threads
    /\ UNCHANGED <<waitingRoom, workers, allStopped, threadVars, flagVars, target, ran>>

AskToStop(t) ==
    /\ shouldStop' = [shouldStop EXCEPT ![t] = TRUE]
    /\ wakeUp' = [wakeUp EXCEPT ![t] = TRUE]

\* First every thread is asked to stop by itself: IThread::gracefulStop.
GracefulStop(t) ==
    /\ call = "graceful"
    /\ t \in toStop
    /\ AskToStop(t)
    /\ IF toStop = {t} THEN call' = "stop" /\ toStop' = Threads
                       ELSE toStop' = toStop \ {t} /\ UNCHANGED call
    /\ UNCHANGED <<waitingRoom, poolVars, threadVars, target, ran>>

\* Then each is stopped in turn: IThread::stop, for a thread already stopped.
AlreadyStopped(t) ==
    /\ call = "stop"
    /\ t \in toStop
    /\ ~Alive(t)
    /\ toStop' = toStop \ {t}
    /\ UNCHANGED <<waitingRoom, poolVars, threadVars, flagVars, call, target, ran>>

\* Wrong: the thread is not waited for.
StopThreadAsync(t) ==
    /\ call = "stop"
    /\ t \in toStop
    /\ Alive(t)
    /\ AskToStop(t)
    /\ toStop' = toStop \ {t}
    /\ UNCHANGED <<waitingRoom, poolVars, threadVars, call, target, ran>>

\* IThread::stop takes the mutex of the thread and keeps it while waiting.
StopThread(t) ==
    /\ call = "stop"
    /\ t \in toStop
    /\ Alive(t)
    /\ AskToStop(t)
    /\ call' = "await"
    /\ target' = t
    /\ UNCHANGED <<waitingRoom, poolVars, threadVars, toStop, ran>>

\* The thread has stopped by itself within the timeout.
Stopped ==
    /\ call = "await"
    /\ ~Alive(target)
    /\ call' = "stop"
    /\ toStop' = toStop \ {target}
    /\ target' = NoThread
    /\ UNCHANGED <<waitingRoom, poolVars, threadVars, flagVars, ran>>

\* Out of time: the thread is cancelled, and its end is waited for.
Timeout ==
    /\ call = "await"
    /\ Alive(target)
    /\ call' = "join"
    /\ UNCHANGED <<waitingRoom, poolVars, threadVars, flagVars, toStop, target, ran>>

\* A cancelled thread ends at a cancellation point: where it sleeps.  Waiting
\* for a mutex is not one.  A job may hold others, but the clients of the pool
\* stop it when no job is left, and no job starts after that.
Cancelled ==
    /\ call = "join"
    /\ pc[target] = "sleep"
    /\ Goto(target, "dead")
    /\ UNCHANGED <<waitingRoom, poolVars, level, job, flagVars, callVars, ran>>

\* pthread_join returns; onKill removes the thread from the workers.
Joined ==
    /\ call = "join"
    /\ ~Alive(target)
    /\ Unregister(target)
    /\ call' = "stop"
    /\ toStop' = toStop \ {target}
    /\ target' = NoThread
    /\ UNCHANGED <<waitingRoom, threadVars, flagVars, ran>>

StopEnd ==
    /\ call = "stop"
    /\ toStop = {}
    /\ status' = "stopped"
    /\ call' = "none"
    /\ UNCHANGED <<waitingRoom, pool, workers, allStopped, threadVars, flagVars,
                   toStop, target, ran>>

\* What happens inside wait() and stop(), between their first and last steps.
CallStep ==
    \/ WaitSignalled \/ WaitAgain
    \/ \E t \in Threads : GracefulStop(t) \/ AlreadyStopped(t) \/ StopThread(t)
    \/ Stopped \/ Timeout \/ Cancelled \/ Joined

-----------------------------------------------------------------------------
PoolInit ==
    /\ waitingRoom = [p \in Priorities |-> <<>>]
    /\ status = "stopped"
    /\ pool = FALSE
    /\ workers = {}
    /\ allStopped = FALSE
    /\ pc = [t \in Threads |-> "off"]
    /\ level = [t \in Threads |-> 1]
    /\ job = [t \in Threads |-> NoJob]
    /\ wakeUp = [t \in Threads |-> FALSE]
    /\ shouldStop = [t \in Threads |-> FALSE]
    /\ call = "none"
    /\ toStop = {}
    /\ target = NoThread
    /\ ran = [j \in Jobs |-> 0]

PoolTypeOK ==
    /\ waitingRoom \in [Priorities -> Seq(Jobs)]
    /\ status \in {"stopped", "running", "stopping"}
    /\ pool \in BOOLEAN
    /\ workers \subseteq Threads
    /\ allStopped \in BOOLEAN
    /\ pc \in [Threads -> {"off", "dead", "register", "pop", "run", "abort", "check",
                           "pause", "sleep", "woken", "rearm", "exit", "ended"}]
    /\ level \in [Threads -> Priorities]
    /\ job \in [Threads -> Jobs \cup {NoJob}]
    /\ wakeUp \in [Threads -> BOOLEAN]
    /\ shouldStop \in [Threads -> BOOLEAN]
    /\ call \in {"none", "wait", "recheck", "graceful", "stop", "await", "join"}
    /\ toStop \subseteq Threads
    /\ target \in Threads \cup {NoThread}
    /\ ran \in [Jobs -> Nat]
=============================================================================
