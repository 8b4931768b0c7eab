----------------------------- MODULE PoolProofs -----------------------------
(***************************************************************************)
(* Proofs about the thread pool and its two uses, for every number of      *)
(* threads and every list of jobs.  In YearBatches wait(qseIdle) is a      *)
(* barrier, every year of a set is run exactly once before the set is      *)
(* summed up, and the pool stops.  In IoService no job is lost or run      *)
(* twice, idle means idle although others add jobs, and jobs of the same   *)
(* priority leave the waiting room in the order they entered it; it is the *)
(* queue OutputQueue describes.                                            *)
(***************************************************************************)
EXTENDS YearBatches, IoService, FiniteSetTheorems, TLAPS

-----------------------------------------------------------------------------
(* What the pool keeps, whoever uses it. *)

\* Where a thread is while it is registered as a worker.
Busy == {"pop", "run", "abort", "check", "pause"}

\* A thread is registered while it may run a job.
WorkersInv ==
    /\ \A t \in Threads : pc[t] \in Busy => t \in workers
    /\ \A t \in workers : pc[t] \in Busy \cup {"exit"}

\* stop() goes on to the next thread when this one has stopped.
StopInv ==
    /\ call \in {"stop", "await", "join"} => \A t \in Threads \ toStop : ~Alive(t)
    /\ call \in {"await", "join"} => target \in Threads

\* A thread holds a job exactly when it runs it.
HoldsInv == \A t \in Threads : IF Running(t) THEN job[t] \in Jobs ELSE job[t] = NoJob

InRoom(j) == \E p \in Priorities : \E k \in DOMAIN waitingRoom[p] : waitingRoom[p][k] = j
OnThread(j) == \E t \in Threads : job[t] = j

\* A job is in one place, and waits with those of its priority.
UniqueInv ==
    /\ \A p, q \in Priorities :
          \A k \in DOMAIN waitingRoom[p], l \in DOMAIN waitingRoom[q] :
             waitingRoom[p][k] = waitingRoom[q][l] => p = q /\ k = l
    /\ \A p \in Priorities : \A k \in DOMAIN waitingRoom[p] : Priority[waitingRoom[p][k]] = p
    /\ \A t, u \in Threads : job[t] = job[u] /\ job[t] # NoJob => t = u
    /\ \A j \in Jobs : InRoom(j) => ran[j] = 0 /\ ~OnThread(j)
    /\ \A j \in Jobs : OnThread(j) => ran[j] = 0
    /\ \A j \in Jobs : ran[j] <= 1

PoolInv == PoolTypeOK /\ WorkersInv /\ StopInv /\ HoldsInv /\ UniqueInv

\* A step that moves no job, starts no thread and at most ends a stop.
Calm ==
    /\ UNCHANGED <<waitingRoom, job, ran>>
    /\ status' = status \/ (status = "stopping" /\ status' = "stopped")
    /\ \A t \in Threads : (Alive(t)' => Alive(t)) /\ (Running(t)' => Running(t))

LEMMA PoolInitInv ==
  ASSUME PoolInit
  PROVE  PoolInv /\ \A j \in Jobs : ~InRoom(j) /\ ~OnThread(j) /\ ran[j] = 0
<1> USE DEF PoolInit
<1>1. PoolTypeOK
  <2>1. waitingRoom \in [Priorities -> Seq(Jobs)]
    OBVIOUS
  <2>2. level \in [Threads -> Priorities] /\ ran \in [Jobs -> Nat]
    BY DEF Priorities
  <2>3. pool \in BOOLEAN /\ allStopped \in BOOLEAN
    BY Zenon
  <2>4. wakeUp \in [Threads -> BOOLEAN] /\ shouldStop \in [Threads -> BOOLEAN]
    OBVIOUS
  <2>5. /\ job \in [Threads -> Jobs \cup {NoJob}]
        /\ pc \in [Threads -> {"off", "dead", "register", "pop", "run", "abort", "check",
                               "pause", "sleep", "woken", "rearm", "exit", "ended"}]
    OBVIOUS
  <2> QED BY <2>1, <2>2, <2>3, <2>4, <2>5 DEF PoolTypeOK
<1>2. WorkersInv /\ StopInv /\ HoldsInv
  BY DEF WorkersInv, Busy, StopInv, Alive, HoldsInv, Running
<1>3. \A j \in Jobs : ~InRoom(j) /\ ~OnThread(j) /\ ran[j] = 0
  BY QueueServiceAssumption DEF InRoom, OnThread
<1>4. UniqueInv
  BY <1>3 DEF UniqueInv
<1> QED BY <1>1, <1>2, <1>3, <1>4 DEF PoolInv

\* Who waits, who runs and who was run decide where the jobs are.
LEMMA SamePlaces ==
    ASSUME UniqueInv, UNCHANGED <<waitingRoom, job, ran>>
    PROVE  /\ UniqueInv'
           /\ \A j : (InRoom(j)' <=> InRoom(j)) /\ (OnThread(j)' <=> OnThread(j))
<1>1. \A j : (InRoom(j)' <=> InRoom(j)) /\ (OnThread(j)' <=> OnThread(j))
  BY DEF InRoom, OnThread
<1> QED BY <1>1 DEF UniqueInv

-----------------------------------------------------------------------------
(* The threads of the pool. *)

\* The steps of a thread that touch neither the waiting room nor its job.
QuietThreadStep(t) ==
    \/ Register(t) \/ PopMissed(t) \/ Abort(t) \/ Check(t) \/ Pause(t) \/ Wake(t)
    \/ Woken(t) \/ Rearm(t) \/ Exit(t) \/ Ended(t)

\* The next priority is a priority.
LEMMA NextPriority ==
    ASSUME NEW t \in Threads, level \in [Threads -> Priorities], level[t] < 3
    PROVE  [level EXCEPT ![t] = @ + 1] \in [Threads -> Priorities]
<1>1. level[t] + 1 \in Priorities
  BY DEF Priorities
<1> QED BY <1>1

LEMMA QuietThreadPool ==
    ASSUME PoolInv, NEW t \in Threads, QuietThreadStep(t)
    PROVE  PoolInv' /\ Calm /\ call' = call
<1> DEFINE Goal == PoolTypeOK' /\ WorkersInv' /\ StopInv' /\ HoldsInv' /\ Calm /\ call' = call
<1>1. Goal
  <2> USE DEF PoolInv, PoolTypeOK, WorkersInv, StopInv, HoldsInv, Calm, Running, Alive, Busy,
              Goto, Priorities, threadVars, flagVars, callVars, poolVars
  <2>1. CASE Register(t)
    BY <2>1 DEF Register
  <2>2. CASE PopMissed(t)
    <3>1. CASE level[t] < 3
      <4>1. /\ level' = [level EXCEPT ![t] = @ + 1]
            /\ UNCHANGED <<pc, waitingRoom, poolVars, job, flagVars, callVars, ran>>
        BY <2>2, <3>1 DEF PopMissed
      <4>2. level' \in [Threads -> Priorities]
        <5>1. level \in [Threads -> Priorities]
          OBVIOUS
        <5> HIDE DEF Priorities
        <5> QED BY <3>1, <4>1, <5>1, NextPriority
      <4>3. PoolTypeOK'
        BY <4>1, <4>2
      <4>4. WorkersInv' /\ StopInv' /\ HoldsInv' /\ Calm /\ call' = call
        BY <4>1
      <4> QED BY <4>3, <4>4
    <3>2. CASE ~(level[t] < 3)
      BY <2>2, <3>2, ZenonT(60) DEF PopMissed
    <3> QED BY <3>1, <3>2
  <2>3. CASE Abort(t)
    BY <2>3 DEF Abort
  <2>4. CASE Check(t)
    BY <2>4 DEF Check
  <2>5. CASE Pause(t)
    BY <2>5, ZenonT(60) DEF Pause, Unregister
  <2>6. CASE Wake(t)
    BY <2>6 DEF Wake
  <2>7. CASE Woken(t)
    BY <2>7 DEF Woken
  <2>8. CASE Rearm(t)
    BY <2>8 DEF Rearm
  <2>9. CASE Exit(t)
    BY <2>9, ZenonT(60) DEF Exit, Unregister
  <2>10. CASE Ended(t)
    BY <2>10 DEF Ended
  <2> HIDE DEF Goal
  <2> QED BY <2>1, <2>2, <2>3, <2>4, <2>5, <2>6, <2>7, <2>8, <2>9, <2>10 DEF QuietThreadStep
<1> QED BY <1>1, SamePlaces DEF PoolInv, Calm

\* The room after its first job of a priority is taken.
LEMMA PopFoundRoom ==
    ASSUME PoolTypeOK, NEW t \in Threads, PopFound(t), NEW p, p = level[t]
    PROVE  /\ p \in Priorities /\ waitingRoom[p] \in Seq(Jobs) /\ 1 \in DOMAIN waitingRoom[p]
           /\ job' = [job EXCEPT ![t] = waitingRoom[p][1]]
           /\ waitingRoom' \in [Priorities -> Seq(Jobs)]
           /\ \A q \in Priorities : q # p => waitingRoom'[q] = waitingRoom[q]
           /\ \A k \in DOMAIN waitingRoom'[p] :
                k + 1 \in DOMAIN waitingRoom[p] /\ waitingRoom'[p][k] = waitingRoom[p][k + 1]
           /\ \A k \in DOMAIN waitingRoom[p] :
                k = 1 \/ (k - 1 \in DOMAIN waitingRoom'[p]
                          /\ waitingRoom'[p][k - 1] = waitingRoom[p][k])
           /\ \A k \in DOMAIN waitingRoom[p] : k \in Nat
           /\ \A k \in DOMAIN waitingRoom'[p] : k \in Nat /\ k + 1 # 1
<1>1. /\ p \in Priorities /\ waitingRoom[p] \in Seq(Jobs) /\ waitingRoom[p] # <<>>
      /\ Head(waitingRoom[p]) = waitingRoom[p][1] /\ 1 \in DOMAIN waitingRoom[p]
  BY DEF PopFound, PoolTypeOK
<1>2. waitingRoom' = [waitingRoom EXCEPT ![p] = Tail(@)]
  BY DEF PopFound
<1>3. waitingRoom \in [Priorities -> Seq(Jobs)]
  BY DEF PoolTypeOK
<1>4. /\ waitingRoom' \in [Priorities -> Seq(Jobs)]
      /\ \A q \in Priorities : q # p => waitingRoom'[q] = waitingRoom[q]
      /\ waitingRoom'[p] = Tail(waitingRoom[p])
  BY <1>1, <1>2, <1>3
<1> QED BY <1>1, <1>4 DEF PopFound

\* A job is taken from the waiting room.
LEMMA PopFoundPool ==
    ASSUME PoolInv, NEW t \in Threads, PopFound(t), NEW j, j = waitingRoom[level[t]][1]
    PROVE  /\ PoolInv'
           /\ UNCHANGED <<status, call, ran>> /\ ~RoomEmpty
           /\ j \in Jobs /\ InRoom(j)
           /\ \A u \in Threads : Alive(u)' => Alive(u)
           /\ \A i \in Jobs : /\ InRoom(i)' <=> InRoom(i) /\ i # j
                              /\ OnThread(i)' <=> OnThread(i) \/ i = j
<1> DEFINE p == level[t]
<1>1. PoolTypeOK
  BY DEF PoolInv
<1>2. /\ p \in Priorities /\ waitingRoom[p] \in Seq(Jobs) /\ 1 \in DOMAIN waitingRoom[p]
      /\ job' = [job EXCEPT ![t] = j]
      /\ waitingRoom' \in [Priorities -> Seq(Jobs)]
      /\ \A q \in Priorities : q # p => waitingRoom'[q] = waitingRoom[q]
      /\ \A k \in DOMAIN waitingRoom'[p] :
            k + 1 \in DOMAIN waitingRoom[p] /\ waitingRoom'[p][k] = waitingRoom[p][k + 1]
      /\ \A k \in DOMAIN waitingRoom[p] :
            k = 1 \/ (k - 1 \in DOMAIN waitingRoom'[p]
                      /\ waitingRoom'[p][k - 1] = waitingRoom[p][k])
      /\ \A k \in DOMAIN waitingRoom[p] : k \in Nat
      /\ \A k \in DOMAIN waitingRoom'[p] : k \in Nat /\ k + 1 # 1
  BY <1>1, PopFoundRoom
<1>3. pc[t] = "pop" /\ j \in Jobs /\ waitingRoom[p] # <<>>
  BY <1>2 DEF PopFound
<1>4. /\ pc' = [pc EXCEPT ![t] = "run"]
      /\ UNCHANGED <<status, pool, workers, allStopped, level, wakeUp, shouldStop, call,
                     toStop, target, ran>>
  BY DEF PopFound, Goto, poolVars, flagVars, callVars
<1>5. j = waitingRoom[p][1]
  OBVIOUS
<1> HIDE DEF p
<1>6. /\ job' \in [Threads -> Jobs \cup {NoJob}]
      /\ pc' \in [Threads -> {"off", "dead", "register", "pop", "run", "abort", "check",
                              "pause", "sleep", "woken", "rearm", "exit", "ended"}]
  BY <1>1, <1>3, <1>4, <1>2 DEF PoolTypeOK
<1>7. PoolTypeOK'
  BY <1>1, <1>4, <1>2, <1>6 DEF PoolTypeOK
<1>8. WorkersInv' /\ StopInv' /\ HoldsInv' /\ \A u \in Threads : Alive(u)' => Alive(u)
  BY <1>1, <1>3, <1>4, <1>2
     DEF PoolInv, WorkersInv, StopInv, HoldsInv, Busy, Alive, Running, PoolTypeOK
<1>9. InRoom(j) /\ ~OnThread(j) /\ ran[j] = 0 /\ j # NoJob
  <2>1. InRoom(j)
    BY <1>5, <1>2 DEF InRoom
  <2> QED BY <2>1, <1>3, QueueServiceAssumption DEF PoolInv, UniqueInv
<1>10. ASSUME NEW i \in Jobs
       PROVE  /\ InRoom(i)' <=> InRoom(i) /\ i # j
              /\ OnThread(i)' <=> OnThread(i) \/ i = j
  <2>1. ASSUME InRoom(i)' PROVE InRoom(i) /\ i # j
    <3>1. PICK q \in Priorities : \E k \in DOMAIN waitingRoom'[q] : waitingRoom'[q][k] = i
      BY <2>1 DEF InRoom
    <3>2. PICK k \in DOMAIN waitingRoom'[q] : waitingRoom'[q][k] = i
      BY <3>1
    <3>3. CASE q = p
      <4>1. k + 1 \in DOMAIN waitingRoom[p] /\ waitingRoom[p][k + 1] = i /\ k + 1 # 1
        BY <3>2, <3>3, <1>2
      <4>2. i # j
        BY <4>1, <1>5, <1>2 DEF PoolInv, UniqueInv
      <4> QED BY <4>1, <4>2, <1>2 DEF InRoom
    <3>4. CASE q # p
      <4>1. k \in DOMAIN waitingRoom[q] /\ waitingRoom[q][k] = i
        BY <3>2, <3>4, <1>2
      <4> QED BY <4>1, <3>4, <1>5, <1>2 DEF PoolInv, UniqueInv, InRoom
    <3> QED BY <3>3, <3>4
  <2>2. ASSUME InRoom(i), i # j PROVE InRoom(i)'
    <3>1. PICK q \in Priorities : \E k \in DOMAIN waitingRoom[q] : waitingRoom[q][k] = i
      BY <2>2 DEF InRoom
    <3>2. PICK k \in DOMAIN waitingRoom[q] : waitingRoom[q][k] = i
      BY <3>1
    <3>3. CASE q = p
      <4>1. k - 1 \in DOMAIN waitingRoom'[p] /\ waitingRoom'[p][k - 1] = i
        BY <3>2, <3>3, <2>2, <1>5, <1>2
      <4> QED BY <4>1, <1>2 DEF InRoom
    <3>4. CASE q # p
      BY <3>2, <3>4, <1>2 DEF InRoom
    <3> QED BY <3>3, <3>4
  <2>3. job[t] = NoJob
    BY <1>3 DEF PoolInv, HoldsInv, Running
  <2>4. OnThread(i)' <=> OnThread(i) \/ i = j
    BY <2>3, <1>1, <1>2, QueueServiceAssumption DEF OnThread, PoolTypeOK
  <2> QED BY <2>1, <2>2, <2>4
<1>11. UniqueInv'
  <2>1. \A q \in Priorities : \A k \in DOMAIN waitingRoom'[q] :
            LET h == IF q = p THEN k + 1 ELSE k
            IN  h \in DOMAIN waitingRoom[q] /\ waitingRoom'[q][k] = waitingRoom[q][h]
    BY <1>2
  <2>2. \A q, r \in Priorities :
          \A k \in DOMAIN waitingRoom'[q], l \in DOMAIN waitingRoom'[r] :
             waitingRoom'[q][k] = waitingRoom'[r][l] => q = r /\ k = l
    <3>1. \A k, l \in DOMAIN waitingRoom'[p] : k + 1 = l + 1 => k = l
      BY <1>2
    <3> QED BY <2>1, <3>1 DEF PoolInv, UniqueInv
  <2>3. \A q \in Priorities : \A k \in DOMAIN waitingRoom'[q] : Priority[waitingRoom'[q][k]] = q
    BY <2>1 DEF PoolInv, UniqueInv
  <2>4. \A u, v \in Threads : job'[u] = job'[v] /\ job'[u] # NoJob => u = v
    BY <1>1, <1>2, <1>9 DEF PoolInv, UniqueInv, OnThread, PoolTypeOK
  <2>5. /\ \A i \in Jobs : InRoom(i)' => ran'[i] = 0 /\ ~OnThread(i)'
        /\ \A i \in Jobs : OnThread(i)' => ran'[i] = 0
        /\ \A i \in Jobs : ran'[i] <= 1
    BY <1>4, <1>9, <1>10 DEF PoolInv, UniqueInv
  <2> QED BY <2>2, <2>4, <2>5, <2>3 DEF UniqueInv
<1> QED BY <1>3, <1>4, <1>2, <1>7, <1>8, <1>9, <1>10, <1>11 DEF PoolInv, RoomEmpty

\* A job ends: it leaves its thread and was run once.
LEMMA JobDonePool ==
    ASSUME PoolInv, NEW t \in Threads, JobDone(t), NEW j, j = job[t]
    PROVE  /\ PoolInv'
           /\ UNCHANGED <<waitingRoom, status, call>> /\ Running(t)
           /\ j \in Jobs /\ OnThread(j) /\ ran' = [ran EXCEPT ![j] = 1]
           /\ \A u \in Threads : (Alive(u)' => Alive(u)) /\ (Running(u)' => Running(u))
           /\ \A i \in Jobs : /\ InRoom(i)' <=> InRoom(i)
                              /\ OnThread(i)' <=> OnThread(i) /\ i # j
<1>1. PoolTypeOK
  BY DEF PoolInv
<1>2. pc[t] = "run" /\ j \in Jobs /\ j # NoJob /\ OnThread(j) /\ ran[j] = 0
  BY QueueServiceAssumption DEF PoolInv, JobDone, HoldsInv, UniqueInv, OnThread, Running
<1>3. /\ ran' = [ran EXCEPT ![j] = @ + 1]
      /\ job' = [job EXCEPT ![t] = NoJob]
      /\ pc' = [pc EXCEPT ![t] = "abort"]
      /\ UNCHANGED <<waitingRoom, status, pool, workers, allStopped, level, wakeUp,
                     shouldStop, call, toStop, target>>
  BY DEF JobDone, Goto, poolVars, flagVars, callVars
<1>4. /\ ran' \in [Jobs -> Nat] /\ ran'[j] = 1 /\ ran' = [ran EXCEPT ![j] = 1]
      /\ \A i \in Jobs : i # j => ran'[i] = ran[i]
  BY <1>1, <1>2, <1>3 DEF PoolTypeOK
<1>5. job' \in [Threads -> Jobs \cup {NoJob}] /\ pc' \in [Threads -> {"off", "dead",
        "register", "pop", "run", "abort", "check", "pause", "sleep", "woken", "rearm",
        "exit", "ended"}]
  BY <1>1, <1>3 DEF PoolTypeOK
<1>6. PoolTypeOK'
  BY <1>1, <1>3, <1>4, <1>5 DEF PoolTypeOK
<1>7. /\ WorkersInv' /\ StopInv' /\ HoldsInv'
      /\ \A u \in Threads : (Alive(u)' => Alive(u)) /\ (Running(u)' => Running(u))
  BY <1>1, <1>2, <1>3
     DEF PoolInv, WorkersInv, StopInv, HoldsInv, Busy, Alive, Running, PoolTypeOK
<1>8. \A i \in Jobs : /\ InRoom(i)' <=> InRoom(i)
                      /\ OnThread(i)' <=> OnThread(i) /\ i # j
  <2>1. \A i \in Jobs : InRoom(i)' <=> InRoom(i)
    BY <1>3 DEF InRoom
  <2>2. \A u \in Threads : job[u] = j => u = t
    BY <1>2 DEF PoolInv, UniqueInv
  <2>3. \A u \in Threads : job'[u] = IF u = t THEN NoJob ELSE job[u]
    BY <1>1, <1>3 DEF PoolTypeOK
  <2>4. \A i \in Jobs : i # NoJob
    BY QueueServiceAssumption
  <2>5. \A i \in Jobs : OnThread(i)' <=> OnThread(i) /\ i # j
    BY <2>2, <2>3, <2>4 DEF OnThread
  <2> QED BY <2>1, <2>5
<1>9. UniqueInv'
  <2>1. \A u, v \in Threads : job'[u] = job'[v] /\ job'[u] # NoJob => u = v
    BY <1>1, <1>3 DEF PoolInv, UniqueInv, PoolTypeOK
  <2>2. /\ \A i \in Jobs : InRoom(i)' => ran'[i] = 0 /\ ~OnThread(i)'
        /\ \A i \in Jobs : OnThread(i)' => ran'[i] = 0
        /\ \A i \in Jobs : ran'[i] <= 1
    BY <1>2, <1>4, <1>8 DEF PoolInv, UniqueInv
  <2> QED BY <2>1, <2>2, <1>3 DEF PoolInv, UniqueInv
<1> QED BY <1>2, <1>3, <1>4, <1>6, <1>7, <1>8, <1>9 DEF PoolInv, Running

LEMMA ThreadSteps ==
    ASSUME NEW t \in Threads, ThreadStep(t)
    PROVE  QuietThreadStep(t) \/ PopFound(t) \/ JobDone(t)
BY DEF ThreadStep, QuietThreadStep

-----------------------------------------------------------------------------
(* The calls made to the pool. *)

\* The room after a job was added to those of a priority.
AddedLast(p, j) ==
    /\ p \in Priorities
    /\ waitingRoom' \in [Priorities -> Seq(Jobs)]
    /\ \A q \in Priorities : q # p => waitingRoom'[q] = waitingRoom[q]
    /\ DOMAIN waitingRoom'[p] = 1 .. Len(waitingRoom[p]) + 1
    /\ DOMAIN waitingRoom[p] = 1 .. Len(waitingRoom[p]) /\ Len(waitingRoom[p]) \in Nat
    /\ \A k \in DOMAIN waitingRoom[p] : waitingRoom'[p][k] = waitingRoom[p][k]
    /\ waitingRoom'[p][Len(waitingRoom[p]) + 1] = j

LEMMA EnqueueRoom ==
    ASSUME PoolTypeOK, NEW j \in Jobs, Enqueue(j)
    PROVE  AddedLast(Priority[j], j)
<1> DEFINE p == Priority[j]
<1>1. p \in Priorities
  BY QueueServiceAssumption
<1>2. waitingRoom \in [Priorities -> Seq(Jobs)] /\ waitingRoom[p] \in Seq(Jobs)
  BY <1>1 DEF PoolTypeOK
<1>3. waitingRoom' = [waitingRoom EXCEPT ![p] = Append(@, j)]
  BY DEF Enqueue
<1>4. /\ waitingRoom' \in [Priorities -> Seq(Jobs)]
      /\ \A q \in Priorities : q # p => waitingRoom'[q] = waitingRoom[q]
      /\ waitingRoom'[p] = Append(waitingRoom[p], j)
  BY <1>1, <1>2, <1>3
<1> HIDE DEF p
<1>5. AddedLast(p, j)
  BY <1>1, <1>2, <1>4 DEF AddedLast
<1> QED BY <1>5 DEF p

\* A job that is nowhere enters the room.
LEMMA EnqueuePool ==
    ASSUME PoolInv, NEW j \in Jobs, Enqueue(j), ~InRoom(j), ~OnThread(j), ran[j] = 0
    PROVE  /\ PoolInv'
           /\ UNCHANGED <<status, call, pc, job, ran>>
           /\ \A i \in Jobs : /\ InRoom(i)' <=> InRoom(i) \/ i = j
                              /\ OnThread(i)' <=> OnThread(i)
<1>1. /\ PoolTypeOK
      /\ UNCHANGED <<status, pool, workers, allStopped, pc, level, job, wakeUp, shouldStop,
                     call, toStop, target, ran>>
  BY DEF PoolInv, Enqueue, poolVars, threadVars, flagVars, callVars
<1> DEFINE p == Priority[j]
<1>2. AddedLast(p, j)
  BY <1>1, EnqueueRoom
<1>3. p = Priority[j]
  OBVIOUS
<1> HIDE DEF p
<1> USE DEF AddedLast
<1>4. \A i \in Jobs : /\ InRoom(i)' <=> InRoom(i) \/ i = j
                      /\ OnThread(i)' <=> OnThread(i)
  <2>1. \A i \in Jobs : OnThread(i)' <=> OnThread(i)
    BY <1>1 DEF OnThread
  <2>2. ASSUME NEW i \in Jobs, InRoom(i)' PROVE InRoom(i) \/ i = j
    BY <2>2, <1>2, SMTT(30) DEF InRoom
  <2>3. ASSUME NEW i \in Jobs, InRoom(i) PROVE InRoom(i)'
    <3>1. PICK q \in Priorities : \E k \in DOMAIN waitingRoom[q] : waitingRoom[q][k] = i
      BY <2>3 DEF InRoom
    <3>2. \E k \in DOMAIN waitingRoom'[q] : waitingRoom'[q][k] = i
      BY <3>1, <1>2
    <3> QED BY <3>2 DEF InRoom
  <2>4. InRoom(j)'
    <3>1. Len(waitingRoom[p]) + 1 \in DOMAIN waitingRoom'[p]
      BY <1>2
    <3> QED BY <3>1, <1>2 DEF InRoom
  <2> QED BY <2>1, <2>2, <2>3, <2>4
<1>5. PoolTypeOK'
  BY <1>1, <1>2 DEF PoolTypeOK
<1>6. WorkersInv' /\ StopInv' /\ HoldsInv'
  BY <1>1 DEF PoolInv, WorkersInv, StopInv, HoldsInv, Alive, Running
<1>7. UniqueInv'
  <2>1. ASSUME NEW s \in Priorities, NEW m \in DOMAIN waitingRoom'[s]
        PROVE
           \/ s = p /\ m = Len(waitingRoom[p]) + 1 /\ waitingRoom'[s][m] = j
           \/ m \in DOMAIN waitingRoom[s] /\ waitingRoom'[s][m] = waitingRoom[s][m]
    <3>1. CASE s = p
      BY <3>1, <1>2, SMTT(30)
    <3>2. CASE s # p
      BY <3>2, <1>2
    <3> QED BY <3>1, <3>2
  <2>2. ASSUME NEW q \in Priorities, NEW r \in Priorities,
               NEW k \in DOMAIN waitingRoom'[q], NEW l \in DOMAIN waitingRoom'[r],
               waitingRoom'[q][k] = waitingRoom'[r][l]
        PROVE  q = r /\ k = l
    <3>1. \A s \in Priorities : \A m \in DOMAIN waitingRoom[s] : waitingRoom[s][m] # j
      BY DEF InRoom
    <3> QED BY <2>1, <2>2, <3>1 DEF PoolInv, UniqueInv
  <2>3. \A q \in Priorities : \A k \in DOMAIN waitingRoom'[q] : Priority[waitingRoom'[q][k]] = q
    BY <2>1, <1>3 DEF PoolInv, UniqueInv
  <2>4. \A i \in Jobs : InRoom(i)' => ran'[i] = 0 /\ ~OnThread(i)'
    BY <1>1, <1>4 DEF PoolInv, UniqueInv
  <2>5. \A i \in Jobs : OnThread(i)' => ran'[i] = 0
    BY <1>1, <1>4 DEF PoolInv, UniqueInv
  <2> QED BY <2>2, <2>4, <2>5, <2>3, <1>1 DEF PoolInv, UniqueInv
<1> QED BY <1>1, <1>4, <1>5, <1>6, <1>7 DEF PoolInv

InStop == {"graceful", "stop", "await", "join"}

\* Inside wait() and stop().
LEMMA CallPool ==
    ASSUME PoolInv, CallStep
    PROVE  /\ PoolInv' /\ Calm
           /\ \/ {call, call'} \subseteq {"wait", "recheck"} /\ status' = status
              \/ {call, call'} \subseteq InStop
<1> DEFINE Goal ==
      /\ PoolTypeOK' /\ WorkersInv' /\ StopInv' /\ HoldsInv' /\ Calm
      /\ \/ {call, call'} \subseteq {"wait", "recheck"} /\ status' = status
         \/ {call, call'} \subseteq InStop
<1>1. Goal
  <2> USE DEF PoolInv, PoolTypeOK, WorkersInv, StopInv, HoldsInv, Calm, Running, Alive, Busy,
              Goto, InStop, threadVars, flagVars, callVars, poolVars
  <2>1. CASE WaitSignalled
    BY <2>1 DEF WaitSignalled
  <2>2. CASE WaitAgain
    BY <2>2 DEF WaitAgain
  <2>3. ASSUME NEW t \in Threads, GracefulStop(t) PROVE Goal
    BY <2>3 DEF GracefulStop, AskToStop
  <2>4. ASSUME NEW t \in Threads, AlreadyStopped(t) PROVE Goal
    BY <2>4 DEF AlreadyStopped
  <2>5. ASSUME NEW t \in Threads, StopThread(t) PROVE Goal
    BY <2>5 DEF StopThread, AskToStop
  <2>6. CASE Stopped
    BY <2>6 DEF Stopped
  <2>7. CASE Timeout
    BY <2>7 DEF Timeout
  <2>8. CASE Cancelled
    BY <2>8 DEF Cancelled
  <2>9. CASE Joined
    BY <2>9 DEF Joined, Unregister
  <2> HIDE DEF Goal
  <2> QED BY <2>1, <2>2, <2>3, <2>4, <2>5, <2>6, <2>7, <2>8, <2>9 DEF CallStep
<1> QED BY <1>1, SamePlaces DEF PoolInv, Calm

\* The steps of the caller that add no job: what they leave.
LEMMA CallerPool ==
    ASSUME PoolInv,
           \/ WakeupWorkers \/ WaitBegin \/ WaitEnd \/ StopBegin \/ StopEnd
           \/ Start /\ \A t \in Threads : ~Alive(t)
    PROVE  /\ PoolInv' /\ UNCHANGED <<waitingRoom, job, ran>>
           /\ \A t \in Threads : Running(t)' => Running(t)
           /\ StopEnd => \A t \in Threads : ~Alive(t)
           /\ WaitEnd /\ status = "running" => RoomEmpty /\ \A t \in Threads : ~Running(t)
<1> DEFINE Goal ==
      /\ PoolTypeOK' /\ WorkersInv' /\ StopInv' /\ HoldsInv' /\ UNCHANGED <<waitingRoom, job, ran>>
      /\ \A t \in Threads : Running(t)' => Running(t)
<1>1. Goal
  <2> USE DEF PoolInv, PoolTypeOK, WorkersInv, StopInv, HoldsInv, Running, Alive, Busy,
              threadVars, flagVars, callVars, poolVars
  <2>1. CASE WakeupWorkers
    BY <2>1 DEF WakeupWorkers
  <2>2. CASE Start /\ \A t \in Threads : ~Alive(t)
    BY <2>2 DEF Start
  <2>3. CASE WaitBegin
    BY <2>3 DEF WaitBegin
  <2>4. CASE WaitEnd
    BY <2>4 DEF WaitEnd
  <2>5. CASE StopBegin
    BY <2>5 DEF StopBegin
  <2>6. CASE StopEnd
    BY <2>6 DEF StopEnd
  <2> HIDE DEF Goal
  <2> QED BY <2>1, <2>2, <2>3, <2>4, <2>5, <2>6
<1>2. StopEnd => \A t \in Threads : ~Alive(t)
  BY DEF PoolInv, StopInv, StopEnd
<1>3. WaitEnd /\ status = "running" => RoomEmpty /\ \A t \in Threads : ~Running(t)
  BY DEF PoolInv, WorkersInv, Busy, Running, WaitEnd, StillBusy
<1> QED BY <1>1, <1>2, <1>3, SamePlaces DEF PoolInv

\* A step that leaves the pool as it is.
LEMMA SamePool == ASSUME PoolInv, UNCHANGED vars PROVE PoolInv' /\ Calm /\ call' = call
<1>1. UNCHANGED <<waitingRoom, status, pool, workers, allStopped, pc, level, job, wakeUp,
                  shouldStop, call, toStop, target, ran>>
  BY DEF vars, poolVars, threadVars, flagVars, callVars
<1> QED BY <1>1, SamePlaces
        DEF PoolInv, PoolTypeOK, WorkersInv, StopInv, HoldsInv, Alive, Running, Calm

-----------------------------------------------------------------------------
(* YearBatches: the inductive invariant. *)

\* What the main thread is doing tells the state of the service.
ControlInv ==
    /\ phase \in {"add", "wakeup", "join", "summary"} =>
         call = "none" /\ status = "stopped" /\ \A t \in Threads : ~Alive(t)
    /\ phase \in {"wait", "idle"} => call = "none" /\ status = "running"
    /\ phase = "waiting" => call \in {"wait", "recheck"} /\ status = "running"
    /\ phase = "stopping" => call \in InStop
    /\ phase # "add" => set \in DOMAIN Sets

AddedCount == IF phase = "wakeup" THEN added + 1 ELSE added
Added(j) ==
    \E i \in DOMAIN Sets : \E k \in DOMAIN Sets[i] :
        Sets[i][k] = j /\ (i < set \/ (i = set /\ k <= AddedCount))

\* The jobs added are those that wait, run, or were run; those that wait or run
\* are of the current set.
AccountedInv ==
    /\ \A j \in Jobs : Added(j) <=> InRoom(j) \/ OnThread(j) \/ ran[j] > 0
    /\ \A j \in Jobs : InRoom(j) \/ OnThread(j) => set \in DOMAIN Sets /\ InSet(set, j)
    /\ phase \notin {"add", "wakeup"} => added = Len(Sets[set])
    /\ phase = "wakeup" => added < Len(Sets[set])

IInv == TypeOK /\ PoolInv /\ ControlInv /\ IdleMeansQuiet /\ AccountedInv

LEMMA SetsType == Sets \in Seq(Seq(Jobs)) /\ Len(Sets) \in Nat /\ DOMAIN Sets = 1 .. Len(Sets)
BY YearBatchesAssumption

LEMMA InitInv == Init => IInv
<1> SUFFICES ASSUME Init PROVE IInv
  OBVIOUS
<1>1. PoolInv /\ \A j \in Jobs : ~InRoom(j) /\ ~OnThread(j) /\ ran[j] = 0
  BY PoolInitInv DEF Init
<1>2. TypeOK
  BY <1>1, SetsType DEF Init, TypeOK, PoolInv
<1>3. ControlInv /\ IdleMeansQuiet
  BY DEF Init, PoolInit, ControlInv, Alive, IdleMeansQuiet, AfterIdle
<1>4. \A j \in Jobs : ~Added(j)
  BY SetsType DEF Added, AddedCount, Init
<1>5. AccountedInv
  BY <1>1, <1>4 DEF AccountedInv, Init
<1> QED BY <1>1, <1>2, <1>3, <1>5 DEF IInv

-----------------------------------------------------------------------------
(* YearBatches: the steps. *)

\* Who waits, who runs and who was run decide the jobs accounted for.
LEMMA SameJobs ==
    ASSUME PoolInv, AccountedInv, UNCHANGED <<waitingRoom, job, ran, set, added>>,
           phase \in {"wakeup"} <=> phase' \in {"wakeup"},
           phase' \in {"add", "wakeup"} => phase \in {"add", "wakeup"},
           phase' \notin {"add", "wakeup"} =>
             phase \notin {"add", "wakeup"} \/ added = Len(Sets[set])
    PROVE  AccountedInv'
<1>1. \A j : /\ InRoom(j)' <=> InRoom(j)
             /\ OnThread(j)' <=> OnThread(j)
             /\ Added(j)' <=> Added(j)
  BY SamePlaces DEF PoolInv, Added, AddedCount
<1> QED BY <1>1 DEF AccountedInv

\* The steps of the pool while the main thread waits for it.
LEMMA CalmInv ==
    ASSUME IInv, PoolInv', Calm, UNCHANGED mainVars,
           \/ call' = call
           \/ {call, call'} \subseteq {"wait", "recheck"} /\ status' = status
           \/ {call, call'} \subseteq InStop
    PROVE  IInv'
<1>1. UNCHANGED <<waitingRoom, job, ran, phase, set, added>>
  BY DEF Calm, mainVars
<1>2. TypeOK'
  BY <1>1 DEF IInv, TypeOK, PoolInv
<1>3. ControlInv'
  BY <1>1 DEF IInv, ControlInv, Calm, InStop
<1>4. IdleMeansQuiet'
  BY <1>1 DEF IInv, IdleMeansQuiet, AfterIdle, RoomEmpty, Calm
<1>5. AccountedInv'
  BY <1>1, SameJobs DEF IInv
<1> QED BY <1>2, <1>3, <1>4, <1>5 DEF IInv

LEMMA PopFoundInv ==
    ASSUME IInv, NEW t \in Threads, PopFound(t), UNCHANGED mainVars
    PROVE  IInv'
<1>1. PoolInv
  BY DEF IInv
<1>2. PICK j : j = waitingRoom[level[t]][1]
  OBVIOUS
<1>3. /\ PoolInv' /\ UNCHANGED <<status, call, ran>> /\ ~RoomEmpty /\ j \in Jobs /\ InRoom(j)
      /\ \A u \in Threads : Alive(u)' => Alive(u)
      /\ \A i \in Jobs : /\ InRoom(i)' <=> InRoom(i) /\ i # j
                         /\ OnThread(i)' <=> OnThread(i) \/ i = j
  BY <1>1, <1>2, PopFoundPool
<1>4. UNCHANGED <<phase, set, added>>
  BY DEF mainVars
<1>5. TypeOK' /\ ControlInv'
  BY <1>3, <1>4 DEF IInv, TypeOK, PoolInv, ControlInv
<1>6. IdleMeansQuiet'
  BY <1>3, <1>4 DEF IInv, IdleMeansQuiet, AfterIdle
<1>7. AccountedInv'
  <2>1. \A i : Added(i)' <=> Added(i)
    BY <1>4 DEF Added, AddedCount
  <2> QED BY <2>1, <1>3, <1>4 DEF IInv, AccountedInv
<1> QED BY <1>3, <1>5, <1>6, <1>7 DEF IInv

LEMMA JobDoneInv ==
    ASSUME IInv, NEW t \in Threads, JobDone(t), UNCHANGED mainVars
    PROVE  IInv'
<1>1. PoolInv
  BY DEF IInv
<1>2. PICK j : j = job[t]
  OBVIOUS
<1>3. /\ PoolInv' /\ UNCHANGED <<waitingRoom, status, call>> /\ Running(t)
      /\ j \in Jobs /\ OnThread(j) /\ ran' = [ran EXCEPT ![j] = 1]
      /\ \A u \in Threads : (Alive(u)' => Alive(u)) /\ (Running(u)' => Running(u))
      /\ \A i \in Jobs : /\ InRoom(i)' <=> InRoom(i)
                         /\ OnThread(i)' <=> OnThread(i) /\ i # j
  BY <1>1, <1>2, JobDonePool
<1>4. UNCHANGED <<phase, set, added>> /\ ran \in [Jobs -> Nat]
  BY DEF mainVars, IInv, TypeOK, PoolTypeOK
<1>5. TypeOK' /\ ControlInv'
  BY <1>3, <1>4 DEF IInv, TypeOK, PoolInv, ControlInv
<1>6. IdleMeansQuiet'
  BY <1>3, <1>4 DEF IInv, IdleMeansQuiet, AfterIdle
<1>7. AccountedInv'
  <2>1. \A i : Added(i)' <=> Added(i)
    BY <1>4 DEF Added, AddedCount
  <2>2. \A i \in Jobs : ran'[i] = IF i = j THEN 1 ELSE ran[i]
    BY <1>3, <1>4
  <2> QED BY <2>1, <2>2, <1>3, <1>4 DEF IInv, AccountedInv
<1> QED BY <1>3, <1>5, <1>6, <1>7 DEF IInv

LEMMA WorkerInv ==
    ASSUME IInv, NEW t \in Threads, Worker(t)
    PROVE  IInv'
<1>1. ThreadStep(t) /\ UNCHANGED mainVars /\ PoolInv
  BY DEF Worker, IInv
<1>2. CASE QuietThreadStep(t)
  BY <1>1, <1>2, QuietThreadPool, CalmInv
<1> QED BY <1>1, <1>2, ThreadSteps, PopFoundInv, JobDoneInv

LEMMA InCallInv == ASSUME IInv, InCall PROVE IInv'
<1>1. CallStep /\ UNCHANGED mainVars /\ PoolInv
  BY DEF InCall, IInv
<1> QED BY <1>1, CallPool, CalmInv

\* The steps of the main thread that add no job and do not change the set.
QuietMainStep ==
    \/ WakeupAfterAdd \/ StartService \/ WaitForIdle \/ IdleReached \/ StopService
    \/ ServiceStopped \/ JoinResults

LEMMA QuietMainInv == ASSUME IInv, QuietMainStep PROVE IInv'
<1> DEFINE Control ==
      /\ PoolInv' /\ TypeOK' /\ ControlInv' /\ IdleMeansQuiet'
      /\ UNCHANGED <<waitingRoom, job, ran, set>>
<1>1. TypeOK /\ PoolInv
  BY DEF IInv
<1>2. Control
  <2>1. CASE WakeupAfterAdd
    <3>1. WakeupWorkers /\ PoolInv' /\ UNCHANGED <<waitingRoom, job, ran>>
      BY <2>1, <1>1, CallerPool DEF WakeupAfterAdd
    <3> QED BY <2>1, <3>1
            DEF WakeupAfterAdd, WakeupWorkers, IInv, TypeOK, PoolInv, ControlInv, IdleMeansQuiet,
                AfterIdle, Alive, poolVars, threadVars, callVars
  <2>2. CASE StartService
    <3>1. Start /\ \A t \in Threads : ~Alive(t)
      BY <2>2 DEF StartService, IInv, ControlInv
    <3>2. PoolInv' /\ UNCHANGED <<waitingRoom, job, ran>>
      BY <3>1, <1>1, CallerPool
    <3> QED BY <2>2, <3>1, <3>2
            DEF StartService, Start, IInv, TypeOK, PoolInv, ControlInv, IdleMeansQuiet, AfterIdle,
                callVars
  <2>3. CASE WaitForIdle
    <3>1. WaitBegin /\ PoolInv' /\ UNCHANGED <<waitingRoom, job, ran>>
      BY <2>3, <1>1, CallerPool DEF WaitForIdle
    <3> QED BY <2>3, <3>1
            DEF WaitForIdle, WaitBegin, IInv, TypeOK, PoolInv, ControlInv, IdleMeansQuiet,
                AfterIdle, poolVars
  <2>4. CASE IdleReached
    <3>1. WaitEnd /\ status = "running"
      BY <2>4 DEF IdleReached, IInv, ControlInv
    <3>2. /\ PoolInv' /\ UNCHANGED <<waitingRoom, job, ran>>
          /\ RoomEmpty /\ \A t \in Threads : ~Running(t) /\ (Running(t)' => Running(t))
      BY <3>1, <1>1, CallerPool
    <3> QED BY <2>4, <3>1, <3>2
            DEF IdleReached, WaitEnd, IInv, TypeOK, PoolInv, ControlInv, IdleMeansQuiet, AfterIdle,
                RoomEmpty, poolVars
  <2>5. CASE StopService
    <3>1. /\ StopBegin /\ PoolInv' /\ UNCHANGED <<waitingRoom, job, ran>>
          /\ \A t \in Threads : Running(t)' => Running(t)
      BY <2>5, <1>1, CallerPool DEF StopService
    <3> QED BY <2>5, <3>1
            DEF StopService, StopBegin, IInv, TypeOK, PoolInv, ControlInv, IdleMeansQuiet,
                AfterIdle, RoomEmpty, InStop
  <2>6. CASE ServiceStopped
    <3>1. /\ StopEnd /\ PoolInv' /\ UNCHANGED <<waitingRoom, job, ran>>
          /\ \A t \in Threads : ~Alive(t) /\ (Running(t)' => Running(t))
      BY <2>6, <1>1, CallerPool DEF ServiceStopped
    <3> QED BY <2>6, <3>1
            DEF ServiceStopped, StopEnd, IInv, TypeOK, PoolInv, ControlInv, IdleMeansQuiet,
                AfterIdle, RoomEmpty, Alive, threadVars
  <2>7. CASE JoinResults
    <3>1. PoolInv' /\ Calm /\ call' = call
      BY <2>7, <1>1, SamePool DEF JoinResults
    <3> QED BY <2>7, <3>1
            DEF JoinResults, IInv, TypeOK, PoolInv, ControlInv, IdleMeansQuiet, AfterIdle,
                RoomEmpty, Calm
  <2> QED BY <2>1, <2>2, <2>3, <2>4, <2>5, <2>6, <2>7 DEF QuietMainStep
<1>3. AccountedInv'
  <2>1. CASE WakeupAfterAdd
    <3>1. phase = "wakeup" /\ phase' = "add" /\ added' = added + 1 /\ set' = set
      BY <2>1 DEF WakeupAfterAdd
    <3>2. \A j : /\ InRoom(j)' <=> InRoom(j)
                 /\ OnThread(j)' <=> OnThread(j)
                 /\ Added(j)' <=> Added(j)
      BY <1>2, <3>1 DEF InRoom, OnThread, Added, AddedCount
    <3> QED BY <1>2, <3>1, <3>2 DEF IInv, AccountedInv
  <2>2. CASE StartService
    <3>1. phase = "add" /\ phase' = "wait" /\ UNCHANGED <<set, added>> /\ added = Len(Sets[set])
      BY <2>2 DEF StartService
    <3> QED BY <1>2, <3>1, SameJobs DEF IInv
  <2>3. CASE WaitForIdle \/ IdleReached \/ StopService \/ ServiceStopped \/ JoinResults
    <3>1. /\ phase \notin {"add", "wakeup"} /\ phase' \notin {"add", "wakeup"}
          /\ UNCHANGED <<set, added>>
      BY <2>3 DEF WaitForIdle, IdleReached, StopService, ServiceStopped, JoinResults
    <3> QED BY <1>2, <3>1, SameJobs DEF IInv
  <2> QED BY <2>1, <2>2, <2>3 DEF QuietMainStep
<1> QED BY <1>2, <1>3 DEF IInv

\* A job is added: it was not added before.
LEMMA AddJobInv == ASSUME IInv, AddJob PROVE IInv'
<1>1. /\ TypeOK /\ PoolInv /\ phase = "add" /\ phase' = "wakeup" /\ set' = set
      /\ added' = added /\ added \in Nat /\ set \in DOMAIN Sets /\ added < Len(Sets[set])
      /\ Enqueue(Sets[set][added + 1])
  BY DEF IInv, TypeOK, AddJob
<1>2. Sets[set] \in Seq(Jobs) /\ added + 1 \in DOMAIN Sets[set]
  BY <1>1, SetsType
<1>3. PICK j \in Jobs : j = Sets[set][added + 1]
  BY <1>2
<1>4. \A i \in DOMAIN Sets : i \in Nat /\ \A k \in DOMAIN Sets[i] : k \in Nat
  BY SetsType
<1>5. \A i \in DOMAIN Sets : \A k \in DOMAIN Sets[i] :
         Sets[i][k] = j <=> i = set /\ k = added + 1
  BY <1>1, <1>2, <1>3, YearBatchesAssumption
<1>6. ~Added(j) /\ \A i : Added(i)' <=> Added(i) \/ i = j
  <2>1. ~Added(j)
    <3>1. ~(set < set) /\ ~(added + 1 <= added)
      BY <1>1, <1>4
    <3> QED BY <3>1, <1>1, <1>5 DEF Added, AddedCount
  <2>2. ASSUME NEW i, Added(i)' PROVE Added(i) \/ i = j
    <3>1. PICK h \in DOMAIN Sets : \E k \in DOMAIN Sets[h] :
             Sets[h][k] = i /\ (h < set \/ (h = set /\ k <= added + 1))
      BY <1>1, <2>2 DEF Added, AddedCount
    <3>2. PICK k \in DOMAIN Sets[h] :
             Sets[h][k] = i /\ (h < set \/ (h = set /\ k <= added + 1))
      BY <3>1
    <3>3. CASE h = set /\ k = added + 1
      BY <3>2, <3>3, <1>3
    <3>4. CASE h < set \/ (h = set /\ k <= added)
      BY <3>2, <3>4, <1>1 DEF Added, AddedCount
    <3> QED BY <3>2, <3>3, <3>4, <1>1, <1>4
  <2>3. ASSUME NEW i, Added(i) PROVE Added(i)'
    <3>1. PICK h \in DOMAIN Sets : \E k \in DOMAIN Sets[h] :
             Sets[h][k] = i /\ (h < set \/ (h = set /\ k <= added))
      BY <1>1, <2>3 DEF Added, AddedCount
    <3>2. PICK k \in DOMAIN Sets[h] :
             Sets[h][k] = i /\ (h < set \/ (h = set /\ k <= added))
      BY <3>1
    <3>3. k <= added => k <= added + 1
      BY <1>1, <1>4
    <3> QED BY <3>2, <3>3, <1>1 DEF Added, AddedCount
  <2>4. Added(j)'
    BY <1>1, <1>2, <1>3 DEF Added, AddedCount
  <2> QED BY <2>1, <2>2, <2>3, <2>4
<1>7. ~InRoom(j) /\ ~OnThread(j) /\ ran[j] = 0
  BY <1>1, <1>6 DEF IInv, AccountedInv, TypeOK, PoolTypeOK
<1>8. /\ PoolInv' /\ UNCHANGED <<status, call, pc, job, ran>>
      /\ \A i \in Jobs : /\ InRoom(i)' <=> InRoom(i) \/ i = j
                         /\ OnThread(i)' <=> OnThread(i)
  BY <1>1, <1>3, <1>7, EnqueuePool
<1>9. TypeOK' /\ ControlInv' /\ IdleMeansQuiet'
  BY <1>1, <1>8 DEF IInv, TypeOK, PoolInv, ControlInv, IdleMeansQuiet, AfterIdle, Alive
<1>10. AccountedInv'
  <2>1. \A i \in Jobs : Added(i)' <=> InRoom(i)' \/ OnThread(i)' \/ ran'[i] > 0
    BY <1>6, <1>8 DEF IInv, AccountedInv
  <2>2. InSet(set, j)
    BY <1>2, <1>3 DEF InSet
  <2>3. \A i \in Jobs : InRoom(i)' \/ OnThread(i)' => set' \in DOMAIN Sets /\ InSet(set', i)
    BY <1>1, <1>8, <2>2 DEF IInv, AccountedInv
  <2> QED BY <2>1, <2>3, <1>1 DEF AccountedInv
<1> QED BY <1>8, <1>9, <1>10 DEF IInv

\* The next set starts with nothing left of the one before.
LEMMA NextSetInv == ASSUME IInv, NextSet PROVE IInv'
<1>1. /\ TypeOK /\ phase = "summary" /\ phase' = "add" /\ set' = set + 1
      /\ added' = 0 /\ set \in DOMAIN Sets /\ set \in Nat /\ UNCHANGED vars
  BY SetsType DEF IInv, TypeOK, NextSet, ControlInv
<1>2. PoolInv' /\ Calm /\ call' = call
  BY <1>1, SamePool DEF IInv
<1>3. TypeOK' /\ ControlInv' /\ IdleMeansQuiet'
  BY <1>1, <1>2, SetsType
     DEF IInv, TypeOK, PoolInv, ControlInv, IdleMeansQuiet, AfterIdle, Calm
<1>4. \A j \in Jobs : ~InRoom(j) /\ ~OnThread(j)
  BY <1>1, QueueServiceAssumption
     DEF IInv, IdleMeansQuiet, AfterIdle, RoomEmpty, InRoom, OnThread, PoolInv, HoldsInv
<1>5. \A j \in Jobs : /\ InRoom(j)' <=> InRoom(j)
                      /\ OnThread(j)' <=> OnThread(j)
  BY <1>2 DEF InRoom, OnThread, Calm
<1>6. \A j \in Jobs : Added(j)' <=> Added(j)
  <2>1. added = Len(Sets[set])
    BY <1>1 DEF IInv, AccountedInv
  <2>2. \A i \in DOMAIN Sets : i \in Nat /\ \A k \in DOMAIN Sets[i] :
           k \in Nat /\ k > 0 /\ k <= Len(Sets[i])
    BY SetsType
  <2>3. \A i \in DOMAIN Sets : \A k \in DOMAIN Sets[i] :
           (i < set \/ (i = set /\ k <= added)) <=> (i < set + 1 \/ (i = set + 1 /\ k <= 0))
    BY <1>1, <2>1, <2>2
  <2> QED BY <1>1, <2>3 DEF Added, AddedCount
<1>7. AccountedInv'
  BY <1>1, <1>2, <1>4, <1>5, <1>6 DEF IInv, AccountedInv, Calm
<1> QED BY <1>2, <1>3, <1>7 DEF IInv

-----------------------------------------------------------------------------
(* YearBatches: the theorems. *)

\* After the wait every year of the set was run exactly once.
LEMMA IdleDone == IInv => IdleMeansDone
<1> SUFFICES ASSUME IInv, AfterIdle, NEW k \in DOMAIN Sets[set]
             PROVE  ran[Sets[set][k]] = 1
  BY DEF IdleMeansDone
<1>1. phase \notin {"add", "wakeup"} /\ set \in DOMAIN Sets
  BY DEF IInv, AfterIdle, ControlInv
<1>2. PICK j \in Jobs : j = Sets[set][k]
  BY <1>1, SetsType
<1>3. added = Len(Sets[set])
  BY <1>1 DEF IInv, AccountedInv
<1>4. k \in Nat /\ k <= Len(Sets[set])
  BY <1>1, SetsType
<1>5. Added(j)
  BY <1>1, <1>2, <1>3, <1>4 DEF Added, AddedCount
<1>6. ~InRoom(j) /\ ~OnThread(j)
  BY QueueServiceAssumption
     DEF IInv, IdleMeansQuiet, RoomEmpty, InRoom, OnThread, PoolInv, HoldsInv
<1>7. ran[j] > 0 /\ ran[j] <= 1 /\ ran[j] \in Nat
  BY <1>5, <1>6 DEF IInv, AccountedInv, PoolInv, UniqueInv, TypeOK, PoolTypeOK
<1> QED BY <1>2, <1>7

\* The inductive invariant holds of every behaviour.
THEOREM Invariance == Spec => []IInv
<1>1. IInv /\ [Next]_batchVars => IInv'
  <2> SUFFICES ASSUME IInv, [Next]_batchVars PROVE IInv'
    OBVIOUS
  <2>1. CASE MainStep
    BY <2>1, QuietMainInv, AddJobInv, NextSetInv DEF MainStep, QuietMainStep
  <2>2. CASE InCall
    BY <2>2, InCallInv
  <2>3. ASSUME NEW t \in Threads, Worker(t) PROVE IInv'
    BY <2>3, WorkerInv
  <2>4. CASE UNCHANGED batchVars
    BY <2>4, SamePool, CalmInv DEF batchVars, IInv
  <2> QED BY <2>1, <2>2, <2>3, <2>4 DEF Next
<1> QED BY <1>1, InitInv, PTL DEF Spec

\* Every variable keeps its type.
THEOREM TypeCorrect == Spec => []TypeOK
<1>1. IInv => TypeOK
  BY DEF IInv
<1> QED BY <1>1, Invariance, PTL

\* wait(qseIdle) is a barrier: from its return to the next start, whatever the
\* number of threads and the moment they wake up, no job waits and none runs.
THEOREM BarrierIsQuiet == Spec => []IdleMeansQuiet
<1>1. IInv => IdleMeansQuiet
  BY DEF IInv
<1> QED BY <1>1, Invariance, PTL

\* ... and every year of the set was run exactly once.
THEOREM BarrierIsComplete == Spec => []IdleMeansDone
<1>1. IInv => IdleMeansDone
  BY IdleDone
<1> QED BY <1>1, Invariance, PTL

\* A year is run once, while its set is the current one.
THEOREM YearsStayInTheirSet == Spec => []OnlyItsOwnSet
<1>1. IInv => OnlyItsOwnSet
  <2> SUFFICES ASSUME IInv, NEW j \in Jobs
               PROVE  /\ ran[j] <= 1
                      /\ \A t \in Threads : job[t] = j => InSet(set, j) /\ ran[j] = 0
                      /\ ran[j] = 1 => \E i \in 1 .. set : i \in DOMAIN Sets /\ InSet(i, j)
    BY DEF OnlyItsOwnSet
  <2>1. ran[j] <= 1 /\ \A t \in Threads : job[t] = j => InSet(set, j) /\ ran[j] = 0
    BY DEF IInv, PoolInv, UniqueInv, AccountedInv, OnThread
  <2>2. ASSUME ran[j] = 1 PROVE \E i \in 1 .. set : i \in DOMAIN Sets /\ InSet(i, j)
    <3>1. Added(j)
      BY <2>2 DEF IInv, AccountedInv
    <3>2. PICK i \in DOMAIN Sets : i <= set /\ \E k \in DOMAIN Sets[i] : Sets[i][k] = j
      BY <3>1, SetsType DEF Added, IInv, TypeOK
    <3> QED BY <3>2, SetsType DEF InSet, IInv, TypeOK
  <2> QED BY <2>1, <2>2
<1> QED BY <1>1, Invariance, PTL

\* A stopped service has neither threads nor workers left, so that it can be
\* started for the next set.
THEOREM StopIsComplete == Spec => []StoppedMeansStopped
<1>1. IInv => StoppedMeansStopped
  <2> SUFFICES ASSUME IInv, status = "stopped", call = "none"
               PROVE  workers = {} /\ \A t \in Threads : ~Alive(t)
    BY DEF StoppedMeansStopped
  <2>1. \A t \in Threads : ~Alive(t)
    BY DEF IInv, ControlInv, InStop, TypeOK
  <2>2. workers = {}
    BY <2>1 DEF IInv, PoolInv, WorkersInv, PoolTypeOK, Alive, Busy
  <2> QED BY <2>1, <2>2
<1> QED BY <1>1, Invariance, PTL

\* Every step of the pool is a step of the barrier or leaves it alone: a year
\* finishes when its job ends, a set is summed up when all its years have.
THEOREM RefinesBarrier == Spec => Barrier!Init /\ [][Barrier!Next]_(Barrier!barrierVars)
<1> DEFINE done == {j \in Jobs : ran[j] > 0}
<1>1. Init => Barrier!Init
  BY QueueServiceAssumption DEF Init, PoolInit, Barrier!Init
<1>2. ASSUME IInv, [Next]_batchVars
      PROVE  [Barrier!Next]_(Barrier!barrierVars)
  <2>1. CASE \E t \in Threads : JobDone(t) /\ UNCHANGED mainVars
    <3>1. PICK t \in Threads : JobDone(t) /\ UNCHANGED mainVars
      BY <2>1
    <3>2. PICK j \in Jobs : j = job[t] /\ OnThread(j) /\ ran[j] = 0
      BY <1>2, <3>1, QueueServiceAssumption
         DEF IInv, PoolInv, JobDone, HoldsInv, UniqueInv, OnThread, Running
    <3>3. set \in DOMAIN Sets /\ InSet(set, j) /\ set' = set
      BY <1>2, <3>1, <3>2 DEF IInv, AccountedInv, mainVars
    <3>4. ran' = [ran EXCEPT ![j] = @ + 1] /\ ran \in [Jobs -> Nat]
      BY <1>2, <3>1, <3>2 DEF JobDone, IInv, TypeOK, PoolTypeOK
    <3>5. done' = done \cup {j} /\ j \notin done
      BY <3>2, <3>4
    <3>6. j \in Barrier!YearsOf(set)
      BY <3>3 DEF InSet, Barrier!YearsOf
    <3>7. Barrier!Finish(j)
      BY <3>3, <3>5, <3>6 DEF Barrier!Finish
    <3> QED BY <3>3, <3>6, <3>7 DEF Barrier!Next
  <2>2. CASE NextSet
    <3>1. phase = "summary" /\ set' = set + 1 /\ ran' = ran
      BY <2>2 DEF NextSet, vars
    <3>2. set \in DOMAIN Sets /\ IdleMeansDone
      BY <1>2, <3>1, IdleDone DEF IInv, ControlInv
    <3>3. Barrier!YearsOf(set) \subseteq done
      BY <3>1, <3>2, SetsType DEF IdleMeansDone, AfterIdle, Barrier!YearsOf
    <3> QED BY <3>1, <3>2, <3>3 DEF Barrier!Next, Barrier!Summarise
  <2>3. CASE UNCHANGED <<set, ran>>
    BY <2>3 DEF Barrier!barrierVars
  <2>4. \/ \E t \in Threads : JobDone(t) /\ UNCHANGED mainVars
        \/ NextSet
        \/ UNCHANGED <<set, ran>>
    <3>1. ASSUME MainStep, ~NextSet PROVE UNCHANGED <<set, ran>>
      BY <3>1 DEF MainStep, AddJob, WakeupAfterAdd, StartService, WaitForIdle, IdleReached,
           StopService, ServiceStopped, JoinResults, Enqueue, WakeupWorkers, Start,
           WaitBegin, WaitEnd, StopBegin, StopEnd, vars
    <3>2. ASSUME InCall PROVE UNCHANGED <<set, ran>>
      BY <3>2 DEF InCall, CallStep, mainVars, WaitSignalled, WaitAgain, GracefulStop,
           AlreadyStopped, StopThread, Stopped, Timeout, Cancelled, Joined
    <3>3. ASSUME NEW t \in Threads, Worker(t), ~JobDone(t) PROVE UNCHANGED <<set, ran>>
      BY <3>3 DEF Worker, mainVars, ThreadStep, Register, PopFound, PopMissed, Abort, Check,
           Pause, Wake, Woken, Rearm, Exit, Ended
    <3>4. ASSUME UNCHANGED batchVars PROVE UNCHANGED <<set, ran>>
      BY <3>4 DEF batchVars, vars, mainVars
    <3> QED BY <1>2, <3>1, <3>2, <3>3, <3>4 DEF Next, Worker
  <2> QED BY <2>1, <2>2, <2>3, <2>4
<1> QED BY <1>1, <1>2, Invariance, PTL DEF Spec
-----------------------------------------------------------------------------
(* IoService: the inductive invariant. *)

\* What the main thread is doing tells the state of the service.
StageInv ==
    /\ stage = "begin" => call = "none" /\ status = "stopped" /\ \A t \in Threads : ~Alive(t)
    /\ stage \in {"serving", "joined"} => call = "none" /\ status = "running"
    /\ stage = "waiting" => call \in {"wait", "recheck"} /\ status = "running"
    /\ stage = "stopping" => call \in InStop
    /\ stage = "stopped" => call = "none"

Entered(j) == \E k \in DOMAIN order : order[k] = j

\* An adder has added its jobs up to the next one, which it may have enqueued already.
AddedBy(a, k) == k < next[a] \/ (k = next[a] /\ enqueued[a])

\* The jobs that entered the room are those that wait, run, or were run, each once.
EnteredInv ==
    /\ \A j \in Jobs : Entered(j) <=> InRoom(j) \/ OnThread(j) \/ ran[j] > 0
    /\ \A h, k \in DOMAIN order : order[h] = order[k] => h = k
    /\ \A a \in Adders : \A k \in DOMAIN Work[a] : Entered(Work[a][k]) <=> AddedBy(a, k)
    /\ \A a \in Adders : enqueued[a] => next[a] \in DOMAIN Work[a]

Before(i, j) == \E h, k \in DOMAIN order : h < k /\ order[h] = i /\ order[k] = j

\* The jobs of a priority wait in the order they entered the room, and leave it in this order:
\* when one waits, those that entered after it wait too.
FifoInv ==
    /\ \A p \in Priorities : \A m, n \in DOMAIN waitingRoom[p] : \A i, j \in Jobs :
         m < n /\ i = waitingRoom[p][m] /\ j = waitingRoom[p][n] => Before(i, j)
    /\ \A i, j \in Jobs :
         Before(i, j) /\ Priority[i] = Priority[j] /\ InRoom(i) => InRoom(j)

IoInv == IoTypeOK /\ PoolInv /\ StageInv /\ EnteredInv /\ FifoInv

LEMMA IoInitInv == IoInit => IoInv
<1> SUFFICES ASSUME IoInit PROVE IoInv
  OBVIOUS
<1>1. PoolInv /\ \A j \in Jobs : ~InRoom(j) /\ ~OnThread(j) /\ ran[j] = 0
  BY PoolInitInv DEF IoInit
<1>2. \A a \in Adders : Work[a] \in Seq(Jobs) /\ Len(Work[a]) \in Nat
                        /\ DOMAIN Work[a] = 1 .. Len(Work[a])
  BY IoServiceAssumption
<1>3. IoTypeOK
  BY <1>1, <1>2 DEF IoInit, IoTypeOK, PoolInv
<1>4. StageInv
  BY DEF IoInit, PoolInit, StageInv, Alive
<1>5. \A j : ~Entered(j)
  BY DEF Entered, IoInit
<1>6. EnteredInv
  BY <1>1, <1>2, <1>5 DEF EnteredInv, AddedBy, IoInit
<1>7. FifoInv
  BY DEF FifoInv, IoInit, PoolInit, Before, InRoom
<1> QED BY <1>1, <1>3, <1>4, <1>6, <1>7 DEF IoInv

-----------------------------------------------------------------------------
(* IoService: the steps. *)

\* Who waits, who runs, who was run and what was added decide what entered the room.
LEMMA SameEntered ==
    ASSUME PoolInv, EnteredInv, FifoInv, UNCHANGED <<waitingRoom, job, ran, order>>
    PROVE  /\ FifoInv'
           /\ \A j \in Jobs : Entered(j)' <=> InRoom(j)' \/ OnThread(j)' \/ ran'[j] > 0
           /\ \A h, k \in DOMAIN order' : order'[h] = order'[k] => h = k
           /\ UNCHANGED <<next, enqueued>> => EnteredInv'
<1>1. \A j : /\ InRoom(j)' <=> InRoom(j)
             /\ OnThread(j)' <=> OnThread(j)
             /\ Entered(j)' <=> Entered(j)
  BY SamePlaces DEF PoolInv, Entered
<1>2. FifoInv'
  <2>1. \A i, j : Before(i, j)' <=> Before(i, j)
    BY DEF Before
  <2> QED BY <1>1, <2>1 DEF FifoInv
<1> QED BY <1>1, <1>2 DEF EnteredInv, AddedBy

\* The steps of the pool while nothing is added.
LEMMA CalmIo ==
    ASSUME IoInv, PoolInv', Calm, UNCHANGED clientVars,
           \/ call' = call
           \/ {call, call'} \subseteq {"wait", "recheck"} /\ status' = status
           \/ {call, call'} \subseteq InStop
    PROVE  IoInv'
<1>1. UNCHANGED <<waitingRoom, job, ran, stage, next, enqueued, order>>
  BY DEF Calm, clientVars
<1>2. IoTypeOK'
  BY <1>1 DEF IoInv, IoTypeOK, PoolInv
<1>3. StageInv'
  BY <1>1 DEF IoInv, StageInv, Calm, InStop
<1> QED BY <1>1, <1>2, <1>3, SameEntered DEF IoInv

\* No job entered the room both before and after another.
LEMMA BeforeIsStrict ==
    ASSUME EnteredInv, order \in Seq(Jobs), NEW i, NEW j, Before(i, j)
    PROVE  ~Before(j, i)
<1>1. PICK h \in DOMAIN order, k \in DOMAIN order : h < k /\ order[h] = i /\ order[k] = j
  BY DEF Before
<1>2. SUFFICES ASSUME Before(j, i) PROVE FALSE
  OBVIOUS
<1>3. PICK m \in DOMAIN order, n \in DOMAIN order : m < n /\ order[m] = j /\ order[n] = i
  BY <1>2 DEF Before
<1>4. n = h /\ m = k /\ h \in Nat /\ k \in Nat
  BY <1>1, <1>3 DEF EnteredInv
<1> QED BY <1>1, <1>3, <1>4

LEMMA PopFoundIo ==
    ASSUME IoInv, NEW t \in Threads, PopFound(t), UNCHANGED clientVars
    PROVE  IoInv'
<1>1. PoolInv /\ PoolTypeOK
  BY DEF IoInv, PoolInv
<1> DEFINE p == level[t]
           j == waitingRoom[p][1]
<1>2. /\ PoolInv' /\ UNCHANGED <<status, call, ran>> /\ j \in Jobs /\ InRoom(j)
      /\ \A u \in Threads : Alive(u)' => Alive(u)
      /\ \A i \in Jobs : /\ InRoom(i)' <=> InRoom(i) /\ i # j
                         /\ OnThread(i)' <=> OnThread(i) \/ i = j
  BY <1>1, PopFoundPool
<1>3. /\ p \in Priorities /\ waitingRoom[p] \in Seq(Jobs) /\ 1 \in DOMAIN waitingRoom[p]
      /\ \A q \in Priorities : q # p => waitingRoom'[q] = waitingRoom[q]
      /\ \A k \in DOMAIN waitingRoom'[p] :
            k + 1 \in DOMAIN waitingRoom[p] /\ waitingRoom'[p][k] = waitingRoom[p][k + 1]
      /\ \A k \in DOMAIN waitingRoom[p] : k \in Nat
      /\ \A k \in DOMAIN waitingRoom'[p] : k \in Nat
  BY <1>1, PopFoundRoom
<1>4. UNCHANGED <<stage, next, enqueued, order>> /\ order \in Seq(Jobs)
  BY DEF clientVars, IoInv, IoTypeOK
<1>5. /\ IoTypeOK' /\ StageInv'
  BY <1>2, <1>4 DEF IoInv, IoTypeOK, PoolInv, StageInv
<1>6. \A i : Entered(i)' <=> Entered(i)
  BY <1>4 DEF Entered
<1>7. EnteredInv'
  <2>1. \A i \in Jobs : Entered(i)' <=> InRoom(i)' \/ OnThread(i)' \/ ran'[i] > 0
    BY <1>2, <1>6 DEF IoInv, EnteredInv
  <2> QED BY <1>4, <1>6, <2>1 DEF IoInv, EnteredInv, AddedBy
<1>8. p = Priority[j]
  BY <1>1, <1>3 DEF PoolInv, UniqueInv
<1>9. j = waitingRoom[p][1]
  OBVIOUS
<1> HIDE DEF p, j
<1>10. FifoInv'
  <2>1. \A i, k : Before(i, k)' <=> Before(i, k)
    BY <1>4 DEF Before
  <2>2. ASSUME NEW q \in Priorities, NEW m \in DOMAIN waitingRoom'[q],
               NEW n \in DOMAIN waitingRoom'[q], NEW i \in Jobs, NEW k \in Jobs,
               m < n, i = waitingRoom'[q][m], k = waitingRoom'[q][n]
        PROVE  Before(i, k)
    <3>1. CASE q = p
      <4>1. /\ m + 1 \in DOMAIN waitingRoom[q] /\ n + 1 \in DOMAIN waitingRoom[q] /\ m + 1 < n + 1
            /\ i = waitingRoom[q][m + 1] /\ k = waitingRoom[q][n + 1]
        BY <1>3, <2>2, <3>1
      <4> QED BY <4>1 DEF IoInv, FifoInv
    <3>2. CASE q # p
      <4>1. /\ m \in DOMAIN waitingRoom[q] /\ n \in DOMAIN waitingRoom[q]
            /\ i = waitingRoom[q][m] /\ k = waitingRoom[q][n]
        BY <1>3, <2>2, <3>2
      <4> QED BY <2>2, <4>1 DEF IoInv, FifoInv
    <3> QED BY <3>1, <3>2
  <2>3. ASSUME NEW i \in Jobs, NEW k \in Jobs,
               Before(i, k), Priority[i] = Priority[k], InRoom(i)'
        PROVE  InRoom(k)'
    <3>1. InRoom(i) /\ i # j
      BY <1>2, <2>3
    <3>2. InRoom(k)
      BY <2>3, <3>1 DEF IoInv, FifoInv
    <3>3. k # j
      <4>1. SUFFICES ASSUME k = j PROVE FALSE
        OBVIOUS
      <4>2. PICK q \in Priorities : \E m \in DOMAIN waitingRoom[q] : waitingRoom[q][m] = i
        BY <3>1 DEF InRoom
      <4>3. PICK m \in DOMAIN waitingRoom[q] : waitingRoom[q][m] = i
        BY <4>2
      <4>4. q = p
        BY <4>1, <4>3, <2>3, <1>1, <1>8 DEF PoolInv, UniqueInv
      <4>5. m # 1
        BY <4>3, <4>4, <3>1, <1>9
      <4>6. 1 < m
        BY <4>4, <4>5, <1>3
      <4>7. Before(j, i)
        BY <4>3, <4>4, <4>6, <1>2, <1>3, <1>9 DEF IoInv, FifoInv
      <4> QED BY <4>1, <4>7, <2>3, <1>4, BeforeIsStrict DEF IoInv
    <3> QED BY <1>2, <3>2, <3>3
  <2> QED BY <2>1, <2>2, <2>3 DEF FifoInv
<1> QED BY <1>2, <1>5, <1>7, <1>10 DEF IoInv

LEMMA JobDoneIo ==
    ASSUME IoInv, NEW t \in Threads, JobDone(t), UNCHANGED clientVars
    PROVE  IoInv'
<1>1. PoolInv
  BY DEF IoInv
<1>2. PICK j : j = job[t]
  OBVIOUS
<1>3. /\ PoolInv' /\ UNCHANGED <<waitingRoom, status, call>>
      /\ j \in Jobs /\ OnThread(j) /\ ran' = [ran EXCEPT ![j] = 1]
      /\ \A u \in Threads : Alive(u)' => Alive(u)
      /\ \A i \in Jobs : /\ InRoom(i)' <=> InRoom(i)
                         /\ OnThread(i)' <=> OnThread(i) /\ i # j
  BY <1>1, <1>2, JobDonePool
<1>4. UNCHANGED <<stage, next, enqueued, order>> /\ ran \in [Jobs -> Nat]
  BY DEF clientVars, IoInv, IoTypeOK, PoolTypeOK
<1>5. IoTypeOK' /\ StageInv'
  BY <1>3, <1>4 DEF IoInv, IoTypeOK, PoolInv, StageInv
<1>6. \A i : (Entered(i)' <=> Entered(i)) /\ (InRoom(i)' <=> InRoom(i))
  BY <1>3, <1>4 DEF Entered, InRoom
<1>7. EnteredInv'
  <2>1. \A i \in Jobs : ran'[i] = IF i = j THEN 1 ELSE ran[i]
    BY <1>3, <1>4
  <2>2. \A i \in Jobs : Entered(i)' <=> InRoom(i)' \/ OnThread(i)' \/ ran'[i] > 0
    BY <1>3, <1>6, <2>1 DEF IoInv, EnteredInv
  <2> QED BY <1>4, <1>6, <2>2 DEF IoInv, EnteredInv, AddedBy
<1>8. FifoInv'
  <2>1. \A i, k : Before(i, k)' <=> Before(i, k)
    BY <1>4 DEF Before
  <2> QED BY <1>3, <1>6, <2>1 DEF IoInv, FifoInv
<1> QED BY <1>3, <1>5, <1>7, <1>8 DEF IoInv

LEMMA IoWorkerInv == ASSUME IoInv, NEW t \in Threads, IoWorker(t) PROVE IoInv'
<1>1. ThreadStep(t) /\ UNCHANGED clientVars /\ PoolInv
  BY DEF IoWorker, IoInv
<1>2. CASE QuietThreadStep(t)
  BY <1>1, <1>2, QuietThreadPool, CalmIo
<1> QED BY <1>1, <1>2, ThreadSteps, PopFoundIo, JobDoneIo

LEMMA IoCallInv == ASSUME IoInv, IoCall PROVE IoInv'
<1>1. CallStep /\ UNCHANGED clientVars /\ PoolInv
  BY DEF IoCall, IoInv
<1> QED BY <1>1, CallPool, CalmIo

LEMMA IoMainInv == ASSUME IoInv, IoMain PROVE IoInv'
<1>1. PoolInv /\ UNCHANGED <<next, enqueued, order>>
  BY DEF IoInv, IoMain, IoStart, IoWait, IoIdle, Join, IoStop, IoStopped
<1>2. PoolInv' /\ UNCHANGED <<waitingRoom, job, ran>> /\ StageInv'
  <2>1. CASE IoStart
    <3>1. Start /\ \A t \in Threads : ~Alive(t)
      BY <2>1 DEF IoStart, IoInv, StageInv
    <3> QED BY <2>1, <3>1, <1>1, CallerPool DEF IoStart, Start, StageInv, IoInv, callVars
  <2>2. CASE IoWait
    <3>1. WaitBegin
      BY <2>2 DEF IoWait
    <3> QED BY <2>2, <3>1, <1>1, CallerPool DEF IoWait, WaitBegin, StageInv, IoInv, poolVars
  <2>3. CASE IoIdle
    <3>1. WaitEnd
      BY <2>3 DEF IoIdle
    <3> QED BY <2>3, <3>1, <1>1, CallerPool DEF IoIdle, WaitEnd, StageInv, IoInv, poolVars
  <2>4. CASE Join
    <3>1. PoolInv' /\ Calm /\ call' = call
      BY <2>4, <1>1, SamePool DEF Join
    <3>2. stage = "serving" /\ stage' = "joined"
      BY <2>4 DEF Join
    <3> QED BY <3>1, <3>2 DEF StageInv, IoInv, Calm
  <2>5. CASE IoStop
    <3>1. StopBegin
      BY <2>5 DEF IoStop
    <3> QED BY <2>5, <3>1, <1>1, CallerPool DEF IoStop, StopBegin, StageInv, IoInv, InStop
  <2>6. CASE IoStopped
    <3>1. StopEnd
      BY <2>6 DEF IoStopped
    <3> QED BY <2>6, <3>1, <1>1, CallerPool DEF IoStopped, StopEnd, StageInv, IoInv
  <2> QED BY <2>1, <2>2, <2>3, <2>4, <2>5, <2>6 DEF IoMain
<1>3. stage' \in {"begin", "serving", "waiting", "joined", "stopping", "stopped"}
  BY DEF IoMain, IoStart, IoWait, IoIdle, Join, IoStop, IoStopped
<1>4. IoTypeOK'
  BY <1>1, <1>2, <1>3 DEF IoInv, IoTypeOK, PoolInv
<1> QED BY <1>1, <1>2, <1>4, SameEntered DEF IoInv

\* A job is added: it was not added before, by this adder or another.
LEMMA AddTaskInv == ASSUME IoInv, NEW a \in Adders, AddTask(a) PROVE IoInv'
<1>1. /\ IoTypeOK /\ PoolInv /\ stage \in {"serving", "waiting"} /\ ~enqueued[a]
      /\ next[a] \in DOMAIN Work[a] /\ Enqueue(Work[a][next[a]]) /\ stage' = stage /\ next' = next
      /\ enqueued' = [enqueued EXCEPT ![a] = TRUE]
      /\ order' = Append(order, Work[a][next[a]])
      /\ enqueued \in [Adders -> BOOLEAN] /\ order \in Seq(Jobs) /\ PoolTypeOK
  BY DEF IoInv, AddTask, IoTypeOK
<1>2. \A b \in Adders : /\ next[b] \in Nat
                        /\ \A k \in DOMAIN Work[b] : k \in Nat /\ Work[b][k] \in Jobs
  <2>1. \A b \in Adders : Work[b] \in Seq(Jobs)
    BY IoServiceAssumption
  <2> QED BY <1>1, <2>1 DEF IoTypeOK
<1>3. PICK j \in Jobs : j = Work[a][next[a]]
  BY <1>1, <1>2
<1>4. Enqueue(j) /\ PoolTypeOK
  BY <1>1, <1>3
<1>5. \A b \in Adders : \A k \in DOMAIN Work[b] : Work[b][k] = j => b = a /\ k = next[a]
  BY <1>1, <1>3, IoServiceAssumption
<1>6. /\ order' \in Seq(Jobs) /\ Len(order) \in Nat /\ DOMAIN order = 1 .. Len(order)
      /\ DOMAIN order' = 1 .. Len(order) + 1
      /\ order'[Len(order) + 1] = j /\ \A k \in DOMAIN order : order'[k] = order[k]
  BY <1>1, <1>3
<1>7. ~Entered(j)
  <2>1. ~AddedBy(a, next[a])
    BY <1>1, <1>2 DEF AddedBy
  <2> QED BY <2>1, <1>1, <1>3 DEF IoInv, EnteredInv
<1>8. ~InRoom(j) /\ ~OnThread(j) /\ ran[j] = 0
  BY <1>1, <1>7 DEF IoInv, EnteredInv, PoolTypeOK
<1>9. /\ PoolInv' /\ UNCHANGED <<status, call, pc, job, ran>>
      /\ \A i \in Jobs : /\ InRoom(i)' <=> InRoom(i) \/ i = j
                         /\ OnThread(i)' <=> OnThread(i)
  BY <1>1, <1>3, <1>8, EnqueuePool
<1>10. IoTypeOK' /\ StageInv'
  BY <1>1, <1>6, <1>9 DEF IoInv, IoTypeOK, PoolInv, StageInv
<1>11. \A i : Entered(i)' <=> Entered(i) \/ i = j
  BY <1>6 DEF Entered
<1>12. EnteredInv'
  <2>1. \A i \in Jobs : Entered(i)' <=> InRoom(i)' \/ OnThread(i)' \/ ran'[i] > 0
    BY <1>8, <1>9, <1>11 DEF IoInv, EnteredInv
  <2>2. \A h, k \in DOMAIN order' : order'[h] = order'[k] => h = k
    <3>1. \A k \in DOMAIN order : order[k] # j
      BY <1>7 DEF Entered
    <3>2. \A k \in DOMAIN order' : k \in DOMAIN order \/ k = Len(order) + 1
      BY <1>6
    <3> QED BY <1>6, <3>1, <3>2 DEF IoInv, EnteredInv
  <2>3. ASSUME NEW b \in Adders, NEW k \in DOMAIN Work[b]
        PROVE  Entered(Work[b][k])' <=> AddedBy(b, k)'
    <3>1. Entered(Work[b][k]) <=> AddedBy(b, k)
      BY DEF IoInv, EnteredInv
    <3>2. AddedBy(b, k)' <=> AddedBy(b, k) \/ (b = a /\ k = next[a])
      BY <1>1, <1>2 DEF AddedBy
    <3>3. Work[b][k] = j <=> b = a /\ k = next[a]
      BY <1>3, <1>5
    <3> QED BY <1>11, <3>1, <3>2, <3>3
  <2>4. \A b \in Adders : enqueued'[b] => next'[b] \in DOMAIN Work[b]
    BY <1>1 DEF IoInv, EnteredInv
  <2> QED BY <2>1, <2>2, <2>3, <2>4 DEF EnteredInv
<1> DEFINE p == Priority[j]
<1>13. AddedLast(p, j)
  BY <1>4, EnqueueRoom
<1> HIDE DEF p
<1> USE DEF AddedLast
<1>14. FifoInv'
  <2>1. ASSUME NEW q \in Priorities, NEW m \in DOMAIN waitingRoom'[q]
        PROVE  \/ q = p /\ m = Len(waitingRoom[p]) + 1 /\ waitingRoom'[q][m] = j
               \/ /\ m \in DOMAIN waitingRoom[q] /\ waitingRoom'[q][m] = waitingRoom[q][m]
                  /\ InRoom(waitingRoom[q][m]) /\ waitingRoom[q][m] # j
    <3>1. \/ q = p /\ m = Len(waitingRoom[p]) + 1 /\ waitingRoom'[q][m] = j
          \/ m \in DOMAIN waitingRoom[q] /\ waitingRoom'[q][m] = waitingRoom[q][m]
      <4>1. CASE q = p
        BY <4>1, <1>13, SMTT(30)
      <4>2. CASE q # p
        BY <4>2, <1>13
      <4> QED BY <4>1, <4>2
    <3>2. m \in DOMAIN waitingRoom[q] => InRoom(waitingRoom[q][m])
      BY DEF InRoom
    <3> QED BY <1>8, <3>1, <3>2
  <2>2. ASSUME NEW i, NEW k
        PROVE  Before(i, k)' <=> Before(i, k) \/ (k = j /\ Entered(i))
    <3>1. ASSUME Before(i, k)' PROVE Before(i, k) \/ (k = j /\ Entered(i))
      BY <3>1, <1>6 DEF Before, Entered
    <3>2. ASSUME Before(i, k) PROVE Before(i, k)'
      BY <3>2, <1>6 DEF Before
    <3>3. ASSUME k = j, Entered(i) PROVE Before(i, k)'
      <4>1. PICK h \in DOMAIN order : order[h] = i
        BY <3>3 DEF Entered
      <4>2. /\ h \in DOMAIN order' /\ Len(order) + 1 \in DOMAIN order' /\ h < Len(order) + 1
            /\ order'[h] = i /\ order'[Len(order) + 1] = k
        BY <3>3, <4>1, <1>6
      <4> QED BY <4>2 DEF Before
    <3> QED BY <3>1, <3>2, <3>3
  <2>3. ASSUME NEW q \in Priorities, NEW m \in DOMAIN waitingRoom'[q],
               NEW n \in DOMAIN waitingRoom'[q], NEW i \in Jobs, NEW k \in Jobs,
               m < n, i = waitingRoom'[q][m], k = waitingRoom'[q][n]
        PROVE  Before(i, k)'
    <3>1. m \in DOMAIN waitingRoom[q] /\ i = waitingRoom[q][m] /\ InRoom(i)
      <4>1. q = p => ~(m = Len(waitingRoom[p]) + 1)
        BY <2>3, <1>13
      <4> QED BY <2>1, <2>3, <4>1
    <3>2. CASE k = j
      <4>1. Entered(i)
        BY <3>1 DEF IoInv, EnteredInv
      <4> QED BY <2>2, <3>2, <4>1
    <3>3. CASE k # j
      <4>1. n \in DOMAIN waitingRoom[q] /\ k = waitingRoom[q][n]
        BY <2>1, <2>3, <3>3
      <4>2. Before(i, k)
        BY <2>3, <3>1, <4>1 DEF IoInv, FifoInv
      <4> QED BY <2>2, <4>2
    <3> QED BY <3>2, <3>3
  <2>4. ASSUME NEW i \in Jobs, NEW k \in Jobs,
               Before(i, k)', Priority[i] = Priority[k], InRoom(i)'
        PROVE  InRoom(k)'
    <3>1. CASE k = j
      BY <3>1, <1>9
    <3>2. CASE k # j
      <4>1. Before(i, k) /\ i # j
        BY <2>2, <2>4, <3>2, <1>7 DEF Before, Entered
      <4>2. InRoom(i)
        BY <2>4, <4>1, <1>9
      <4>3. InRoom(k)
        BY <2>4, <4>1, <4>2 DEF IoInv, FifoInv
      <4> QED BY <4>3, <1>9
    <3> QED BY <3>1, <3>2
  <2> QED BY <2>3, <2>4 DEF FifoInv
<1> QED BY <1>9, <1>10, <1>12, <1>14 DEF IoInv

\* The pool is woken up and the adder goes on to its next job.
LEMMA WakeupAfterTaskInv == ASSUME IoInv, NEW a \in Adders, WakeupAfterTask(a) PROVE IoInv'
<1>1. /\ PoolInv /\ IoTypeOK /\ WakeupWorkers /\ enqueued[a] /\ next[a] \in DOMAIN Work[a]
      /\ UNCHANGED <<stage, order>>
      /\ enqueued' = [enqueued EXCEPT ![a] = FALSE] /\ next' = [next EXCEPT ![a] = @ + 1]
      /\ enqueued \in [Adders -> BOOLEAN] /\ next \in [Adders -> Nat]
  BY DEF IoInv, WakeupAfterTask, EnteredInv, IoTypeOK
<1>2. PoolInv' /\ UNCHANGED <<waitingRoom, job, ran>>
  BY <1>1, CallerPool
<1>3. UNCHANGED <<status, call, pc>>
  BY <1>1 DEF WakeupWorkers, poolVars, threadVars, callVars
<1>4. \A b \in Adders : DOMAIN Work[b] = 1 .. Len(Work[b]) /\ Len(Work[b]) \in Nat
  BY IoServiceAssumption
<1>5. IoTypeOK'
  <2>1. next' \in [Adders -> Nat] /\ \A b \in Adders : next'[b] \in 1 .. Len(Work[b]) + 1
    BY <1>1, <1>4 DEF IoTypeOK
  <2> QED BY <1>1, <1>2, <2>1 DEF IoTypeOK, PoolInv
<1>6. StageInv'
  BY <1>1, <1>3 DEF IoInv, StageInv, Alive
<1>7. /\ FifoInv'
      /\ \A j \in Jobs : Entered(j)' <=> InRoom(j)' \/ OnThread(j)' \/ ran'[j] > 0
      /\ \A h, k \in DOMAIN order' : order'[h] = order'[k] => h = k
  BY <1>1, <1>2, SameEntered DEF IoInv
<1>8. ASSUME NEW b \in Adders, NEW k \in DOMAIN Work[b]
      PROVE  Entered(Work[b][k])' <=> AddedBy(b, k)'
  <2>1. AddedBy(b, k)' <=> AddedBy(b, k)
    BY <1>1, <1>4 DEF AddedBy
  <2>2. Entered(Work[b][k])' <=> Entered(Work[b][k])
    BY <1>1 DEF Entered
  <2> QED BY <2>1, <2>2 DEF IoInv, EnteredInv
<1>9. \A b \in Adders : enqueued'[b] => next'[b] \in DOMAIN Work[b]
  BY <1>1 DEF IoInv, EnteredInv
<1>10. EnteredInv'
  BY <1>7, <1>8, <1>9 DEF EnteredInv
<1> QED BY <1>2, <1>5, <1>6, <1>7, <1>10 DEF IoInv

-----------------------------------------------------------------------------
(* IoService: the theorems. *)

LEMMA IoInvNext == IoInv /\ [IoNext]_ioVars => IoInv'
<1> SUFFICES ASSUME IoInv, [IoNext]_ioVars PROVE IoInv'
  OBVIOUS
<1>1. ASSUME NEW a \in Adders, Adder(a) PROVE IoInv'
  BY <1>1, AddTaskInv, WakeupAfterTaskInv DEF Adder
<1>2. CASE UNCHANGED ioVars
  BY <1>2, SamePool, CalmIo DEF ioVars, IoInv
<1> QED BY <1>1, <1>2, IoMainInv, IoCallInv, IoWorkerInv DEF IoNext

\* The inductive invariant holds of every behaviour.
THEOREM IoInvariance == IoSpec => []IoInv
BY IoInitInv, IoInvNext, PTL DEF IoSpec

\* Every variable of the pool and of its use for output keeps its type.
THEOREM IoTypeCorrect == IoSpec => []IoTypeOK
<1>1. IoInv => IoTypeOK
  BY DEF IoInv
<1> QED BY <1>1, IoInvariance, PTL

LEMMA AtMostOne ==
    ASSUME NEW S, \A x, y \in S : x = y
    PROVE  Cardinality(S) = IF S = {} THEN 0 ELSE 1
<1>1. CASE S = {}
  BY <1>1, FS_EmptySet
<1>2. CASE S # {}
  <2>1. PICK x \in S : TRUE
    BY <1>2
  <2>2. S = {x}
    BY <2>1
  <2> QED BY <1>2, <2>2, FS_Singleton
<1> QED BY <1>1, <1>2

\* Whatever the number of threads, and whoever adds jobs, no job is lost, duplicated or
\* run twice.
THEOREM JobsAreConserved == IoSpec => []JobsConserved
<1>1. IoInv => JobsConserved
  <2> SUFFICES ASSUME IoInv, NEW j \in Jobs
               PROVE  LET waiting == Cardinality({k \in DOMAIN waitingRoom[Priority[j]] :
                                                     waitingRoom[Priority[j]][k] = j})
                          onThread == Cardinality({t \in Threads : job[t] = j})
                          entered == Cardinality({k \in DOMAIN order : order[k] = j})
                      IN  waiting + onThread + ran[j] = entered
    BY DEF JobsConserved
  <2> DEFINE W == {k \in DOMAIN waitingRoom[Priority[j]] : waitingRoom[Priority[j]][k] = j}
             T == {t \in Threads : job[t] = j}
             O == {k \in DOMAIN order : order[k] = j}
  <2>1. Priority[j] \in Priorities /\ j # NoJob
    BY QueueServiceAssumption
  <2>2. Cardinality(W) = IF InRoom(j) THEN 1 ELSE 0
    <3>1. \A x, y \in W : x = y
      BY <2>1 DEF IoInv, PoolInv, UniqueInv
    <3>2. W # {} <=> InRoom(j)
      BY <2>1 DEF InRoom, IoInv, PoolInv, UniqueInv
    <3> HIDE DEF W
    <3> QED BY <3>1, <3>2, AtMostOne
  <2>3. Cardinality(T) = IF OnThread(j) THEN 1 ELSE 0
    <3>1. \A x, y \in T : x = y
      BY <2>1 DEF IoInv, PoolInv, UniqueInv
    <3>2. T # {} <=> OnThread(j)
      BY DEF OnThread
    <3> HIDE DEF T
    <3> QED BY <3>1, <3>2, AtMostOne
  <2>4. Cardinality(O) = IF Entered(j) THEN 1 ELSE 0
    <3>1. \A x, y \in O : x = y
      BY DEF IoInv, EnteredInv
    <3>2. O # {} <=> Entered(j)
      BY DEF Entered
    <3> HIDE DEF O
    <3> QED BY <3>1, <3>2, AtMostOne
  <2>5. /\ InRoom(j) => ran[j] = 0 /\ ~OnThread(j)
        /\ OnThread(j) => ran[j] = 0
        /\ ran[j] \in Nat /\ ran[j] <= 1
        /\ Entered(j) <=> InRoom(j) \/ OnThread(j) \/ ran[j] > 0
    BY DEF IoInv, PoolInv, PoolTypeOK, UniqueInv, EnteredInv
  <2> HIDE DEF W, T, O
  <2>6. Cardinality(W) + Cardinality(T) + ran[j] = Cardinality(O)
    BY <2>2, <2>3, <2>4, <2>5
  <2> QED BY <2>6 DEF W, T, O
<1> QED BY <1>1, IoInvariance, PTL

\* When wait(qseIdle) returns nothing waits and nothing runs, although jobs may be added
\* up to this moment.
THEOREM IdleIsQuiet == IoSpec => IdleIsIdle
<1>1. ASSUME IoInv, [IoNext]_ioVars
      PROVE  [stage = "waiting" /\ stage' = "serving" =>
                RoomEmpty /\ \A t \in Threads : ~Running(t)]_ioVars
  <2> SUFFICES ASSUME IoNext, stage = "waiting", stage' = "serving"
               PROVE  RoomEmpty /\ \A t \in Threads : ~Running(t)
    BY <1>1
  <2>1. IoIdle
    BY DEF IoNext, IoMain, IoStart, IoWait, Join, IoStop, IoStopped, IoCall, Adder, AddTask,
           WakeupAfterTask, IoWorker, clientVars
  <2>2. WaitEnd /\ status = "running" /\ PoolInv
    BY <1>1, <2>1 DEF IoIdle, IoInv, StageInv
  <2> QED BY <2>2, CallerPool
<1> QED BY <1>1, IoInvariance, PTL DEF IoSpec, IdleIsIdle

\* Jobs of the same priority leave the waiting room in the order they entered it, whatever
\* the number of threads: when one still waits, none of those that entered after it was
\* taken, let alone run.
TakenInOrder ==
    \A h, k \in DOMAIN order :
        h < k /\ Priority[order[h]] = Priority[order[k]] /\ InRoom(order[h]) =>
          InRoom(order[k]) /\ ~OnThread(order[k]) /\ ran[order[k]] = 0

THEOREM JobsAreTakenInOrder == IoSpec => []TakenInOrder
<1>1. IoInv => TakenInOrder
  <2> SUFFICES ASSUME IoInv, NEW h \in DOMAIN order, NEW k \in DOMAIN order,
                      h < k, Priority[order[h]] = Priority[order[k]], InRoom(order[h])
               PROVE  InRoom(order[k]) /\ ~OnThread(order[k]) /\ ran[order[k]] = 0
    BY DEF TakenInOrder
  <2>1. order[h] \in Jobs /\ order[k] \in Jobs
    BY DEF IoInv, IoTypeOK
  <2>2. Before(order[h], order[k])
    BY DEF Before
  <2> QED BY <2>1, <2>2 DEF IoInv, FifoInv, PoolInv, UniqueInv
<1> QED BY <1>1, IoInvariance, PTL

\* A job enters the room, is taken, or was run; the other steps leave the jobs alone.
LEMMA OutputSteps ==
    ASSUME [IoNext]_ioVars
    PROVE  \/ UNCHANGED <<waitingRoom, job, ran, order>>
           \/ \E t \in Threads : (PopFound(t) \/ JobDone(t)) /\ UNCHANGED clientVars
           \/ \E a \in Adders : AddTask(a)
<1> DEFINE Same == UNCHANGED <<waitingRoom, job, ran, order>>
<1>1. ASSUME IoMain PROVE Same
  BY <1>1 DEF IoMain, IoStart, IoWait, IoIdle, Join, IoStop, IoStopped, Start, WaitBegin,
       WaitEnd, StopBegin, StopEnd, vars, threadVars
<1>2. ASSUME IoCall PROVE Same
  BY <1>2 DEF IoCall, clientVars, threadVars, CallStep, WaitSignalled, WaitAgain, GracefulStop,
       AlreadyStopped, StopThread, Stopped, Timeout, Cancelled, Joined
<1>3. ASSUME NEW t \in Threads, IoWorker(t), ~PopFound(t), ~JobDone(t) PROVE Same
  BY <1>3 DEF IoWorker, clientVars, ThreadStep, Register, PopMissed, Abort, Check,
       Pause, Wake, Woken, Rearm, Exit, Ended
<1>4. ASSUME NEW a \in Adders, WakeupAfterTask(a) PROVE Same
  BY <1>4 DEF WakeupAfterTask, WakeupWorkers, threadVars
<1>5. ASSUME UNCHANGED ioVars PROVE Same
  BY <1>5 DEF ioVars, vars, clientVars, threadVars
<1> QED BY <1>1, <1>2, <1>3, <1>4, <1>5 DEF IoNext, Adder, IoWorker

\* With one thread no job of a priority is run while one that entered before it is not.
OneByOne ==
    \A i, j \in Jobs : Before(i, j) /\ Priority[i] = Priority[j] /\ ran[j] > 0 => ran[i] > 0

LEMMA OneByOneInit == IoInit => OneByOne
BY DEF IoInit, OneByOne, Before

LEMMA OneByOneNext ==
    ASSUME Cardinality(Threads) = 1, IoInv, IoInv', OneByOne, [IoNext]_ioVars
    PROVE  OneByOne'
<1>1. PICK thread : Threads = {thread}
  BY QueueServiceAssumption, FS_Singleton
<1>2. ASSUME ran' = ran, order' = order PROVE OneByOne'
  BY <1>2 DEF OneByOne, Before
<1>3. ASSUME NEW t \in Threads, JobDone(t), UNCHANGED clientVars PROVE OneByOne'
  <2>1. PICK d : d = job[t]
    OBVIOUS
  <2>2. /\ d \in Jobs /\ OnThread(d) /\ ran' = [ran EXCEPT ![d] = 1] /\ waitingRoom' = waitingRoom
        /\ \A i \in Jobs : /\ InRoom(i)' <=> InRoom(i)
                           /\ OnThread(i)' <=> OnThread(i) /\ i # d
    BY <1>3, <2>1, JobDonePool DEF IoInv
  <2>3. order' = order /\ ran \in [Jobs -> Nat]
    BY <1>3 DEF clientVars, IoInv, IoTypeOK, PoolTypeOK
  <2>4. SUFFICES ASSUME NEW i \in Jobs, NEW j \in Jobs, Before(i, j), Priority[i] = Priority[j],
                        ran'[j] > 0, ~(ran'[i] > 0)
                 PROVE  FALSE
    BY <2>3 DEF OneByOne, Before
  <2>5. i # d /\ ran'[i] = ran[i] /\ j = d
    BY <2>2, <2>3, <2>4 DEF OneByOne
  <2>6. Entered(i)
    BY <2>4 DEF Before, Entered
  <2>7. ~OnThread(i)
    BY <1>1, <1>3, <2>1, <2>5 DEF OnThread
  <2>8. InRoom(i)
    BY <2>4, <2>5, <2>6, <2>7 DEF IoInv, EnteredInv
  <2>9. InRoom(j)
    BY <2>4, <2>8 DEF IoInv, FifoInv
  <2> QED BY <2>2, <2>5, <2>9 DEF IoInv, PoolInv, UniqueInv
<1>4. ASSUME NEW a \in Adders, AddTask(a) PROVE OneByOne'
  <2>1. /\ ran' = ran /\ order' = Append(order, Work[a][next[a]]) /\ order \in Seq(Jobs)
        /\ next[a] \in DOMAIN Work[a] /\ ~enqueued[a] /\ next[a] \in Nat
    BY <1>4 DEF AddTask, Enqueue, IoInv, IoTypeOK
  <2>2. PICK new \in Jobs : new = Work[a][next[a]]
    <3>1. Work[a] \in Seq(Jobs)
      BY IoServiceAssumption
    <3> QED BY <2>1, <3>1
  <2>3. ~Entered(new)
    <3>1. ~AddedBy(a, next[a])
      BY <2>1 DEF AddedBy
    <3> QED BY <2>1, <2>2, <3>1 DEF IoInv, EnteredInv
  <2>4. ran[new] = 0
    BY <2>3 DEF IoInv, EnteredInv, IoTypeOK, PoolTypeOK
  <2>5. ASSUME NEW i \in Jobs, NEW j \in Jobs, Before(i, j)', j # new PROVE Before(i, j)
    <3>1. /\ DOMAIN order' = 1 .. Len(order) + 1 /\ DOMAIN order = 1 .. Len(order)
          /\ Len(order) \in Nat
          /\ order'[Len(order) + 1] = new /\ \A k \in DOMAIN order : order'[k] = order[k]
      BY <2>1, <2>2
    <3>2. PICK h \in DOMAIN order', k \in DOMAIN order' : h < k /\ order'[h] = i /\ order'[k] = j
      BY <2>5 DEF Before
    <3>3. h \in DOMAIN order /\ k \in DOMAIN order
      BY <2>5, <3>1, <3>2
    <3> QED BY <3>1, <3>2, <3>3 DEF Before
  <2> QED BY <2>1, <2>4, <2>5 DEF OneByOne
<1>5. ASSUME NEW t \in Threads, PopFound(t), UNCHANGED clientVars
      PROVE  ran' = ran /\ order' = order
  BY <1>5 DEF PopFound, clientVars
<1> QED BY <1>2, <1>3, <1>4, <1>5, OutputSteps

\* On the one thread Application gives the service, entries are archived in the order they
\* were added.
THEOREM OrderIsKept == Cardinality(Threads) = 1 => (IoSpec => []InOrder)
<1> SUFFICES ASSUME Cardinality(Threads) = 1 PROVE IoSpec => []InOrder
  OBVIOUS
<1>1. IoInv /\ IoInv' /\ OneByOne /\ [IoNext]_ioVars => OneByOne'
  BY OneByOneNext
<1>2. IoInv /\ OneByOne => InOrder
  <2> SUFFICES ASSUME IoInv, OneByOne, NEW k \in DOMAIN order, NEW h \in 1 .. k - 1,
                      Priority[order[h]] = Priority[order[k]], ran[order[k]] > 0
               PROVE  ran[order[h]] > 0
    BY DEF InOrder
  <2>1. /\ h \in DOMAIN order /\ h < k /\ order[h] \in Jobs /\ order[k] \in Jobs
    BY DEF IoInv, IoTypeOK
  <2>2. Before(order[h], order[k])
    BY <2>1 DEF Before
  <2> QED BY <2>1, <2>2 DEF OneByOne
<1> QED BY <1>1, <1>2, OneByOneInit, IoInvariance, PTL DEF IoSpec

\* The pool is a queue for output, for any threads, priorities and adders: a thread takes
\* the first job of a priority, holds it alone and serves it once.
THEOREM RefinesOutput == IoSpec => ImplementsOutput
<1>1. IoInit => Output!Init
  BY DEF IoInit, PoolInit, Output!Init
<1>2. ASSUME IoInv, [IoNext]_ioVars PROVE [Output!Next]_(Output!queueVars)
  <2> DEFINE hold == [t \in Threads |-> {job[t]} \ {NoJob}]
             done == {j \in Jobs : ran[j] > 0}
  <2>1. PoolInv /\ PoolTypeOK
    BY <1>2 DEF IoInv, PoolInv
  <2>2. ASSUME NEW j \in Jobs
        PROVE  /\ Output!Waits(j) => InRoom(j)
               /\ (\E t \in Threads : j \in hold[t]) => OnThread(j)
    <3>1. Priority[j] \in Priorities
      BY QueueServiceAssumption
    <3> QED BY <3>1 DEF Output!Waits, InRoom, OnThread
  <2>3. ASSUME NEW a \in Adders, AddTask(a) PROVE Output!Next
    <3>1. /\ next[a] \in DOMAIN Work[a] /\ ~enqueued[a] /\ next[a] \in Nat
          /\ waitingRoom' = [waitingRoom EXCEPT ![Priority[Work[a][next[a]]]] =
                                Append(@, Work[a][next[a]])]
          /\ job' = job /\ ran' = ran
      BY <1>2, <2>3 DEF AddTask, Enqueue, threadVars, IoInv, IoTypeOK
    <3>2. PICK new \in Jobs : new = Work[a][next[a]]
      <4>1. Work[a] \in Seq(Jobs)
        BY IoServiceAssumption
      <4> QED BY <3>1, <4>1
    <3>3. ~Entered(new)
      <4>1. ~AddedBy(a, next[a])
        BY <3>1 DEF AddedBy
      <4> QED BY <1>2, <3>1, <3>2, <4>1 DEF IoInv, EnteredInv
    <3>4. ~InRoom(new) /\ ~OnThread(new) /\ ~(ran[new] > 0)
      BY <1>2, <3>3 DEF IoInv, EnteredInv
    <3>5. Output!Unknown(new)
      BY <2>2, <3>4 DEF Output!Unknown
    <3>6. Output!Add(new)
      BY <3>1, <3>2, <3>5 DEF Output!Add
    <3> QED BY <3>6 DEF Output!Next
  <2>4. ASSUME NEW t \in Threads, PopFound(t) PROVE Output!Next
    <3>1. PICK p \in Priorities : p = level[t]
      BY <2>1 DEF PoolTypeOK
    <3>2. PICK j \in Jobs : j = Head(waitingRoom[p])
      BY <2>1, <2>4, <3>1 DEF PopFound, PoolTypeOK
    <3>3. job[t] = NoJob /\ job' = [job EXCEPT ![t] = j] /\ job \in [Threads -> Jobs \cup {NoJob}]
      BY <2>1, <2>4, <3>1, <3>2 DEF PopFound, PoolInv, HoldsInv, Running, PoolTypeOK
    <3>4. hold[t] = {} /\ {j} \ {NoJob} = {j}
      BY <3>3, QueueServiceAssumption
    <3>5. hold' = [hold EXCEPT ![t] = {j}]
      BY <3>3, <3>4
    <3>6. Output!Take(t, p)
      BY <2>4, <3>1, <3>2, <3>4, <3>5 DEF PopFound, Output!Take, Output!Leaves
    <3> QED BY <3>6 DEF Output!Next
  <2>5. ASSUME NEW t \in Threads, JobDone(t) PROVE Output!Next
    <3>1. /\ job[t] \in Jobs /\ ran' = [ran EXCEPT ![job[t]] = @ + 1] /\ ran \in [Jobs -> Nat]
          /\ job' = [job EXCEPT ![t] = NoJob] /\ job \in [Threads -> Jobs \cup {NoJob}]
          /\ waitingRoom' = waitingRoom
      BY <2>1, <2>5 DEF JobDone, PoolInv, HoldsInv, PoolTypeOK
    <3>2. hold[t] = {job[t]} /\ hold' = [hold EXCEPT ![t] = {}]
      BY <3>1, QueueServiceAssumption
    <3>3. done' = done \cup {job[t]}
      BY <3>1
    <3>4. Output!Finish(t)
      BY <3>1, <3>2, <3>3 DEF Output!Finish
    <3> QED BY <3>4 DEF Output!Next
  <2>6. CASE UNCHANGED <<waitingRoom, job, ran, order>>
    BY <2>6 DEF Output!queueVars
  <2> QED BY <1>2, <2>3, <2>4, <2>5, <2>6, OutputSteps
<1> QED BY <1>1, <1>2, IoInvariance, PTL DEF IoSpec, ImplementsOutput, Output!Spec
=============================================================================
