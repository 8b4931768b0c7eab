---------------------------- MODULE ResultWriter ----------------------------
(***************************************************************************)
(* ZipWriter: the years, running in the threads of the simulation, append  *)
(* entries; a thread of ioQueueService writes them into the archive; the   *)
(* main thread waits for them after each set of years (flush) and closes   *)
(* the archive when the writer is destroyed (finalize); so does the        *)
(* handler of SIGTERM and SIGINT, which interrupts the main thread.        *)
(*                                                                         *)
(* The queue is the one IoService describes, kept to its order here: one   *)
(* thread takes the entries in the order they were added.                  *)
(***************************************************************************)
EXTENDS Naturals, Sequences, FiniteSets, SequencesExt

CONSTANTS
    Entries,
    Clients,      \* the threads that append entries
    Work,         \* for each set of years, the entries each client appends; the
                  \* last ones are appended after the loop over the sets
    MayFail,      \* writing an entry may fail
    MaySignal     \* a signal may come

ASSUME ResultWriterAssumption ==
    /\ Work \in Seq([Clients -> Seq(Entries)])
    /\ Work # <<>>
    /\ \A i, h \in DOMAIN Work : \A a, b \in Clients :
          \A k \in DOMAIN Work[i][a], l \in DOMAIN Work[h][b] :
              Work[i][a][k] = Work[h][b][l] => i = h /\ a = b /\ k = l
    /\ {MayFail, MaySignal} \subseteq BOOLEAN

Callers == {"main", "signal"}     \* the threads that flush and finalize

VARIABLES
    set,           \* the set of years that runs
    next,          \* the next entry of each client
    adding,        \* where the client is in addEntryFromBuffer
    queue,         \* the jobs of ioQueueService
    entry,         \* how far each entry is
    pendingTasks,  \* the futures not yet joined
    state,         \* pState
    handle,        \* pZipHandle, which the jobs have a copy of
    at,            \* where each caller is in flush or finalize
    finalizing,    \* the caller is in finalize, not in a mere flush
    toBeJoined,    \* the futures its FutureSet::join still has to get
    appended       \* the entries appended when it began to flush

clientVars == <<set, next, adding>>
callerVars == <<at, finalizing, toBeJoined, appended>>
vars == <<clientVars, queue, entry, pendingTasks, state, handle, callerVars>>

ToAppend(c) == Work[set][c]
Over(e) == entry[e] \in {"written", "failed", "ignored"}

\* The handler runs on the main thread, which goes no further.
MainRuns == at["signal"] = "idle"

\* The process is alive until the handler exits or the writer is destroyed.
Alive == at["signal"] # "done"

-----------------------------------------------------------------------------
(* addEntryFromBufferHelper. *)

\* Once finalize has been called, new entries are ignored.
Admit(c) ==
    /\ Alive
    /\ adding[c] = "no"
    /\ next[c] \in DOMAIN ToAppend(c)
    /\ at["main"] = "idle"
    /\ IF state = "can_receive_data"
       THEN adding' = [adding EXCEPT ![c] = "admitted"] /\ UNCHANGED <<next, entry>>
       ELSE /\ next' = [next EXCEPT ![c] = @ + 1]
            /\ entry' = [entry EXCEPT ![ToAppend(c)[next[c]]] = "ignored"]
            /\ UNCHANGED adding
    /\ UNCHANGED <<set, queue, pendingTasks, state, handle, callerVars>>

\* Concurrency::AddTask.
AddTask(c) ==
    /\ Alive
    /\ adding[c] = "admitted"
    /\ queue' = Append(queue, ToAppend(c)[next[c]])
    /\ entry' = [entry EXCEPT ![ToAppend(c)[next[c]]] = "queued"]
    /\ adding' = [adding EXCEPT ![c] = "added"]
    /\ UNCHANGED <<set, next, pendingTasks, state, handle, callerVars>>

\* Wrong: the future is not kept.
AddFutureDropped(c) ==
    /\ Alive
    /\ adding[c] = "added"
    /\ next' = [next EXCEPT ![c] = @ + 1]
    /\ adding' = [adding EXCEPT ![c] = "no"]
    /\ UNCHANGED <<set, queue, entry, pendingTasks, state, handle, callerVars>>

\* FutureSet::add.
AddFuture(c) ==
    /\ Alive
    /\ adding[c] = "added"
    /\ pendingTasks' = Append(pendingTasks, ToAppend(c)[next[c]])
    /\ next' = [next EXCEPT ![c] = @ + 1]
    /\ adding' = [adding EXCEPT ![c] = "no"]
    /\ UNCHANGED <<set, queue, entry, state, handle, callerVars>>

Client(c) == Admit(c) \/ AddTask(c) \/ AddFuture(c)

-----------------------------------------------------------------------------
(* ZipWriteJob::writeEntry, on the only thread of ioQueueService. *)

Busy == \E e \in Entries : entry[e] = "allowed"

\* Wrong: the last entry is taken first.
CheckStateLast ==
    /\ Alive /\ ~Busy /\ queue # <<>>
    /\ queue' = Front(queue)
    /\ entry' = [entry EXCEPT ![Last(queue)] =
                    IF state = "can_receive_data" THEN "allowed" ELSE "ignored"]
    /\ UNCHANGED <<clientVars, pendingTasks, state, handle, callerVars>>

\* The state is looked at before the mutex is taken.
CheckState ==
    /\ Alive /\ ~Busy /\ queue # <<>>
    /\ queue' = Tail(queue)
    /\ entry' = [entry EXCEPT ![Head(queue)] =
                    IF state = "can_receive_data" THEN "allowed" ELSE "ignored"]
    /\ UNCHANGED <<clientVars, pendingTasks, state, handle, callerVars>>

\* With the mutex held, the entry is opened and written, or an error is thrown.
WriteEntry ==
    /\ Alive
    /\ \E e \in Entries :
          /\ entry[e] = "allowed"
          /\ \E how \in {"written"} \cup (IF MayFail THEN {"failed"} ELSE {}) :
                entry' = [entry EXCEPT ![e] = how]
    /\ UNCHANGED <<clientVars, queue, pendingTasks, state, handle, callerVars>>

-----------------------------------------------------------------------------
(* flush and finalize, by the main thread or by the handler. *)

\* FutureSet::join takes the futures away and joins them one by one.
BeginJoin(f, final) ==
    /\ at' = [at EXCEPT ![f] = "joining"]
    /\ finalizing' = [finalizing EXCEPT ![f] = final]
    /\ toBeJoined' = [toBeJoined EXCEPT ![f] = pendingTasks]
    /\ appended' = [appended EXCEPT ![f] = {e \in Entries : entry[e] # "new"}]
    /\ pendingTasks' = <<>>
    /\ UNCHANGED <<clientVars, queue, entry, state, handle>>

SetOver == \A c \in Clients : next[c] = Len(ToAppend(c)) + 1

\* When all the years of a set have ended.
Flush ==
    /\ MainRuns
    /\ at["main"] = "idle"
    /\ SetOver
    /\ set < Len(Work)
    /\ BeginJoin("main", FALSE)

\* ~ZipWriter, at the end or because an error stopped the simulation.
Destroy ==
    /\ MainRuns
    /\ \/ at["main"] = "idle" /\ SetOver /\ set = Len(Work)
       \/ at["main"] = "thrown" /\ ~finalizing["main"]
    /\ BeginJoin("main", TRUE)

\* The handler, in the middle of anything the main thread does.
Signal ==
    /\ MaySignal
    /\ at["signal"] = "idle"
    /\ at["main"] # "done"
    /\ BeginJoin("signal", TRUE)

CanStep(f) == f = "signal" \/ MainRuns

\* Wrong: the entry is not waited for.
GetWithoutWaiting(f) ==
    /\ CanStep(f)
    /\ at[f] = "joining"
    /\ toBeJoined[f] # <<>>
    /\ toBeJoined' = [toBeJoined EXCEPT ![f] = Tail(@)]
    /\ UNCHANGED <<clientVars, queue, entry, pendingTasks, state, handle, at,
                   finalizing, appended>>

\* future.get() returns, or throws what the job threw: join ends there.
Get(f) ==
    /\ CanStep(f)
    /\ at[f] = "joining"
    /\ toBeJoined[f] # <<>>
    /\ Over(Head(toBeJoined[f]))
    /\ IF entry[Head(toBeJoined[f])] = "failed"
       THEN at' = [at EXCEPT ![f] = "thrown"] /\ toBeJoined' = [toBeJoined EXCEPT ![f] = <<>>]
       ELSE toBeJoined' = [toBeJoined EXCEPT ![f] = Tail(@)] /\ UNCHANGED at
    /\ UNCHANGED <<clientVars, queue, entry, pendingTasks, state, handle,
                   finalizing, appended>>

Joined(f) ==
    /\ CanStep(f)
    /\ at[f] = "joining"
    /\ toBeJoined[f] = <<>>
    /\ at' = [at EXCEPT ![f] = IF finalizing[f] THEN "block" ELSE "flushed"]
    /\ UNCHANGED <<clientVars, queue, entry, pendingTasks, state, handle,
                   finalizing, toBeJoined, appended>>

\* The simulation goes on after a flush: the next set of years.
NextSet ==
    /\ MainRuns
    /\ at["main"] = "flushed"
    /\ at' = [at EXCEPT !["main"] = "idle"]
    /\ set' = set + 1
    /\ next' = [c \in Clients |-> 1]
    /\ UNCHANGED <<adding, queue, entry, pendingTasks, state, handle,
                   finalizing, toBeJoined, appended>>

\* pState = blocking.
Block(f) ==
    /\ CanStep(f)
    /\ at[f] = "block"
    /\ state' = "blocking"
    /\ at' = [at EXCEPT ![f] = "close"]
    /\ UNCHANGED <<clientVars, queue, entry, pendingTasks, handle, finalizing,
                   toBeJoined, appended>>

\* With the mutex held the archive is closed and its handle deleted.
Close(f) ==
    /\ CanStep(f)
    /\ at[f] = "close"
    /\ handle' = "closed"
    /\ at' = [at EXCEPT ![f] = "done"]
    /\ UNCHANGED <<clientVars, queue, entry, pendingTasks, state, finalizing,
                   toBeJoined, appended>>

Caller(f) == Get(f) \/ Joined(f) \/ Block(f) \/ Close(f)

-----------------------------------------------------------------------------
Init ==
    /\ set = 1
    /\ next = [c \in Clients |-> 1]
    /\ adding = [c \in Clients |-> "no"]
    /\ queue = <<>>
    /\ entry = [e \in Entries |-> "new"]
    /\ pendingTasks = <<>>
    /\ state = "can_receive_data"
    /\ handle = "open"
    /\ at = [f \in Callers |-> "idle"]
    /\ finalizing = [f \in Callers |-> FALSE]
    /\ toBeJoined = [f \in Callers |-> <<>>]
    /\ appended = [f \in Callers |-> {}]

IoThread == CheckState \/ WriteEntry

MainStep == Flush \/ Destroy \/ NextSet \/ Caller("main")

Next ==
    \/ \E c \in Clients : Client(c)
    \/ IoThread
    \/ MainStep
    \/ Signal
    \/ Caller("signal")

Spec == Init /\ [][Next]_vars

\* Every thread is scheduled fairly.
FairSpec ==
    /\ Spec
    /\ \A c \in Clients : WF_vars(Client(c))
    /\ WF_vars(IoThread)
    /\ WF_vars(MainStep)

-----------------------------------------------------------------------------
(* Properties *)

\* The type of every variable.
TypeOK ==
    /\ set \in DOMAIN Work
    /\ next \in [Clients -> Nat]
    /\ adding \in [Clients -> {"no", "admitted", "added"}]
    /\ queue \in Seq(Entries)
    /\ entry \in [Entries -> {"new", "queued", "allowed", "written", "failed", "ignored"}]
    /\ pendingTasks \in Seq(Entries)
    /\ state \in {"can_receive_data", "blocking"}
    /\ handle \in {"open", "closed"}
    /\ at \in [Callers -> {"idle", "joining", "flushed", "thrown", "block", "close", "done"}]
    /\ finalizing \in [Callers -> BOOLEAN]
    /\ toBeJoined \in [Callers -> Seq(Entries)]
    /\ appended \in [Callers -> SUBSET Entries]

\* No entry has failed and no signal has come.
Untroubled == at["signal"] = "idle" /\ \A e \in Entries : entry[e] # "failed"

FlushEnded(f) == at[f] \in {"flushed", "thrown", "block", "close", "done"}

\* flush "waits for completion of every write operation previously appended":
\* when it ends, no such entry is still queued or being written.  It does not
\* once an entry has failed, nor in a handler that interrupts another flush; but an
\* error is never lost: a flush that ends without throwing joined no entry that failed.
FlushWaits ==
    /\ Untroubled => \A f \in Callers : FlushEnded(f) => \A e \in appended[f] : Over(e)
    /\ at["main"] = "flushed" => \A e \in appended["main"] : entry[e] # "failed"

\* Jobs keep a copy of the handle: no job may be about to use it once it is
\* deleted, and "don't write data if finalize() has been called".
NoWriteAfterClose == handle = "closed" => ~Busy

\* It is so as long as nothing goes wrong.
NoWriteAfterCloseUntroubled == Untroubled => NoWriteAfterClose

\* The archive is whole: without failure nor signal every entry is written and
\* the archive is closed.
AllArchived ==
    <>[](Untroubled => handle = "closed" /\ \A e \in Entries : entry[e] = "written")

\* The entries of one client reach the archive in the order it appended them,
\* and those of a set before those of the next ones.
ArchiveInOrder ==
    \A i, h \in DOMAIN Work : \A a, b \in Clients :
        \A k \in DOMAIN Work[i][a], l \in DOMAIN Work[h][b] :
            /\ i < h \/ (i = h /\ a = b /\ k < l)
            /\ entry[Work[h][b][l]] \in {"allowed", "written", "failed"}
            => Over(Work[i][a][k])

\* The queue of the writer is one IoService implements: no entry is written twice or
\* overtakes another, whatever the years, the failures and the handler do.  ZipWriteJob
\* is added with priorityLow (3); an entry that comes once finalize has been called is
\* refused, one whose turn comes then is skipped.
Output == INSTANCE OutputQueue WITH
    Items <- Entries,
    Classes <- {3},
    ClassOf <- [e \in Entries |-> 3],
    Hands <- {"io"},
    waiting <- [c \in {3} |-> queue],
    held <- [h \in {"io"} |-> {e \in Entries : entry[e] = "allowed"}],
    over <- {e \in Entries : Over(e)}
ImplementsOutput == Output!Spec
=============================================================================
