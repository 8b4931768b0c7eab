------------------------- MODULE ResultWriterProofs -------------------------
(***************************************************************************)
(* What ResultWriter promises, for any number of sets of years, of clients *)
(* and of entries, with failures and signals.                              *)
(*                                                                         *)
(* The argument: an entry is past "new" exactly when its client has gone   *)
(* past it (Started); the queue holds the queued entries, those of one     *)
(* client in their order (QueueHolds, QueueOrder); and the main thread,    *)
(* once it has begun to join, finds every client at its end, so that what  *)
(* it joins is all that was ever appended (Stopped, Joins).                *)
(***************************************************************************)
EXTENDS ResultWriter, SequenceTheorems, TLAPS

\* The client b has gone past the entry l of the set h.
Passed(h, b, l) ==
    \/ h < set
    \/ h = set /\ (l < next[b] \/ (l = next[b] /\ adding[b] = "added"))

Finished(e) == entry[e] \in {"written", "ignored"}
Holds(q, e) == \E p \in DOMAIN q : q[p] = e
NoFailure == \A e \in Entries : entry[e] # "failed"

-----------------------------------------------------------------------------
(* The inductive invariant. *)

AddingInRange == \A c \in Clients : adding[c] # "no" => next[c] \in DOMAIN ToAppend(c)

Started ==
    \A h \in DOMAIN Work, b \in Clients : \A l \in DOMAIN Work[h][b] :
        entry[Work[h][b][l]] # "new" <=> Passed(h, b, l)

QueueHolds ==
    /\ \A p \in DOMAIN queue : entry[queue[p]] = "queued"
    /\ \A p, q \in DOMAIN queue : queue[p] = queue[q] => p = q
    /\ \A e \in Entries : entry[e] = "queued" => Holds(queue, e)

\* No entry of a client is behind a later one of the same client.
QueueOrder ==
    \A h \in DOMAIN Work, b \in Clients : \A k, l \in DOMAIN Work[h][b] :
        k < l => \A p, q \in DOMAIN queue :
                    queue[p] = Work[h][b][l] /\ queue[q] = Work[h][b][k] => q < p

\* ioQueueService has one thread.
OneWritten == \A d, e \in Entries : entry[d] = "allowed" /\ entry[e] = "allowed" => d = e

PastSetsOver ==
    \A h \in DOMAIN Work, b \in Clients : \A l \in DOMAIN Work[h][b] :
        h < set => Over(Work[h][b][l])

ClientInOrder ==
    \A h \in DOMAIN Work, b \in Clients : \A k, l \in DOMAIN Work[h][b] :
        k < l /\ entry[Work[h][b][l]] \in {"allowed", "written", "failed"}
            => Over(Work[h][b][k])

\* Once the main thread flushes or finalizes, no client has anything to append.
Stopped ==
    at["main"] # "idle" =>
        /\ SetOver
        /\ \A e \in Entries : e \in appended["main"] <=> entry[e] # "new"

SetsLeft ==
    /\ at["main"] = "flushed" => ~finalizing["main"]
    /\ at["main"] # "idle" /\ ~finalizing["main"] => set < Len(Work)

\* As long as no signal has come, what has been appended is finished, or a
\* future of it is kept, or its client is about to add the future.
Pending ==
    MainRuns /\ at["main"] = "idle" =>
        \A e \in Entries :
            \/ entry[e] = "new"
            \/ Finished(e)
            \/ Holds(pendingTasks, e)
            \/ \E c \in Clients : adding[c] = "added" /\ e = ToAppend(c)[next[c]]

\* What a flush, or a finalize without failure, still has to join.
Joins ==
    MainRuns /\ at["main"] = "joining" /\ (~finalizing["main"] \/ NoFailure) =>
        \A e \in appended["main"] : Finished(e) \/ Holds(toBeJoined["main"], e)

Ends ==
    /\ at["main"] = "flushed" => \A e \in appended["main"] : Finished(e)
    /\ Untroubled /\ at["main"] \in {"block", "close", "done"} =>
          \A e \in appended["main"] : Finished(e)
    /\ at["main"] = "thrown" => ~NoFailure
    /\ handle = "closed" /\ at["signal"] = "idle" => at["main"] = "done"

EntriesInv ==
    /\ AddingInRange /\ Started
    /\ QueueHolds /\ QueueOrder /\ OneWritten
    /\ PastSetsOver /\ ClientInOrder

CallersInv == Stopped /\ SetsLeft /\ Pending /\ Joins /\ Ends

IInv == TypeOK /\ EntriesInv /\ CallersInv

-----------------------------------------------------------------------------
(* The entries each client appends. *)

LEMMA WorkFacts ==
    /\ \A h \in DOMAIN Work, b \in Clients :
          /\ Work[h][b] \in Seq(Entries)
          /\ DOMAIN Work[h][b] = 1 .. Len(Work[h][b])
          /\ \A l \in DOMAIN Work[h][b] : l \in Nat /\ Work[h][b][l] \in Entries
    /\ DOMAIN Work = 1 .. Len(Work)
    /\ Len(Work) \in Nat
    /\ 1 \in DOMAIN Work
PROOF
<1>1. Work \in Seq([Clients -> Seq(Entries)]) /\ Work # <<>>
    BY ResultWriterAssumption
<1>2. DOMAIN Work = 1 .. Len(Work) /\ Len(Work) \in Nat
    BY <1>1
<1>3. 1 \in DOMAIN Work
    BY <1>1, <1>2, EmptySeq, LenProperties
<1>4. ASSUME NEW h \in DOMAIN Work, NEW b \in Clients
      PROVE  Work[h][b] \in Seq(Entries)
    <2>1. Work[h] \in [Clients -> Seq(Entries)]
        BY <1>1, ElementOfSeq
    <2> QED  BY <2>1
<1>5. ASSUME NEW h \in DOMAIN Work, NEW b \in Clients
      PROVE  /\ DOMAIN Work[h][b] = 1 .. Len(Work[h][b])
             /\ \A l \in DOMAIN Work[h][b] : l \in Nat /\ Work[h][b][l] \in Entries
    <2> DEFINE w == Work[h][b]
    <2>1. w \in Seq(Entries)
        BY <1>4
    <2> HIDE DEF w
    <2>2. /\ DOMAIN w = 1 .. Len(w)
          /\ \A l \in DOMAIN w : l \in Nat /\ w[l] \in Entries
        BY <2>1, LenProperties, ElementOfSeq
    <2> QED  BY <2>2 DEF w
<1> QED  BY <1>2, <1>3, <1>4, <1>5

LEMMA WorkDistinct ==
    ASSUME NEW i \in DOMAIN Work, NEW h \in DOMAIN Work, NEW a \in Clients, NEW b \in Clients,
           NEW k \in DOMAIN Work[i][a], NEW l \in DOMAIN Work[h][b],
           Work[i][a][k] = Work[h][b][l]
    PROVE  i = h /\ a = b /\ k = l
PROOF
    BY ResultWriterAssumption

-----------------------------------------------------------------------------
(* Queues. *)

LEMMA HoldsAppend ==
    ASSUME NEW q \in Seq(Entries), NEW e \in Entries, NEW d \in Entries
    PROVE  Holds(Append(q, d), e) <=> Holds(q, e) \/ e = d
PROOF
<1>1. /\ DOMAIN q = 1 .. Len(q) /\ Len(q) \in Nat
      /\ DOMAIN Append(q, d) = 1 .. (Len(q) + 1)
      /\ \A p \in 1 .. Len(q) : Append(q, d)[p] = q[p]
      /\ Append(q, d)[Len(q) + 1] = d
    BY AppendProperties, LenProperties
<1> QED  BY <1>1 DEF Holds

LEMMA HoldsTail ==
    ASSUME NEW q \in Seq(Entries), q # <<>>, NEW e \in Entries
    PROVE  Holds(q, e) => e = Head(q) \/ Holds(Tail(q), e)
PROOF
<1>1. /\ DOMAIN q = 1 .. Len(q) /\ Len(q) \in Nat /\ Len(q) # 0
      /\ Head(q) = q[1]
      /\ DOMAIN Tail(q) = 1 .. (Len(q) - 1)
      /\ \A p \in 1 .. (Len(q) - 1) : Tail(q)[p] = q[p + 1]
    BY HeadTailProperties, LenProperties, EmptySeq
<1>2. ASSUME NEW p \in DOMAIN q, q[p] = e, p # 1
      PROVE  p - 1 \in DOMAIN Tail(q) /\ Tail(q)[p - 1] = e
    BY <1>1, <1>2
<1> QED  BY <1>1, <1>2 DEF Holds

LEMMA HoldsNothing ==
    ASSUME NEW e
    PROVE  ~Holds(<<>>, e)
PROOF
    BY DEF Holds

-----------------------------------------------------------------------------
(* Types. *)

THEOREM InitIsTyped == Init => TypeOK
PROOF
    BY WorkFacts, EmptySeq DEF Init, TypeOK, Callers

LEMMA ClientIsTyped ==
    ASSUME TypeOK, AddingInRange, NEW c \in Clients, Client(c)
    PROVE  TypeOK'
PROOF
<1> DEFINE e == ToAppend(c)[next[c]]
<1>1. ASSUME next[c] \in DOMAIN ToAppend(c)
      PROVE  e \in Entries
    BY <1>1, WorkFacts DEF TypeOK, ToAppend
<1>2. next[c] + 1 \in Nat
    BY DEF TypeOK
<1> HIDE DEF e
<1>3. CASE Admit(c)
    BY <1>3, <1>1, <1>2 DEF Admit, TypeOK, callerVars, e
<1>4. CASE AddTask(c)
    <2>1. e \in Entries
        BY <1>4, <1>1 DEF AddTask, AddingInRange
    <2>2. Append(queue, e) \in Seq(Entries)
        BY <2>1, AppendProperties DEF TypeOK
    <2> QED  BY <1>4, <2>1, <2>2 DEF AddTask, TypeOK, callerVars, e
<1>5. CASE AddFuture(c)
    <2>1. e \in Entries
        BY <1>5, <1>1 DEF AddFuture, AddingInRange
    <2>2. Append(pendingTasks, e) \in Seq(Entries)
        BY <2>1, AppendProperties DEF TypeOK
    <2> QED  BY <1>5, <1>2, <2>1, <2>2 DEF AddFuture, TypeOK, callerVars, e
<1> QED  BY <1>3, <1>4, <1>5 DEF Client

LEMMA IoThreadIsTyped ==
    ASSUME TypeOK, IoThread
    PROVE  TypeOK'
PROOF
<1>1. CASE CheckState
    <2>1. Head(queue) \in Entries /\ Tail(queue) \in Seq(Entries)
        BY <1>1, HeadTailProperties DEF CheckState, TypeOK
    <2> QED  BY <1>1, <2>1 DEF CheckState, TypeOK, clientVars, callerVars
<1>2. CASE WriteEntry
    BY <1>2 DEF WriteEntry, TypeOK, clientVars, callerVars
<1> QED  BY <1>1, <1>2 DEF IoThread

LEMMA BeginJoinIsTyped ==
    ASSUME TypeOK, NEW f \in Callers, NEW final \in BOOLEAN, BeginJoin(f, final)
    PROVE  TypeOK'
PROOF
<1>1. {e \in Entries : entry[e] # "new"} \in SUBSET Entries /\ <<>> \in Seq(Entries)
    BY EmptySeq
<1> QED  BY <1>1 DEF BeginJoin, TypeOK, clientVars

LEMMA CallerIsTyped ==
    ASSUME TypeOK, NEW f \in Callers, Caller(f)
    PROVE  TypeOK'
PROOF
<1>1. CASE Get(f)
    <2>1. <<>> \in Seq(Entries) /\ Tail(toBeJoined[f]) \in Seq(Entries)
        BY <1>1, EmptySeq, HeadTailProperties DEF Get, TypeOK
    <2> QED  BY <1>1, <2>1 DEF Get, TypeOK, clientVars
<1>2. CASE Joined(f)
    BY <1>2 DEF Joined, TypeOK, clientVars
<1>3. CASE Block(f)
    BY <1>3 DEF Block, TypeOK, clientVars
<1>4. CASE Close(f)
    BY <1>4 DEF Close, TypeOK, clientVars
<1> QED  BY <1>1, <1>2, <1>3, <1>4 DEF Caller

LEMMA NextSetIsTyped ==
    ASSUME TypeOK, SetsLeft, NextSet
    PROVE  TypeOK'
PROOF
<1>1. set + 1 \in DOMAIN Work
    <2>1. set < Len(Work)
        BY DEF NextSet, SetsLeft
    <2> QED  BY <2>1, WorkFacts DEF TypeOK
<1> QED  BY <1>1 DEF NextSet, TypeOK, Callers

LEMMA CallersAre == "main" \in Callers /\ "signal" \in Callers
PROOF
    BY DEF Callers

LEMMA StepIsTyped ==
    ASSUME TypeOK, AddingInRange, SetsLeft, [Next]_vars
    PROVE  TypeOK'
PROOF
<1>1. CASE Next
    <2>1. ASSUME NEW f \in Callers, NEW final \in BOOLEAN, BeginJoin(f, final)
          PROVE  TypeOK'
        BY <2>1, BeginJoinIsTyped
    <2>2. CASE Flush \/ Destroy \/ Signal
        BY <2>1, <2>2, CallersAre DEF Flush, Destroy, Signal
    <2> QED  BY <1>1, <2>2, ClientIsTyped, IoThreadIsTyped, NextSetIsTyped, CallerIsTyped, CallersAre
             DEF Next, MainStep
<1>2. CASE UNCHANGED vars
    BY <1>2 DEF vars, clientVars, callerVars, TypeOK
<1> QED  BY <1>1, <1>2

-----------------------------------------------------------------------------
(* The entries and the queue. *)

THEOREM InitEntries == Init => EntriesInv
PROOF
<1> SUFFICES ASSUME Init PROVE EntriesInv
    OBVIOUS
<1>1. AddingInRange /\ QueueHolds /\ QueueOrder /\ OneWritten
    BY DEF Init, AddingInRange, QueueHolds, QueueOrder, OneWritten
<1>2. ASSUME NEW h \in DOMAIN Work, NEW b \in Clients, NEW l \in DOMAIN Work[h][b]
      PROVE  /\ entry[Work[h][b][l]] = "new"
             /\ ~Passed(h, b, l) /\ ~(h < set)
    <2>1. h >= 1 /\ h \in Nat /\ l >= 1 /\ l \in Nat /\ Work[h][b][l] \in Entries
        BY WorkFacts
    <2> QED  BY <2>1 DEF Init, Passed
<1> QED  BY <1>1, <1>2 DEF EntriesInv, Started, PastSetsOver, ClientInOrder

\* A client moves its next entry, which was new, on.
LEMMA NextEntryTaken ==
    ASSUME TypeOK, EntriesInv, NEW c \in Clients, next[c] \in DOMAIN ToAppend(c),
           adding[c] # "added", NEW s \in {"queued", "ignored"},
           entry' = [entry EXCEPT ![ToAppend(c)[next[c]]] = s],
           set' = set,
           \A h \in DOMAIN Work, b \in Clients : \A l \in DOMAIN Work[h][b] :
               Passed(h, b, l)' <=> Passed(h, b, l) \/ (h = set /\ b = c /\ l = next[c])
    PROVE  /\ entry[ToAppend(c)[next[c]]] = "new"
           /\ Started' /\ OneWritten' /\ PastSetsOver' /\ ClientInOrder'
PROOF
<1> DEFINE e == ToAppend(c)[next[c]]
<1>1. /\ set \in DOMAIN Work /\ next[c] \in DOMAIN Work[set][c]
      /\ e = Work[set][c][next[c]] /\ e \in Entries
      /\ set \in Nat /\ next[c] \in Nat
    BY WorkFacts DEF TypeOK, ToAppend
<1>2. ~Passed(set, c, next[c])
    BY <1>1 DEF Passed
<1>3. entry[e] = "new"
    BY <1>1, <1>2 DEF EntriesInv, Started
<1> HIDE DEF e
<1>4. \A d \in Entries : entry'[d] = IF d = e THEN s ELSE entry[d]
    BY <1>1 DEF TypeOK, e
<1>5. Started'
    <2> SUFFICES ASSUME NEW h \in DOMAIN Work, NEW b \in Clients, NEW l \in DOMAIN Work[h][b]
                 PROVE  entry'[Work[h][b][l]] # "new" <=> Passed(h, b, l)'
        BY DEF Started, Passed
    <2>1. Work[h][b][l] = e <=> h = set /\ b = c /\ l = next[c]
        BY <1>1, WorkDistinct
    <2>2. entry[Work[h][b][l]] # "new" <=> Passed(h, b, l)
        BY DEF EntriesInv, Started
    <2> QED  BY <1>1, <1>4, <2>1, <2>2, WorkFacts
<1>6. OneWritten'
    BY <1>4 DEF EntriesInv, OneWritten
<1>7. ASSUME NEW d \in Entries, Over(d)
      PROVE  Over(d)'
    BY <1>3, <1>4, <1>7 DEF Over
<1>8. PastSetsOver'
    BY <1>7, WorkFacts DEF EntriesInv, PastSetsOver
<1>9. ClientInOrder'
    <2>1. \A d \in Entries : entry'[d] \in {"allowed", "written", "failed"}
                              => entry[d] \in {"allowed", "written", "failed"}
        BY <1>4
    <2> QED  BY <1>7, <2>1, WorkFacts DEF EntriesInv, ClientInOrder
<1> QED  BY <1>3, <1>5, <1>6, <1>8, <1>9 DEF e

LEMMA AdmitKeepsEntries ==
    ASSUME TypeOK, EntriesInv, NEW c \in Clients, Admit(c)
    PROVE  EntriesInv'
PROOF
<1>1. next[c] \in DOMAIN ToAppend(c) /\ adding[c] = "no" /\ set' = set /\ queue' = queue
    BY DEF Admit
<1>2. /\ set \in Nat /\ next \in [Clients -> Nat]
      /\ adding \in [Clients -> {"no", "admitted", "added"}]
      /\ \A h \in DOMAIN Work, b \in Clients : \A l \in DOMAIN Work[h][b] : l \in Nat
    BY WorkFacts DEF TypeOK
<1>3. CASE state = "can_receive_data"
    <2>1. next' = next /\ entry' = entry /\ adding' = [adding EXCEPT ![c] = "admitted"]
        BY <1>3 DEF Admit
    <2>2. AddingInRange'
        BY <1>1, <1>2, <2>1 DEF EntriesInv, AddingInRange, ToAppend
    <2>3. \A b \in Clients : adding'[b] = "added" <=> adding[b] = "added"
        BY <1>1, <1>2, <2>1
    <2>4. Started'
        BY <1>1, <2>1, <2>3 DEF EntriesInv, Started, Passed
    <2> QED  BY <1>1, <2>1, <2>2, <2>4
             DEF EntriesInv, QueueHolds, Holds, QueueOrder, OneWritten, PastSetsOver, ClientInOrder, Over
<1>4. CASE state # "can_receive_data"
    <2> DEFINE e == ToAppend(c)[next[c]]
    <2>1. /\ next' = [next EXCEPT ![c] = @ + 1] /\ adding' = adding
          /\ entry' = [entry EXCEPT ![e] = "ignored"]
        BY <1>4 DEF Admit
    <2>2. AddingInRange'
        BY <1>1, <1>2, <2>1 DEF EntriesInv, AddingInRange, ToAppend
    <2>3. \A h \in DOMAIN Work, b \in Clients : \A l \in DOMAIN Work[h][b] :
             Passed(h, b, l)' <=> Passed(h, b, l) \/ (h = set /\ b = c /\ l = next[c])
        BY <1>1, <1>2, <2>1 DEF Passed
    <2>4. /\ entry[e] = "new"
          /\ Started' /\ OneWritten' /\ PastSetsOver' /\ ClientInOrder'
        BY <1>1, <2>1, <2>3, NextEntryTaken
    <2>5. QueueHolds'
        BY <1>1, <2>1, <2>4 DEF EntriesInv, QueueHolds, Holds, TypeOK
    <2>6. QueueOrder'
        BY <1>1 DEF EntriesInv, QueueOrder
    <2> QED  BY <2>2, <2>4, <2>5, <2>6 DEF EntriesInv
<1> QED  BY <1>3, <1>4

LEMMA AddTaskKeepsEntries ==
    ASSUME TypeOK, EntriesInv, NEW c \in Clients, AddTask(c)
    PROVE  EntriesInv'
PROOF
<1> DEFINE e == ToAppend(c)[next[c]]
<1>1. /\ adding[c] = "admitted" /\ set' = set /\ next' = next
      /\ adding' = [adding EXCEPT ![c] = "added"]
      /\ queue' = Append(queue, e)
      /\ entry' = [entry EXCEPT ![e] = "queued"]
      /\ next[c] \in DOMAIN ToAppend(c)
    BY DEF AddTask, EntriesInv, AddingInRange
<1>2. /\ set \in DOMAIN Work /\ next[c] \in DOMAIN Work[set][c]
      /\ e = Work[set][c][next[c]] /\ e \in Entries
      /\ set \in Nat /\ next \in [Clients -> Nat]
      /\ adding \in [Clients -> {"no", "admitted", "added"}]
      /\ \A h \in DOMAIN Work, b \in Clients : \A l \in DOMAIN Work[h][b] : l \in Nat
    BY <1>1, WorkFacts DEF TypeOK, ToAppend
<1>3. AddingInRange'
    BY <1>1, <1>2 DEF EntriesInv, AddingInRange, ToAppend
<1>4. \A h \in DOMAIN Work, b \in Clients : \A l \in DOMAIN Work[h][b] :
         Passed(h, b, l)' <=> Passed(h, b, l) \/ (h = set /\ b = c /\ l = next[c])
    BY <1>1, <1>2 DEF Passed
<1>5. /\ entry[e] = "new"
      /\ Started' /\ OneWritten' /\ PastSetsOver' /\ ClientInOrder'
    BY <1>1, <1>4, NextEntryTaken
<1> HIDE DEF e
<1>6. \A d \in Entries : entry'[d] = IF d = e THEN "queued" ELSE entry[d]
    BY <1>1, <1>2 DEF TypeOK
<1>7. /\ DOMAIN queue = 1 .. Len(queue) /\ Len(queue) \in Nat
      /\ DOMAIN queue' = 1 .. (Len(queue) + 1)
      /\ \A p \in DOMAIN queue : queue'[p] = queue[p] /\ queue[p] \in Entries
      /\ queue'[Len(queue) + 1] = e
    BY <1>1, <1>2, AppendProperties, LenProperties, ElementOfSeq DEF TypeOK
<1>8. \A p \in DOMAIN queue : entry[queue[p]] = "queued" /\ queue[p] # e
    BY <1>5 DEF EntriesInv, QueueHolds
<1>9. QueueHolds'
    <2>1. \A p \in DOMAIN queue' : entry'[queue'[p]] = "queued"
        BY <1>2, <1>6, <1>7, <1>8
    <2>2. \A p, q \in DOMAIN queue' : queue'[p] = queue'[q] => p = q
        BY <1>7, <1>8 DEF EntriesInv, QueueHolds
    <2>3. ASSUME NEW d \in Entries, entry'[d] = "queued"
          PROVE  Holds(queue, d)'
        <3>1. Holds(queue, d) \/ d = e
            BY <2>3, <1>6 DEF EntriesInv, QueueHolds
        <3> QED  BY <3>1, <1>7 DEF Holds
    <2> QED  BY <2>1, <2>2, <2>3 DEF QueueHolds
<1>10. QueueOrder'
    <2> SUFFICES ASSUME NEW h \in DOMAIN Work, NEW b \in Clients,
                        NEW k \in DOMAIN Work[h][b], NEW l \in DOMAIN Work[h][b], k < l,
                        NEW p \in DOMAIN queue', NEW q \in DOMAIN queue',
                        queue'[p] = Work[h][b][l], queue'[q] = Work[h][b][k]
                 PROVE  q < p
        BY DEF QueueOrder
    <2>1. CASE p \in DOMAIN queue /\ q \in DOMAIN queue
        BY <2>1, <1>7 DEF EntriesInv, QueueOrder
    <2>2. CASE p = Len(queue) + 1 /\ q \in DOMAIN queue
        BY <2>2, <1>7
    <2>3. CASE p \in DOMAIN queue /\ q = Len(queue) + 1
        <3>1. h = set /\ b = c /\ k = next[c]
            BY <2>3, <1>2, <1>7, WorkDistinct
        <3>2. ~Passed(h, b, l)
            BY <3>1, <1>1, <1>2 DEF Passed
        <3>3. entry[queue[p]] = "new"
            BY <3>2, <2>3, <1>7 DEF EntriesInv, Started
        <3> QED  BY <3>3, <2>3, <1>8
    <2>4. CASE p = Len(queue) + 1 /\ q = Len(queue) + 1
        BY <2>4, WorkDistinct, <1>2
    <2> QED  BY <1>7, <2>1, <2>2, <2>3, <2>4
<1> QED  BY <1>3, <1>5, <1>9, <1>10 DEF EntriesInv

LEMMA AddFutureKeepsEntries ==
    ASSUME TypeOK, EntriesInv, NEW c \in Clients, AddFuture(c)
    PROVE  EntriesInv'
PROOF
<1>1. /\ adding[c] = "added" /\ set' = set /\ queue' = queue /\ entry' = entry
      /\ next' = [next EXCEPT ![c] = @ + 1]
      /\ adding' = [adding EXCEPT ![c] = "no"]
    BY DEF AddFuture
<1>2. /\ set \in Nat /\ next \in [Clients -> Nat]
      /\ adding \in [Clients -> {"no", "admitted", "added"}]
      /\ \A h \in DOMAIN Work, b \in Clients : \A l \in DOMAIN Work[h][b] : l \in Nat
    BY WorkFacts DEF TypeOK
<1>3. AddingInRange'
    BY <1>1, <1>2 DEF EntriesInv, AddingInRange, ToAppend
<1>4. \A h \in DOMAIN Work, b \in Clients : \A l \in DOMAIN Work[h][b] :
         Passed(h, b, l)' <=> Passed(h, b, l)
    BY <1>1, <1>2 DEF Passed
<1>5. Started'
    BY <1>1, <1>4 DEF EntriesInv, Started, Passed
<1> QED  BY <1>1, <1>3, <1>5
         DEF EntriesInv, QueueHolds, Holds, QueueOrder, OneWritten, PastSetsOver, ClientInOrder, Over

LEMMA CheckStateKeepsEntries ==
    ASSUME TypeOK, EntriesInv, CheckState
    PROVE  EntriesInv'
PROOF
<1> DEFINE e == Head(queue)
<1>1. /\ ~Busy /\ queue # <<>> /\ set' = set /\ next' = next /\ adding' = adding
      /\ queue' = Tail(queue)
    BY DEF CheckState, clientVars
<1>2. /\ DOMAIN queue = 1 .. Len(queue) /\ Len(queue) \in Nat /\ Len(queue) # 0
      /\ e = queue[1] /\ e \in Entries
      /\ DOMAIN queue' = 1 .. (Len(queue) - 1)
      /\ \A p \in DOMAIN queue' : queue'[p] = queue[p + 1] /\ p + 1 \in DOMAIN queue
      /\ \A p \in DOMAIN queue : queue[p] \in Entries
    BY <1>1, HeadTailProperties, LenProperties, EmptySeq, ElementOfSeq DEF TypeOK
<1>3. entry[e] = "queued"
    BY <1>2 DEF EntriesInv, QueueHolds
<1> HIDE DEF e
<1>4. PICK s \in {"allowed", "ignored"} :
          \A d \in Entries : entry'[d] = IF d = e THEN s ELSE entry[d]
    BY <1>2 DEF CheckState, TypeOK, e
<1>5. AddingInRange'
    BY <1>1 DEF EntriesInv, AddingInRange, ToAppend
<1>6. ASSUME NEW d \in Entries
      PROVE  /\ entry'[d] = "new" <=> entry[d] = "new"
             /\ Over(d) => Over(d)'
             /\ entry[d] # "allowed"
    BY <1>1, <1>3, <1>4 DEF Over, Busy
<1>7. Started'
    BY <1>1, <1>6, WorkFacts DEF EntriesInv, Started, Passed
<1>8. \A p \in DOMAIN queue : queue[p] = e => p = 1
    BY <1>2 DEF EntriesInv, QueueHolds
<1>9. QueueHolds'
    <2>1. ASSUME NEW p \in DOMAIN queue'
          PROVE  entry'[queue'[p]] = "queued"
        <3>1. queue[p + 1] # e /\ queue[p + 1] \in Entries /\ p + 1 \in DOMAIN queue
            BY <1>2, <1>8, <2>1
        <3> QED  BY <1>2, <1>4, <3>1 DEF EntriesInv, QueueHolds
    <2>2. \A p, q \in DOMAIN queue' : queue'[p] = queue'[q] => p = q
        <3>1. ASSUME NEW p \in DOMAIN queue', NEW q \in DOMAIN queue', queue'[p] = queue'[q]
              PROVE  p + 1 = q + 1
            BY <1>2, <3>1 DEF EntriesInv, QueueHolds
        <3> QED  BY <3>1, <1>2
    <2>3. ASSUME NEW d \in Entries, entry'[d] = "queued"
          PROVE  Holds(queue, d)'
        <3>1. d # e /\ Holds(queue, d)
            BY <2>3, <1>4 DEF EntriesInv, QueueHolds
        <3> QED  BY <3>1, <1>1, HoldsTail DEF TypeOK, e, Holds
    <2> QED  BY <2>1, <2>2, <2>3 DEF QueueHolds
<1>10. QueueOrder'
    <2> SUFFICES ASSUME NEW h \in DOMAIN Work, NEW b \in Clients,
                        NEW k \in DOMAIN Work[h][b], NEW l \in DOMAIN Work[h][b], k < l,
                        NEW p \in DOMAIN queue', NEW q \in DOMAIN queue',
                        queue'[p] = Work[h][b][l], queue'[q] = Work[h][b][k]
                 PROVE  q < p
        BY DEF QueueOrder
    <2>1. q + 1 < p + 1
        BY <1>2 DEF EntriesInv, QueueOrder
    <2> QED  BY <2>1, <1>2
<1>11. OneWritten'
    BY <1>4, <1>6 DEF OneWritten
<1>12. PastSetsOver'
    BY <1>1, <1>6, WorkFacts DEF EntriesInv, PastSetsOver
<1>13. ClientInOrder'
    <2> SUFFICES ASSUME NEW h \in DOMAIN Work, NEW b \in Clients,
                        NEW k \in DOMAIN Work[h][b], NEW l \in DOMAIN Work[h][b], k < l,
                        entry'[Work[h][b][l]] \in {"allowed", "written", "failed"}
                 PROVE  Over(Work[h][b][k])'
        BY DEF ClientInOrder
    <2>1. Work[h][b][l] \in Entries /\ Work[h][b][k] \in Entries /\ k \in Nat /\ l \in Nat
        BY WorkFacts
    <2>2. CASE Work[h][b][l] # e
        BY <2>1, <2>2, <1>4, <1>6 DEF EntriesInv, ClientInOrder
    <2>3. CASE Work[h][b][l] = e
        <3>1. Passed(h, b, l)
            BY <2>3, <1>3 DEF EntriesInv, Started
        <3>2. Passed(h, b, k)
            BY <3>1, <2>1 DEF Passed, TypeOK
        <3>3. entry[Work[h][b][k]] # "new"
            BY <3>2 DEF EntriesInv, Started
        <3>4. entry[Work[h][b][k]] # "queued"
            <4> SUFFICES ASSUME entry[Work[h][b][k]] = "queued" PROVE FALSE
                OBVIOUS
            <4>1. PICK q \in DOMAIN queue : queue[q] = Work[h][b][k]
                BY <2>1 DEF EntriesInv, QueueHolds, Holds
            <4>2. q < 1
                BY <4>1, <2>3, <1>2 DEF EntriesInv, QueueOrder
            <4> QED  BY <4>2, <1>2
        <3>5. Over(Work[h][b][k])
            BY <2>1, <3>3, <3>4, <1>6 DEF TypeOK, Over
        <3> QED  BY <3>5, <2>1, <1>6
    <2> QED  BY <2>2, <2>3
<1> QED  BY <1>5, <1>7, <1>9, <1>10, <1>11, <1>12, <1>13 DEF EntriesInv

LEMMA WriteEntryKeepsEntries ==
    ASSUME TypeOK, EntriesInv, WriteEntry
    PROVE  EntriesInv'
PROOF
<1>1. set' = set /\ next' = next /\ adding' = adding /\ queue' = queue
    BY DEF WriteEntry, clientVars
<1>2. PICK e \in Entries, how \in {"written", "failed"} :
          /\ entry[e] = "allowed"
          /\ \A d \in Entries : entry'[d] = IF d = e THEN how ELSE entry[d]
    BY DEF WriteEntry, TypeOK
<1>3. AddingInRange'
    BY <1>1 DEF EntriesInv, AddingInRange, ToAppend
<1>4. ASSUME NEW d \in Entries
      PROVE  /\ entry'[d] = "new" <=> entry[d] = "new"
             /\ Over(d) => Over(d)'
             /\ entry'[d] = "queued" <=> entry[d] = "queued"
             /\ entry'[d] # "allowed"
             /\ entry'[d] \in {"written", "failed"} =>
                    entry[d] \in {"allowed", "written", "failed"}
    BY <1>2 DEF Over, EntriesInv, OneWritten
<1>5. Started'
    BY <1>1, <1>4, WorkFacts DEF EntriesInv, Started, Passed
<1>6. QueueHolds'
    <2>1. \A p \in DOMAIN queue : queue[p] \in Entries
        BY LenProperties, ElementOfSeq DEF TypeOK
    <2> QED  BY <2>1, <1>1, <1>4 DEF EntriesInv, QueueHolds, Holds
<1>7. QueueOrder'
    BY <1>1 DEF EntriesInv, QueueOrder
<1>8. OneWritten'
    BY <1>4 DEF OneWritten
<1>9. PastSetsOver'
    BY <1>1, <1>4, WorkFacts DEF EntriesInv, PastSetsOver
<1>10. ClientInOrder'
    BY <1>4, WorkFacts DEF EntriesInv, ClientInOrder
<1> QED  BY <1>3, <1>5, <1>6, <1>7, <1>8, <1>9, <1>10 DEF EntriesInv

\* A client that has appended everything is not in addEntryFromBuffer.
LEMMA NobodyAdds ==
    ASSUME TypeOK, AddingInRange, SetOver
    PROVE  \A c \in Clients : adding[c] = "no"
PROOF
<1> SUFFICES ASSUME NEW c \in Clients, adding[c] # "no"
             PROVE  FALSE
    OBVIOUS
<1> DEFINE n == Len(ToAppend(c))
<1>1. next[c] \in DOMAIN ToAppend(c) /\ next[c] = n + 1
    BY DEF AddingInRange, SetOver
<1>2. DOMAIN ToAppend(c) = 1 .. n /\ n \in Nat
    BY WorkFacts, LenProperties DEF ToAppend, TypeOK
<1> QED  BY <1>1, <1>2

\* A set of years is over when the next one begins: the flush has joined all of it.
LEMMA NextSetKeepsEntries ==
    ASSUME TypeOK, EntriesInv, CallersInv, NextSet
    PROVE  EntriesInv'
PROOF
<1>1. /\ at["main"] = "flushed" /\ set' = set + 1 /\ next' = [c \in Clients |-> 1]
      /\ adding' = adding /\ queue' = queue /\ entry' = entry
    BY DEF NextSet
<1>2. /\ set \in Nat
      /\ \A h \in DOMAIN Work : h \in Nat
      /\ \A h \in DOMAIN Work, b \in Clients :
            /\ DOMAIN Work[h][b] = 1 .. Len(Work[h][b])
            /\ \A l \in DOMAIN Work[h][b] : l \in Nat /\ l >= 1 /\ Work[h][b][l] \in Entries
      /\ set \in DOMAIN Work /\ next \in [Clients -> Nat]
      /\ adding \in [Clients -> {"no", "admitted", "added"}]
    BY WorkFacts DEF TypeOK
<1>3. SetOver
    BY <1>1 DEF CallersInv, Stopped
<1>4. \A c \in Clients : adding[c] = "no"
    BY <1>3, NobodyAdds DEF EntriesInv
<1>5. AddingInRange'
    BY <1>1, <1>4 DEF AddingInRange
<1>6. ASSUME NEW h \in DOMAIN Work, NEW b \in Clients, NEW l \in DOMAIN Work[h][b]
      PROVE  /\ Passed(h, b, l)' <=> h <= set
             /\ Passed(h, b, l) <=> h <= set
    <2>1. Passed(h, b, l)' <=> h < set + 1
        BY <1>1, <1>2, <1>4 DEF Passed
    <2>2. h = set => l < next[b]
        <3>1. h = set => next[b] = Len(Work[h][b]) + 1
            BY <1>3 DEF SetOver, ToAppend
        <3>2. l <= Len(Work[h][b]) /\ Len(Work[h][b]) \in Nat
            BY <1>2, WorkFacts, LenProperties
        <3> QED  BY <3>1, <3>2, <1>2
    <2> QED  BY <2>1, <2>2, <1>2 DEF Passed
<1>7. Started'
    BY <1>1, <1>6 DEF EntriesInv, Started, Passed
<1>8. PastSetsOver'
    <2> SUFFICES ASSUME NEW h \in DOMAIN Work, NEW b \in Clients, NEW l \in DOMAIN Work[h][b],
                        h < set + 1
                 PROVE  Over(Work[h][b][l])
        BY <1>1 DEF PastSetsOver, Over
    <2>1. Passed(h, b, l) /\ Work[h][b][l] \in Entries
        BY <1>2, <1>6
    <2>2. Work[h][b][l] \in appended["main"]
        BY <1>1, <2>1 DEF EntriesInv, Started, CallersInv, Stopped
    <2> QED  BY <1>1, <2>2 DEF CallersInv, Ends, Finished, Over
<1> QED  BY <1>1, <1>5, <1>7, <1>8
         DEF EntriesInv, QueueHolds, Holds, QueueOrder, OneWritten, ClientInOrder, Over

LEMMA StepKeepsEntries ==
    ASSUME IInv, [Next]_vars
    PROVE  EntriesInv'
PROOF
<1>1. CASE UNCHANGED <<clientVars, queue, entry>>
    BY <1>1 DEF IInv, EntriesInv, AddingInRange, ToAppend, Started, Passed, QueueHolds, Holds,
                QueueOrder, OneWritten, PastSetsOver, ClientInOrder, Over, clientVars
<1>2. CASE \E c \in Clients : Client(c)
    BY <1>2, AdmitKeepsEntries, AddTaskKeepsEntries, AddFutureKeepsEntries DEF IInv, Client
<1>3. CASE IoThread
    BY <1>3, CheckStateKeepsEntries, WriteEntryKeepsEntries DEF IInv, IoThread
<1>4. CASE NextSet
    BY <1>4, NextSetKeepsEntries DEF IInv
<1>5. CASE Flush \/ Destroy \/ Signal
    BY <1>1, <1>5 DEF Flush, Destroy, Signal, BeginJoin
<1>6. CASE Caller("main") \/ Caller("signal")
    BY <1>1, <1>6 DEF Caller, Get, Joined, Block, Close
<1>7. CASE UNCHANGED vars
    BY <1>1, <1>7 DEF vars
<1> QED  BY <1>2, <1>3, <1>4, <1>5, <1>6, <1>7 DEF Next, MainStep

-----------------------------------------------------------------------------
(* The flush and the finalize. *)

THEOREM InitCallers == Init => CallersInv
PROOF
    BY DEF Init, CallersInv, Stopped, SetsLeft, Pending, Joins, Ends, Callers, Untroubled, Finished

LEMMA ClientKeepsCallers ==
    ASSUME IInv, NEW c \in Clients, Client(c)
    PROVE  CallersInv'
PROOF
<1> DEFINE e == ToAppend(c)[next[c]]
<1>1. /\ TypeOK /\ set' = set /\ handle' = handle /\ at' = at /\ finalizing' = finalizing
      /\ toBeJoined' = toBeJoined /\ appended' = appended
    BY DEF IInv, Client, Admit, AddTask, AddFuture, callerVars
<1>2. at["main"] = "idle"
    <2>1. at["main"] # "idle" => \A b \in Clients : adding[b] = "no"
        BY NobodyAdds DEF IInv, EntriesInv, CallersInv, Stopped
    <2> QED  BY <2>1 DEF Client, Admit, AddTask, AddFuture
<1>3. Stopped' /\ SetsLeft' /\ Joins' /\ Ends'
    BY <1>1, <1>2 DEF IInv, CallersInv, Stopped, SetsLeft, Joins, Ends
<1>4. /\ next \in [Clients -> Nat] /\ adding \in [Clients -> {"no", "admitted", "added"}]
      /\ \A b \in Clients : adding[b] # "no" => ToAppend(b)[next[b]] \in Entries
    BY WorkFacts DEF IInv, TypeOK, EntriesInv, AddingInRange, ToAppend
<1>5. ASSUME MainRuns, NEW d \in Entries
      PROVE  \/ entry'[d] = "new"
             \/ Finished(d)'
             \/ Holds(pendingTasks, d)'
             \/ \E b \in Clients : adding'[b] = "added" /\ d = Work[set][b][next'[b]]
    <2>1. \/ entry[d] = "new"
          \/ Finished(d)
          \/ Holds(pendingTasks, d)
          \/ \E b \in Clients : adding[b] = "added" /\ d = Work[set][b][next[b]]
        BY <1>2, <1>5 DEF IInv, CallersInv, Pending, ToAppend
    <2>2. CASE Admit(c)
        <3>1. /\ adding[c] = "no" /\ pendingTasks' = pendingTasks
              /\ \A b \in Clients : adding[b] = "added" =>
                     adding'[b] = "added" /\ next'[b] = next[b]
            BY <2>2, <1>4 DEF Admit
        <3>2. e \in Entries
            BY <2>2, WorkFacts DEF Admit, IInv, TypeOK, ToAppend
        <3>3. entry' = entry \/ entry' = [entry EXCEPT ![e] = "ignored"]
            BY <2>2 DEF Admit
        <3>4. entry'[d] = entry[d] \/ entry'[d] = "ignored"
            BY <3>2, <3>3 DEF IInv, TypeOK
        <3> QED  BY <2>1, <3>1, <3>4 DEF Finished, Holds
    <2>3. CASE AddTask(c)
        <3>1. /\ adding[c] = "admitted" /\ pendingTasks' = pendingTasks /\ next' = next
              /\ adding' = [adding EXCEPT ![c] = "added"]
              /\ entry' = [entry EXCEPT ![e] = "queued"]
            BY <2>3 DEF AddTask
        <3>2. adding'[c] = "added" /\ \A b \in Clients : adding[b] = "added" => adding'[b] = "added"
            BY <3>1, <1>4
        <3>3. CASE d = e
            BY <3>1, <3>2, <3>3 DEF ToAppend
        <3>4. CASE d # e
            <4>1. entry'[d] = entry[d]
                BY <3>1, <3>4
            <4> QED  BY <2>1, <3>1, <3>2, <4>1 DEF Finished, Holds
        <3> QED  BY <3>3, <3>4
    <2>4. CASE AddFuture(c)
        <3>1. /\ adding[c] = "added" /\ entry' = entry
              /\ pendingTasks' = Append(pendingTasks, e) /\ e \in Entries
              /\ \A b \in Clients : b # c => adding'[b] = adding[b] /\ next'[b] = next[b]
            BY <2>4, <1>4 DEF AddFuture
        <3>2. Holds(pendingTasks', d) <=> Holds(pendingTasks, d) \/ d = e
            BY <1>1, <3>1, HoldsAppend DEF TypeOK
        <3> QED  BY <2>1, <3>1, <3>2 DEF Finished, Holds, ToAppend
    <2> QED  BY <2>2, <2>3, <2>4 DEF Client
<1>6. Pending'
    BY <1>1, <1>5 DEF Pending, MainRuns, ToAppend
<1> QED  BY <1>3, <1>6 DEF CallersInv

LEMMA IoThreadMoves ==
    ASSUME TypeOK, IoThread, NEW d \in Entries, QueueHolds
    PROVE  /\ entry'[d] = "new" <=> entry[d] = "new"
           /\ Finished(d) => Finished(d)'
           /\ entry[d] = "failed" => entry'[d] = "failed"
PROOF
<1>1. CASE CheckState
    <2>1. /\ DOMAIN queue = 1 .. Len(queue) /\ Len(queue) \in Nat /\ Len(queue) # 0
          /\ Head(queue) = queue[1]
        BY <1>1, LenProperties, EmptySeq DEF CheckState, TypeOK
    <2>2. entry[Head(queue)] = "queued"
        BY <2>1 DEF QueueHolds
    <2> QED  BY <1>1, <2>2 DEF CheckState, TypeOK, Finished
<1>2. CASE WriteEntry
    BY <1>2 DEF WriteEntry, TypeOK, Finished
<1> QED  BY <1>1, <1>2 DEF IoThread

LEMMA IoThreadKeepsCallers ==
    ASSUME IInv, IoThread
    PROVE  CallersInv'
PROOF
<1>1. /\ clientVars' = clientVars /\ handle' = handle /\ callerVars' = callerVars
      /\ pendingTasks' = pendingTasks
    BY DEF IoThread, CheckState, WriteEntry
<1>2. ASSUME NEW d \in Entries
      PROVE  /\ entry'[d] = "new" <=> entry[d] = "new"
             /\ Finished(d) => Finished(d)'
             /\ entry[d] = "failed" => entry'[d] = "failed"
    BY IoThreadMoves DEF IInv, EntriesInv
<1>3. NoFailure' => NoFailure
    BY <1>2 DEF NoFailure
<1>4. Untroubled' => Untroubled
    BY <1>1, <1>2 DEF Untroubled, callerVars
<1>5. appended["main"] \subseteq Entries
    BY CallersAre DEF IInv, TypeOK
<1>6. Stopped' /\ SetsLeft'
    BY <1>1, <1>2 DEF IInv, CallersInv, Stopped, SetsLeft, SetOver, ToAppend, clientVars, callerVars
<1>7. Pending'
    BY <1>1, <1>2 DEF IInv, CallersInv, Pending, MainRuns, Holds, ToAppend, clientVars, callerVars
<1>8. Joins'
    BY <1>1, <1>2, <1>3, <1>5 DEF IInv, CallersInv, Joins, MainRuns, Holds, callerVars
<1>9. Ends'
    BY <1>1, <1>2, <1>3, <1>4, <1>5 DEF IInv, CallersInv, Ends, callerVars
<1> QED  BY <1>6, <1>7, <1>8, <1>9 DEF CallersInv

\* The main thread begins to join when no client is appending: what has been
\* appended is finished or a future of it is in pendingTasks.
LEMMA MainBeginsKeepsCallers ==
    ASSUME IInv, Flush \/ Destroy
    PROVE  CallersInv'
PROOF
<1>1. PICK final \in BOOLEAN :
          /\ BeginJoin("main", final)
          /\ ~final => set < Len(Work)
          /\ at["main"] = "idle" \/ (at["main"] = "thrown" /\ final)
    BY DEF Flush, Destroy
<1>2. SetOver /\ MainRuns
    BY DEF Flush, Destroy, IInv, CallersInv, Stopped
<1>3. /\ set' = set /\ next' = next /\ adding' = adding /\ entry' = entry /\ handle' = handle
      /\ at'["main"] = "joining" /\ at'["signal"] = at["signal"]
      /\ finalizing'["main"] = final
      /\ toBeJoined'["main"] = pendingTasks
      /\ appended'["main"] = {e \in Entries : entry[e] # "new"}
    BY <1>1, CallersAre DEF BeginJoin, IInv, TypeOK, clientVars
<1>4. Stopped' /\ SetsLeft' /\ Pending'
    BY <1>1, <1>2, <1>3 DEF Stopped, SetsLeft, Pending, SetOver, ToAppend
<1>5. Joins'
    <2>1. CASE at["main"] = "idle"
        <3>1. \A c \in Clients : adding[c] = "no"
            BY <1>2, NobodyAdds DEF IInv, EntriesInv
        <3>2. \A e \in Entries : entry[e] = "new" \/ Finished(e) \/ Holds(pendingTasks, e)
            BY <2>1, <1>2, <3>1 DEF IInv, CallersInv, Pending
        <3> QED  BY <1>3, <3>2 DEF Joins, Finished, Holds
    <2>2. CASE at["main"] = "thrown" /\ final
        BY <2>2, <1>3 DEF Joins, NoFailure, IInv, CallersInv, Ends
    <2> QED  BY <1>1, <2>1, <2>2
<1>6. Ends'
    BY <1>1, <1>3 DEF IInv, CallersInv, Ends
<1> QED  BY <1>4, <1>5, <1>6 DEF CallersInv

LEMMA NextSetKeepsCallers ==
    ASSUME IInv, NextSet
    PROVE  CallersInv'
PROOF
<1>1. /\ at["main"] = "flushed" /\ at'["main"] = "idle" /\ at'["signal"] = at["signal"]
      /\ entry' = entry /\ handle' = handle
    BY CallersAre DEF NextSet, IInv, TypeOK
<1>2. \A e \in Entries : entry[e] = "new" \/ Finished(e)
    BY <1>1 DEF IInv, CallersInv, Stopped, Ends
<1>3. Pending'
    BY <1>1, <1>2 DEF Pending, Finished
<1>4. Stopped' /\ SetsLeft' /\ Joins' /\ Ends'
    BY <1>1 DEF Stopped, SetsLeft, Joins, IInv, CallersInv, Ends
<1> QED  BY <1>3, <1>4 DEF CallersInv

LEMMA CallerMain ==
    ASSUME IInv, Caller("main")
    PROVE  CallersInv'
PROOF
<1>1. /\ clientVars' = clientVars /\ entry' = entry /\ pendingTasks' = pendingTasks
      /\ finalizing' = finalizing /\ appended' = appended
      /\ at'["signal"] = at["signal"]
      /\ MainRuns
      /\ at["main"] # "idle" /\ at'["main"] # "idle"
    BY CallersAre DEF Caller, Get, Joined, Block, Close, CanStep, IInv, TypeOK
<1>2. Stopped' /\ Pending'
    BY <1>1 DEF IInv, CallersInv, Stopped, Pending, SetOver, ToAppend, clientVars
<1>3. /\ appended["main"] \subseteq Entries /\ toBeJoined["main"] \in Seq(Entries)
      /\ entry \in [Entries -> {"new", "queued", "allowed", "written", "failed", "ignored"}]
    BY CallersAre DEF IInv, TypeOK
<1>4. CASE Get("main")
    <2> DEFINE d == Head(toBeJoined["main"])
    <2>1. /\ at["main"] = "joining" /\ toBeJoined["main"] # <<>> /\ Over(d)
          /\ handle' = handle /\ d \in Entries
        BY <1>3, <1>4, HeadTailProperties DEF Get
    <2>2. CASE entry[d] = "failed"
        <3>1. at'["main"] = "thrown" /\ ~NoFailure
            BY <1>4, <2>1, <2>2, CallersAre DEF Get, NoFailure, IInv, TypeOK
        <3> QED  BY <1>1, <1>2, <2>1, <3>1
                 DEF CallersInv, SetsLeft, Joins, Ends, NoFailure, IInv, clientVars
    <2>3. CASE entry[d] # "failed"
        <3>1. at' = at /\ toBeJoined'["main"] = Tail(toBeJoined["main"])
            BY <1>4, <2>3, CallersAre DEF Get, IInv, TypeOK
        <3>2. Finished(d)
            BY <2>1, <2>3 DEF Over, Finished
        <3>3. Joins'
            BY <1>1, <1>3, <2>1, <3>1, <3>2, HoldsTail
               DEF IInv, CallersInv, Joins, MainRuns, NoFailure, Finished, Holds
        <3> QED  BY <1>1, <1>2, <2>1, <3>1, <3>3
                 DEF CallersInv, SetsLeft, Ends, Untroubled, NoFailure, Finished, IInv, clientVars
    <2> QED  BY <2>2, <2>3
<1>5. CASE Joined("main")
    <2>1. /\ at["main"] = "joining" /\ toBeJoined["main"] = <<>> /\ handle' = handle
          /\ at'["main"] = IF finalizing["main"] THEN "block" ELSE "flushed"
        BY <1>5, CallersAre DEF Joined, IInv, TypeOK
    <2>2. ~finalizing["main"] \/ NoFailure => \A e \in appended["main"] : Finished(e)
        BY <1>1, <2>1, HoldsNothing DEF IInv, CallersInv, Joins
    <2>3. Ends'
        BY <1>1, <2>1, <2>2 DEF Ends, Untroubled, NoFailure, Finished, IInv, CallersInv
    <2> QED  BY <1>1, <1>2, <2>1, <2>3 DEF CallersInv, SetsLeft, Joins, IInv, clientVars
<1>6. CASE Block("main") \/ Close("main")
    <2>1. \/ at["main"] = "block" /\ at'["main"] = "close" /\ handle' = handle
          \/ at["main"] = "close" /\ at'["main"] = "done"
        BY <1>6, CallersAre DEF Block, Close, IInv, TypeOK
    <2> QED  BY <1>1, <1>2, <2>1
             DEF CallersInv, SetsLeft, Joins, Ends, Untroubled, Finished, IInv, clientVars
<1> QED  BY <1>4, <1>5, <1>6 DEF Caller

\* The handler leaves the main thread where it is.
LEMMA HandlerKeepsCallers ==
    ASSUME IInv, Signal \/ Caller("signal")
    PROVE  CallersInv'
PROOF
<1>1. /\ clientVars' = clientVars /\ entry' = entry
      /\ at'["main"] = at["main"] /\ at'["signal"] # "idle"
      /\ finalizing'["main"] = finalizing["main"] /\ appended'["main"] = appended["main"]
    <2>1. CASE Signal
        BY <2>1, CallersAre DEF Signal, BeginJoin, IInv, TypeOK
    <2>2. CASE Caller("signal")
        BY <2>2, CallersAre DEF Caller, Get, Joined, Block, Close, IInv, TypeOK
    <2> QED  BY <2>1, <2>2
<1> QED  BY <1>1 DEF IInv, CallersInv, Stopped, SetOver, ToAppend, SetsLeft, Pending, Joins, Ends,
                     MainRuns, Untroubled, NoFailure, Finished, clientVars

LEMMA StepKeepsCallers ==
    ASSUME IInv, [Next]_vars
    PROVE  CallersInv'
PROOF
<1>1. CASE UNCHANGED vars
    BY <1>1 DEF IInv, CallersInv, Stopped, SetOver, ToAppend, SetsLeft, Pending, Joins, Ends,
                MainRuns, Untroubled, NoFailure, Finished, Holds, vars, clientVars, callerVars
<1> QED  BY <1>1, ClientKeepsCallers, IoThreadKeepsCallers, MainBeginsKeepsCallers,
            NextSetKeepsCallers, CallerMain, HandlerKeepsCallers DEF Next, MainStep

-----------------------------------------------------------------------------
(* What holds in every state. *)

THEOREM InvariantHolds == Spec => []IInv
PROOF
<1>1. Init => IInv
    BY InitIsTyped, InitEntries, InitCallers DEF IInv
<1>2. IInv /\ [Next]_vars => IInv'
    BY StepIsTyped, StepKeepsEntries, StepKeepsCallers DEF IInv, EntriesInv, CallersInv
<1> QED  BY <1>1, <1>2, PTL DEF Spec

\* Every variable keeps its type; the sets of years are never exceeded.
THEOREM TypeCorrect == Spec => []TypeOK
PROOF
<1>1. IInv => TypeOK
    BY DEF IInv
<1> QED  BY <1>1, InvariantHolds, PTL

\* A flush that ends untroubled has waited for every entry appended before it,
\* and one that ends without throwing has joined no entry that failed.
THEOREM FlushesWait == Spec => []FlushWaits
PROOF
<1>1. IInv => FlushWaits
    <2> SUFFICES ASSUME IInv PROVE FlushWaits
        OBVIOUS
    <2>1. ASSUME Untroubled, NEW f \in Callers, FlushEnded(f), NEW e \in appended[f]
          PROVE  Over(e)
        <3>1. f = "main"
            BY <2>1 DEF Untroubled, FlushEnded, Callers
        <3>2. at["main"] # "thrown"
            BY <2>1 DEF IInv, CallersInv, Ends, Untroubled, NoFailure
        <3>3. Finished(e)
            BY <2>1, <3>1, <3>2 DEF IInv, CallersInv, Ends, FlushEnded
        <3> QED  BY <3>3 DEF Finished, Over
    <2>2. ASSUME at["main"] = "flushed", NEW e \in appended["main"]
          PROVE  entry[e] # "failed"
        BY <2>2 DEF IInv, CallersInv, Ends, Finished
    <2> QED  BY <2>1, <2>2 DEF FlushWaits
<1> QED  BY <1>1, InvariantHolds, PTL

\* Without failure nor signal no job is about to use the handle once the archive
\* is closed.
THEOREM NoWriteOnceClosed == Spec => []NoWriteAfterCloseUntroubled
PROOF
<1>1. IInv => NoWriteAfterCloseUntroubled
    <2> SUFFICES ASSUME IInv, Untroubled, handle = "closed", NEW e \in Entries
                 PROVE  entry[e] # "allowed"
        BY DEF NoWriteAfterCloseUntroubled, NoWriteAfterClose, Busy
    <2>1. at["main"] = "done"
        BY DEF IInv, CallersInv, Ends, Untroubled
    <2>2. entry[e] = "new" \/ Finished(e)
        BY <2>1 DEF IInv, CallersInv, Ends, Stopped
    <2> QED  BY <2>2 DEF Finished
<1> QED  BY <1>1, InvariantHolds, PTL

\* The entries of a client are written in its order, those of a set of years
\* before those of the next ones.
THEOREM ArchiveIsOrdered == Spec => []ArchiveInOrder
PROOF
<1>1. IInv => ArchiveInOrder
    <2> SUFFICES ASSUME IInv, NEW i \in DOMAIN Work, NEW h \in DOMAIN Work,
                        NEW a \in Clients, NEW b \in Clients,
                        NEW k \in DOMAIN Work[i][a], NEW l \in DOMAIN Work[h][b],
                        i < h \/ (i = h /\ a = b /\ k < l),
                        entry[Work[h][b][l]] \in {"allowed", "written", "failed"}
                 PROVE  Over(Work[i][a][k])
        BY DEF ArchiveInOrder
    <2>1. CASE i = h /\ a = b /\ k < l
        BY <2>1 DEF IInv, EntriesInv, ClientInOrder
    <2>2. CASE i < h
        <3>1. Passed(h, b, l)
            BY DEF IInv, EntriesInv, Started
        <3>2. h \in Nat /\ i \in Nat /\ set \in Nat /\ h <= set
            BY <3>1, WorkFacts DEF Passed, IInv, TypeOK
        <3> QED  BY <2>2, <3>2 DEF IInv, EntriesInv, PastSetsOver
    <2> QED  BY <2>1, <2>2
<1> QED  BY <1>1, InvariantHolds, PTL

\* The queue of the writer is the one its pool implements: clients add entries or see them
\* refused, one hand takes them in order, and writes or skips each of them once.
THEOREM RefinesOutput == Spec => ImplementsOutput
PROOF
<1> DEFINE hold == [h \in {"io"} |-> {e \in Entries : entry[e] = "allowed"}]
           done == {e \in Entries : Over(e)}
           line == [c \in {3} |-> queue]
<1>1. Init => Output!Init
    BY DEF Init, Output!Init, Over
<1>2. ASSUME IInv, [Next]_vars
      PROVE  [Output!Next]_(Output!queueVars)
    <2>1. TypeOK /\ EntriesInv /\ queue \in Seq(Entries) /\ DOMAIN entry = Entries
        BY <1>2 DEF IInv, TypeOK
    <2>2. ASSUME NEW e \in Entries, entry[e] = "new"
          PROVE  Output!Unknown(e)
        <3>1. ~Output!Waits(e)
            BY <2>1, <2>2 DEF EntriesInv, QueueHolds, Output!Waits
        <3> QED  BY <3>1, <2>2 DEF Output!Unknown, Over
    <2>3. ASSUME NEW c \in Clients, ~(UNCHANGED <<entry, queue>>), Admit(c) \/ AddTask(c)
          PROVE  Output!Next
        <3>1. /\ next[c] \in DOMAIN ToAppend(c)
              /\ adding[c] # "added"
            BY <2>1, <2>3 DEF Admit, AddTask, EntriesInv, AddingInRange
        <3>2. PICK e \in Entries : e = ToAppend(c)[next[c]]
            BY <2>1, <3>1, WorkFacts DEF ToAppend, TypeOK
        <3>3. entry[e] = "new"
            <4>1. ~Passed(set, c, next[c])
                BY <2>1, <3>1, WorkFacts DEF Passed, TypeOK
            <4> QED  BY <2>1, <3>1, <3>2, <4>1 DEF EntriesInv, Started, ToAppend, TypeOK
        <3>4. CASE AddTask(c)
            <4>1. queue' = Append(queue, e) /\ entry' = [entry EXCEPT ![e] = "queued"]
                BY <3>2, <3>4 DEF AddTask
            <4>2. hold' = hold /\ done' = done
                BY <2>1, <3>3, <4>1 DEF Over
            <4>3. Output!Add(e)
                BY <2>2, <3>3, <4>1, <4>2 DEF Output!Add
            <4> QED  BY <4>3 DEF Output!Next
        <3>5. CASE Admit(c)
            <4>1. queue' = queue /\ entry' = [entry EXCEPT ![e] = "ignored"]
                BY <2>3, <3>2, <3>5 DEF Admit
            <4>2. hold' = hold /\ done' = done \cup {e}
                BY <2>1, <3>3, <4>1 DEF Over
            <4>3. Output!Refuse(e)
                BY <2>2, <3>3, <4>1, <4>2 DEF Output!Refuse
            <4> QED  BY <4>3 DEF Output!Next
        <3> QED  BY <2>3, <3>4, <3>5
    <2>4. ASSUME CheckState PROVE Output!Next
        <3>1. PICK e \in Entries : e = Head(queue)
            BY <2>1, <2>4 DEF CheckState
        <3>2. entry[e] = "queued"
            <4>1. 1 \in DOMAIN queue /\ e = queue[1]
                BY <2>1, <2>4, <3>1 DEF CheckState
            <4> QED  BY <2>1, <4>1 DEF EntriesInv, QueueHolds
        <3>3. hold["io"] = {} /\ line[3] # <<>> /\ line' = [line EXCEPT ![3] = Tail(@)]
            BY <2>4 DEF CheckState, Busy
        <3>4. CASE state = "can_receive_data"
            <4>1. entry' = [entry EXCEPT ![e] = "allowed"]
                BY <2>4, <3>1, <3>4 DEF CheckState
            <4>2. hold' = [hold EXCEPT !["io"] = {e}] /\ done' = done
                <5>1. \A d \in Entries : entry'[d] = IF d = e THEN "allowed" ELSE entry[d]
                    BY <2>1, <4>1
                <5>2. \A d \in Entries : entry'[d] = "allowed" <=> d = e
                    BY <3>3, <5>1
                <5>3. \A d \in Entries : Over(d)' <=> Over(d)
                    BY <3>2, <5>1 DEF Over
                <5> QED  BY <5>2, <5>3
            <4>3. Output!Take("io", 3)
                BY <3>1, <3>3, <4>2 DEF Output!Take, Output!Leaves
            <4> QED  BY <4>3 DEF Output!Next
        <3>5. CASE state # "can_receive_data"
            <4>1. entry' = [entry EXCEPT ![e] = "ignored"]
                BY <2>4, <3>1, <3>5 DEF CheckState
            <4>2. hold' = hold /\ done' = done \cup {e}
                BY <2>1, <3>2, <3>3, <4>1 DEF Over
            <4>3. Output!Skip("io", 3)
                BY <3>1, <3>3, <4>2 DEF Output!Skip, Output!Leaves
            <4> QED  BY <4>3 DEF Output!Next
        <3> QED  BY <3>4, <3>5
    <2>5. ASSUME WriteEntry PROVE Output!Next
        <3>1. PICK e \in Entries, how \in {"written", "failed"} :
                  entry[e] = "allowed" /\ entry' = [entry EXCEPT ![e] = how]
            BY <2>5 DEF WriteEntry
        <3>2. hold["io"] = {e}
            BY <2>1, <3>1 DEF EntriesInv, OneWritten
        <3>3. done' = done \cup {e} /\ hold' = [hold EXCEPT !["io"] = {}]
            <4>1. \A d \in Entries : entry'[d] = IF d = e THEN how ELSE entry[d]
                BY <2>1, <3>1
            <4>2. \A d \in Entries : Over(d)' <=> Over(d) \/ d = e
                BY <4>1 DEF Over
            <4>3. \A d \in Entries : entry'[d] # "allowed"
                BY <3>2, <4>1
            <4> QED  BY <4>2, <4>3
        <3>4. Output!Finish("io")
            BY <2>5, <3>2, <3>3 DEF WriteEntry, Output!Finish
        <3> QED  BY <3>4 DEF Output!Next
    <2>6. CASE UNCHANGED <<entry, queue>>
        BY <2>6 DEF Output!queueVars, Over
    <2>7. \/ \E c \in Clients : Admit(c) \/ AddTask(c)
          \/ CheckState \/ WriteEntry
          \/ UNCHANGED <<entry, queue>>
        BY <1>2 DEF Next, Client, AddFuture, IoThread, MainStep, Flush, Destroy, Signal,
                    BeginJoin, NextSet, Caller, Get, Joined, Block, Close, vars
    <2> QED  BY <2>3, <2>4, <2>5, <2>6, <2>7
<1> QED  BY <1>1, <1>2, InvariantHolds, PTL DEF Spec, ImplementsOutput, Output!Spec
=============================================================================
