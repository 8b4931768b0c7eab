---------------------------- MODULE OutputQueue -----------------------------
(***************************************************************************)
(* What the output of the simulation is promised by ioQueueService: items  *)
(* of one class are served first come first served, each once, by hands    *)
(* that hold one item at a time.  How a hand finds an item, sleeps and is  *)
(* woken up is not seen here.  IoService implements it with its threads,   *)
(* and so does the queue ResultWriter has in their place.                  *)
(***************************************************************************)
EXTENDS Naturals, Sequences

CONSTANTS
    Items,
    Classes,
    ClassOf,      \* the class of each item
    Hands         \* those who serve

VARIABLES
    waiting,      \* for each class, the items that wait
    held,         \* the item each hand holds, as a set of at most one
    over          \* the items that were served, or refused

queueVars == <<waiting, held, over>>

Waits(i) == \E k \in DOMAIN waiting[ClassOf[i]] : waiting[ClassOf[i]][k] = i

\* The item was never seen before.
Unknown(i) == i \notin over /\ ~Waits(i) /\ \A h \in Hands : i \notin held[h]

Add(i) ==
    /\ Unknown(i)
    /\ waiting' = [waiting EXCEPT ![ClassOf[i]] = Append(@, i)]
    /\ UNCHANGED <<held, over>>

\* The queue is not open any more.
Refuse(i) ==
    /\ Unknown(i)
    /\ over' = over \cup {i}
    /\ UNCHANGED <<waiting, held>>

Leaves(c) ==
    /\ waiting[c] # <<>>
    /\ waiting' = [waiting EXCEPT ![c] = Tail(@)]

Take(h, c) ==
    /\ held[h] = {}
    /\ Leaves(c)
    /\ held' = [held EXCEPT ![h] = {Head(waiting[c])}]
    /\ UNCHANGED over

\* There is nothing to do for this item.
Skip(h, c) ==
    /\ held[h] = {}
    /\ Leaves(c)
    /\ over' = over \cup {Head(waiting[c])}
    /\ UNCHANGED held

Finish(h) ==
    /\ held[h] # {}
    /\ over' = over \cup held[h]
    /\ held' = [held EXCEPT ![h] = {}]
    /\ UNCHANGED waiting

Init ==
    /\ waiting = [c \in Classes |-> <<>>]
    /\ held = [h \in Hands |-> {}]
    /\ over = {}

Next ==
    \/ \E i \in Items : Add(i) \/ Refuse(i)
    \/ \E h \in Hands : Finish(h) \/ \E c \in Classes : Take(h, c) \/ Skip(h, c)

Spec == Init /\ [][Next]_queueVars
=============================================================================
