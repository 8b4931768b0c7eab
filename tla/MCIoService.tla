----------------------------- MODULE MCIoService -----------------------------
(* A few adders on a service of one or two threads. *)
EXTENDS IoService, TLC

CONSTANTS a1, a2, j1, j2, j3, t1, t2

\* Writing to the archive is added with priorityLow.
LowPriority == [j \in Jobs |-> 3]
MixedPriority == [j \in Jobs |-> IF j = j3 THEN 2 ELSE 3]
TwoAdders == (a1 :> <<j1, j3>>) @@ (a2 :> <<j2>>)
OneJob == [a \in Adders |-> <<j1>>]
=============================================================================
