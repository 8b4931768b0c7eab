--------------------------- MODULE MCResultWriter ---------------------------
(* Two years that append entries, then a last one. *)
EXTENDS ResultWriter, TLC

CONSTANTS c1, c2, e1, e2, e3, e4

MCWork == << (c1 :> <<e1, e2>>) @@ (c2 :> <<e3>>), (c1 :> <<e4>>) @@ (c2 :> <<>>) >>
=============================================================================
