--------------------------- MODULE MCCthriftClient ---------------------------
(* Instance of CthriftClient for TLC; the other constants are in the cfg. *)
EXTENDS CthriftClient

CONSTANTS c1, c2

MCMaxCalls == [c \in {c1, c2} |-> IF c = c1 THEN 3 ELSE 2]
=============================================================================
