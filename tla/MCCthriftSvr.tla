---------------------------- MODULE MCCthriftSvr ----------------------------
(* Instance of CthriftSvr for TLC; the other constants are in the cfg. *)
EXTENDS CthriftSvr

CONSTANTS c1, c2

MCSizes == [c \in {c1, c2} |-> IF c = c1 THEN <<0, 2>> ELSE <<1>>]
=============================================================================
