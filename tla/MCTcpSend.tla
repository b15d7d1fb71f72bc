------------------------------ MODULE MCTcpSend ------------------------------
(* Instances of TcpSend for TLC. *)
EXTENDS TcpSend
=============================================================================
