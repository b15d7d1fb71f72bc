----------------------------- MODULE ByteStream -----------------------------
(***************************************************************************)
(* What the sending side of a TcpConnection promises: a stream.  Bytes     *)
(* leave in the order in which they were accepted, none is dropped from    *)
(* the middle or sent twice, and the end of the stream is announced only   *)
(* when every accepted byte has left; nothing leaves after it.  Once the   *)
(* connection was closed the stream is lossy: its end may be announced     *)
(* with bytes left to go, but none is ever taken out of order.             *)
(***************************************************************************)
EXTENDS Naturals, Sequences, SequencesExt

VARIABLES out,   \* bytes handed to the kernel
          toGo,  \* bytes accepted and not yet handed over
          fin,   \* the write side has been shut down
          lossy, \* the connection was closed: what is left to go may be lost
          ended  \* and for good: nothing is accepted and nothing leaves

svars == <<out, toGo, fin, lossy, ended>>

StreamInit ==
  out = <<>> /\ toGo = <<>> /\ fin = FALSE /\ lossy = FALSE /\ ended = FALSE

\* Any number of bytes is accepted and any number leaves.
Move ==
  /\ ~ended
  /\ IsPrefix(out, out')
  /\ IsPrefix(out \o toGo, out' \o toGo')
  /\ fin => fin' /\ out' = out /\ (lossy \/ toGo' = toGo)
  /\ fin' \in BOOLEAN
  /\ fin' => lossy \/ toGo' = <<>>
  /\ UNCHANGED <<lossy, ended>>

\* The connection is closed, for good or not, with or without an end of the
\* stream.
End ==
  /\ UNCHANGED <<out, toGo>>
  /\ lossy' = TRUE
  /\ ended' \in BOOLEAN /\ (ended => ended')
  /\ ended \/ UNCHANGED fin

StreamSpec == StreamInit /\ [][Move \/ End]_svars
=============================================================================
