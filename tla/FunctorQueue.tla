---------------------------- MODULE FunctorQueue ----------------------------
(***************************************************************************)
(* What EventLoop::queueInLoop promises (EventLoop.h, "Queues callback in  *)
(* the loop thread"): the callbacks queued on a loop are called one at a   *)
(* time, each exactly once, in the order in which they were queued.        *)
(* Module EventLoop, with its two vectors, its lock, its eventfd and its   *)
(* poll, implements this specification.                                    *)
(***************************************************************************)
EXTENDS Naturals, Sequences, Functions

CONSTANTS Functors,  \* names of queued callbacks
          NULL       \* "no callback"

VARIABLES queue,     \* callbacks queued and not yet called, oldest first
          calling    \* the callback being called, or NULL

qvars == <<queue, calling>>

QInit == queue = <<>> /\ calling = NULL

\* A callback is queued; a name stands for one queued instance.
Submit(f) ==
  /\ f \notin Range(queue)
  /\ queue' = Append(queue, f)
  /\ UNCHANGED calling

\* The oldest callback is called, never while another one is running.
Call ==
  /\ calling = NULL
  /\ queue # <<>>
  /\ calling' = Head(queue)
  /\ queue' = Tail(queue)

\* The callback returns.
Return ==
  /\ calling # NULL
  /\ calling' = NULL
  /\ UNCHANGED queue

QNext == (\E f \in Functors : Submit(f)) \/ Call \/ Return

QSpec == QInit /\ [][QNext]_qvars
=============================================================================
