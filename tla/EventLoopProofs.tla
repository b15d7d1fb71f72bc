--------------------------- MODULE EventLoopProofs ---------------------------
(***************************************************************************)
(* Proofs about EventLoop for any number of threads, callbacks, channels   *)
(* and any initial size of events_: type correctness, no lost wakeup, no   *)
(* lost quit, and that the loop implements the FIFO queue of FunctorQueue; *)
(* that all this holds of the loop inside an EventLoopThread; and what the *)
(* destructor of that object leaves behind.                                *)
(***************************************************************************)
EXTENDS EventLoopThread, TLAPS

\* What the location of the loop thread says about the local state of
\* doPendingFunctors.
BatchInv ==
  /\ callingPendingFunctors_ <=> pc \in {"swap", "run"}
  /\ pc # "run" => functors = <<>> /\ running = NULL

\* The inductive invariant.  NoLostWakeup needs BatchInv: a callback queued by
\* a running functor is signalled because callingPendingFunctors_ is set then.
IInv == TypeOK /\ BatchInv /\ NoLostWakeup /\ NoLostQuit

-----------------------------------------------------------------------------
(* Facts about sequences. *)

LEMMA RangeAppend ==
  ASSUME NEW S, NEW s \in Seq(S), NEW e \in S
  PROVE  Range(Append(s, e)) = Range(s) \cup {e}
<1>1. Range(Append(s, e)) \subseteq Range(s) \cup {e}
  BY DEF Range
<1>2. Range(s) \subseteq Range(Append(s, e))
  BY DEF Range
<1>3. e \in Range(Append(s, e))
  <2>1. Len(s) + 1 \in DOMAIN Append(s, e) /\ Append(s, e)[Len(s) + 1] = e
    OBVIOUS
  <2>2. QED
    BY <2>1 DEF Range
<1>4. QED
  BY <1>1, <1>2, <1>3

LEMMA RangeEmpty == Range(<<>>) = {}
BY DEF Range

LEMMA RangeConcat ==
  ASSUME NEW S, NEW s \in Seq(S), NEW t \in Seq(S)
  PROVE  Range(s \o t) = Range(s) \cup Range(t)
<1>1. Range(s \o t) \subseteq Range(s) \cup Range(t)
  BY DEF Range
<1>2. Range(s) \subseteq Range(s \o t)
  BY DEF Range
<1>3. ASSUME NEW i \in DOMAIN t
      PROVE  t[i] \in Range(s \o t)
  <2>1. Len(s) + i \in DOMAIN (s \o t) /\ (s \o t)[Len(s) + i] = t[i]
    OBVIOUS
  <2>2. QED
    BY <2>1 DEF Range
<1>4. QED
  BY <1>1, <1>2, <1>3 DEF Range

LEMMA ConcatAppend ==
  ASSUME NEW S, NEW s \in Seq(S), NEW t \in Seq(S), NEW e \in S
  PROVE  s \o Append(t, e) = Append(s \o t, e)
OBVIOUS

LEMMA ConcatHeadTail ==
  ASSUME NEW S, NEW s \in Seq(S), NEW t \in Seq(S), s # <<>>
  PROVE  /\ s \o t # <<>>
         /\ Head(s \o t) = Head(s)
         /\ Tail(s) \o t = Tail(s \o t)
OBVIOUS

LEMMA ConcatEmpty ==
  ASSUME NEW S, NEW s \in Seq(S)
  PROVE  <<>> \o s = s /\ s \o <<>> = s
OBVIOUS

-----------------------------------------------------------------------------
\* A change of one thread's entry of wakeupDue to TRUE announces a wakeup.
LEMMA DueSet ==
  ASSUME TypeOK, NEW t \in Threads,
         wakeupDue' = [wakeupDue EXCEPT ![t] = TRUE]
  PROVE  \E u \in Threads : wakeupDue'[u]
BY DEF TypeOK

\* Init establishes the inductive invariant, and every step keeps it.
LEMMA InitIInv == Init => IInv
<1> SUFFICES ASSUME Init PROVE IInv
  OBVIOUS
<1> USE DEF Init
<1>1. TypeOK
  <2>1. eventsSize \in Nat \ {0}
    BY SizeAssumption
  <2>2. wakeupDue \in [Threads -> BOOLEAN]
    OBVIOUS
  <2>3. <<>> \in Seq(Functors)
    OBVIOUS
  <2>4. QED
    BY <2>1, <2>2, <2>3 DEF TypeOK, Locations
<1>2. BatchInv
  BY DEF BatchInv
<1>3. NoLostWakeup /\ NoLostQuit
  BY RangeEmpty DEF NoLostWakeup, NoLostQuit
<1>4. QED
  BY <1>1, <1>2, <1>3 DEF IInv

LEMMA NextIInv == IInv /\ [Next]_vars => IInv'
<1> SUFFICES ASSUME IInv, [Next]_vars PROVE IInv'
  OBVIOUS
<1> USE DEF IInv
<1>1. ASSUME NEW t \in Threads, NEW f \in Functors, RunInLoop(t, f)
      PROVE  IInv'
  <2> USE <1>1 DEF RunInLoop, QueueInLoop
  <2>1. TypeOK' BY DEF TypeOK, loopVars, Locations
  <2>2. BatchInv' BY DEF BatchInv, loopVars
  <2>3. \E u \in Threads : wakeupDue'[u] BY DueSet
  <2>4. QED BY <2>1, <2>2, <2>3 DEF NoLostWakeup, NoLostQuit
<1>2. ASSUME NEW t \in Threads, Quit(t)
      PROVE  IInv'
  <2> USE <1>2 DEF Quit
  <2>1. TypeOK' BY DEF TypeOK, loopVars, Locations
  <2>2. BatchInv' BY DEF BatchInv, loopVars
  <2>3. \E u \in Threads : wakeupDue'[u] BY DueSet
  <2>4. QED BY <2>1, <2>2, <2>3 DEF NoLostWakeup, NoLostQuit
<1>3. ASSUME NEW t \in Threads, Wakeup(t)
      PROVE  IInv'
  <2> USE <1>3 DEF Wakeup
  <2>1. TypeOK' BY DEF TypeOK, loopVars, Locations
  <2>2. BatchInv' BY DEF BatchInv, loopVars
  <2>3. QED BY <2>1, <2>2 DEF NoLostWakeup, NoLostQuit, Pollable
<1>4. ASSUME NEW f \in Functors, LoopQueueInLoop(f)
      PROVE  IInv'
  <2> USE <1>4 DEF LoopQueueInLoop, NeedsWakeup
  <2>1. TypeOK' BY DEF TypeOK, loopVars, Locations
  <2>2. BatchInv' BY DEF BatchInv, loopVars
  <2>3. NoLostQuit' BY DEF NoLostQuit, InUserCode, loopVars
  <2>4. Range(pendingFunctors_') = Range(pendingFunctors_) \cup {f}
    BY RangeAppend DEF TypeOK
  <2>5. NoLostWakeup'
    <3>1. CASE pc = "out"
      BY <3>1, <2>4 DEF NoLostWakeup, loopVars
    <3>2. CASE pc = "handle"
      BY <3>2 DEF NoLostWakeup, loopVars
    <3>3. CASE pc = "run"
      BY <3>3 DEF NoLostWakeup, BatchInv, loopVars
    <3>4. QED BY <3>1, <3>2, <3>3 DEF InUserCode
  <2>6. QED BY <2>1, <2>2, <2>3, <2>5
<1>5. CASE LoopQuit
  <2> USE <1>5 DEF LoopQuit
  <2>1. TypeOK' BY DEF TypeOK, loopVars, Locations
  <2>2. BatchInv' BY DEF BatchInv, loopVars
  <2>3. NoLostQuit' BY DEF NoLostQuit, InUserCode, loopVars
  <2>4. NoLostWakeup' BY DEF NoLostWakeup, loopVars
  <2>5. QED BY <2>1, <2>2, <2>3, <2>4
<1>6. CASE Loop
  <2> USE <1>6 DEF Loop, looping_
  <2>1. TypeOK' BY DEF TypeOK, Locations
  <2>2. BatchInv' BY DEF BatchInv
  <2>3. QED BY <2>1, <2>2 DEF NoLostWakeup, NoLostQuit
<1>7. CASE TestQuit
  <2> USE <1>7 DEF TestQuit, sharedVars
  <2>1. TypeOK' BY DEF TypeOK, Locations
  <2>2. BatchInv' BY DEF BatchInv
  <2>3. QED BY <2>1, <2>2 DEF NoLostWakeup, NoLostQuit
<1>8. CASE PollReturns
  <2> USE <1>8 DEF PollReturns, Resized, sharedVars
  <2>1. PICK active \in SUBSET Pollable :
          /\ activeChannels_' = active
          /\ eventsSize' = IF Cardinality(active) = eventsSize
                             THEN 2 * eventsSize ELSE eventsSize
    OBVIOUS
  <2>2. active \subseteq Channels \cup {WakeupChannel}
    BY DEF Pollable, TypeOK
  <2>3. eventsSize' \in Nat \ {0}
    BY <2>1 DEF TypeOK
  <2>4. TypeOK' BY <2>1, <2>2, <2>3 DEF TypeOK, Locations
  <2>5. BatchInv' BY DEF BatchInv
  <2>6. QED BY <2>4, <2>5 DEF NoLostWakeup, NoLostQuit
<1>9. CASE PollInterrupted
  <2> USE <1>9 DEF PollInterrupted, sharedVars
  <2>1. TypeOK' BY DEF TypeOK, Locations
  <2>2. BatchInv' BY DEF BatchInv
  <2>3. QED BY <2>1, <2>2 DEF NoLostWakeup, NoLostQuit
<1>10. ASSUME NEW c \in Channels \cup {WakeupChannel}, HandleEvent(c)
       PROVE  IInv'
  <2> USE <1>10 DEF HandleEvent
  <2>1. TypeOK' BY DEF TypeOK, Locations
  <2>2. BatchInv' BY DEF BatchInv
  <2>3. QED BY <2>1, <2>2 DEF NoLostWakeup, NoLostQuit
<1>11. CASE EndHandling
  <2> USE <1>11 DEF EndHandling, sharedVars
  <2>1. TypeOK' BY DEF TypeOK, Locations
  <2>2. BatchInv' BY DEF BatchInv
  <2>3. QED BY <2>1, <2>2 DEF NoLostWakeup, NoLostQuit
<1>12. CASE Swap
  <2> USE <1>12 DEF Swap
  <2>1. TypeOK' BY DEF TypeOK, Locations
  <2>2. BatchInv' BY DEF BatchInv
  <2>3. QED BY <2>1, <2>2, RangeEmpty DEF NoLostWakeup, NoLostQuit
<1>13. CASE CallFunctor
  <2> USE <1>13 DEF CallFunctor, sharedVars
  <2>1. TypeOK' BY DEF TypeOK, Locations
  <2>2. BatchInv' BY DEF BatchInv
  <2>3. QED BY <2>1, <2>2 DEF NoLostWakeup, NoLostQuit
<1>14. CASE FunctorReturns
  <2> USE <1>14 DEF FunctorReturns, sharedVars
  <2>1. TypeOK' BY DEF TypeOK, Locations
  <2>2. BatchInv' BY DEF BatchInv
  <2>3. QED BY <2>1, <2>2 DEF NoLostWakeup, NoLostQuit
<1>15. CASE EndFunctors
  <2> USE <1>15 DEF EndFunctors, sharedVars
  <2>1. TypeOK' BY DEF TypeOK, Locations
  <2>2. BatchInv' BY DEF BatchInv
  <2>3. QED BY <2>1, <2>2 DEF NoLostWakeup, NoLostQuit
<1>16. ASSUME NEW c \in Channels, IoEvent(c)
       PROVE  IInv'
  <2> USE <1>16 DEF IoEvent, loopVars, sharedVars
  <2>1. TypeOK' BY DEF TypeOK, Locations
  <2>2. BatchInv' BY DEF BatchInv
  <2>3. QED BY <2>1, <2>2 DEF NoLostWakeup, NoLostQuit, Pollable
<1>17. CASE UNCHANGED vars
  <2> USE <1>17 DEF vars, loopVars, sharedVars
  <2>1. TypeOK' BY DEF TypeOK
  <2>2. BatchInv' BY DEF BatchInv
  <2>3. QED BY <2>1, <2>2 DEF NoLostWakeup, NoLostQuit, Pollable
<1>18. QED
  BY <1>1, <1>2, <1>3, <1>4, <1>5, <1>6, <1>7, <1>8, <1>9, <1>10, <1>11,
     <1>12, <1>13, <1>14, <1>15, <1>16, <1>17
     DEF Next, LoopStep, UserStep, ThreadStep

\* The inductive invariant holds in every reachable state of an EventLoop.
THEOREM InductiveInvariant == SafetySpec => []IInv
BY InitIInv, NextIInv, PTL DEF SafetySpec

\* Type correctness of the EventLoop model.
THEOREM TypeCorrect == Spec => []TypeOK
BY InductiveInvariant, PTL DEF IInv, Spec

\* Whatever the number of threads calling queueInLoop, the loop thread never
\* goes to sleep in poll over a callback nobody will wake it for.
THEOREM WakeupIsNeverLost == Spec => []NoLostWakeup
BY InductiveInvariant, PTL DEF IInv, Spec

\* A loop thread asleep in poll after quit() has been called is woken.
THEOREM QuitIsNeverLost == Spec => []NoLostQuit
BY InductiveInvariant, PTL DEF IInv, Spec

\* Both together: nothing that another thread announces to the loop is lost.
THEOREM NothingIsLost == Spec => []NothingLost
BY WakeupIsNeverLost, QuitIsNeverLost, PTL DEF NothingLost

-----------------------------------------------------------------------------
(* Refinement of FunctorQueue. *)

\* A push_back onto pendingFunctors_ of a callback that is not queued is a
\* Submit step of the abstract queue.
LEMMA PushIsSubmit ==
  ASSUME TypeOK, NEW f \in Functors, f \notin Queued,
         pendingFunctors_' = Append(pendingFunctors_, f),
         functors' = functors, running' = running
  PROVE  FQ!Submit(f)
<1>1. functors \o pendingFunctors_' = Append(functors \o pendingFunctors_, f)
  BY ConcatAppend DEF TypeOK
<1>2. Range(functors \o pendingFunctors_) = Queued
  BY RangeConcat DEF TypeOK, Queued
<1>3. QED
  BY <1>1, <1>2 DEF FQ!Submit, FQ!Range, Range

\* Every step of the loop, of its callers and of the kernel is a step of the
\* abstract queue or leaves it alone.
LEMMA StepRefines == IInv /\ [Next]_vars => [FQ!QNext]_(FQ!qvars)
<1> SUFFICES ASSUME IInv, [Next]_vars PROVE [FQ!QNext]_(FQ!qvars)
  OBVIOUS
<1>0. TypeOK /\ BatchInv
  BY DEF IInv
<1>1. ASSUME NEW t \in Threads, NEW f \in Functors, RunInLoop(t, f)
      PROVE  FQ!QNext
  BY <1>0, <1>1, PushIsSubmit DEF RunInLoop, QueueInLoop, loopVars, FQ!QNext
<1>2. ASSUME NEW f \in Functors, LoopQueueInLoop(f)
      PROVE  FQ!QNext
  BY <1>0, <1>2, PushIsSubmit DEF LoopQueueInLoop, loopVars, FQ!QNext
<1>3. CASE Swap
  <2>1. functors = <<>> /\ running' = running
    BY <1>0, <1>3 DEF Swap, BatchInv
  <2>2. functors' \o pendingFunctors_' = functors \o pendingFunctors_
    BY <1>0, <1>3, <2>1, ConcatEmpty DEF Swap, TypeOK
  <2>3. QED
    BY <2>1, <2>2 DEF FQ!qvars
<1>4. CASE CallFunctor
  <2>1. /\ functors \o pendingFunctors_ # <<>>
        /\ Head(functors \o pendingFunctors_) = running'
        /\ functors' \o pendingFunctors_' = Tail(functors \o pendingFunctors_)
    BY <1>0, <1>4, ConcatHeadTail DEF CallFunctor, sharedVars, TypeOK
  <2>2. QED
    BY <1>4, <2>1 DEF CallFunctor, FQ!QNext, FQ!Call
<1>5. CASE FunctorReturns
  BY <1>5 DEF FunctorReturns, sharedVars, FQ!QNext, FQ!Return
<1>6. ASSUME \/ \E t \in Threads : Quit(t) \/ Wakeup(t)
             \/ LoopQuit \/ Loop \/ TestQuit \/ PollReturns \/ PollInterrupted
             \/ \E c \in Channels \cup {WakeupChannel} : HandleEvent(c)
             \/ EndHandling \/ EndFunctors
             \/ \E c \in Channels : IoEvent(c)
             \/ UNCHANGED vars
      PROVE  UNCHANGED FQ!qvars
  <2>1. UNCHANGED <<functors, pendingFunctors_, running>>
    BY <1>6
       DEF Quit, Wakeup, LoopQuit, Loop, TestQuit, PollReturns, PollInterrupted,
           HandleEvent, EndHandling, EndFunctors, IoEvent, vars, loopVars,
           sharedVars
  <2>2. QED
    BY <2>1 DEF FQ!qvars
<1>7. QED
  BY <1>1, <1>2, <1>3, <1>4, <1>5, <1>6
     DEF Next, LoopStep, UserStep, ThreadStep

\* The EventLoop, with its swap of two vectors and its callers in other
\* threads, calls the queued callbacks once each and in queueing order.
THEOREM LoopImplementsQueue == Spec => ImplementsFunctorQueue
<1>1. Init => FQ!QInit
  BY ConcatEmpty DEF Init, FQ!QInit
<1>2. QED
  BY <1>1, StepRefines, InductiveInvariant, PTL
     DEF Spec, SafetySpec, ImplementsFunctorQueue, FQ!QSpec

-----------------------------------------------------------------------------
(* The loop of an EventLoopThread. *)

\* Whatever threadFunc, the owner and the threads that post do is, for the loop, a
\* step that EventLoop allows or none at all.
LEMMA ThreadStepIsLoopStep == [TNext]_allVars => [Next]_vars
<1> SUFFICES ASSUME [TNext]_allVars PROVE Next \/ UNCHANGED vars
  OBVIOUS
<1>1. ASSUME \/ StartLoop \/ StartLoopReturns \/ DtorTest \/ DtorJoin
             \/ Publish \/ Unpublish \/ Destroy
      PROVE  UNCHANGED vars
  BY <1>1 DEF StartLoop, StartLoopReturns, DtorTest, DtorJoin, Publish, Unpublish, Destroy
<1>2. CASE DtorQuit
  <2>1. Quit(Owner) \/ UNCHANGED vars
    BY <1>2 DEF DtorQuit
  <2> QED BY <2>1, OwnerAssumption DEF Next, ThreadStep
<1>3. CASE EnterLoop
  BY <1>3 DEF EnterLoop, Next
<1>4. ASSUME LoopStep \/ PollInterrupted \/ InsideUserStep PROVE Next
  BY <1>4 DEF InsideUserStep, Next
<1>5. ASSUME NEW t \in Threads, Post(t) \/ Wakeup(t) PROVE Next
  BY <1>5 DEF Post, Next, ThreadStep
<1>6. ASSUME NEW c \in Channels, IoEvent(c) PROVE Next
  BY <1>6 DEF Next
<1>7. CASE UNCHANGED allVars
  BY <1>7 DEF allVars
<1> QED BY <1>1, <1>2, <1>3, <1>4, <1>5, <1>6, <1>7 DEF TNext, ThreadFunc

\* EventLoopThread uses its EventLoop as EventLoop expects to be used, so that what
\* is proved of the loop alone holds of it here.
THEOREM ThreadUsesLoop == TSpec => SafetySpec
<1>1. TInit => Init
  BY DEF TInit
<1> QED BY <1>1, ThreadStepIsLoopStep, PTL DEF TSpec, SafetySpec

\* No callback and no quit(), the destructor's included, is lost on the loop of an
\* EventLoopThread, and its callbacks are called once each and in queueing order.
THEOREM ThreadLosesNothing == TSpec => []NothingLost /\ ImplementsFunctorQueue
<1>1. IInv => NothingLost
  BY DEF IInv, NothingLost
<1>2. Init => FQ!QInit
  BY ConcatEmpty DEF Init, FQ!QInit
<1> QED BY <1>1, <1>2, StepRefines, ThreadUsesLoop, InductiveInvariant, PTL
        DEF SafetySpec, ImplementsFunctorQueue, FQ!QSpec

\* loop_ is published while there is a loop to stop, and the thread is inside loop()
\* only then; startLoop() has returned only after that; the owner that has joined
\* the thread, or found loop_ reset, leaves no loop behind.
StageInv ==
  /\ loop_ <=> stage \in {"published", "looping"}
  /\ looping_ => stage = "looping"
  /\ owner = "new" => stage = "unstarted"
  /\ owner \in {"running", "quitting", "joining"} => stage \notin {"unstarted", "init"}
  /\ owner \in {"joined", "crashed"} => stage \in {"unpublished", "ended"}
  /\ SkipsOnlyWhenStopped

\* The types of the three variables that EventLoopThread adds.
StageType ==
  /\ stage \in {"unstarted", "init", "published", "looping", "unpublished", "ended"}
  /\ loop_ \in BOOLEAN
  /\ owner \in {"new", "waiting", "running", "quitting", "joining", "joined", "skipped", "crashed"}

\* At first the thread is not started.
LEMMA InitStage == TInit => StageType /\ StageInv
BY DEF TInit, Init, StageType, StageInv, looping_, SkipsOnlyWhenStopped

\* Every step of the thread, of its owner and of those who post keeps this.
LEMMA NextStage == StageType /\ StageInv /\ [TNext]_allVars => StageType' /\ StageInv'
<1> SUFFICES ASSUME StageType, StageInv, [TNext]_allVars PROVE StageType' /\ StageInv'
  OBVIOUS
<1> USE DEF StageType, StageInv, looping_, SkipsOnlyWhenStopped
<1>1. CASE StartLoop \/ StartLoopReturns \/ DtorTest \/ DtorJoin
  <2>1. CASE StartLoop
    BY <2>1 DEF StartLoop, vars, loopVars
  <2>2. CASE StartLoopReturns
    BY <2>2 DEF StartLoopReturns, vars, loopVars
  <2>3. CASE DtorTest
    <3>1. /\ UNCHANGED <<stage, loop_, pc>> /\ owner \in {"new", "running"}
          /\ owner' = IF stage \in {"published", "looping"} THEN "quitting" ELSE "skipped"
      BY <2>3 DEF DtorTest, vars, loopVars
    <3> QED BY <3>1
  <2>4. CASE DtorJoin
    BY <2>4 DEF DtorJoin, vars, loopVars
  <2> QED BY <1>1, <2>1, <2>2, <2>3, <2>4
<1>2. CASE DtorQuit
  <2>1. /\ UNCHANGED <<stage, loop_, pc>> /\ owner = "quitting"
        /\ owner' = IF stage \in {"published", "looping"} THEN "joining" ELSE "crashed"
    BY <1>2 DEF DtorQuit, Quit, vars, loopVars
  <2> QED BY <2>1
<1>3. CASE Publish \/ Unpublish \/ Destroy
  <2>1. CASE Publish
    <3>1. stage = "init" /\ stage' = "published" /\ loop_' = TRUE /\ UNCHANGED <<owner, pc>>
      BY <2>1 DEF Publish, vars, loopVars
    <3> QED BY <3>1
  <2>2. CASE Unpublish
    <3>1. /\ stage = "looping" /\ stage' = "unpublished" /\ loop_' = FALSE
          /\ pc = "out" /\ UNCHANGED <<owner, pc>>
      BY <2>2 DEF Unpublish, vars, loopVars
    <3> QED BY <3>1
  <2>3. CASE Destroy
    <3>1. stage = "unpublished" /\ stage' = "ended" /\ UNCHANGED <<loop_, owner, pc>>
      BY <2>3 DEF Destroy, vars, loopVars
    <3> QED BY <3>1
  <2> QED BY <1>3, <2>1, <2>2, <2>3
<1>4. CASE EnterLoop
  BY <1>4 DEF EnterLoop, Loop
<1>5. ASSUME UNCHANGED threadVars, pc # "out" \/ pc' = pc PROVE StageType' /\ StageInv'
  BY <1>5 DEF threadVars
<1>6. ASSUME LoopStep PROVE pc # "out"
  BY <1>6 DEF LoopStep, TestQuit, PollReturns, HandleEvent, EndHandling, Swap, CallFunctor,
              FunctorReturns, EndFunctors
<1>7. ASSUME PollInterrupted PROVE pc # "out"
  BY <1>7 DEF PollInterrupted
<1>8. ASSUME InsideUserStep PROVE pc' = pc /\ UNCHANGED threadVars
  BY <1>8 DEF InsideUserStep, UserStep, LoopQueueInLoop, LoopQuit, loopVars
<1>9. ASSUME NEW t \in Threads, Post(t) PROVE pc' = pc /\ UNCHANGED threadVars
  BY <1>9 DEF Post, RunInLoop, QueueInLoop, loopVars
<1>10. ASSUME NEW t \in Threads, Wakeup(t) PROVE pc' = pc
  BY <1>10 DEF Wakeup, loopVars
<1>11. ASSUME NEW c \in Channels, IoEvent(c) PROVE pc' = pc
  BY <1>11 DEF IoEvent, loopVars
<1>12. ASSUME UNCHANGED allVars PROVE pc' = pc /\ UNCHANGED threadVars
  BY <1>12 DEF allVars, vars, loopVars
<1> HIDE DEF StageType, StageInv
<1> QED BY <1>1, <1>2, <1>3, <1>4, <1>5, <1>6, <1>7, <1>8, <1>9, <1>10, <1>11, <1>12
        DEF TNext, ThreadFunc

\* ~EventLoopThread: it passes over quit() and join() only where there is no loop to
\* stop, and once it has joined the thread, or found loop_ reset between its test and
\* its use, the thread has left loop() for good.
THEOREM DtorLeavesNoLoop ==
  TSpec => [](TTypeOK /\ SkipsOnlyWhenStopped /\ (owner \in {"joined", "crashed"} => ~looping_))
<1>1. StageInv => SkipsOnlyWhenStopped /\ (owner \in {"joined", "crashed"} => ~looping_)
  BY DEF StageInv
<1>2. IInv /\ StageType => TTypeOK
  BY DEF IInv, StageType, TTypeOK
<1> QED BY <1>1, <1>2, InitStage, NextStage, ThreadUsesLoop, InductiveInvariant, PTL DEF TSpec
=============================================================================
