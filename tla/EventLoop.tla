------------------------------ MODULE EventLoop ------------------------------
(***************************************************************************)
(* muduo::net::EventLoop (src/muduo/net/EventLoop.cpp) with the part of    *)
(* EPollPoller::poll it blocks in.  One loop thread runs                   *)
(*                                                                         *)
(*   while (!quit_) { poll; handle active channels; doPendingFunctors; }   *)
(*                                                                         *)
(* and any other thread may call queueInLoop, runInLoop or quit.  The two  *)
(* sides share pendingFunctors_ (under mutex_), quit_ (a plain bool) and   *)
(* the eventfd wakeupFd_.  kPollTimeMs is -1: poll never times out, so a   *)
(* callback that is queued without a wakeup may wait forever.              *)
(***************************************************************************)
EXTENDS Naturals, Sequences, FiniteSets, Functions

CONSTANTS
  Threads,               \* threads other than the loop thread
  Functors,              \* names of queued callbacks
  Channels,              \* channels registered besides wakeupChannel_
  WakeupChannel,         \* wakeupChannel_
  NULL,
  kInitEventListSize     \* EPollPoller::kInitEventListSize

ASSUME NamesAssumption ==
  /\ NULL \notin Functors \cup Channels \cup {WakeupChannel}
  /\ WakeupChannel \notin Channels

ASSUME SizeAssumption == kInitEventListSize \in Nat \ {0}

VARIABLES
  pc,                      \* where the loop thread is, see Locations
  quit_,
  callingPendingFunctors_,
  pendingFunctors_,        \* guarded by mutex_
  functors,                \* the local vector of doPendingFunctors, from i on
  running,                 \* functors[i] while it is being called
  wakeupFd_,               \* the eventfd counter is not zero (it is readable)
  activeChannels_,         \* active channels not yet dispatched
  currentActiveChannel_,
  ready,                   \* channels whose fd has a pending event
  eventsSize,              \* events_.size() of the EPollPoller
  wakeupDue,               \* per thread: it has published its change and has
                           \* not yet called wakeup()
  silent                   \* history: callbacks the loop thread queued while
                           \* it was outside loop()

loopVars   == <<pc, callingPendingFunctors_, functors, running,
                activeChannels_, currentActiveChannel_, eventsSize>>
sharedVars == <<quit_, pendingFunctors_, wakeupFd_, wakeupDue>>
vars       == <<loopVars, sharedVars, ready, silent>>

\* "out": not inside loop(); "while": at while (!quit_); "poll": in
\* epoll_wait; "handle": dispatching active channels; "swap": in
\* doPendingFunctors, before the swap; "run": calling the swapped functors.
Locations == {"out", "while", "poll", "handle", "swap", "run"}

looping_ == pc # "out"

Queued == Range(pendingFunctors_) \cup Range(functors)

Init ==
  /\ pc = "out"
  /\ quit_ = FALSE
  /\ callingPendingFunctors_ = FALSE
  /\ pendingFunctors_ = <<>>
  /\ functors = <<>>
  /\ running = NULL
  /\ wakeupFd_ = FALSE
  /\ activeChannels_ = {}
  /\ currentActiveChannel_ = NULL
  /\ ready = {}
  /\ eventsSize = kInitEventListSize
  /\ wakeupDue = [t \in Threads |-> FALSE]
  /\ silent = {}

-----------------------------------------------------------------------------
(* Other threads. *)

\* queueInLoop from another thread, first half: push_back under the lock.
\* The lock is released before wakeup() is called.
QueueInLoop(t, f) ==
  /\ ~wakeupDue[t]
  /\ f \notin Queued
  /\ pendingFunctors_' = Append(pendingFunctors_, f)
  /\ wakeupDue' = [wakeupDue EXCEPT ![t] = TRUE]
  /\ UNCHANGED <<loopVars, quit_, wakeupFd_, ready, silent>>

\* runInLoop: another thread queues.  (The loop thread calls the callback on
\* the spot, which is user code of the loop thread, see below.)
RunInLoop(t, f) == QueueInLoop(t, f)

\* Mutant of Quit: the wakeup is forgotten.
QuitSilently(t) ==
  /\ ~wakeupDue[t]
  /\ quit_' = TRUE
  /\ UNCHANGED <<loopVars, pendingFunctors_, wakeupFd_, wakeupDue, ready, silent>>

\* quit from another thread, first half.
Quit(t) ==
  /\ ~wakeupDue[t]
  /\ quit_' = TRUE
  /\ wakeupDue' = [wakeupDue EXCEPT ![t] = TRUE]
  /\ UNCHANGED <<loopVars, pendingFunctors_, wakeupFd_, ready, silent>>

\* Second half of both: wakeup() writes to the eventfd.
Wakeup(t) ==
  /\ wakeupDue[t]
  /\ wakeupDue' = [wakeupDue EXCEPT ![t] = FALSE]
  /\ wakeupFd_' = TRUE
  /\ UNCHANGED <<loopVars, quit_, pendingFunctors_, ready, silent>>

-----------------------------------------------------------------------------
(* User code in the loop thread: around loop(), in the event callback of a *)
(* channel, in a functor.  It may call queueInLoop and quit as often as it *)
(* likes; runInLoop is an ordinary call there.                             *)

InUserCode ==
  \/ pc = "out"
  \/ pc = "handle" /\ currentActiveChannel_ \in Channels
  \/ pc = "run" /\ running # NULL

\* Mutant of NeedsWakeup: the loop thread never wakes itself.
NeverWakesItself == FALSE

\* When the loop thread itself queues: is a wakeup needed?
NeedsWakeup == callingPendingFunctors_

\* No other thread can tell the push from the wakeup, since only this thread
\* reads the eventfd and only this thread swaps.
LoopQueueInLoop(f) ==
  /\ InUserCode
  /\ f \notin Queued
  /\ pendingFunctors_' = Append(pendingFunctors_, f)
  /\ wakeupFd_' = (wakeupFd_ \/ NeedsWakeup)
  /\ silent' = IF pc = "out" THEN silent \cup {f} ELSE silent
  /\ UNCHANGED <<loopVars, quit_, wakeupDue, ready>>

LoopQuit ==
  /\ InUserCode
  /\ quit_' = TRUE
  /\ UNCHANGED <<loopVars, pendingFunctors_, wakeupFd_, wakeupDue, ready, silent>>

-----------------------------------------------------------------------------
(* loop() *)

\* assert(!looping_); looping_ = true; quit_ = false;
Loop ==
  /\ ~looping_
  /\ pc' = "while"
  /\ quit_' = FALSE
  /\ UNCHANGED <<callingPendingFunctors_, functors, running, activeChannels_,
                 currentActiveChannel_, eventsSize, pendingFunctors_,
                 wakeupFd_, wakeupDue, ready, silent>>

\* while (!quit_) { activeChannels_.clear(); ...
TestQuit ==
  /\ pc = "while"
  /\ pc' = IF quit_ THEN "out" ELSE "poll"
  /\ activeChannels_' = IF quit_ THEN activeChannels_ ELSE {}
  /\ UNCHANGED <<callingPendingFunctors_, functors, running,
                 currentActiveChannel_, eventsSize, sharedVars, ready, silent>>

Pollable == ready \cup (IF wakeupFd_ THEN {WakeupChannel} ELSE {})

\* Mutant of Resized: the list shrinks.
ResizedDown(active) == IF Cardinality(active) = eventsSize THEN eventsSize \div 2
                                                           ELSE eventsSize

\* A full events_ is doubled.
Resized(active) == IF Cardinality(active) = eventsSize THEN 2 * eventsSize
                                                       ELSE eventsSize

\* epoll_wait returns at most events_.size() of the ready channels.
PollReturns ==
  /\ pc = "poll"
  /\ Pollable # {}
  /\ \E active \in SUBSET Pollable :
       /\ \/ active = Pollable /\ Cardinality(Pollable) <= eventsSize
          \/ Cardinality(active) = eventsSize
       /\ activeChannels_' = active
       /\ eventsSize' = Resized(active)
  /\ pc' = "handle"
  /\ UNCHANGED <<callingPendingFunctors_, functors, running,
                 currentActiveChannel_, sharedVars, ready, silent>>

\* A signal interrupts epoll_wait while nothing is ready: EINTR is logged and
\* the iteration goes on with no active channel.
PollInterrupted ==
  /\ pc = "poll"
  /\ Pollable = {}
  /\ pc' = "handle"
  /\ UNCHANGED <<callingPendingFunctors_, functors, running, activeChannels_,
                 currentActiveChannel_, eventsSize, sharedVars, ready, silent>>

\* handleEvent of the next active channel.  handleRead drains the eventfd; the
\* callback of another channel may or may not consume what made it ready.
HandleEvent(c) ==
  /\ pc = "handle"
  /\ c \in activeChannels_
  /\ activeChannels_' = activeChannels_ \ {c}
  /\ currentActiveChannel_' = c
  /\ IF c = WakeupChannel THEN wakeupFd_' = FALSE /\ UNCHANGED ready
                          ELSE ready' \in {ready, ready \ {c}} /\ UNCHANGED wakeupFd_
  /\ UNCHANGED <<pc, callingPendingFunctors_, functors, running, eventsSize,
                 quit_, pendingFunctors_, wakeupDue, silent>>

\* The dispatch loop is over; doPendingFunctors sets callingPendingFunctors_.
EndHandling ==
  /\ pc = "handle"
  /\ activeChannels_ = {}
  /\ currentActiveChannel_' = NULL
  /\ callingPendingFunctors_' = TRUE
  /\ pc' = "swap"
  /\ UNCHANGED <<functors, running, activeChannels_, eventsSize, sharedVars,
                 ready, silent>>

\* Mutant of Swap: the vector is copied, not swapped.
SwapCopies ==
  /\ pc = "swap"
  /\ functors' = pendingFunctors_
  /\ silent' = {}
  /\ pc' = "run"
  /\ UNCHANGED <<callingPendingFunctors_, running, activeChannels_,
                 currentActiveChannel_, eventsSize, sharedVars, ready>>

\* functors.swap(pendingFunctors_) under the lock.
Swap ==
  /\ pc = "swap"
  /\ functors' = pendingFunctors_
  /\ pendingFunctors_' = <<>>
  /\ silent' = {}
  /\ pc' = "run"
  /\ UNCHANGED <<callingPendingFunctors_, running, activeChannels_,
                 currentActiveChannel_, eventsSize, quit_, wakeupFd_,
                 wakeupDue, ready>>

CallFunctor ==
  /\ pc = "run"
  /\ running = NULL
  /\ functors # <<>>
  /\ running' = Head(functors)
  /\ functors' = Tail(functors)
  /\ UNCHANGED <<pc, callingPendingFunctors_, activeChannels_,
                 currentActiveChannel_, eventsSize, sharedVars, ready, silent>>

FunctorReturns ==
  /\ pc = "run"
  /\ running # NULL
  /\ running' = NULL
  /\ UNCHANGED <<pc, callingPendingFunctors_, functors, activeChannels_,
                 currentActiveChannel_, eventsSize, sharedVars, ready, silent>>

\* Mutant of EndFunctors: functors are called until none is pending.
EndFunctorsWhenNone ==
  /\ pc = "run"
  /\ running = NULL
  /\ functors = <<>>
  /\ callingPendingFunctors_' = FALSE
  /\ pc' = IF pendingFunctors_ = <<>> THEN "while" ELSE "swap"
  /\ UNCHANGED <<functors, running, activeChannels_, currentActiveChannel_,
                 eventsSize, sharedVars, ready, silent>>

EndFunctors ==
  /\ pc = "run"
  /\ running = NULL
  /\ functors = <<>>
  /\ callingPendingFunctors_' = FALSE
  /\ pc' = "while"
  /\ UNCHANGED <<functors, running, activeChannels_, currentActiveChannel_,
                 eventsSize, sharedVars, ready, silent>>

-----------------------------------------------------------------------------
\* The kernel: something happens on a registered fd.
IoEvent(c) ==
  /\ c \notin ready
  /\ ready' = ready \cup {c}
  /\ UNCHANGED <<loopVars, sharedVars, silent>>

\* What the loop thread does by itself once it is inside loop().
LoopStep ==
  \/ TestQuit
  \/ PollReturns
  \/ \E c \in Channels \cup {WakeupChannel} : HandleEvent(c)
  \/ EndHandling
  \/ Swap
  \/ CallFunctor
  \/ FunctorReturns
  \/ EndFunctors

UserStep == (\E f \in Functors : LoopQueueInLoop(f)) \/ LoopQuit

ThreadStep(t) ==
  \/ \E f \in Functors : RunInLoop(t, f)
  \/ Quit(t)
  \/ Wakeup(t)

Next ==
  \/ Loop
  \/ LoopStep
  \/ UserStep
  \/ PollInterrupted
  \/ \E t \in Threads : ThreadStep(t)
  \/ \E c \in Channels : IoEvent(c)

\* Every thread keeps running: the loop thread inside loop() (callbacks
\* return), and a thread that has published its change calls wakeup().
Fairness == WF_vars(LoopStep) /\ \A t \in Threads : WF_vars(Wakeup(t))

SafetySpec == Init /\ [][Next]_vars

Spec == SafetySpec /\ Fairness

-----------------------------------------------------------------------------
(* Properties. *)

TypeOK ==
  /\ pc \in Locations
  /\ quit_ \in BOOLEAN
  /\ callingPendingFunctors_ \in BOOLEAN
  /\ pendingFunctors_ \in Seq(Functors)
  /\ functors \in Seq(Functors)
  /\ running \in Functors \cup {NULL}
  /\ wakeupFd_ \in BOOLEAN
  /\ activeChannels_ \in SUBSET (Channels \cup {WakeupChannel})
  /\ currentActiveChannel_ \in Channels \cup {WakeupChannel, NULL}
  /\ ready \in SUBSET Channels
  /\ eventsSize \in Nat \ {0}
  /\ wakeupDue \in [Threads -> BOOLEAN]
  /\ silent \in SUBSET Functors

\* No lost wakeup (queueInLoop, handleRead, doPendingFunctors): whenever the
\* loop thread may still go to sleep in poll before its next swap, and a
\* callback is pending that was not queued from outside loop(), the eventfd is
\* readable or some thread is about to make it readable.
NoLostWakeup ==
  (pc \notin {"handle", "swap"} /\ Range(pendingFunctors_) \ silent # {})
     => wakeupFd_ \/ \E t \in Threads : wakeupDue[t]

\* The same for quit(): a loop thread blocked in poll after another thread's
\* quit() is about to be woken.
NoLostQuit ==
  (pc = "poll" /\ quit_) => Pollable # {} \/ \E t \in Threads : wakeupDue[t]

\* What queueInLoop() and quit() of other threads have announced reaches a loop
\* that sleeps, or is about to sleep, in poll.
NothingLost == NoLostWakeup /\ NoLostQuit

\* The callbacks are called one at a time, once, in queueing order: the swapped
\* vector followed by pendingFunctors_ is a FIFO queue.
FQ == INSTANCE FunctorQueue
        WITH queue <- functors \o pendingFunctors_, calling <- running

ImplementsFunctorQueue == FQ!QSpec

\* A callback queued on a looping loop is called, or the loop stops.
FunctorsAreCalled ==
  \A f \in Functors :
    (looping_ /\ f \in Queued \ silent) ~> (running = f \/ ~looping_)

\* A channel with a pending event is dispatched, or the loop stops, even when
\* functors queue functors for ever (the comment above queueInLoop: the loop
\* thread must not end up unable to handle IO events) and more channels are
\* ready than events_ has room for.
IoIsNotStarved ==
  \A c \in Channels :
    (looping_ /\ c \in ready) ~> (currentActiveChannel_ = c \/ ~looping_)
=============================================================================
