----------------------------- MODULE TimerQueue -----------------------------
(***************************************************************************)
(* muduo::net::TimerQueue (src/muduo/net/TimerQueue.cc) and Timer: timers  *)
(* of one EventLoop multiplexed on one timerfd.  addTimer and cancel may   *)
(* be called from any thread; they hand addTimerInLoop and cancelInLoop to *)
(* runInLoop, which queues them (another thread) or runs them on the spot  *)
(* (the loop thread).                                                      *)
(*                                                                         *)
(* Time is kept relative: remaining[a] counts the ticks until the timer at *)
(* address a is due, so that no clock has to be bounded.                   *)
(***************************************************************************)
EXTENDS Naturals, Sequences

CONSTANTS
  Addrs,        \* addresses `new Timer` can return; freed ones are reused
  Delays,       \* delays a caller of runAt/runAfter/runEvery asks for, in ticks
  Intervals,    \* intervals; 0 is a one-shot timer
  MaxSequence,  \* bound on the timers created
  MaxPending,   \* bound on the functors queued on the loop
  Never         \* "timerfd disarmed"

ASSUME ConstantsAssumption ==
  /\ Delays \subseteq Nat
  /\ Intervals \subseteq Nat
  /\ MaxSequence \in Nat
  /\ MaxPending \in Nat
  /\ Never \notin Nat

VARIABLES
  (* the heap of Timer objects *)
  alive,          \* addresses of Timer objects not yet deleted
  sequence,       \* Timer::sequence_, per address
  remaining,      \* Timer::expiration_, in ticks from now, 0 once it is due
  interval,       \* Timer::interval_
  numCreated,     \* Timer::s_numCreated_
  (* the TimerQueue *)
  timers_,        \* addresses in the set ordered by expiration
  activeTimers_,  \* set of <<address, sequence>>
  cancelingTimers_,
  callingExpired, \* callingExpiredTimers_: handleRead is between getExpired
                  \* and reset
  expired,        \* the local vector of handleRead
  toRun,          \* the part of it not yet called
  since,          \* ticks since the `now` of handleRead (at most MaxInterval)
  (* the timerfd *)
  armed,          \* ticks until it expires, or Never
  readable,       \* it has expired and was not read since
  polled,         \* poll has reported it; its handleRead will be called
  (* callers *)
  pending,        \* addTimerInLoop and cancelInLoop queued on the loop
  returning,      \* timers queued by an addTimer that has not yet returned
  ids,            \* the TimerIds callers hold
  (* history *)
  stopped,        \* timers that a cancelInLoop has found and stopped
  staleRead,      \* some addTimer read the sequence of a deleted Timer
  running         \* <<address, sequence>> of the callback being run, or <<>>

heapVars  == <<alive, sequence, remaining, interval, numCreated>>
queueVars == <<timers_, activeTimers_, cancelingTimers_, callingExpired,
               expired, toRun, since>>
fdVars    == <<armed, readable, polled>>
userVars  == <<pending, returning, ids>>
histVars  == <<stopped, staleRead, running>>
vars      == <<heapVars, queueVars, fdVars, userVars, histVars>>

TimerIds == Addrs \X (1..MaxSequence)

MaxInterval == CHOOSE i \in Intervals \cup {0} :
                 \A j \in Intervals \cup {0} : j <= i

Max2(x, y) == IF x >= y THEN x ELSE y

Minus(x, y) == IF x >= y THEN x - y ELSE 0

Id(a) == <<a, sequence[a]>>

Init ==
  /\ alive = {}
  /\ sequence = [a \in Addrs |-> 0]
  /\ remaining = [a \in Addrs |-> 0]
  /\ interval = [a \in Addrs |-> 0]
  /\ numCreated = 0
  /\ timers_ = {} /\ activeTimers_ = {} /\ cancelingTimers_ = {}
  /\ callingExpired = FALSE
  /\ expired = {} /\ toRun = {} /\ since = 0
  /\ armed = Never /\ readable = FALSE /\ polled = FALSE
  /\ pending = <<>> /\ returning = {} /\ ids = {}
  /\ stopped = {} /\ staleRead = FALSE /\ running = <<>>

-----------------------------------------------------------------------------
(* Helpers of the queue. *)

\* Mutant of ResetTimerfd: no minimal delay.
ResetTimerfdAtOnce(ticks) ==
  /\ armed' = ticks
  /\ readable' = FALSE

\* resetTimerfd: at least the minimal delay of howMuchTimeFromNow, one tick
\* here.  timerfd_settime also forgets an expiration that was not read.
ResetTimerfd(ticks) ==
  /\ armed' = Max2(ticks, 1)
  /\ readable' = FALSE

\* Mutant of EarliestChanged: the first timer of an empty queue is forgotten.
EarliestOfSomeChanged(delay) ==
  timers_ # {} /\ \A b \in timers_ : delay < remaining[b]

\* insert: is the new timer earlier than all in timers_?
EarliestChanged(delay) == \A b \in timers_ : delay < remaining[b]

\* addTimerInLoop of a timer due in `delay` ticks.
AddTimerInLoop(a, seq, delay) ==
  /\ timers_' = timers_ \cup {a}
  /\ activeTimers_' = activeTimers_ \cup {<<a, seq>>}
  /\ IF EarliestChanged(delay) THEN ResetTimerfd(delay)
                               ELSE UNCHANGED <<armed, readable>>

\* Mutant of EraseTimer: activeTimers_ keeps the timer.
EraseFromTimersOnly(id) ==
  /\ timers_' = timers_ \ {id[1]}
  /\ alive' = alive \ {id[1]}
  /\ stopped' = stopped \cup {id}
  /\ UNCHANGED <<activeTimers_, cancelingTimers_>>

\* cancelInLoop of a timer that is in the queue: it is erased and deleted.
EraseTimer(id) ==
  /\ timers_' = timers_ \ {id[1]}
  /\ activeTimers_' = activeTimers_ \ {id}
  /\ alive' = alive \ {id[1]}
  /\ stopped' = stopped \cup {id}
  /\ UNCHANGED cancelingTimers_

\* Mutant of NoteCancel: the timer is deleted although it is not in the queue.
DeleteAnyway(id) ==
  /\ alive' = alive \ {id[1]}
  /\ UNCHANGED <<timers_, activeTimers_, cancelingTimers_, stopped>>

\* cancelInLoop of a timer that is not there: if expired timers are being
\* called, the cancel is noted for reset().
NoteCancel(id) ==
  /\ cancelingTimers_' = IF callingExpired THEN cancelingTimers_ \cup {id}
                                           ELSE cancelingTimers_
  /\ stopped' = IF callingExpired /\ \E a \in expired \ toRun : Id(a) = id
                  THEN stopped \cup {id} ELSE stopped
  /\ UNCHANGED <<timers_, activeTimers_, alive>>

CancelInLoop(id) ==
  IF id \in activeTimers_ THEN EraseTimer(id) ELSE NoteCancel(id)

\* new Timer(cb, when, interval) at a free address.
NewTimer(a, delay, i) ==
  /\ a \in Addrs \ alive
  /\ numCreated < MaxSequence
  /\ numCreated' = numCreated + 1
  /\ alive' = alive \cup {a}
  /\ sequence' = [sequence EXCEPT ![a] = numCreated + 1]
  /\ remaining' = [remaining EXCEPT ![a] = delay]
  /\ interval' = [interval EXCEPT ![a] = i]

-----------------------------------------------------------------------------
(* Calls from other threads. *)

\* addTimer, up to the return of runInLoop.
AddTimer(a, delay, i) ==
  /\ Len(pending) < MaxPending
  /\ NewTimer(a, delay, i)
  /\ pending' = Append(pending, [op |-> "add", id |-> <<a, numCreated + 1>>])
  /\ returning' = returning \cup {<<a, numCreated + 1>>}
  /\ UNCHANGED <<queueVars, fdVars, ids, histVars>>

\* return TimerId(timer, timer->sequence()): the Timer is read after it was
\* handed to the loop thread.
AddTimerReturns(id) ==
  /\ id \in returning
  /\ returning' = returning \ {id}
  /\ IF id[1] \in alive /\ Id(id[1]) = id
       THEN ids' = ids \cup {id} /\ UNCHANGED staleRead
       ELSE staleRead' = TRUE /\ UNCHANGED ids
  /\ UNCHANGED <<heapVars, queueVars, fdVars, pending, stopped, running>>

Cancel(id) ==
  /\ id \in ids
  /\ Len(pending) < MaxPending
  /\ pending' = Append(pending, [op |-> "cancel", id |-> id])
  /\ UNCHANGED <<heapVars, queueVars, fdVars, returning, ids, histVars>>

-----------------------------------------------------------------------------
(* Calls from the loop thread: in any callback, timer callbacks included. *)

InCallback == ~callingExpired \/ running # <<>>

LoopAddTimer(a, delay, i) ==
  /\ InCallback
  /\ NewTimer(a, delay, i)
  /\ AddTimerInLoop(a, numCreated + 1, delay)
  /\ ids' = ids \cup {<<a, numCreated + 1>>}
  /\ UNCHANGED <<cancelingTimers_, callingExpired, expired, toRun, since, polled,
                 pending, returning, histVars>>

LoopCancel(id) ==
  /\ InCallback
  /\ id \in ids
  /\ CancelInLoop(id)
  /\ UNCHANGED <<sequence, remaining, interval, numCreated, callingExpired,
                 expired, toRun, since, fdVars, userVars, staleRead, running>>

-----------------------------------------------------------------------------
(* The loop thread. *)

\* doPendingFunctors calls the oldest functor.
RunPendingAdd ==
  /\ ~callingExpired
  /\ pending # <<>>
  /\ Head(pending).op = "add"
  /\ LET id == Head(pending).id
     IN  AddTimerInLoop(id[1], id[2], remaining[id[1]])
  /\ pending' = Tail(pending)
  /\ UNCHANGED <<heapVars, cancelingTimers_, callingExpired, expired, toRun,
                 since, polled, returning, ids, histVars>>

RunPendingCancel ==
  /\ ~callingExpired
  /\ pending # <<>>
  /\ Head(pending).op = "cancel"
  /\ CancelInLoop(Head(pending).id)
  /\ pending' = Tail(pending)
  /\ UNCHANGED <<sequence, remaining, interval, numCreated, callingExpired,
                 expired, toRun, since, fdVars, returning, ids, staleRead,
                 running>>

\* poll reports the timerfd; other callbacks may run before its handleRead.
Poll ==
  /\ readable /\ ~polled /\ ~callingExpired
  /\ polled' = TRUE
  /\ UNCHANGED <<heapVars, queueVars, armed, readable, userVars, histVars>>

Due == {a \in timers_ : remaining[a] = 0}

\* handleRead up to the loop over expired: readTimerfd, getExpired.
HandleRead ==
  /\ polled /\ ~callingExpired
  /\ polled' = FALSE
  /\ readable' = FALSE
  /\ expired' = Due
  /\ toRun' = Due
  /\ timers_' = timers_ \ Due
  /\ activeTimers_' = activeTimers_ \ {Id(a) : a \in Due}
  /\ cancelingTimers_' = {}
  /\ callingExpired' = TRUE
  /\ since' = 0
  /\ UNCHANGED <<heapVars, armed, userVars, histVars>>

\* it->second->run().  The order among expired timers is that of their
\* expirations; timers that are due are not told apart here, so any order.
RunTimer(a) ==
  /\ callingExpired
  /\ a \in toRun
  /\ toRun' = toRun \ {a}
  /\ running' = Id(a)
  /\ UNCHANGED <<heapVars, timers_, activeTimers_, cancelingTimers_,
                 callingExpired, expired, since, fdVars, userVars, stopped, staleRead>>

\* Mutant of Again: cancelingTimers_ is not consulted.
AgainEvenCancelled == {a \in expired : interval[a] > 0}

\* The expired timers that reset() restarts.
Again == {a \in expired : interval[a] > 0 /\ Id(a) \notin cancelingTimers_}

\* The last callback has returned: reset(expired, now) restarts the repeating
\* timers that were not cancelled, deletes the others and arms the timerfd for
\* the earliest timer, if there is one.
Reset ==
  /\ callingExpired
  /\ toRun = {}
  /\ LET left == [a \in Addrs |-> IF a \in Again THEN Minus(interval[a], since)
                                                 ELSE remaining[a]]
     IN  /\ remaining' = left
         /\ alive' = alive \ (expired \ Again)
         /\ timers_' = timers_ \cup Again
         /\ activeTimers_' = activeTimers_ \cup {Id(a) : a \in Again}
         /\ IF timers_' = {}
              THEN UNCHANGED <<armed, readable>>
              ELSE \E a \in timers_' :
                     /\ \A b \in timers_' : left[a] <= left[b]
                     /\ ResetTimerfd(left[a])
  /\ callingExpired' = FALSE
  /\ expired' = {}
  /\ since' = 0
  /\ running' = <<>>
  /\ UNCHANGED <<sequence, interval, numCreated, cancelingTimers_, toRun, polled,
                 userVars, stopped, staleRead>>

-----------------------------------------------------------------------------
\* Time passes; the kernel expires the timerfd.  A timer's remaining time
\* stays 0 once it is due.
Tick ==
  /\ remaining' = [a \in Addrs |-> Minus(remaining[a], 1)]
  /\ armed' = IF armed = Never \/ armed = 1 THEN Never ELSE armed - 1
  /\ readable' = (readable \/ armed = 1)
  /\ since' = IF callingExpired /\ since < MaxInterval THEN since + 1 ELSE since
  /\ UNCHANGED <<alive, sequence, interval, numCreated, timers_, activeTimers_,
                 cancelingTimers_, callingExpired, expired, toRun, polled,
                 userVars, histVars>>

LoopStep ==
  \/ RunPendingAdd
  \/ RunPendingCancel
  \/ HandleRead
  \/ \E a \in Addrs : RunTimer(a)
  \/ Reset

UserStep ==
  \/ \E a \in Addrs, d \in Delays, i \in Intervals :
       AddTimer(a, d, i) \/ LoopAddTimer(a, d, i)
  \/ \E id \in TimerIds : Cancel(id) \/ LoopCancel(id)

Next ==
  \/ UserStep
  \/ \E id \in TimerIds : AddTimerReturns(id)
  \/ LoopStep
  \/ Poll
  \/ Tick

\* The loop thread keeps running (callbacks return, queued functors and ready
\* channels are served, as EventLoop shows), and time passes.
Fairness ==
  /\ WF_vars(RunPendingAdd) /\ WF_vars(RunPendingCancel)
  /\ WF_vars(Poll) /\ WF_vars(HandleRead)
  /\ \A a \in Addrs : WF_vars(RunTimer(a))
  /\ WF_vars(Reset)
  /\ WF_vars(Tick)

SafetySpec == Init /\ [][Next]_vars

Spec == SafetySpec /\ Fairness

-----------------------------------------------------------------------------
(* Properties. *)

TypeOK ==
  /\ alive \in SUBSET Addrs
  /\ sequence \in [Addrs -> 0..MaxSequence]
  /\ remaining \in [Addrs -> Nat]
  /\ interval \in [Addrs -> Intervals \cup {0}]
  /\ numCreated \in 0..MaxSequence
  /\ timers_ \in SUBSET Addrs
  /\ activeTimers_ \in SUBSET TimerIds
  /\ cancelingTimers_ \in SUBSET TimerIds
  /\ callingExpired \in BOOLEAN
  /\ expired \in SUBSET Addrs
  /\ toRun \in SUBSET expired
  /\ since \in Nat
  /\ armed \in (Nat \ {0}) \cup {Never}
  /\ readable \in BOOLEAN
  /\ polled \in BOOLEAN
  /\ pending \in Seq([op : {"add", "cancel"}, id : TimerIds])
  /\ returning \in SUBSET TimerIds
  /\ ids \in SUBSET TimerIds
  /\ stopped \in SUBSET TimerIds
  /\ staleRead \in BOOLEAN
  /\ running \in TimerIds \cup {<<>>}

\* "timers_ and activeTimers_ hold the same data" (TimerQueue.h), and all of it
\* is alive: the asserts on their sizes and on what erase and insert return.
SameTimers ==
  /\ activeTimers_ = {Id(a) : a \in timers_}
  /\ timers_ \subseteq alive

\* While handleRead calls the expired timers, none of them is deleted under it,
\* whatever the callbacks add or cancel, and none is back in timers_ yet (so
\* that the insert in reset() succeeds).
ExpiredStayAlive ==
  /\ expired \subseteq alive
  /\ expired \cap timers_ = {}

\* A timer whose addTimerInLoop is queued exists until that functor runs.
PendingAddsAreAlive ==
  \A i \in DOMAIN pending :
    pending[i].op = "add" =>
      LET id == pending[i].id
      IN  id[1] \in alive /\ Id(id[1]) = id /\ id[1] \notin timers_ \cup expired

\* What handleRead or a queued addTimerInLoop will still touch is not deleted,
\* whatever is cancelled, and whoever gets the address of a deleted Timer.
TouchedStayAlive == ExpiredStayAlive /\ PendingAddsAreAlive

\* The timerfd never sleeps past a timer: outside handleRead, with a timer in
\* the queue, handleRead is already due, or the timerfd is armed for no later
\* than the earliest timer (or the minimal delay).
NoOversleep ==
  (~callingExpired /\ timers_ # {}) =>
    \/ readable
    \/ polled
    \/ /\ armed # Never
       /\ \A a \in timers_ : armed <= Max2(remaining[a], 1)

\* A timer that cancelInLoop found, in the queue or already called in the
\* current round, is never run again: a repeating timer does not come back.
StoppedNeverRuns == [][\A id \in stopped : running' = id => running = id]_vars

\* Not kept (README, section 5): addTimer evaluates timer->sequence() too late.
\* addTimer "must be thread safe, usually be called from other threads"
\* (TimerQueue.h): it never reads a Timer the loop thread has deleted.
AddTimerReadsLiveTimer == ~staleRead

\* A timer in the queue is run or cancelled.
TimersFire ==
  \A id \in TimerIds : (id \in activeTimers_) ~> (running = id \/ id \in stopped)
=============================================================================
