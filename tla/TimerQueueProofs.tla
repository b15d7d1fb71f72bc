-------------------------- MODULE TimerQueueProofs --------------------------
(***************************************************************************)
(* Proofs about TimerQueue for any set of addresses, any delays and        *)
(* intervals and any number of timers: type correctness, the agreement of  *)
(* the two sets, the life time of expired and pending timers, that the     *)
(* timerfd is never late, and that a stopped timer never runs again.       *)
(***************************************************************************)
EXTENDS TimerQueue, TLAPS

\* Timer objects that exist have a sequence number that was given out.
Numbered ==
  \A a \in alive : 1 <= sequence[a] /\ sequence[a] <= numCreated

\* The local vector of handleRead is empty outside handleRead.
ExpiredInCall == ~callingExpired => expired = {}

\* Each queued addTimerInLoop is for a timer of its own.
AddsDistinct ==
  \A i, j \in DOMAIN pending :
    (i # j /\ pending[i].op = "add" /\ pending[j].op = "add")
      => pending[i].id[1] # pending[j].id[1]

\* The sets of timers.  SameTimers is inductive only together with where the
\* other live timers are: in the expired vector or in a queued add.
SetsInv ==
  /\ TypeOK /\ SameTimers /\ ExpiredStayAlive /\ PendingAddsAreAlive
  /\ Numbered /\ ExpiredInCall /\ AddsDistinct

\* A stopped timer is not in the queue and will not be put there: it is not
\* among those still to be called, and if it was called in this round reset()
\* finds it in cancelingTimers_.
StoppedInv ==
  \A id \in stopped :
    /\ id \notin activeTimers_
    /\ id[2] <= numCreated
    /\ \A a \in expired : Id(a) = id => a \notin toRun /\ id \in cancelingTimers_
    /\ \A i \in DOMAIN pending : pending[i].op = "add" => pending[i].id # id

\* All of it, for TLC.
IInv == SetsInv /\ NoOversleep /\ StoppedInv

-----------------------------------------------------------------------------
(* The timerfd. *)

\* resetTimerfd arms for at least one tick and no earlier than asked.
LEMMA Max2Fact ==
  ASSUME NEW x \in Nat
  PROVE  Max2(x, 1) \in Nat \ {0} /\ Max2(x, 1) >= x
BY DEF Max2

\* What addTimerInLoop does to the types.
LEMMA AddTypes ==
  ASSUME TypeOK, NEW a \in Addrs, NEW seq \in 1..MaxSequence, NEW delay \in Nat,
         AddTimerInLoop(a, seq, delay)
  PROVE  /\ timers_' \in SUBSET Addrs
         /\ activeTimers_' \in SUBSET TimerIds
         /\ armed' \in (Nat \ {0}) \cup {Never}
         /\ readable' \in BOOLEAN
<1> USE DEF AddTimerInLoop
<1>1. timers_' \in SUBSET Addrs
  BY DEF TypeOK
<1>2. activeTimers_' \in SUBSET TimerIds
  BY DEF TypeOK, TimerIds
<1>3. CASE EarliestChanged(delay)
  BY <1>1, <1>2, <1>3, Max2Fact DEF ResetTimerfd
<1>4. CASE ~EarliestChanged(delay)
  BY <1>1, <1>2, <1>4 DEF TypeOK
<1>5. QED
  BY <1>3, <1>4

\* What cancelInLoop does to the types.
LEMMA CancelTypes ==
  ASSUME TypeOK, NEW id \in TimerIds, CancelInLoop(id)
  PROVE  /\ timers_' \in SUBSET Addrs
         /\ activeTimers_' \in SUBSET TimerIds
         /\ cancelingTimers_' \in SUBSET TimerIds
         /\ alive' \in SUBSET Addrs
         /\ stopped' \in SUBSET TimerIds
BY DEF TypeOK, CancelInLoop, EraseTimer, NoteCancel

\* The parts of a non-empty sequence.
LEMMA HeadTailType ==
  ASSUME NEW S, NEW s \in Seq(S), s # <<>>
  PROVE  Head(s) \in S /\ Tail(s) \in Seq(S)
OBVIOUS

\* A queued call names a timer.
LEMMA PendingHead ==
  ASSUME TypeOK, pending # <<>>
  PROVE  /\ Head(pending) \in [op : {"add", "cancel"}, id : TimerIds]
         /\ Tail(pending) \in Seq([op : {"add", "cancel"}, id : TimerIds])
<1>1. pending \in Seq([op : {"add", "cancel"}, id : TimerIds])
  BY DEF TypeOK
<1>2. QED
  BY <1>1, HeadTailType, Zenon

-----------------------------------------------------------------------------
(* Type correctness needs the numbering of the timers that exist: reset()    *)
(* and run() build their ids.                                                *)

\* The id of a live Timer is one that was given out.
LEMMA IdType ==
  ASSUME TypeOK, Numbered, NEW a \in alive
  PROVE  Id(a) \in TimerIds
BY ConstantsAssumption DEF TypeOK, Numbered, Id, TimerIds

\* Intervals are naturals.
LEMMA IntervalNat ==
  ASSUME TypeOK, NEW a \in Addrs
  PROVE  interval[a] \in Nat
<1>1. interval[a] \in Intervals \cup {0}
  BY DEF TypeOK
<1>2. Intervals \cup {0} \subseteq Nat
  BY ConstantsAssumption
<1>3. QED
  BY <1>1, <1>2, Zenon

\* The constructor establishes the invariant of the sets.
LEMMA InitSets == Init => SetsInv
<1> SUFFICES ASSUME Init PROVE SetsInv
  OBVIOUS
<1> USE ConstantsAssumption DEF Init
<1>1. pending = <<>> /\ pending \in Seq([op : {"add", "cancel"}, id : TimerIds])
  OBVIOUS
<1>2. TypeOK
  <2>1. /\ sequence \in [Addrs -> 0..MaxSequence]
        /\ remaining \in [Addrs -> Nat]
        /\ interval \in [Addrs -> Intervals \cup {0}]
    OBVIOUS
  <2>2. numCreated \in 0..MaxSequence /\ since \in Nat
    OBVIOUS
  <2>3. QED
    BY <1>1, <2>1, <2>2 DEF TypeOK
<1>3. SameTimers /\ ExpiredStayAlive /\ Numbered /\ ExpiredInCall
  BY DEF SameTimers, ExpiredStayAlive, Numbered, ExpiredInCall
<1>4. PendingAddsAreAlive /\ AddsDistinct
  BY <1>1 DEF PendingAddsAreAlive, AddsDistinct
<1>5. QED
  BY <1>2, <1>3, <1>4 DEF SetsInv

\* No step breaks the types.
LEMMA NextTypes == SetsInv /\ [Next]_vars => TypeOK'
<1> SUFFICES ASSUME SetsInv, [Next]_vars PROVE TypeOK'
  OBVIOUS
<1> USE ConstantsAssumption DEF SetsInv
<1>1. ASSUME NEW a \in Addrs, NEW d \in Delays, NEW i \in Intervals, AddTimer(a, d, i)
      PROVE  TypeOK'
  <2> USE <1>1 DEF AddTimer, NewTimer, queueVars, fdVars, histVars
  <2>1. <<a, numCreated + 1>> \in TimerIds
    BY DEF TypeOK, TimerIds
  <2>2. pending' \in Seq([op : {"add", "cancel"}, id : TimerIds])
    BY <2>1 DEF TypeOK
  <2>3. numCreated + 1 \in 0..MaxSequence
    BY DEF TypeOK
  <2>4. /\ sequence' \in [Addrs -> 0..MaxSequence]
        /\ remaining' \in [Addrs -> Nat]
        /\ interval' \in [Addrs -> Intervals \cup {0}]
    BY <2>3 DEF TypeOK
  <2>5. QED
    BY <2>1, <2>2, <2>3, <2>4 DEF TypeOK
<1>2. ASSUME NEW a \in Addrs, NEW d \in Delays, NEW i \in Intervals, LoopAddTimer(a, d, i)
      PROVE  TypeOK'
  <2> USE <1>2 DEF LoopAddTimer, NewTimer, histVars
  <2>1. numCreated + 1 \in 1..MaxSequence
    BY DEF TypeOK
  <2>2. <<a, numCreated + 1>> \in TimerIds
    BY <2>1 DEF TimerIds
  <2>3. /\ timers_' \in SUBSET Addrs
        /\ activeTimers_' \in SUBSET TimerIds
        /\ armed' \in (Nat \ {0}) \cup {Never}
        /\ readable' \in BOOLEAN
    BY <2>1, AddTypes
  <2>4. /\ sequence' \in [Addrs -> 0..MaxSequence]
        /\ remaining' \in [Addrs -> Nat]
        /\ interval' \in [Addrs -> Intervals \cup {0}]
        /\ numCreated' \in 0..MaxSequence
    BY <2>1 DEF TypeOK
  <2>5. QED
    BY <2>2, <2>3, <2>4 DEF TypeOK
<1>3. ASSUME NEW id \in TimerIds, Cancel(id)
      PROVE  TypeOK'
  BY <1>3 DEF TypeOK, Cancel, heapVars, queueVars, fdVars, histVars
<1>4. ASSUME NEW id \in TimerIds, LoopCancel(id)
      PROVE  TypeOK'
  BY <1>4, CancelTypes DEF TypeOK, LoopCancel, fdVars, userVars
<1>5. ASSUME NEW id \in TimerIds, AddTimerReturns(id)
      PROVE  TypeOK'
  BY <1>5 DEF TypeOK, AddTimerReturns, heapVars, queueVars, fdVars
<1>6. CASE RunPendingAdd
  <2> USE <1>6 DEF RunPendingAdd, heapVars, histVars
  <2>1. PICK a \in Addrs, n \in 1..MaxSequence : Head(pending).id = <<a, n>>
    <3>1. Head(pending).id \in TimerIds
      BY PendingHead
    <3>2. QED
      BY <3>1 DEF TimerIds
  <2>2. AddTimerInLoop(a, n, remaining[a]) /\ remaining[a] \in Nat
    BY <2>1 DEF TypeOK
  <2>3. /\ timers_' \in SUBSET Addrs
        /\ activeTimers_' \in SUBSET TimerIds
        /\ armed' \in (Nat \ {0}) \cup {Never}
        /\ readable' \in BOOLEAN
    BY <2>2, AddTypes
  <2>4. pending' \in Seq([op : {"add", "cancel"}, id : TimerIds])
    BY PendingHead
  <2>5. QED
    BY <2>3, <2>4 DEF TypeOK
<1>7. CASE RunPendingCancel
  BY <1>7, CancelTypes, PendingHead DEF TypeOK, RunPendingCancel, fdVars
<1>8. CASE HandleRead
  BY <1>8 DEF TypeOK, HandleRead, Due, heapVars, userVars, histVars
<1>9. ASSUME NEW a \in Addrs, RunTimer(a)
      PROVE  TypeOK'
  <2>1. Id(a) \in TimerIds
    BY <1>9, IdType DEF RunTimer, TypeOK, ExpiredStayAlive
  <2>2. QED
    BY <1>9, <2>1 DEF TypeOK, RunTimer, heapVars, fdVars, userVars
<1>10. CASE Reset
  <2> USE <1>10 DEF Reset
  <2>1. Again \subseteq expired /\ \A a \in Again : Id(a) \in TimerIds
    BY IdType DEF Again, ExpiredStayAlive
  <2>2. /\ remaining' \in [Addrs -> Nat]
        /\ activeTimers_' \in SUBSET TimerIds
    <3>1. \A x \in Nat, y \in Nat : Minus(x, y) \in Nat
      BY DEF Minus
    <3>2. \A a \in Again : interval[a] \in Nat /\ a \in Addrs
      BY <2>1, IntervalNat DEF TypeOK
    <3>3. remaining' \in [Addrs -> Nat]
      BY <3>1, <3>2 DEF TypeOK
    <3>4. activeTimers_' \in SUBSET TimerIds
      BY <2>1 DEF TypeOK
    <3>5. QED
      BY <3>3, <3>4
  <2>3. /\ armed' \in (Nat \ {0}) \cup {Never}
        /\ readable' \in BOOLEAN
    <3>1. CASE timers_' = {}
      BY <3>1 DEF TypeOK
    <3>2. CASE timers_' # {}
      <4>1. PICK a \in timers_' : ResetTimerfd(remaining'[a])
        BY <3>2
      <4>2. remaining'[a] \in Nat
        BY <2>1, <2>2 DEF TypeOK
      <4>3. QED
        BY <4>1, <4>2, Max2Fact DEF ResetTimerfd
    <3>3. QED
      BY <3>1, <3>2
  <2>4. QED
    BY <2>1, <2>2, <2>3 DEF TypeOK, userVars
<1>11. CASE Poll
  BY <1>11 DEF TypeOK, Poll, heapVars, queueVars, userVars, histVars
<1>12. CASE Tick
  <2> USE <1>12 DEF Tick
  <2>1. remaining' \in [Addrs -> Nat]
    BY DEF TypeOK, Minus
  <2>2. armed' \in (Nat \ {0}) \cup {Never} /\ readable' \in BOOLEAN /\ since' \in Nat
    BY DEF TypeOK
  <2>3. QED
    BY <2>1, <2>2 DEF TypeOK, userVars, histVars
<1>13. CASE UNCHANGED vars
  BY <1>13 DEF TypeOK, vars, heapVars, queueVars, fdVars, userVars, histVars
<1>14. QED
  BY <1>1, <1>2, <1>3, <1>4, <1>5, <1>6, <1>7, <1>8, <1>9, <1>10, <1>11, <1>12, <1>13
     DEF Next, UserStep, LoopStep

-----------------------------------------------------------------------------
(* The sets. *)

\* What is at each index after a push_back.
LEMMA AppendElements ==
  ASSUME NEW S, NEW s \in Seq(S), NEW e \in S, NEW i \in DOMAIN Append(s, e)
  PROVE  \/ i \in DOMAIN s /\ Append(s, e)[i] = s[i]
         \/ i = Len(s) + 1 /\ i \notin DOMAIN s /\ Append(s, e)[i] = e
OBVIOUS

\* What is at each index after the first functor was taken.
LEMMA TailElements ==
  ASSUME NEW S, NEW s \in Seq(S), s # <<>>, NEW i \in DOMAIN Tail(s)
  PROVE  i \in Nat /\ i + 1 \in DOMAIN s /\ i + 1 # 1 /\ Tail(s)[i] = s[i + 1]
OBVIOUS

\* The first functor is the one at index 1.
LEMMA HeadElement ==
  ASSUME NEW S, NEW s \in Seq(S), s # <<>>
  PROVE  1 \in DOMAIN s /\ Head(s) = s[1]
OBVIOUS

\* `new Timer` returns an address not in use and leaves the live timers alone.
LEMMA NewTimerKeeps ==
  ASSUME TypeOK, NEW a \in Addrs, NEW d \in Delays, NEW i \in Intervals,
         NewTimer(a, d, i)
  PROVE  /\ a \notin alive
         /\ alive' = alive \cup {a}
         /\ \A b \in alive : sequence'[b] = sequence[b] /\ remaining'[b] = remaining[b]
         /\ sequence'[a] = numCreated + 1
         /\ remaining'[a] = d
         /\ numCreated' = numCreated + 1
BY DEF TypeOK, NewTimer

\* `new Timer` takes the next sequence number.
LEMMA NewTimerNumbered ==
  ASSUME TypeOK, Numbered, NEW a \in Addrs, NEW d \in Delays, NEW i \in Intervals,
         NewTimer(a, d, i)
  PROVE  Numbered'
<1>1. numCreated \in Nat /\ \A b \in alive : sequence[b] \in Nat
  BY ConstantsAssumption DEF TypeOK
<1>2. ASSUME NEW b \in alive'
      PROVE  1 <= sequence'[b] /\ sequence'[b] <= numCreated'
  <2>1. CASE b = a
    BY <1>1, <2>1, NewTimerKeeps
  <2>2. CASE b \in alive
    BY <1>1, <2>2, NewTimerKeeps DEF Numbered
  <2>3. QED
    BY <2>1, <2>2, NewTimerKeeps
<1>3. QED
  BY <1>2 DEF Numbered

\* cancelInLoop keeps the sets in step and deletes nothing but a timer of the
\* queue.
LEMMA CancelSets ==
  ASSUME SetsInv, NEW id \in TimerIds, CancelInLoop(id),
         UNCHANGED <<sequence, numCreated, expired, callingExpired>>
  PROVE  /\ SameTimers' /\ ExpiredStayAlive' /\ Numbered' /\ ExpiredInCall'
         /\ timers_' \subseteq timers_
         /\ alive \ timers_ \subseteq alive'
<1> USE DEF SetsInv
<1>1. CASE id \in activeTimers_
  <2> USE <1>1 DEF CancelInLoop, EraseTimer
  <2>1. id = Id(id[1]) /\ id[1] \in timers_
    BY DEF SameTimers, Id
  <2>2. SameTimers'
    BY <2>1 DEF SameTimers, Id
  <2>3. ExpiredStayAlive'
    BY <2>1 DEF ExpiredStayAlive
  <2>4. QED
    BY <2>1, <2>2, <2>3 DEF Numbered, ExpiredInCall
<1>2. CASE id \notin activeTimers_
  BY <1>2 DEF CancelInLoop, NoteCancel, SameTimers, ExpiredStayAlive, Numbered,
              ExpiredInCall, Id
<1>3. QED
  BY <1>1, <1>2

\* No step breaks the agreement of the sets and the heap.
LEMMA NextSets == SetsInv /\ [Next]_vars =>
                    SameTimers' /\ ExpiredStayAlive' /\ Numbered' /\ ExpiredInCall'
<1> SUFFICES ASSUME SetsInv, [Next]_vars
             PROVE  SameTimers' /\ ExpiredStayAlive' /\ Numbered' /\ ExpiredInCall'
  OBVIOUS
<1> USE DEF SetsInv
<1>1. ASSUME NEW a \in Addrs, NEW d \in Delays, NEW i \in Intervals, AddTimer(a, d, i)
      PROVE  SameTimers' /\ ExpiredStayAlive' /\ Numbered' /\ ExpiredInCall'
  <2> USE <1>1 DEF AddTimer, queueVars
  <2>1. SameTimers'
    BY NewTimerKeeps DEF SameTimers, Id
  <2>2. ExpiredStayAlive' /\ ExpiredInCall'
    BY NewTimerKeeps DEF ExpiredStayAlive, ExpiredInCall
  <2>3. QED
    BY <2>1, <2>2, NewTimerNumbered
<1>2. ASSUME NEW a \in Addrs, NEW d \in Delays, NEW i \in Intervals, LoopAddTimer(a, d, i)
      PROVE  SameTimers' /\ ExpiredStayAlive' /\ Numbered' /\ ExpiredInCall'
  <2> USE <1>2 DEF LoopAddTimer, AddTimerInLoop
  <2>1. SameTimers'
    BY NewTimerKeeps DEF SameTimers, Id
  <2>2. ExpiredStayAlive' /\ ExpiredInCall'
    BY NewTimerKeeps DEF ExpiredStayAlive, ExpiredInCall
  <2>3. QED
    BY <2>1, <2>2, NewTimerNumbered
<1>3. ASSUME NEW id \in TimerIds, Cancel(id) \/ AddTimerReturns(id)
      PROVE  SameTimers' /\ ExpiredStayAlive' /\ Numbered' /\ ExpiredInCall'
  BY <1>3 DEF Cancel, AddTimerReturns, heapVars, queueVars, SameTimers,
              ExpiredStayAlive, Numbered, ExpiredInCall, Id
<1>4. ASSUME NEW id \in TimerIds, LoopCancel(id)
      PROVE  SameTimers' /\ ExpiredStayAlive' /\ Numbered' /\ ExpiredInCall'
  BY <1>4, CancelSets DEF LoopCancel
<1>5. CASE RunPendingAdd
  <2> USE <1>5 DEF RunPendingAdd, AddTimerInLoop, heapVars
  <2> DEFINE id == Head(pending).id
  <2>1. id[1] \in alive /\ Id(id[1]) = id /\ id[1] \notin timers_ \cup expired
    BY HeadElement DEF TypeOK, PendingAddsAreAlive
  <2>2. SameTimers'
    BY <2>1 DEF SameTimers, Id
  <2>3. QED
    BY <2>1, <2>2 DEF ExpiredStayAlive, Numbered, ExpiredInCall
<1>6. CASE RunPendingCancel
  <2>1. Head(pending).id \in TimerIds
    BY <1>6, PendingHead DEF RunPendingCancel
  <2>2. QED
    BY <1>6, <2>1, CancelSets DEF RunPendingCancel
<1>7. CASE HandleRead
  <2> USE <1>7 DEF HandleRead, Due, heapVars
  <2>1. SameTimers'
    BY DEF SameTimers, Id
  <2>2. QED
    BY <2>1 DEF SameTimers, ExpiredStayAlive, Numbered, ExpiredInCall
<1>8. ASSUME NEW a \in Addrs, RunTimer(a)
      PROVE  SameTimers' /\ ExpiredStayAlive' /\ Numbered' /\ ExpiredInCall'
  BY <1>8 DEF RunTimer, heapVars, SameTimers, ExpiredStayAlive, Numbered,
              ExpiredInCall, Id
<1>9. CASE Reset
  <2> USE <1>9 DEF Reset
  <2>1. Again \subseteq expired
    BY DEF Again
  <2>2. SameTimers'
    BY <2>1 DEF SameTimers, ExpiredStayAlive, Id
  <2>3. QED
    BY <2>1, <2>2 DEF ExpiredStayAlive, Numbered, ExpiredInCall
<1>10. CASE Poll
  BY <1>10 DEF Poll, heapVars, queueVars, SameTimers, ExpiredStayAlive, Numbered,
               ExpiredInCall, Id
<1>11. CASE Tick
  BY <1>11 DEF Tick, SameTimers, ExpiredStayAlive, Numbered, ExpiredInCall, Id
<1>12. CASE UNCHANGED vars
  BY <1>12 DEF vars, heapVars, queueVars, SameTimers, ExpiredStayAlive, Numbered,
               ExpiredInCall, Id
<1>13. QED
  BY <1>1, <1>2, <1>3, <1>4, <1>5, <1>6, <1>7, <1>8, <1>9, <1>10, <1>11, <1>12
     DEF Next, UserStep, LoopStep

-----------------------------------------------------------------------------
(* The queued adds. *)

\* The timer of a queued addTimerInLoop: it exists and is in neither set.
Waiting(id) ==
  id[1] \in alive /\ Id(id[1]) = id /\ id[1] \notin timers_ \cup expired

\* The timer of a queued add is waiting.
LEMMA PendingElement ==
  ASSUME SetsInv, NEW i \in DOMAIN pending, pending[i].op = "add"
  PROVE  Waiting(pending[i].id)
BY DEF SetsInv, PendingAddsAreAlive, Waiting

\* A step that leaves the queue of functors and the waiting timers alone.
LEMMA AddsKept ==
  ASSUME SetsInv, UNCHANGED pending, \A id : Waiting(id) => Waiting(id)'
  PROVE  PendingAddsAreAlive' /\ AddsDistinct'
<1>1. ASSUME NEW i \in DOMAIN pending, pending[i].op = "add"
      PROVE  Waiting(pending[i].id)'
  BY <1>1, PendingElement
<1>2. PendingAddsAreAlive'
  BY <1>1 DEF PendingAddsAreAlive, Waiting
<1>3. QED
  BY <1>2 DEF SetsInv, AddsDistinct

\* A step that takes a functor from the queue and leaves the other waiting
\* timers alone.
LEMMA AddsTaken ==
  ASSUME SetsInv, pending # <<>>, pending' = Tail(pending),
         \A id : (Waiting(id)
                   /\ (Head(pending).op = "add" => id[1] # Head(pending).id[1]))
                   => Waiting(id)'
  PROVE  PendingAddsAreAlive' /\ AddsDistinct'
<1>1. pending \in Seq([op : {"add", "cancel"}, id : TimerIds])
  BY DEF SetsInv, TypeOK
<1>2. \A i \in DOMAIN pending' : /\ i \in Nat /\ i + 1 \in DOMAIN pending /\ i + 1 # 1
                                 /\ pending'[i] = pending[i + 1]
  BY <1>1, TailElements
<1>3. 1 \in DOMAIN pending /\ Head(pending) = pending[1]
  BY <1>1, HeadElement
<1>4. ASSUME NEW i \in DOMAIN pending', pending'[i].op = "add",
             NEW id, id = pending'[i].id
      PROVE  Waiting(id)'
  <2>1. Waiting(id)
    BY <1>2, <1>4, PendingElement
  <2>2. Head(pending).op = "add" => id[1] # Head(pending).id[1]
    BY <1>2, <1>3, <1>4 DEF SetsInv, AddsDistinct
  <2>3. QED
    BY <2>1, <2>2
<1>5. PendingAddsAreAlive'
  BY <1>4 DEF PendingAddsAreAlive, Waiting
<1>6. AddsDistinct'
  BY <1>2 DEF SetsInv, AddsDistinct
<1>7. QED
  BY <1>5, <1>6

\* A step that queues a cancel, or the add of a timer that was not waiting.
LEMMA AddsAppended ==
  ASSUME SetsInv, NEW op \in {"add", "cancel"}, NEW new \in TimerIds,
         pending' = Append(pending, [op |-> op, id |-> new]),
         \A id : Waiting(id) => Waiting(id)',
         op = "add" => new[1] \notin alive /\ Waiting(new)'
  PROVE  PendingAddsAreAlive' /\ AddsDistinct'
<1> DEFINE e == [op |-> op, id |-> new]
<1>1. /\ pending \in Seq([op : {"add", "cancel"}, id : TimerIds])
      /\ e \in [op : {"add", "cancel"}, id : TimerIds]
      /\ e.op = op /\ e.id = new
  BY DEF SetsInv, TypeOK
<1> HIDE DEF e
<1>2. pending' = Append(pending, e)
  BY DEF e
<1>3. \A i \in DOMAIN pending' :
        \/ i \in DOMAIN pending /\ pending'[i] = pending[i]
        \/ i = Len(pending) + 1 /\ i \notin DOMAIN pending /\ pending'[i] = e
  BY <1>1, <1>2, AppendElements
<1>4. ASSUME NEW i \in DOMAIN pending', pending'[i].op = "add",
             NEW id, id = pending'[i].id
      PROVE  Waiting(id)'
  BY <1>1, <1>3, <1>4, PendingElement
<1>5. PendingAddsAreAlive'
  BY <1>4 DEF PendingAddsAreAlive, Waiting
<1>6. ASSUME NEW i \in DOMAIN pending, pending[i].op = "add", op = "add"
      PROVE  pending[i].id[1] # new[1]
  BY <1>6, PendingElement DEF Waiting
<1>7. AddsDistinct'
  BY <1>1, <1>3, <1>6 DEF SetsInv, AddsDistinct
<1>8. QED
  BY <1>5, <1>7

\* No step breaks what holds of the queued adds.
LEMMA NextAdds == SetsInv /\ [Next]_vars => PendingAddsAreAlive' /\ AddsDistinct'
<1> SUFFICES ASSUME SetsInv, [Next]_vars
             PROVE  PendingAddsAreAlive' /\ AddsDistinct'
  OBVIOUS
<1>0. TypeOK /\ timers_ \subseteq alive /\ expired \subseteq alive
  BY DEF SetsInv, SameTimers, ExpiredStayAlive
<1>1. ASSUME NEW a \in Addrs, NEW d \in Delays, NEW i \in Intervals, AddTimer(a, d, i)
      PROVE  PendingAddsAreAlive' /\ AddsDistinct'
  <2> DEFINE new == <<a, numCreated + 1>>
  <2> USE <1>1 DEF AddTimer, queueVars
  <2>1. new \in TimerIds
    BY <1>0, ConstantsAssumption DEF NewTimer, TypeOK, TimerIds
  <2>2. \A id : Waiting(id) => Waiting(id)'
    BY <1>0, NewTimerKeeps DEF Waiting, Id
  <2>3. new[1] \notin alive /\ \A id : id = new => Waiting(id)'
    BY <1>0, NewTimerKeeps DEF Waiting, Id
  <2>4. PICK id : id = new
    OBVIOUS
  <2>5. pending' = Append(pending, [op |-> "add", id |-> id])
    BY <2>4
  <2> HIDE DEF new
  <2>6. QED
    BY <2>1, <2>2, <2>3, <2>4, <2>5, AddsAppended
<1>2. ASSUME NEW a \in Addrs, NEW d \in Delays, NEW i \in Intervals, LoopAddTimer(a, d, i)
      PROVE  PendingAddsAreAlive' /\ AddsDistinct'
  <2>1. \A id : Waiting(id) => Waiting(id)'
    BY <1>0, <1>2, NewTimerKeeps DEF LoopAddTimer, AddTimerInLoop, Waiting, Id
  <2>2. QED
    BY <1>2, <2>1, AddsKept DEF LoopAddTimer
<1>3. ASSUME NEW id \in TimerIds, Cancel(id)
      PROVE  PendingAddsAreAlive' /\ AddsDistinct'
  <2>1. \A x : Waiting(x) => Waiting(x)'
    BY <1>3 DEF Cancel, heapVars, queueVars, Waiting, Id
  <2>2. QED
    BY <1>3, <2>1, AddsAppended DEF Cancel
<1>4. ASSUME NEW id \in TimerIds, LoopCancel(id)
      PROVE  PendingAddsAreAlive' /\ AddsDistinct'
  <2>1. \A x : Waiting(x) => Waiting(x)'
    BY <1>4, CancelSets DEF LoopCancel, Waiting, Id
  <2>2. QED
    BY <1>4, <2>1, AddsKept DEF LoopCancel, userVars
<1>5. ASSUME NEW id \in TimerIds, AddTimerReturns(id)
      PROVE  PendingAddsAreAlive' /\ AddsDistinct'
  BY <1>5, AddsKept DEF AddTimerReturns, heapVars, queueVars, Waiting, Id
<1>6. CASE RunPendingAdd
  <2> USE <1>6 DEF RunPendingAdd
  <2>1. ASSUME NEW x, Waiting(x), x[1] # Head(pending).id[1]
        PROVE  Waiting(x)'
    BY <2>1 DEF AddTimerInLoop, heapVars, Waiting, Id
  <2>2. QED
    BY <2>1, AddsTaken
<1>7. CASE RunPendingCancel
  <2> USE <1>7 DEF RunPendingCancel
  <2>1. Head(pending).id \in TimerIds
    BY <1>0, PendingHead
  <2>2. \A x : Waiting(x) => Waiting(x)'
    BY <2>1, CancelSets DEF Waiting, Id
  <2>3. QED
    BY <2>2, AddsTaken
<1>8. CASE HandleRead
  <2>1. \A x : Waiting(x) => Waiting(x)'
    BY <1>8 DEF HandleRead, Due, heapVars, Waiting, Id
  <2>2. QED
    BY <1>8, <2>1, AddsKept DEF HandleRead, userVars
<1>9. ASSUME NEW a \in Addrs, RunTimer(a)
      PROVE  PendingAddsAreAlive' /\ AddsDistinct'
  BY <1>9, AddsKept DEF RunTimer, heapVars, userVars, Waiting, Id
<1>10. CASE Reset
  <2>1. \A x : Waiting(x) => Waiting(x)'
    BY <1>10 DEF Reset, Again, Waiting, Id
  <2>2. QED
    BY <1>10, <2>1, AddsKept DEF Reset, userVars
<1>11. CASE Poll
  BY <1>11, AddsKept DEF Poll, heapVars, queueVars, userVars, Waiting, Id
<1>12. CASE Tick
  BY <1>12, AddsKept DEF Tick, userVars, Waiting, Id
<1>13. CASE UNCHANGED vars
  BY <1>13, AddsKept DEF vars, heapVars, queueVars, userVars, Waiting, Id
<1>14. QED
  BY <1>1, <1>2, <1>3, <1>4, <1>5, <1>6, <1>7, <1>8, <1>9, <1>10, <1>11, <1>12, <1>13
     DEF Next, UserStep, LoopStep

\* The invariant of the sets is inductive.
LEMMA NextSetsInv == SetsInv /\ [Next]_vars => SetsInv'
BY NextTypes, NextSets, NextAdds DEF SetsInv

-----------------------------------------------------------------------------
(* The timerfd is never late. *)

\* A step that leaves the timerfd, and the timers that stay in the queue, alone.
LEMMA NotLateKept ==
  ASSUME NoOversleep, UNCHANGED <<armed, readable, polled, callingExpired>>,
         timers_' \subseteq timers_,
         \A a \in timers_ : remaining'[a] = remaining[a]
  PROVE  NoOversleep'
BY DEF NoOversleep

\* addTimerInLoop: a timer that becomes the earliest arms the timerfd, one that
\* does not is covered by what covers the earliest.
LEMMA NotLateAdded ==
  ASSUME SetsInv, NoOversleep, NEW a \in Addrs, NEW seq, NEW delay \in Nat,
         AddTimerInLoop(a, seq, delay), UNCHANGED <<polled, callingExpired>>,
         remaining'[a] = delay,
         \A b \in timers_ : remaining'[b] = remaining[b]
  PROVE  NoOversleep'
<1>1. \A b \in timers_ : remaining[b] \in Nat
  BY DEF SetsInv, TypeOK
<1>2. CASE EarliestChanged(delay)
  <2>1. armed' = Max2(delay, 1) /\ timers_' = timers_ \cup {a}
    BY <1>2 DEF AddTimerInLoop, ResetTimerfd
  <2>2. armed' # Never
    BY <2>1, Max2Fact, ConstantsAssumption
  <2>3. \A b \in timers_' : armed' <= Max2(remaining'[b], 1)
    BY <1>1, <1>2, <2>1 DEF EarliestChanged, Max2
  <2>4. QED
    BY <2>2, <2>3 DEF NoOversleep
<1>3. CASE ~EarliestChanged(delay)
  <2>1. /\ UNCHANGED <<armed, readable>>
        /\ timers_' = timers_ \cup {a}
    BY <1>3 DEF AddTimerInLoop
  <2>2. PICK b \in timers_ : ~(delay < remaining[b])
    BY <1>3 DEF EarliestChanged
  <2>3. CASE callingExpired \/ readable \/ polled
    BY <2>1, <2>3 DEF NoOversleep
  <2>4. CASE ~callingExpired /\ ~readable /\ ~polled
    <3>1. /\ armed # Never
          /\ \A x \in timers_ : armed <= Max2(remaining[x], 1)
      BY <2>2, <2>4 DEF NoOversleep
    <3>2. armed \in Nat
      BY <3>1 DEF SetsInv, TypeOK
    <3>3. armed <= Max2(delay, 1)
      BY <1>1, <2>2, <3>1, <3>2 DEF Max2
    <3>4. QED
      BY <2>1, <3>1, <3>3 DEF NoOversleep
  <2>5. QED
    BY <2>3, <2>4
<1>4. QED
  BY <1>2, <1>3

\* No step leaves a timer without a wake-up in time.
LEMMA NextNotLate == SetsInv /\ NoOversleep /\ [Next]_vars => NoOversleep'
<1> SUFFICES ASSUME SetsInv, NoOversleep, [Next]_vars PROVE NoOversleep'
  OBVIOUS
<1>0. /\ TypeOK /\ timers_ \subseteq alive /\ expired \subseteq alive
      /\ \A a \in Addrs : remaining[a] \in Nat
  BY DEF SetsInv, SameTimers, ExpiredStayAlive, TypeOK
<1>1. ASSUME NEW a \in Addrs, NEW d \in Delays, NEW i \in Intervals, AddTimer(a, d, i)
      PROVE  NoOversleep'
  BY <1>0, <1>1, NewTimerKeeps, NotLateKept DEF AddTimer, queueVars, fdVars
<1>2. ASSUME NEW a \in Addrs, NEW d \in Delays, NEW i \in Intervals, LoopAddTimer(a, d, i)
      PROVE  NoOversleep'
  <2>1. /\ remaining'[a] = d /\ d \in Nat
        /\ \A b \in timers_ : remaining'[b] = remaining[b]
    BY <1>0, <1>2, NewTimerKeeps, ConstantsAssumption DEF LoopAddTimer
  <2>2. QED
    BY <1>2, <2>1, NotLateAdded DEF LoopAddTimer
<1>3. ASSUME NEW id \in TimerIds, Cancel(id) \/ AddTimerReturns(id)
      PROVE  NoOversleep'
  BY <1>3, NotLateKept DEF Cancel, AddTimerReturns, heapVars, queueVars, fdVars
<1>4. ASSUME NEW id \in TimerIds, LoopCancel(id)
      PROVE  NoOversleep'
  BY <1>4, CancelSets, NotLateKept DEF LoopCancel, fdVars
<1>5. CASE RunPendingAdd
  <2> USE <1>5 DEF RunPendingAdd, heapVars
  <2>1. PICK a \in Addrs, n \in 1..MaxSequence : Head(pending).id = <<a, n>>
    <3>1. Head(pending).id \in TimerIds
      BY <1>0, PendingHead
    <3>2. QED
      BY <3>1 DEF TimerIds
  <2>2. AddTimerInLoop(a, n, remaining[a])
    BY <2>1
  <2>3. QED
    BY <1>0, <2>2, NotLateAdded
<1>6. CASE RunPendingCancel
  <2> USE <1>6 DEF RunPendingCancel
  <2>1. Head(pending).id \in TimerIds
    BY <1>0, PendingHead
  <2>2. QED
    BY <2>1, CancelSets, NotLateKept DEF fdVars
<1>7. CASE HandleRead
  BY <1>7 DEF HandleRead, NoOversleep
<1>8. ASSUME NEW a \in Addrs, RunTimer(a)
      PROVE  NoOversleep'
  BY <1>8 DEF RunTimer, NoOversleep
<1>9. CASE Reset
  <2>1. timers_' \subseteq Addrs /\ \A a \in Addrs : remaining'[a] \in Nat
    BY NextTypes DEF TypeOK
  <2>2. CASE timers_' = {}
    BY <2>2 DEF NoOversleep
  <2>3. CASE timers_' # {}
    <3>1. PICK a \in timers_' : /\ \A b \in timers_' : remaining'[a] <= remaining'[b]
                                /\ armed' = Max2(remaining'[a], 1)
      BY <1>9, <2>1, <2>3 DEF Reset, ResetTimerfd
    <3>2. armed' # Never
      BY <2>1, <3>1, Max2Fact, ConstantsAssumption
    <3>3. \A b \in timers_' : armed' <= Max2(remaining'[b], 1)
      BY <2>1, <3>1 DEF Max2
    <3>4. QED
      BY <3>2, <3>3 DEF NoOversleep
  <2>4. QED
    BY <2>2, <2>3
<1>10. CASE Poll
  BY <1>10 DEF Poll, NoOversleep
<1>11. CASE Tick
  <2> USE <1>11 DEF Tick
  <2>1. CASE callingExpired \/ timers_ = {} \/ readable \/ polled \/ armed = 1
    BY <2>1 DEF NoOversleep
  <2>2. CASE ~callingExpired /\ timers_ # {} /\ ~readable /\ ~polled /\ armed # 1
    <3>1. /\ armed # Never
          /\ \A a \in timers_ : armed <= Max2(remaining[a], 1)
      BY <2>2 DEF NoOversleep
    <3>2. armed \in Nat /\ armed > 1 /\ armed' = armed - 1
      BY <1>0, <2>2, <3>1 DEF TypeOK
    <3>3. ASSUME NEW a \in timers_
          PROVE  armed' <= Max2(remaining'[a], 1)
      <4>1. a \in Addrs /\ remaining'[a] = Minus(remaining[a], 1) /\ remaining[a] \in Nat
        BY <1>0 DEF TypeOK
      <4>2. QED
        BY <3>1, <3>2, <4>1 DEF Max2, Minus
    <3>4. armed' # Never
      BY <3>2, ConstantsAssumption
    <3>5. QED
      BY <3>3, <3>4 DEF NoOversleep
  <2>3. QED
    BY <2>1, <2>2
<1>12. CASE UNCHANGED vars
  BY <1>12 DEF vars, heapVars, queueVars, fdVars, NoOversleep
<1>13. QED
  BY <1>1, <1>2, <1>3, <1>4, <1>5, <1>6, <1>7, <1>8, <1>9, <1>10, <1>11, <1>12
     DEF Next, UserStep, LoopStep

-----------------------------------------------------------------------------
(* A stopped timer never runs again. *)

\* Where a stopped timer must not be found.
Gone(id) ==
  /\ id \notin activeTimers_
  /\ id[2] <= numCreated
  /\ \A a \in expired : Id(a) = id => a \notin toRun /\ id \in cancelingTimers_

\* No addTimerInLoop of it is queued.
NotQueued(id) ==
  \A i \in DOMAIN pending : pending[i].op = "add" => pending[i].id # id

\* StoppedInv in its two parts.
LEMMA StoppedParts == StoppedInv <=> \A id \in stopped : Gone(id) /\ NotQueued(id)
BY DEF StoppedInv, Gone, NotQueued

\* Taking a functor from the queue adds none.
LEMMA TailNotQueued ==
  ASSUME TypeOK, pending # <<>>, pending' = Tail(pending), NEW id, NotQueued(id)
  PROVE  NotQueued(id)'
<1>1. pending \in Seq([op : {"add", "cancel"}, id : TimerIds])
  BY DEF TypeOK
<1>2. \A i \in DOMAIN pending' : i + 1 \in DOMAIN pending /\ pending'[i] = pending[i + 1]
  BY <1>1, TailElements
<1>3. QED
  BY <1>2 DEF NotQueued

\* cancelInLoop: the timers stopped before and the one it stops are gone, and
\* none has a queued add, as timers with one are in neither set.
LEMMA CancelStops ==
  ASSUME SetsInv, StoppedInv, NEW id \in TimerIds, CancelInLoop(id),
         UNCHANGED <<sequence, numCreated, expired, toRun>>
  PROVE  \A x \in stopped' : Gone(x)' /\ NotQueued(x)
<1>0. /\ \A x \in stopped : Gone(x) /\ NotQueued(x)
      /\ timers_ \subseteq alive /\ expired \subseteq alive /\ expired \cap timers_ = {}
      /\ activeTimers_ = {Id(a) : a \in timers_}
      /\ \A a \in alive : sequence[a] <= numCreated
      /\ \A i \in DOMAIN pending : pending[i].op = "add" => Waiting(pending[i].id)
  BY StoppedParts, PendingElement
     DEF SetsInv, SameTimers, ExpiredStayAlive, Numbered
<1>1. CASE id \in activeTimers_
  <2> USE <1>1 DEF CancelInLoop, EraseTimer
  <2>1. PICK a \in timers_ : id = <<a, sequence[a]>>
    BY <1>0 DEF Id
  <2>2. Gone(id)'
    BY <1>0, <2>1 DEF Gone, Id
  <2>3. NotQueued(id)
    BY <1>0, <2>1 DEF NotQueued, Waiting
  <2>4. \A x \in stopped : Gone(x)'
    BY <1>0 DEF Gone, Id
  <2>5. QED
    BY <1>0, <2>2, <2>3, <2>4
<1>2. CASE id \notin activeTimers_
  <2> USE <1>2 DEF CancelInLoop, NoteCancel
  <2>1. \A x \in stopped : Gone(x)'
    BY <1>0 DEF Gone, Id
  <2>2. CASE stopped' = stopped
    BY <1>0, <2>1, <2>2
  <2>3. CASE stopped' # stopped
    <3>1. PICK a \in expired \ toRun : id = <<a, sequence[a]>>
      BY <2>3 DEF Id
    <3>2. cancelingTimers_' = cancelingTimers_ \cup {id} /\ stopped' = stopped \cup {id}
      BY <2>3
    <3>3. Gone(id)'
      BY <1>0, <3>1, <3>2 DEF Gone, Id
    <3>4. NotQueued(id)
      BY <1>0, <3>1 DEF NotQueued, Waiting
    <3>5. QED
      BY <1>0, <2>1, <3>2, <3>3, <3>4
  <2>4. QED
    BY <2>2, <2>3
<1>3. QED
  BY <1>1, <1>2

\* No step puts a stopped timer where it could be called.
LEMMA NextStopped == SetsInv /\ StoppedInv /\ [Next]_vars => StoppedInv'
<1> SUFFICES ASSUME SetsInv, StoppedInv, [Next]_vars PROVE StoppedInv'
  OBVIOUS
<1>0. /\ TypeOK
      /\ \A x \in stopped : Gone(x) /\ NotQueued(x)
      /\ timers_ \subseteq alive /\ expired \subseteq alive
      /\ activeTimers_ = {Id(a) : a \in timers_}
      /\ numCreated \in Nat /\ \A x \in stopped : x[2] \in Nat
      /\ toRun \subseteq expired
  BY StoppedParts DEF SetsInv, TypeOK, SameTimers, ExpiredStayAlive, TimerIds
<1> SUFFICES \A x \in stopped' : Gone(x)' /\ NotQueued(x)'
  BY DEF StoppedInv, Gone, NotQueued
<1>1. ASSUME NEW a \in Addrs, NEW d \in Delays, NEW i \in Intervals, AddTimer(a, d, i)
      PROVE  \A x \in stopped' : Gone(x)' /\ NotQueued(x)'
  <2> USE <1>1 DEF AddTimer, queueVars, histVars
  <2> DEFINE e == [op |-> "add", id |-> <<a, numCreated + 1>>]
  <2>1. \A x \in stopped : Gone(x)'
    BY <1>0, NewTimerKeeps DEF Gone, Id
  <2>2. \A x \in stopped : x # e.id
    BY <1>0 DEF Gone
  <2>3. /\ pending \in Seq([op : {"add", "cancel"}, id : TimerIds])
        /\ e \in [op : {"add", "cancel"}, id : TimerIds]
    <3>1. <<a, numCreated + 1>> \in TimerIds
      BY <1>0, ConstantsAssumption DEF NewTimer, TypeOK, TimerIds
    <3>2. QED
      BY <1>0, <3>1 DEF TypeOK
  <2>4. pending' = Append(pending, e)
    OBVIOUS
  <2> HIDE DEF e
  <2>5. \A j \in DOMAIN pending' :
          \/ j \in DOMAIN pending /\ pending'[j] = pending[j]
          \/ pending'[j] = e
    BY <2>3, <2>4, AppendElements
  <2>6. \A x \in stopped : NotQueued(x)'
    BY <1>0, <2>2, <2>5 DEF NotQueued
  <2>7. QED
    BY <2>1, <2>6
<1>2. ASSUME NEW a \in Addrs, NEW d \in Delays, NEW i \in Intervals, LoopAddTimer(a, d, i)
      PROVE  \A x \in stopped' : Gone(x)' /\ NotQueued(x)'
  <2> USE <1>2 DEF LoopAddTimer, AddTimerInLoop, histVars
  <2>1. \A x \in stopped : Gone(x)'
    BY <1>0, NewTimerKeeps DEF Gone, Id
  <2>2. QED
    BY <1>0, <2>1 DEF NotQueued
<1>3. ASSUME NEW id \in TimerIds, Cancel(id)
      PROVE  \A x \in stopped' : Gone(x)' /\ NotQueued(x)'
  <2> USE <1>3 DEF Cancel, heapVars, queueVars, histVars
  <2> DEFINE e == [op |-> "cancel", id |-> id]
  <2>1. /\ pending \in Seq([op : {"add", "cancel"}, id : TimerIds])
        /\ e \in [op : {"add", "cancel"}, id : TimerIds]
        /\ e.op # "add"
    BY <1>0 DEF TypeOK
  <2>2. pending' = Append(pending, e)
    OBVIOUS
  <2> HIDE DEF e
  <2>3. \A j \in DOMAIN pending' :
          \/ j \in DOMAIN pending /\ pending'[j] = pending[j]
          \/ pending'[j] = e
    BY <2>1, <2>2, AppendElements
  <2>4. \A x \in stopped : NotQueued(x)'
    BY <1>0, <2>1, <2>3 DEF NotQueued
  <2>5. QED
    BY <1>0, <2>4 DEF Gone, Id
<1>4. ASSUME NEW id \in TimerIds, LoopCancel(id)
      PROVE  \A x \in stopped' : Gone(x)' /\ NotQueued(x)'
  BY <1>4, CancelStops DEF LoopCancel, userVars, NotQueued
<1>5. ASSUME NEW id \in TimerIds, AddTimerReturns(id)
      PROVE  \A x \in stopped' : Gone(x)' /\ NotQueued(x)'
  BY <1>0, <1>5 DEF AddTimerReturns, heapVars, queueVars, Gone, Id, NotQueued
<1>6. CASE RunPendingAdd
  <2> USE <1>6 DEF RunPendingAdd, AddTimerInLoop, heapVars, histVars
  <2>1. Head(pending).id \in TimerIds
    BY <1>0, PendingHead
  <2>2. activeTimers_' = activeTimers_ \cup {Head(pending).id}
    BY <2>1 DEF TimerIds
  <2>3. \A x \in stopped : x # Head(pending).id
    BY <1>0, HeadElement DEF TypeOK, NotQueued
  <2>4. \A x \in stopped : Gone(x)'
    BY <1>0, <2>2, <2>3 DEF Gone, Id
  <2>5. QED
    BY <1>0, <2>4, TailNotQueued
<1>7. CASE RunPendingCancel
  <2> USE <1>7 DEF RunPendingCancel
  <2>1. Head(pending).id \in TimerIds
    BY <1>0, PendingHead
  <2>2. \A x \in stopped' : Gone(x)' /\ NotQueued(x)
    BY <2>1, CancelStops
  <2>3. QED
    BY <1>0, <2>2, TailNotQueued
<1>8. CASE HandleRead
  <2> USE <1>8 DEF HandleRead, Due, heapVars, userVars, histVars
  <2>1. \A x \in stopped : Gone(x)'
    BY <1>0 DEF Gone, Id
  <2>2. QED
    BY <1>0, <2>1 DEF NotQueued
<1>9. ASSUME NEW a \in Addrs, RunTimer(a)
      PROVE  \A x \in stopped' : Gone(x)' /\ NotQueued(x)'
  BY <1>0, <1>9 DEF RunTimer, heapVars, userVars, Gone, Id, NotQueued
<1>10. CASE Reset
  <2> USE <1>10 DEF Reset, userVars
  <2>1. \A x \in stopped : Gone(x)'
    BY <1>0 DEF Gone, Id, Again
  <2>2. QED
    BY <1>0, <2>1 DEF NotQueued
<1>11. CASE Poll
  BY <1>0, <1>11 DEF Poll, heapVars, queueVars, userVars, histVars, Gone, Id, NotQueued
<1>12. CASE Tick
  BY <1>0, <1>12 DEF Tick, userVars, histVars, Gone, Id, NotQueued
<1>13. CASE UNCHANGED vars
  BY <1>0, <1>13 DEF vars, heapVars, queueVars, userVars, histVars, Gone, Id, NotQueued
<1>14. QED
  BY <1>1, <1>2, <1>3, <1>4, <1>5, <1>6, <1>7, <1>8, <1>9, <1>10, <1>11, <1>12, <1>13
     DEF Next, UserStep, LoopStep

\* Only run() changes running to a timer, and only to one still to be called.
LEMMA StoppedStep ==
  TypeOK /\ StoppedInv /\ [Next]_vars => (\A id \in stopped : running' = id => running = id)
<1> SUFFICES ASSUME TypeOK, StoppedInv, [Next]_vars, NEW id \in stopped, running' = id
             PROVE  running = id
  OBVIOUS
<1>1. id # <<>>
  <2>1. id \in TimerIds
    BY DEF TypeOK
  <2>2. PICK a \in Addrs, n \in 1..MaxSequence : id = <<a, n>>
    BY <2>1 DEF TimerIds
  <2>3. Len(<<a, n>>) = 2 /\ Len(<<>>) = 0
    OBVIOUS
  <2>4. QED
    BY <2>2, <2>3
<1>2. ASSUME NEW a \in Addrs, RunTimer(a) PROVE FALSE
  BY <1>2 DEF RunTimer, StoppedInv, TypeOK
<1>3. CASE Reset
  BY <1>1, <1>3 DEF Reset
<1>4. CASE UNCHANGED running
  BY <1>4
<1>5. QED
  BY <1>2, <1>3, <1>4 DEF Next, UserStep, LoopStep, AddTimer, LoopAddTimer, Cancel,
     LoopCancel, AddTimerReturns, RunPendingAdd, RunPendingCancel, HandleRead, Poll,
     Tick, vars, histVars

-----------------------------------------------------------------------------
(* The theorems. *)

\* The constructor establishes the invariant.
LEMMA InitIInv == Init => IInv
<1> SUFFICES ASSUME Init PROVE IInv
  OBVIOUS
<1>1. NoOversleep /\ StoppedInv
  BY DEF Init, NoOversleep, StoppedInv
<1>2. QED
  BY <1>1, InitSets DEF IInv

\* The inductive invariant of the timer queue: the sets and the heap, the
\* timerfd, and the stopped timers.
THEOREM Inductive == SafetySpec => []IInv
<1>1. IInv /\ [Next]_vars => IInv'
  BY NextSetsInv, NextNotLate, NextStopped DEF IInv
<1>2. QED
  BY <1>1, InitIInv, PTL DEF SafetySpec

\* Every variable keeps its type: every id that getExpired, run and reset build
\* from a Timer is one that was given out.
THEOREM TypeCorrect == SafetySpec => []TypeOK
<1>1. IInv => TypeOK
  BY DEF IInv, SetsInv
<1>2. QED
  BY <1>1, Inductive, PTL

\* timers_ and activeTimers_ hold the same live timers: the asserts of insert,
\* getExpired, cancelInLoop and reset never fail.
THEOREM SetsAgree == SafetySpec => []SameTimers
<1>1. IInv => SameTimers
  BY DEF IInv, SetsInv
<1>2. QED
  BY <1>1, Inductive, PTL

\* No Timer is deleted while handleRead still uses it or while its
\* addTimerInLoop is queued, whatever other threads and callbacks cancel.
THEOREM NoUseAfterDelete == SafetySpec => []TouchedStayAlive
<1>1. IInv => TouchedStayAlive
  BY DEF IInv, SetsInv, TouchedStayAlive
<1>2. QED
  BY <1>1, Inductive, PTL

\* The timerfd is armed for the earliest timer, or has already expired, whenever
\* handleRead is not running: no timer waits for a wake-up that is not coming.
THEOREM NeverLate == SafetySpec => []NoOversleep
<1>1. IInv => NoOversleep
  BY DEF IInv
<1>2. QED
  BY <1>1, Inductive, PTL

\* A timer that cancelInLoop stopped is not called again, even when it is
\* cancelled from a callback of the round in which it expired.
THEOREM StoppedStaysStopped == SafetySpec => StoppedNeverRuns
<1>1. IInv /\ [Next]_vars => [\A id \in stopped : running' = id => running = id]_vars
  BY StoppedStep DEF IInv, SetsInv
<1>2. QED
  BY <1>1, Inductive, PTL DEF SafetySpec, StoppedNeverRuns
=============================================================================
