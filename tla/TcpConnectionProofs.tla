------------------------ MODULE TcpConnectionProofs ------------------------
(***************************************************************************)
(* Proofs about module TcpConnection.  For every use: connectEstablished   *)
(* comes first and once.  For a connection that is well used (WellUsed     *)
(* below), by any number of threads: no assert on its path fails, nothing  *)
(* runs on a destroyed object, the connection callbacks come in pairs, and *)
(* no message is delivered after the connection was reported down.         *)
(***************************************************************************)
EXTENDS TcpConnection, TLAPS

Functors == Owning \cup Raw

\* A functor waits in pendingFunctors_, or in the batch that is being called.
Posted(f)  == f \in Range(pending)
Batched(f) == f \in Range(functors)
InQueue(f) == Posted(f) \/ Batched(f)

\* A functor is in the queue once at most.
OnceIn(f, s) == \A i, j \in DOMAIN s : s[i] = f /\ s[j] = f => i = j
Once(f)      == OnceIn(f, pending) /\ OnceIn(f, functors) /\ ~(Posted(f) /\ Batched(f))

NoCallUnderway == \A t \in Threads : underway[t] = Idle

Unborn == state_ \in {"none", "kConnecting"}
Open   == state_ \in {"kConnected", "kDisconnecting"}

-----------------------------------------------------------------------------
(* The invariant of every use. *)

\* Nobody has touched a connection before connectEstablished.
UnbornInv ==
  IF Unborn
    THEN /\ ~userRef /\ NoCallUnderway /\ ~timer /\ callback = "none" /\ removals = 0
         /\ revents = {} /\ ~guard /\ index = "kNew" /\ events = {}
         /\ ups = 0 /\ downs = 0
    ELSE ups = 1

\* connectEstablished is the first functor of the queue, and the only one but
\* for the connectDestroyed that ~TcpServer posts behind it.
FirstInv ==
  /\ state_ = "none" => pending = <<>> /\ functors = <<>>
  /\ state_ = "kConnecting" =>
       /\ ~onLoop
       /\ \/ functors # <<>> /\ Head(functors) = "connectEstablished"
          \/ functors = <<>> /\ pending # <<>> /\ Head(pending) = "connectEstablished"
       /\ \A f : InQueue(f) => f \in {"connectEstablished", "connectDestroyed"}
  /\ InQueue("connectEstablished") => state_ = "kConnecting"
  /\ Once("connectEstablished")

\* There is a batch only while doPendingFunctors runs.
BatchInv == phase # "functors" => functors = <<>>

AnyInv == TypeOK /\ UnbornInv /\ FirstInv /\ BatchInv /\ aborted # "connectEstablished"

-----------------------------------------------------------------------------
(* The invariant of a well used connection. *)

\* Users leave startRead and stopRead alone, only send() from other threads, keep
\* the pointer during a call of their own, and keep the server.
WellUsed ==
  /\ LoopCalls \subseteq {"send", "shutdown", "forceClose", "forceCloseWithDelay"}
  /\ ThreadCalls \subseteq {"send"}
  /\ ~EarlyDrop /\ ~ServerDtor

LoopInv ==
  /\ server /\ aborted = "no" /\ callback # "destroying"
  /\ "hup" \notin revents /\ ("in" \in revents => Open)
  /\ phase # "handle" => revents = {} /\ ~guard

\* Whoever has a call underway or posted holds the connection.
HeldInv ==
  /\ \A f \in Raw : InQueue(f) => f = "sendInLoop" /\ userRef
  /\ \A t \in Threads : underway[t] # Idle => userRef /\ underway[t][1] = "send"

OpenInv ==
  /\ state_ = "none" => ~connections_
  /\ state_ = "kConnecting" \/ Open => connections_
  /\ Open => index = "kAdded" /\ "read" \in events /\ downs = 0
  /\ state_ # "kDisconnected" =>
       removals = 0 /\ callback # "closing" /\ ~InQueue("connectDestroyed")

\* A closed connection is on its way out of the map and the loop, and in one
\* place on that way.
ClosedInv ==
  /\ Once("connectDestroyed")
  /\ state_ = "kDisconnected" =>
       /\ events = {} /\ downs = 1
       /\ \/ /\ callback = "closing" /\ connections_ /\ index = "kDeleted"
             /\ removals = 0 /\ ~InQueue("connectDestroyed")
          \/ /\ callback # "closing" /\ connections_ /\ index = "kDeleted"
             /\ removals = 1 /\ ~InQueue("connectDestroyed")
          \/ /\ callback # "closing" /\ ~connections_ /\ index = "kDeleted"
             /\ removals = 0 /\ InQueue("connectDestroyed")
          \/ /\ callback # "closing" /\ ~connections_ /\ index = "kNew"
             /\ removals = 0 /\ ~InQueue("connectDestroyed")

UsedInv == LoopInv /\ HeldInv /\ OpenInv /\ ClosedInv

-----------------------------------------------------------------------------
(* The queue. *)

\* Posting a functor at the end.
LEMMA Posting ==
  ASSUME NEW s \in Seq(Functors), NEW f \in Functors
  PROVE  /\ Append(s, f) \in Seq(Functors)
         /\ \A g : g \in Range(Append(s, f)) <=> g \in Range(s) \/ g = f
         /\ \A g : OnceIn(g, s) /\ (g = f => g \notin Range(s)) => OnceIn(g, Append(s, f))
         /\ Append(s, f) # <<>> /\ Head(Append(s, f)) = IF s = <<>> THEN f ELSE Head(s)
<1> DEFINE a == Append(s, f)
<1>1. /\ a \in Seq(Functors) /\ Len(a) = Len(s) + 1 /\ a[Len(s) + 1] = f
      /\ \A i \in DOMAIN s : i \in DOMAIN a /\ a[i] = s[i]
      /\ \A i \in DOMAIN a : i \in DOMAIN s \/ i = Len(s) + 1
      /\ Len(s) + 1 \in DOMAIN a /\ Len(s) + 1 \notin DOMAIN s
  OBVIOUS
<1>h. a # <<>> /\ Head(a) = IF s = <<>> THEN f ELSE Head(s)
  <2>1. a # <<>> /\ Head(a) = a[1]
    BY <1>1
  <2>2. s = <<>> => a[1] = f
    BY <1>1
  <2>3. s # <<>> => a[1] = Head(s)
    BY <1>1
  <2> QED BY <2>1, <2>2, <2>3
<1> HIDE DEF a
<1>2. \A g : g \in Range(a) <=> g \in Range(s) \/ g = f
  BY <1>1 DEF Range
<1>3. ASSUME NEW g, OnceIn(g, s), g = f => g \notin Range(s) PROVE OnceIn(g, a)
  <2>1. ASSUME NEW i \in DOMAIN a, NEW j \in DOMAIN a, a[i] = g, a[j] = g PROVE i = j
    BY <1>1, <1>3, <2>1 DEF OnceIn, Range
  <2> QED BY <2>1 DEF OnceIn
<1> QED BY <1>1, <1>h, <1>2, <1>3 DEF a

\* Taking the next functor of the batch.
LEMMA Taking ==
  ASSUME NEW s \in Seq(Functors), s # <<>>
  PROVE  /\ Tail(s) \in Seq(Functors)
         /\ \A g : g \in Range(s) <=> g = Head(s) \/ g \in Range(Tail(s))
         /\ \A g : OnceIn(g, s) => OnceIn(g, Tail(s)) /\ (g = Head(s) => g \notin Range(Tail(s)))
<1> DEFINE t == Tail(s)
<1>1. /\ t \in Seq(Functors) /\ Head(s) = s[1] /\ 1 \in DOMAIN s
      /\ \A i \in DOMAIN t : i + 1 \in DOMAIN s /\ i + 1 # 1 /\ t[i] = s[i + 1]
      /\ \A i \in DOMAIN s : i = 1 \/ (i - 1 \in DOMAIN t /\ t[i - 1] = s[i])
      /\ \A i, j \in DOMAIN t : i + 1 = j + 1 => i = j
  OBVIOUS
<1> HIDE DEF t
<1>2. \A g : g \in Range(s) <=> g = Head(s) \/ g \in Range(t)
  BY <1>1 DEF Range
<1>3. ASSUME NEW g, OnceIn(g, s) PROVE OnceIn(g, t) /\ (g = Head(s) => g \notin Range(t))
  <2>1. ASSUME NEW i \in DOMAIN t, NEW j \in DOMAIN t, t[i] = g, t[j] = g PROVE i = j
    BY <1>1, <1>3, <2>1 DEF OnceIn
  <2>2. g = Head(s) => g \notin Range(t)
    BY <1>1, <1>3 DEF OnceIn, Range
  <2> QED BY <2>1, <2>2 DEF OnceIn
<1> QED BY <1>1, <1>2, <1>3 DEF t

\* What Queued asks of the two parts of the queue.
LEMMA QueuedParts ==
  ASSUME NEW p \in Seq(Functors), NEW q \in Seq(Functors)
  PROVE  Range(p \o q) = Range(p) \cup Range(q)
<1> DEFINE r == p \o q
<1>1. /\ \A i \in DOMAIN p : i \in DOMAIN r /\ r[i] = p[i]
      /\ \A i \in DOMAIN q : Len(p) + i \in DOMAIN r /\ r[Len(p) + i] = q[i]
  OBVIOUS
<1>2. /\ DOMAIN r = 1..(Len(p) + Len(q)) /\ Len(p) \in Nat /\ Len(q) \in Nat
      /\ DOMAIN p = 1..Len(p) /\ DOMAIN q = 1..Len(q)
  OBVIOUS
<1> HIDE DEF r
<1>3. \A i \in DOMAIN r : i \in DOMAIN p \/ \E j \in DOMAIN q : i = Len(p) + j
  <2>1. ASSUME NEW i \in DOMAIN r, i \notin DOMAIN p PROVE i - Len(p) \in DOMAIN q
        /\ i = Len(p) + (i - Len(p))
    BY <1>2, <2>1
  <2> QED BY <2>1
<1>4. \A x : x \in Range(r) <=> x \in Range(p) \/ x \in Range(q)
  BY <1>1, <1>3 DEF Range
<1> QED BY <1>4 DEF r

\* Queued in terms of the two parts of the queue.
LEMMA QueuedMeans ==
  ASSUME TypeOK PROVE \A K : Queued(K) <=> \E f \in K : InQueue(f)
<1>1. pending \in Seq(Functors) /\ functors \in Seq(Functors)
  BY DEF TypeOK, Functors
<1>2. Range(pending \o functors) = Range(pending) \cup Range(functors)
  BY <1>1, QueuedParts
<1> QED BY <1>2 DEF Queued, InQueue, Posted, Batched

\* The empty queue.
LEMMA EmptyQueue == <<>> \in Seq(Functors) /\ \A f : f \notin Range(<<>>) /\ OnceIn(f, <<>>)
BY DEF Range, OnceIn

\* A functor that is not in a sequence is there once at most.
LEMMA AbsentOnce == ASSUME NEW f, NEW s, f \notin Range(s) PROVE OnceIn(f, s)
BY DEF Range, OnceIn

-----------------------------------------------------------------------------
(* The bodies that run in the IO loop. *)

\* handleClose: the channel that was watched is out of the epoll set.
LEMMA CloseEffect ==
  ASSUME TypeOK, HandleClose
  PROVE  /\ state_' = "kDisconnected" /\ callback' = "closing" /\ events' = {}
         /\ index' \in {"kAdded", "kDeleted"} /\ (index = "kAdded" => index' = "kDeleted")
         /\ userRef' \in BOOLEAN /\ (userRef => userRef')
         /\ downs' \in Nat /\ (downs = 0 => downs' = 1)
         /\ UNCHANGED <<reading_, halfClosed>>
<1>1. userRef' \in BOOLEAN /\ (userRef => userRef')
  <2>1. userRef' = userRef \/ userRef' = TRUE
    BY DEF HandleClose
  <2> QED BY <2>1, Zenon DEF TypeOK
<1>2. downs' \in Nat /\ (downs = 0 => downs' = 1)
  BY DEF TypeOK, HandleClose, Twice
<1> QED BY <1>1, <1>2 DEF HandleClose, Update

\* sendInLoop watches for writability only on a connection that is not closed.
LEMMA SendEffect ==
  ASSUME SendInLoop
  PROVE  /\ pending' = pending \/ pending' = Append(pending, "writeComplete")
         /\ \/ UNCHANGED <<events, index>>
            \/ state_ # "kDisconnected" /\ events' = events \cup {"write"} /\ index' = "kAdded"
BY DEF SendInLoop, Update, chanVars

\* What startRead and stopRead may change.
LEMMA ReadEffect ==
  ASSUME TypeOK, StartReadInLoop \/ StopReadInLoop
  PROVE  /\ events' \in SUBSET {"read", "write"} /\ index' \in {"kNew", "kAdded", "kDeleted"}
         /\ reading_' \in BOOLEAN
<1>1. reading_' \in BOOLEAN
  BY Zenon DEF TypeOK, StartReadInLoop, StopReadInLoop
<1> QED BY <1>1 DEF TypeOK, StartReadInLoop, StopReadInLoop, Update, chanVars

-----------------------------------------------------------------------------
(* The initial states. *)

\* No connection has been created yet.
LEMMA InitInv == Init => AnyInv /\ UsedInv
<1> SUFFICES ASSUME Init PROVE AnyInv /\ UsedInv
  OBVIOUS
<1>1. TypeOK
  <2>1. pending \in Seq(Functors) /\ functors \in Seq(Functors) /\ onLoop \in BOOLEAN
    BY EmptyQueue, CallsAssumption DEF Init
  <2>2. underway \in [Threads -> {Idle}]
    BY DEF Init
  <2> QED BY <2>1, <2>2 DEF Init, TypeOK, Functors
<1>2. UnbornInv
  BY DEF Init, UnbornInv, Unborn, NoCallUnderway
<1>3. FirstInv /\ BatchInv /\ aborted # "connectEstablished"
  BY EmptyQueue DEF Init, FirstInv, BatchInv, Once, InQueue, Posted, Batched
<1>4. LoopInv /\ HeldInv
  BY EmptyQueue DEF Init, LoopInv, HeldInv, InQueue, Posted, Batched
<1>5. OpenInv /\ ClosedInv
  BY EmptyQueue DEF Init, OpenInv, Open, ClosedInv, Once, InQueue, Posted, Batched
<1> QED BY <1>1, <1>2, <1>3, <1>4, <1>5 DEF AnyInv, UsedInv

-----------------------------------------------------------------------------
(* One lemma per action. *)

\* Once connectEstablished has run, a step that does not post it again is
\* harmless for AnyInv.
LEMMA Later ==
  ASSUME AnyInv, TypeOK', ~Unborn, ~Unborn', ups' = ups, aborted' # "connectEstablished",
         "connectEstablished" \notin Range(pending'),
         "connectEstablished" \notin Range(functors'),
         UNCHANGED <<phase, functors>> \/ BatchInv'
  PROVE  AnyInv'
<1>1. UnbornInv'
  BY DEF AnyInv, UnbornInv
<1>2. OnceIn("connectEstablished", pending') /\ OnceIn("connectEstablished", functors')
  BY AbsentOnce
<1>3. FirstInv'
  BY <1>2 DEF FirstInv, Once, InQueue, Posted, Batched, Unborn
<1>4. BatchInv'
  BY DEF AnyInv, BatchInv
<1> QED BY <1>1, <1>3, <1>4 DEF AnyInv

\* A failed assert changes nothing else.
LEMMA AbortStep ==
  ASSUME AnyInv,
         NEW where \in {"handleClose", "remove", "removeChannel", "activeChannel",
                       "removeConnection", "server", "useAfterFree"},
         Abort(where)
  PROVE  AnyInv'
<1>1. /\ aborted' = where
      /\ UNCHANGED <<state_, reading_, halfClosed, events, index, revents, guard, callback,
                     connections_, server, onLoop, removals, pending, functors, phase,
                     batchHolds, timer, userRef, underway, ups, downs>>
  BY DEF Abort, connVars, chanVars, pollVars, serverVars, queueVars, userVars, histVars
<1>2. TypeOK'
  BY <1>1 DEF AnyInv, TypeOK
<1>3. UnbornInv'
  BY <1>1 DEF AnyInv, UnbornInv, Unborn, NoCallUnderway
<1>4. FirstInv' /\ BatchInv' /\ aborted' # "connectEstablished"
  BY <1>1 DEF AnyInv, FirstInv, BatchInv, Once, InQueue, Posted, Batched
<1> QED BY <1>2, <1>3, <1>4 DEF AnyInv

\* poll reports only what the channel has asked for.
LEMMA PollStep ==
  ASSUME AnyInv, Poll
  PROVE  AnyInv' /\ (WellUsed /\ UsedInv => UsedInv')
<1>1. /\ phase = "poll" /\ phase' = "handle" /\ revents' \in SUBSET {"in", "out", "hup"}
      /\ revents' # {} => index = "kAdded"
      /\ "in" \in revents' => "read" \in events
      /\ "hup" \in revents' => "read" \notin events
      /\ UNCHANGED <<state_, reading_, halfClosed, events, index, guard, callback, connections_,
                     server, onLoop, removals, pending, functors, batchHolds, timer, userRef,
                     underway, ups, downs, aborted>>
  BY DEF Poll, connVars, chanVars, pollVars, serverVars, queueVars, userVars, histVars
<1>2. TypeOK'
  BY <1>1 DEF AnyInv, TypeOK
<1>3. UnbornInv'
  BY <1>1 DEF AnyInv, UnbornInv, Unborn, NoCallUnderway
<1>4. FirstInv' /\ BatchInv' /\ aborted' # "connectEstablished"
  BY <1>1 DEF AnyInv, FirstInv, BatchInv, Once, InQueue, Posted, Batched
<1>5. ASSUME WellUsed, UsedInv PROVE UsedInv'
  <2>1. LoopInv'
    BY <1>1, <1>5 DEF AnyInv, UsedInv, TypeOK, LoopInv, Open, OpenInv, ClosedInv, UnbornInv,
       Unborn
  <2>2. HeldInv' /\ OpenInv' /\ ClosedInv'
    BY <1>1, <1>5 DEF AnyInv, UsedInv, TypeOK, HeldInv, Raw, InQueue, Posted, Batched, OpenInv,
       Open, ClosedInv, Once
  <2> QED BY <2>1, <2>2 DEF UsedInv
<1> QED BY <1>2, <1>3, <1>4, <1>5 DEF AnyInv

\* A hang-up without input: not with "read" asked for.
LEMMA HandleHupStep ==
  ASSUME AnyInv, HandleHup
  PROVE  AnyInv' /\ (WellUsed /\ UsedInv => UsedInv')
<1>1. "hup" \in revents
  BY DEF HandleHup
<1>2. ~Unborn /\ ~InQueue("connectEstablished")
  BY <1>1 DEF AnyInv, TypeOK, UnbornInv, FirstInv, Unborn
<1>3. CASE CanClose
  <2>1. /\ HandleClose /\ guard' = TRUE /\ guard' \in BOOLEAN /\ revents' = revents \ {"hup"}
        /\ UNCHANGED <<connections_, server, onLoop, removals, pending, functors, phase,
                       batchHolds, timer, underway, ups, aborted>>
    BY <1>3 DEF HandleHup, serverVars, queueVars
  <2>2. /\ state_' = "kDisconnected" /\ callback' = "closing" /\ events' = {}
        /\ index' \in {"kAdded", "kDeleted"} /\ (index = "kAdded" => index' = "kDeleted")
        /\ userRef' \in BOOLEAN /\ (userRef => userRef')
        /\ downs' \in Nat /\ (downs = 0 => downs' = 1)
        /\ UNCHANGED <<reading_, halfClosed>>
    BY <2>1, CloseEffect DEF AnyInv
  <2>3. TypeOK'
    BY <2>1, <2>2 DEF AnyInv, TypeOK
  <2> QED BY <1>1, <1>2, <2>1, <2>2, <2>3, Later DEF AnyInv, UsedInv, LoopInv, InQueue, Posted,
             Batched, Unborn
<1>4. CASE ~CanClose
  BY <1>1, <1>4, AbortStep DEF HandleHup, UsedInv, LoopInv
<1> QED BY <1>3, <1>4

\* A message, the end of the stream, or an error.
LEMMA HandleReadStep ==
  ASSUME AnyInv, HandleRead
  PROVE  AnyInv' /\ (WellUsed /\ UsedInv => UsedInv')
<1>1. callback = "none" /\ "in" \in revents
  BY DEF HandleRead
<1>2. ~Unborn /\ ~InQueue("connectEstablished")
  BY <1>1 DEF AnyInv, TypeOK, UnbornInv, FirstInv, Unborn
<1>3. CASE /\ callback' = "message" /\ userRef' \in {userRef, TRUE}
           /\ guard' = TRUE /\ revents' = revents \ {"in"}
           /\ UNCHANGED <<state_, reading_, halfClosed, events, index, connections_, server,
                          onLoop, removals, pending, functors, phase, batchHolds, timer,
                          underway, ups, downs, aborted>>
  <2>1. guard' \in BOOLEAN /\ userRef' \in BOOLEAN /\ (userRef => userRef')
    <3>1. userRef' = userRef \/ userRef' = TRUE
      BY <1>3
    <3> QED BY <1>3, <3>1, Zenon DEF AnyInv, TypeOK
  <2>2. TypeOK'
    BY <1>3, <2>1 DEF AnyInv, TypeOK
  <2>3. AnyInv'
    BY <1>2, <1>3, <2>2, Later DEF AnyInv, InQueue, Posted, Batched, Unborn
  <2>4. ASSUME WellUsed, UsedInv PROVE UsedInv'
    <3>1. LoopInv'
      BY <1>1, <1>3, <2>1, <2>4 DEF AnyInv, UsedInv, TypeOK, LoopInv, Open
    <3>2. HeldInv'
      BY <1>1, <1>3, <2>1, <2>4 DEF AnyInv, UsedInv, TypeOK, HeldInv, Raw, InQueue, Posted,
         Batched
    <3>3. OpenInv'
      BY <1>1, <1>3, <2>1, <2>4 DEF AnyInv, UsedInv, TypeOK, OpenInv, Open, InQueue, Posted,
         Batched
    <3>4. ClosedInv'
      BY <1>1, <1>3, <2>1, <2>4 DEF AnyInv, UsedInv, TypeOK, ClosedInv, Once, InQueue, Posted,
         Batched
    <3> QED BY <3>1, <3>2, <3>3, <3>4 DEF UsedInv
  <2> QED BY <2>3, <2>4
<1>4. CASE /\ CanClose /\ HandleClose
           /\ guard' = TRUE /\ revents' = revents \ {"in"}
           /\ UNCHANGED <<connections_, server, onLoop, removals, pending, functors, phase,
                          batchHolds, timer, underway, ups, aborted>>
  <2>1. /\ state_' = "kDisconnected" /\ callback' = "closing" /\ events' = {}
        /\ index' \in {"kAdded", "kDeleted"} /\ (index = "kAdded" => index' = "kDeleted")
        /\ userRef' \in BOOLEAN /\ (userRef => userRef')
        /\ downs' \in Nat /\ (downs = 0 => downs' = 1)
        /\ UNCHANGED <<reading_, halfClosed>>
    BY <1>4, CloseEffect DEF AnyInv
  <2>2. TypeOK' /\ guard' \in BOOLEAN
    BY <1>4, <2>1 DEF AnyInv, TypeOK
  <2>3. AnyInv'
    BY <1>2, <1>4, <2>1, <2>2, Later DEF AnyInv, InQueue, Posted, Batched, Unborn
  <2>4. ASSUME WellUsed, UsedInv PROVE UsedInv'
    <3>0. Open
      BY <1>1, <2>4 DEF UsedInv, LoopInv
    <3>1. LoopInv'
      BY <1>1, <1>4, <2>1, <2>4, <3>0 DEF AnyInv, UsedInv, TypeOK, LoopInv, Open
    <3>2. HeldInv'
      BY <1>1, <1>4, <2>1, <2>4, <3>0 DEF AnyInv, UsedInv, TypeOK, HeldInv, Raw, InQueue,
         Posted, Batched
    <3>3. OpenInv'
      BY <1>1, <1>4, <2>1, <2>4, <3>0 DEF AnyInv, UsedInv, TypeOK, OpenInv, Open, InQueue,
         Posted, Batched
    <3>4. ClosedInv'
      BY <1>1, <1>4, <2>1, <2>4, <3>0 DEF AnyInv, UsedInv, TypeOK, ClosedInv, Once, InQueue,
         Posted, Batched, OpenInv, Open
    <3> QED BY <3>1, <3>2, <3>3, <3>4 DEF UsedInv
  <2> QED BY <2>3, <2>4
<1>5. CASE ~CanClose /\ Abort("handleClose")
  <2>1. AnyInv'
    BY <1>5, AbortStep
  <2>2. UsedInv => CanClose
    BY <1>1 DEF UsedInv, LoopInv, Open, CanClose
  <2> QED BY <1>5, <2>1, <2>2
<1>6. CASE /\ guard' = TRUE /\ revents' = revents \ {"in"}
           /\ UNCHANGED <<state_, reading_, halfClosed, events, index, callback, connections_,
                          server, onLoop, removals, pending, functors, phase, batchHolds, timer,
                          userRef, underway, ups, downs, aborted>>
  <2>1. TypeOK' /\ guard' \in BOOLEAN
    BY <1>6 DEF AnyInv, TypeOK
  <2>2. AnyInv'
    BY <1>2, <1>6, <2>1, Later DEF AnyInv, InQueue, Posted, Batched, Unborn
  <2>3. ASSUME WellUsed, UsedInv PROVE UsedInv'
    <3>1. LoopInv'
      BY <1>1, <1>6, <2>3 DEF AnyInv, UsedInv, TypeOK, LoopInv, Open
    <3>2. HeldInv' /\ OpenInv' /\ ClosedInv'
      BY <1>1, <1>6, <2>3 DEF AnyInv, UsedInv, TypeOK, HeldInv, Raw, InQueue, Posted, Batched,
         OpenInv, Open, ClosedInv, Once
    <3> QED BY <3>1, <3>2 DEF UsedInv
  <2> QED BY <2>2, <2>3
<1> QED BY <1>3, <1>4, <1>5, <1>6 DEF HandleRead, connVars, chanVars, pollVars, serverVars,
           queueVars, userVars, histVars

\* handleWrite, which may find the connection closed.
LEMMA HandleWriteStep ==
  ASSUME AnyInv, HandleWrite
  PROVE  AnyInv' /\ (WellUsed /\ UsedInv => UsedInv')
<1>1. /\ callback = "none" /\ revents = {"out"} /\ guard' = TRUE /\ guard' \in BOOLEAN
      /\ revents' = {}
      /\ UNCHANGED <<state_, reading_, callback, connections_, server, onLoop, removals,
                     functors, phase, batchHolds, timer, userRef, underway, ups, downs, aborted>>
  BY DEF HandleWrite, connVars, chanVars, pollVars, serverVars, queueVars, userVars, histVars
<1>2. ~Unborn /\ ~InQueue("connectEstablished")
  BY <1>1 DEF AnyInv, TypeOK, UnbornInv, FirstInv, Unborn
<1>3. CASE UNCHANGED <<events, index, halfClosed, pending>>
  <2>1. TypeOK'
    BY <1>1, <1>3 DEF AnyInv, TypeOK
  <2>2. AnyInv'
    BY <1>1, <1>2, <1>3, <2>1, Later DEF AnyInv, InQueue, Posted, Batched, Unborn
  <2>3. ASSUME WellUsed, UsedInv PROVE UsedInv'
    <3>1. LoopInv'
      BY <1>1, <1>3, <2>3 DEF AnyInv, UsedInv, TypeOK, LoopInv, Open
    <3>2. HeldInv' /\ OpenInv' /\ ClosedInv'
      BY <1>1, <1>3, <2>3 DEF AnyInv, UsedInv, TypeOK, HeldInv, Raw, InQueue, Posted, Batched,
         OpenInv, Open, ClosedInv, Once
    <3> QED BY <3>1, <3>2 DEF UsedInv
  <2> QED BY <2>2, <2>3
<1>4. CASE /\ "write" \in events /\ Update(events \ {"write"})
           /\ pending' = Append(pending, "writeComplete")
           /\ halfClosed' = (halfClosed \/ state_ = "kDisconnecting")
  <2>1. /\ pending' \in Seq(Functors)
        /\ \A g : g \in Range(pending') <=> g \in Range(pending) \/ g = "writeComplete"
        /\ \A g : OnceIn(g, pending) /\ (g = "writeComplete" => g \notin Range(pending))
                  => OnceIn(g, pending')
    <3>1. pending \in Seq(Functors) /\ "writeComplete" \in Functors
      BY DEF AnyInv, TypeOK, Functors, Owning, Raw
    <3> QED BY <1>4, <3>1, Posting
  <2>2. /\ events' = events \ {"write"} /\ index' \in {"kAdded", "kDeleted"}
        /\ halfClosed' \in BOOLEAN
        /\ "read" \in events => index' = "kAdded"
    BY <1>4 DEF Update
  <2>3. TypeOK'
    BY <1>1, <2>1, <2>2 DEF AnyInv, TypeOK, Functors
  <2>4. AnyInv'
    BY <1>1, <1>2, <2>1, <2>3, Later DEF AnyInv, InQueue, Posted, Batched, Unborn
  <2>5. ASSUME WellUsed, UsedInv PROVE UsedInv'
    <3>1. LoopInv'
      BY <1>1, <1>4, <2>1, <2>2, <2>5 DEF AnyInv, UsedInv, TypeOK, LoopInv, Open
    <3>2. HeldInv'
      BY <1>1, <1>4, <2>1, <2>2, <2>5 DEF AnyInv, UsedInv, TypeOK, HeldInv, Raw, InQueue,
         Posted, Batched
    <3>3. OpenInv'
      BY <1>1, <1>4, <2>1, <2>2, <2>5 DEF AnyInv, UsedInv, TypeOK, OpenInv, Open, InQueue,
         Posted, Batched
    <3>4. ClosedInv'
      BY <1>1, <1>4, <2>1, <2>2, <2>5 DEF AnyInv, UsedInv, TypeOK, ClosedInv, Once, InQueue,
         Posted, Batched
    <3> QED BY <3>1, <3>2, <3>3, <3>4 DEF UsedInv
  <2> QED BY <2>4, <2>5
<1> QED BY <1>3, <1>4 DEF HandleWrite, chanVars

\* handleEvent returns.
LEMMA EndEventStep ==
  ASSUME AnyInv, EndEvent
  PROVE  AnyInv' /\ (WellUsed /\ UsedInv => UsedInv')
<1>1. /\ guard /\ revents = {} /\ callback = "none" /\ guard' = FALSE /\ guard' \in BOOLEAN
      /\ UNCHANGED <<state_, reading_, halfClosed, events, index, revents, callback,
                     connections_, server, onLoop, removals, pending, functors, phase,
                     batchHolds, timer, userRef, underway, ups, downs, aborted>>
  BY DEF EndEvent, connVars, chanVars, pollVars, serverVars, queueVars, userVars, histVars
<1>2. ~Unborn /\ ~InQueue("connectEstablished")
  BY <1>1 DEF AnyInv, TypeOK, UnbornInv, FirstInv, Unborn
<1>3. TypeOK'
  BY <1>1 DEF AnyInv, TypeOK
<1>4. AnyInv'
  BY <1>1, <1>2, <1>3, Later DEF AnyInv, InQueue, Posted, Batched, Unborn
<1>5. ASSUME WellUsed, UsedInv PROVE UsedInv'
  <2>1. LoopInv'
    BY <1>1, <1>5 DEF AnyInv, UsedInv, TypeOK, LoopInv, Open
  <2>2. HeldInv' /\ OpenInv' /\ ClosedInv'
    BY <1>1, <1>5 DEF AnyInv, UsedInv, TypeOK, HeldInv, Raw, InQueue, Posted, Batched, OpenInv,
       Open, ClosedInv, Once
  <2> QED BY <2>1, <2>2 DEF UsedInv
<1> QED BY <1>4, <1>5

\* The message callback returns.
LEMMA MessageReturnsStep ==
  ASSUME AnyInv, MessageReturns
  PROVE  AnyInv' /\ (WellUsed /\ UsedInv => UsedInv')
<1>1. /\ callback = "message" /\ callback' = "none"
      /\ UNCHANGED <<state_, reading_, halfClosed, events, index, revents, guard, connections_,
                     server, onLoop, removals, pending, functors, phase, batchHolds, timer,
                     userRef, underway, ups, downs, aborted>>
  BY DEF MessageReturns, connVars, chanVars, pollVars, serverVars, queueVars, userVars, histVars
<1>2. ~Unborn /\ ~InQueue("connectEstablished")
  BY <1>1 DEF AnyInv, TypeOK, UnbornInv, FirstInv, Unborn
<1>3. TypeOK'
  BY <1>1 DEF AnyInv, TypeOK
<1>4. AnyInv'
  BY <1>1, <1>2, <1>3, Later DEF AnyInv, InQueue, Posted, Batched, Unborn
<1>5. ASSUME WellUsed, UsedInv PROVE UsedInv'
  <2>1. LoopInv'
    BY <1>1, <1>5 DEF AnyInv, UsedInv, TypeOK, LoopInv, Open
  <2>2. OpenInv'
    BY <1>1, <1>5 DEF AnyInv, UsedInv, TypeOK, OpenInv, Open, InQueue, Posted, Batched
  <2>3. ClosedInv'
    BY <1>1, <1>5 DEF AnyInv, UsedInv, TypeOK, ClosedInv, Once, InQueue, Posted, Batched
  <2>4. HeldInv'
    BY <1>1, <1>5 DEF AnyInv, UsedInv, TypeOK, HeldInv, Raw, InQueue, Posted, Batched
  <2> QED BY <2>1, <2>2, <2>3, <2>4 DEF UsedInv
<1> QED BY <1>4, <1>5

\* TcpServer::removeConnection finds the connection in its map.
LEMMA CloseCallbackStep ==
  ASSUME AnyInv, CloseCallback
  PROVE  AnyInv' /\ (WellUsed /\ UsedInv => UsedInv')
<1>1. callback = "closing"
  BY DEF CloseCallback
<1>2. ~Unborn /\ ~InQueue("connectEstablished")
  BY <1>1 DEF AnyInv, TypeOK, UnbornInv, FirstInv, Unborn
<1>3. CASE /\ onLoop /\ callback' = "none" /\ connections_' = FALSE
           /\ pending' = Append(pending, "connectDestroyed")
           /\ UNCHANGED <<state_, reading_, halfClosed, events, index, revents, guard, server,
                          onLoop, removals, functors, phase, batchHolds, timer, userRef,
                          underway, ups, downs, aborted>>
  <2>1. /\ pending' \in Seq(Functors)
        /\ \A g : g \in Range(pending') <=> g \in Range(pending) \/ g = "connectDestroyed"
        /\ \A g : OnceIn(g, pending) /\ (g = "connectDestroyed" => g \notin Range(pending))
                  => OnceIn(g, pending')
    <3>1. pending \in Seq(Functors) /\ "connectDestroyed" \in Functors
      BY DEF AnyInv, TypeOK, Functors, Owning, Raw
    <3> QED BY <1>3, <3>1, Posting
  <2>0. connections_' \in BOOLEAN
    BY <1>3
  <2>2. TypeOK'
    BY <1>3, <2>0, <2>1 DEF AnyInv, TypeOK, Functors
  <2>3. AnyInv'
    BY <1>2, <1>3, <2>1, <2>2, Later DEF AnyInv, InQueue, Posted, Batched, Unborn
  <2>4. ASSUME WellUsed, UsedInv PROVE UsedInv'
    <3>0. state_ = "kDisconnected"
      BY <1>1, <2>4 DEF UsedInv, OpenInv
    <3>1. LoopInv'
      BY <1>1, <1>3, <2>1, <2>4, <3>0 DEF AnyInv, UsedInv, TypeOK, LoopInv, Open
    <3>2. HeldInv'
      BY <1>1, <1>3, <2>1, <2>4, <3>0 DEF AnyInv, UsedInv, TypeOK, HeldInv, Raw, InQueue,
         Posted, Batched
    <3>3. OpenInv'
      BY <1>1, <1>3, <2>1, <2>4, <3>0 DEF AnyInv, UsedInv, TypeOK, OpenInv, Open, InQueue,
         Posted, Batched
    <3>4. ClosedInv'
      BY <1>1, <1>3, <2>1, <2>4, <3>0 DEF AnyInv, UsedInv, TypeOK, ClosedInv, Once, InQueue,
         Posted, Batched
    <3> QED BY <3>1, <3>2, <3>3, <3>4 DEF UsedInv
  <2> QED BY <2>3, <2>4
<1>4. CASE /\ ~onLoop /\ callback' = "none" /\ removals' = removals + 1
           /\ UNCHANGED <<state_, reading_, halfClosed, events, index, revents, guard,
                          connections_, server, onLoop, pending, functors, phase, batchHolds,
                          timer, userRef, underway, ups, downs, aborted>>
  <2>1. TypeOK'
    BY <1>4 DEF AnyInv, TypeOK
  <2>2. AnyInv'
    BY <1>2, <1>4, <2>1, Later DEF AnyInv, InQueue, Posted, Batched, Unborn
  <2>3. ASSUME WellUsed, UsedInv PROVE UsedInv'
    <3>0. state_ = "kDisconnected"
      BY <1>1, <2>3 DEF UsedInv, OpenInv
    <3>1. LoopInv'
      BY <1>1, <1>4, <2>3, <3>0 DEF AnyInv, UsedInv, TypeOK, LoopInv, Open
    <3>2. OpenInv'
      BY <1>1, <1>4, <2>3, <3>0 DEF AnyInv, UsedInv, TypeOK, OpenInv, Open, InQueue, Posted,
         Batched
    <3>3. ClosedInv'
      BY <1>1, <1>4, <2>3, <3>0 DEF AnyInv, UsedInv, TypeOK, ClosedInv, Once, InQueue, Posted,
         Batched
    <3>4. HeldInv'
      BY <1>1, <1>4, <2>3, <3>0 DEF AnyInv, UsedInv, TypeOK, HeldInv, Raw, InQueue, Posted,
         Batched
    <3> QED BY <3>1, <3>2, <3>3, <3>4 DEF UsedInv
  <2> QED BY <2>2, <2>3
<1>5. CASE (~server /\ Abort("server")) \/ (~connections_ /\ Abort("removeConnection"))
  <2>1. AnyInv'
    BY <1>5, AbortStep
  <2>2. UsedInv => server /\ connections_
    BY <1>1 DEF UsedInv, LoopInv, OpenInv, ClosedInv
  <2> QED BY <1>5, <2>1, <2>2
<1> QED BY <1>3, <1>4, <1>5 DEF CloseCallback, RemoveConnectionInLoop, connVars, chanVars,
           pollVars, serverVars, queueVars, userVars, histVars

\* The channel is removed after the callback of connectDestroyed.
LEMMA RemoveChannelStep ==
  ASSUME AnyInv, RemoveChannel
  PROVE  AnyInv' /\ (WellUsed /\ UsedInv => UsedInv')
<1>1. callback = "destroying"
  BY DEF RemoveChannel
<1>2. ~Unborn /\ ~InQueue("connectEstablished")
  BY <1>1 DEF AnyInv, TypeOK, UnbornInv, FirstInv, Unborn
<1>3. CASE /\ index' = "kNew" /\ callback' = "none"
           /\ UNCHANGED <<state_, reading_, halfClosed, events, revents, guard, connections_,
                          server, onLoop, removals, pending, functors, phase, batchHolds, timer,
                          userRef, underway, ups, downs, aborted>>
  <2>1. TypeOK'
    BY <1>3 DEF AnyInv, TypeOK
  <2> QED BY <1>1, <1>2, <1>3, <2>1, Later DEF AnyInv, UsedInv, LoopInv, InQueue, Posted,
             Batched, Unborn
<1>4. CASE RemoveFails # "no" /\ Abort(RemoveFails)
  <2>1. RemoveFails \in {"remove", "removeChannel", "activeChannel"}
    BY <1>4 DEF RemoveFails
  <2> QED BY <1>1, <1>4, <2>1, AbortStep DEF UsedInv, LoopInv
<1> QED BY <1>3, <1>4 DEF RemoveChannel, connVars, chanVars, pollVars, serverVars, queueVars,
           userVars, histVars

\* doPendingFunctors takes what was posted.
LEMMA SwapStep ==
  ASSUME AnyInv, Swap
  PROVE  AnyInv' /\ (WellUsed /\ UsedInv => UsedInv')
<1>1. /\ phase = "handle" /\ phase' = "functors" /\ functors' = pending /\ pending' = <<>>
      /\ revents = {} /\ ~guard /\ callback = "none" /\ functors = <<>>
      /\ UNCHANGED <<state_, reading_, halfClosed, events, index, revents, guard, callback,
                     connections_, server, onLoop, removals, batchHolds, timer, userRef,
                     underway, ups, downs, aborted>>
  BY DEF Swap, AnyInv, BatchInv, connVars, chanVars, pollVars, serverVars, queueVars, userVars,
     histVars
<1>2. /\ pending' \in Seq(Functors) /\ functors' \in Seq(Functors)
      /\ \A g : g \notin Range(pending') /\ OnceIn(g, pending') /\ g \notin Range(functors)
  BY <1>1, EmptyQueue DEF AnyInv, TypeOK, Functors
<1>3. TypeOK' /\ UnbornInv'
  BY <1>1, <1>2 DEF AnyInv, TypeOK, Functors, UnbornInv, Unborn, NoCallUnderway
<1>4. FirstInv' /\ BatchInv'
  BY <1>1, <1>2 DEF AnyInv, FirstInv, BatchInv, Once, InQueue, Posted, Batched
<1>5. ASSUME WellUsed, UsedInv PROVE UsedInv'
  <2>1. LoopInv'
    BY <1>1, <1>2, <1>5 DEF AnyInv, UsedInv, TypeOK, LoopInv, Open
  <2>2. HeldInv'
    BY <1>1, <1>2, <1>5 DEF AnyInv, UsedInv, TypeOK, HeldInv, Raw, InQueue, Posted, Batched
  <2>3. OpenInv'
    BY <1>1, <1>2, <1>5 DEF AnyInv, UsedInv, TypeOK, OpenInv, Open, InQueue, Posted, Batched
  <2>4. ClosedInv'
    BY <1>1, <1>2, <1>5 DEF AnyInv, UsedInv, TypeOK, ClosedInv, Once, InQueue, Posted, Batched
  <2> QED BY <2>1, <2>2, <2>3, <2>4 DEF UsedInv
<1> QED BY <1>1, <1>3, <1>4, <1>5 DEF AnyInv

\* The batch was called to its end.
LEMMA EndBatchStep ==
  ASSUME AnyInv, EndBatch
  PROVE  AnyInv' /\ (WellUsed /\ UsedInv => UsedInv')
<1>1. /\ phase = "functors" /\ phase' = "poll" /\ functors = <<>> /\ callback = "none"
      /\ batchHolds' = FALSE /\ batchHolds' \in BOOLEAN
      /\ UNCHANGED <<state_, reading_, halfClosed, events, index, revents, guard, callback,
                     connections_, server, onLoop, removals, pending, functors, timer, userRef,
                     underway, ups, downs, aborted>>
  BY DEF EndBatch, connVars, chanVars, pollVars, serverVars, queueVars, userVars, histVars
<1>2. TypeOK' /\ UnbornInv'
  BY <1>1 DEF AnyInv, TypeOK, UnbornInv, Unborn, NoCallUnderway
<1>3. FirstInv' /\ BatchInv' /\ aborted' # "connectEstablished"
  BY <1>1 DEF AnyInv, FirstInv, BatchInv, Once, InQueue, Posted, Batched
<1>4. ASSUME WellUsed, UsedInv PROVE UsedInv'
  <2>1. LoopInv'
    BY <1>1, <1>4 DEF AnyInv, UsedInv, TypeOK, LoopInv, Open
  <2>2. HeldInv' /\ OpenInv' /\ ClosedInv'
    BY <1>1, <1>4 DEF AnyInv, UsedInv, TypeOK, HeldInv, Raw, InQueue, Posted, Batched, OpenInv,
       Open, ClosedInv, Once
  <2> QED BY <2>1, <2>2 DEF UsedInv
<1> QED BY <1>2, <1>3, <1>4 DEF AnyInv

\* connectEstablished is called first.
LEMMA ConnectEstablishedStep ==
  ASSUME AnyInv, ConnectEstablished
  PROVE  AnyInv' /\ (WellUsed /\ UsedInv => UsedInv')
<1>1. /\ functors # <<>> /\ Head(functors) = "connectEstablished" /\ functors' = Tail(functors)
      /\ callback = "none" /\ batchHolds' \in BOOLEAN
      /\ UNCHANGED <<reading_, halfClosed, revents, guard, callback, connections_, server,
                     onLoop, removals, pending, phase, timer, underway, downs>>
  BY DEF ConnectEstablished, Functor, connVars, chanVars, pollVars, serverVars, queueVars,
     userVars, histVars
<1>2. /\ functors' \in Seq(Functors)
      /\ \A g : g \in Range(functors) <=> g = "connectEstablished" \/ g \in Range(functors')
      /\ \A g : OnceIn(g, functors) =>
           OnceIn(g, functors') /\ (g = "connectEstablished" => g \notin Range(functors'))
  <2>1. functors \in Seq(Functors)
    BY DEF AnyInv, TypeOK, Functors
  <2> QED BY <1>1, <2>1, Taking
<1>3. phase = "functors" /\ BatchInv' /\ Batched("connectEstablished")
  BY <1>1, <1>2 DEF AnyInv, TypeOK, BatchInv, Batched
<1>4. /\ state_ = "kConnecting" /\ ~InQueue("connectEstablished")' /\ events = {}
      /\ index = "kNew"
      /\ ~userRef /\ NoCallUnderway /\ ups = 0 /\ downs = 0 /\ removals = 0 /\ revents = {}
      /\ \A g : InQueue(g) => g \in {"connectEstablished", "connectDestroyed"}
  BY <1>1, <1>2, <1>3 DEF AnyInv, FirstInv, UnbornInv, Unborn, Once, InQueue, Posted, Batched
<1>5. /\ state_' = "kConnected" /\ events' = {"read"} /\ index' = "kAdded" /\ ups' = 1
      /\ userRef' \in BOOLEAN /\ UNCHANGED aborted
  BY <1>4 DEF ConnectEstablished, Update
<1>6. TypeOK'
  BY <1>1, <1>2, <1>5 DEF AnyInv, TypeOK, Functors
<1>7. UnbornInv'
  BY <1>5 DEF UnbornInv, Unborn
<1>8. FirstInv'
  <2>1. OnceIn("connectEstablished", pending') /\ OnceIn("connectEstablished", functors')
    BY <1>4, AbsentOnce DEF InQueue, Posted, Batched
  <2> QED BY <1>4, <1>5, <2>1 DEF FirstInv, Once, InQueue, Posted, Batched
<1>9. ASSUME WellUsed, UsedInv PROVE UsedInv'
  <2>1. LoopInv'
    BY <1>1, <1>2, <1>3, <1>4, <1>5, <1>9 DEF AnyInv, UsedInv, TypeOK, LoopInv, Open
  <2>2. HeldInv'
    BY <1>1, <1>2, <1>3, <1>4, <1>5, <1>9 DEF AnyInv, UsedInv, TypeOK, HeldInv, Raw, InQueue,
       Posted, Batched, NoCallUnderway
  <2>3. OpenInv'
    BY <1>1, <1>2, <1>3, <1>4, <1>5, <1>9 DEF AnyInv, UsedInv, TypeOK, OpenInv, Open, InQueue,
       Posted, Batched
  <2>4. ClosedInv'
    BY <1>1, <1>2, <1>3, <1>4, <1>5, <1>9 DEF AnyInv, UsedInv, TypeOK, ClosedInv, Once, InQueue,
       Posted, Batched
  <2> QED BY <2>1, <2>2, <2>3, <2>4 DEF UsedInv
<1> QED BY <1>3, <1>5, <1>6, <1>7, <1>8, <1>9 DEF AnyInv

\* connectDestroyed finds the connection closed and its channel still in the poller.
LEMMA ConnectDestroyedStep ==
  ASSUME AnyInv, ConnectDestroyed
  PROVE  AnyInv' /\ (WellUsed /\ UsedInv => UsedInv')
<1>1. /\ functors # <<>> /\ Head(functors) = "connectDestroyed" /\ functors' = Tail(functors)
      /\ callback = "none" /\ batchHolds' \in BOOLEAN
      /\ UNCHANGED <<reading_, halfClosed, revents, guard, connections_, server, onLoop,
                     removals, pending, phase, timer, underway, ups>>
  BY DEF ConnectDestroyed, Functor, connVars, chanVars, pollVars, serverVars, queueVars,
     userVars, histVars
<1>2. /\ functors' \in Seq(Functors)
      /\ \A g : g \in Range(functors) <=> g = "connectDestroyed" \/ g \in Range(functors')
      /\ \A g : OnceIn(g, functors) =>
           OnceIn(g, functors') /\ (g = "connectDestroyed" => g \notin Range(functors'))
  <2>1. functors \in Seq(Functors)
    BY DEF AnyInv, TypeOK, Functors
  <2> QED BY <1>1, <2>1, Taking
<1>3. phase = "functors" /\ BatchInv' /\ Batched("connectDestroyed")
  BY <1>1, <1>2 DEF AnyInv, TypeOK, BatchInv, Batched
<1>4. ~Unborn /\ ~InQueue("connectEstablished")
  BY <1>1, <1>3 DEF AnyInv, TypeOK, FirstInv, Unborn, InQueue, Posted, Batched, Raw
<1>5. CASE state_ = "kConnected"
  <2>1. DestroyConnected /\ UNCHANGED aborted
    BY <1>5 DEF ConnectDestroyed
  <2>2. /\ state_' = "kDisconnected" /\ events' = {} /\ index' \in {"kAdded", "kDeleted"}
        /\ callback' = "destroying" /\ downs' \in Nat
    BY <2>1 DEF AnyInv, TypeOK, DestroyConnected, Update, Twice
  <2>3. userRef' \in BOOLEAN
    <3>1. userRef' = userRef \/ userRef' = TRUE
      BY <2>1 DEF DestroyConnected
    <3> QED BY <3>1, Zenon DEF AnyInv, TypeOK
  <2>4. TypeOK'
    BY <1>1, <1>2, <2>1, <2>2, <2>3 DEF AnyInv, TypeOK, Functors
  <2>5. AnyInv'
    BY <1>1, <1>2, <1>3, <1>4, <2>1, <2>2, <2>4, Later DEF AnyInv, InQueue, Posted, Batched,
       Unborn
  <2>6. ~UsedInv
    BY <1>3, <1>5 DEF UsedInv, OpenInv, InQueue
  <2> QED BY <2>5, <2>6
<1>6. CASE state_ # "kConnected"
  <2>1. /\ aborted' = RemoveFails /\ index' = (IF RemoveFails = "no" THEN "kNew" ELSE index)
        /\ UNCHANGED <<state_, events, callback, userRef, downs>>
    BY <1>6 DEF ConnectDestroyed
  <2>2. RemoveFails \in {"no", "remove", "removeChannel", "activeChannel"}
    BY DEF RemoveFails
  <2>3. TypeOK'
    BY <1>1, <1>2, <2>1, <2>2 DEF AnyInv, TypeOK, Functors
  <2>4. AnyInv'
    BY <1>1, <1>2, <1>3, <1>4, <2>1, <2>2, <2>3, Later DEF AnyInv, InQueue, Posted, Batched,
       Unborn
  <2>5. ASSUME WellUsed, UsedInv PROVE UsedInv'
    <3>0. /\ state_ = "kDisconnected" /\ index = "kDeleted" /\ events = {} /\ revents = {}
          /\ ~InQueue("connectDestroyed")'
      BY <1>1, <1>2, <1>3, <2>5 DEF UsedInv, LoopInv, OpenInv, ClosedInv, Once, InQueue, Posted,
         Batched
    <3>1. aborted' = "no" /\ index' = "kNew"
      BY <2>1, <3>0 DEF RemoveFails
    <3>2. LoopInv'
      BY <1>1, <1>2, <1>3, <2>1, <2>5, <3>0, <3>1 DEF AnyInv, UsedInv, TypeOK, LoopInv, Open
    <3>3. HeldInv'
      BY <1>1, <1>2, <1>3, <2>1, <2>5, <3>0, <3>1 DEF AnyInv, UsedInv, TypeOK, HeldInv, Raw,
         InQueue, Posted, Batched
    <3>4. OpenInv'
      BY <1>1, <1>2, <1>3, <2>1, <2>5, <3>0, <3>1 DEF AnyInv, UsedInv, TypeOK, OpenInv, Open,
         InQueue, Posted, Batched
    <3>5. ClosedInv'
      BY <1>1, <1>2, <1>3, <2>1, <2>5, <3>0, <3>1 DEF AnyInv, UsedInv, TypeOK, ClosedInv, Once,
         InQueue, Posted, Batched
    <3> QED BY <3>2, <3>3, <3>4, <3>5 DEF UsedInv
  <2> QED BY <2>4, <2>5
<1> QED BY <1>5, <1>6

\* forceCloseInLoop closes a connection that is open.
LEMMA ForceCloseInLoopStep ==
  ASSUME AnyInv, ForceCloseInLoop
  PROVE  AnyInv' /\ (WellUsed /\ UsedInv => UsedInv')
<1>1. /\ functors # <<>> /\ Head(functors) = "forceCloseInLoop" /\ functors' = Tail(functors)
      /\ callback = "none" /\ batchHolds' \in BOOLEAN
      /\ UNCHANGED <<revents, guard, connections_, server, onLoop, removals, pending, phase,
                     timer, underway, ups, aborted>>
  BY DEF ForceCloseInLoop, Functor, connVars, chanVars, pollVars, serverVars, queueVars,
     userVars, histVars
<1>2. /\ functors' \in Seq(Functors)
      /\ \A g : g \in Range(functors) <=> g = "forceCloseInLoop" \/ g \in Range(functors')
      /\ \A g : OnceIn(g, functors) =>
           OnceIn(g, functors') /\ (g = "forceCloseInLoop" => g \notin Range(functors'))
  <2>1. functors \in Seq(Functors)
    BY DEF AnyInv, TypeOK, Functors
  <2> QED BY <1>1, <2>1, Taking
<1>3. phase = "functors" /\ BatchInv' /\ Batched("forceCloseInLoop")
  BY <1>1, <1>2 DEF AnyInv, TypeOK, BatchInv, Batched
<1>4. ~Unborn /\ ~InQueue("connectEstablished")
  BY <1>1, <1>3 DEF AnyInv, TypeOK, FirstInv, Unborn, InQueue, Posted, Batched, Raw
<1>5. CASE CanClose
  <2>1. /\ state_' = "kDisconnected" /\ callback' = "closing" /\ events' = {}
        /\ index' \in {"kAdded", "kDeleted"} /\ (index = "kAdded" => index' = "kDeleted")
        /\ userRef' \in BOOLEAN /\ (userRef => userRef')
        /\ downs' \in Nat /\ (downs = 0 => downs' = 1)
        /\ UNCHANGED <<reading_, halfClosed>>
    BY <1>5, CloseEffect DEF AnyInv, ForceCloseInLoop
  <2>2. TypeOK'
    BY <1>1, <1>2, <2>1 DEF AnyInv, TypeOK, Functors
  <2>3. AnyInv'
    BY <1>1, <1>2, <1>3, <1>4, <2>1, <2>2, Later DEF AnyInv, InQueue, Posted, Batched, Unborn
  <2>4. ASSUME WellUsed, UsedInv PROVE UsedInv'
    <3>0. revents = {} /\ Open
      BY <1>3, <1>5, <2>4 DEF UsedInv, LoopInv, CanClose, Open
    <3>1. LoopInv'
      BY <1>1, <1>2, <1>3, <2>1, <2>4, <3>0 DEF AnyInv, UsedInv, TypeOK, LoopInv, Open
    <3>2. HeldInv'
      BY <1>1, <1>2, <1>3, <2>1, <2>4, <3>0 DEF AnyInv, UsedInv, TypeOK, HeldInv, Raw, InQueue,
         Posted, Batched
    <3>3. OpenInv'
      BY <1>1, <1>2, <1>3, <2>1, <2>4, <3>0 DEF AnyInv, UsedInv, TypeOK, OpenInv, Open, InQueue,
         Posted, Batched
    <3>4. ClosedInv'
      BY <1>1, <1>2, <1>3, <2>1, <2>4, <3>0 DEF AnyInv, UsedInv, TypeOK, ClosedInv, Once,
         InQueue, Posted, Batched, OpenInv, Open
    <3> QED BY <3>1, <3>2, <3>3, <3>4 DEF UsedInv
  <2> QED BY <2>3, <2>4
<1>6. CASE ~CanClose
  <2>1. UNCHANGED <<state_, reading_, halfClosed, events, index, callback, userRef, downs>>
    BY <1>6 DEF ForceCloseInLoop, connVars, chanVars
  <2>2. TypeOK'
    BY <1>1, <1>2, <2>1 DEF AnyInv, TypeOK, Functors
  <2>3. AnyInv'
    BY <1>1, <1>2, <1>3, <1>4, <2>1, <2>2, Later DEF AnyInv, InQueue, Posted, Batched, Unborn
  <2>4. ASSUME WellUsed, UsedInv PROVE UsedInv'
    <3>1. LoopInv'
      BY <1>1, <1>2, <1>3, <2>1, <2>4 DEF AnyInv, UsedInv, TypeOK, LoopInv, Open
    <3>2. HeldInv'
      BY <1>1, <1>2, <1>3, <2>1, <2>4 DEF AnyInv, UsedInv, TypeOK, HeldInv, Raw, InQueue,
         Posted, Batched
    <3>3. OpenInv'
      BY <1>1, <1>2, <1>3, <2>1, <2>4 DEF AnyInv, UsedInv, TypeOK, OpenInv, Open, InQueue,
         Posted, Batched
    <3>4. ClosedInv'
      BY <1>1, <1>2, <1>3, <2>1, <2>4 DEF AnyInv, UsedInv, TypeOK, ClosedInv, Once, InQueue,
         Posted, Batched
    <3> QED BY <3>1, <3>2, <3>3, <3>4 DEF UsedInv
  <2> QED BY <2>3, <2>4
<1> QED BY <1>5, <1>6

\* User code in writeCompleteCallback_ may keep the pointer.
LEMMA WriteCompleteStep ==
  ASSUME AnyInv, WriteComplete
  PROVE  AnyInv' /\ (WellUsed /\ UsedInv => UsedInv')
<1>1. /\ functors # <<>> /\ Head(functors) = "writeComplete" /\ functors' = Tail(functors)
      /\ callback = "none" /\ batchHolds' \in BOOLEAN
      /\ UNCHANGED <<state_, reading_, halfClosed, events, index, revents, guard, callback,
                     connections_, server, onLoop, removals, pending, phase, timer, underway,
                     ups, downs, aborted>>
  BY DEF WriteComplete, Functor, connVars, chanVars, pollVars, serverVars, queueVars, userVars,
     histVars
<1>2. /\ functors' \in Seq(Functors)
      /\ \A g : g \in Range(functors) <=> g = "writeComplete" \/ g \in Range(functors')
      /\ \A g : OnceIn(g, functors) =>
           OnceIn(g, functors') /\ (g = "writeComplete" => g \notin Range(functors'))
  <2>1. functors \in Seq(Functors)
    BY DEF AnyInv, TypeOK, Functors
  <2> QED BY <1>1, <2>1, Taking
<1>3. phase = "functors" /\ BatchInv' /\ Batched("writeComplete")
  BY <1>1, <1>2 DEF AnyInv, TypeOK, BatchInv, Batched
<1>4. ~Unborn /\ ~InQueue("connectEstablished")
  BY <1>1, <1>3 DEF AnyInv, TypeOK, FirstInv, Unborn, InQueue, Posted, Batched, Raw
<1>5. userRef' \in BOOLEAN /\ (userRef => userRef')
  <2>1. userRef' = userRef \/ userRef' = TRUE
    BY DEF WriteComplete
  <2> QED BY <2>1, Zenon DEF AnyInv, TypeOK
<1>6. TypeOK'
  BY <1>1, <1>2, <1>5 DEF AnyInv, TypeOK, Functors
<1>7. AnyInv'
  BY <1>1, <1>2, <1>3, <1>4, <1>6, Later DEF AnyInv, InQueue, Posted, Batched, Unborn
<1>8. ASSUME WellUsed, UsedInv PROVE UsedInv'
  <2>1. LoopInv'
    BY <1>1, <1>2, <1>3, <1>5, <1>8 DEF AnyInv, UsedInv, TypeOK, LoopInv, Open
  <2>2. HeldInv'
    BY <1>1, <1>2, <1>3, <1>5, <1>8 DEF AnyInv, UsedInv, TypeOK, HeldInv, Raw, InQueue, Posted,
       Batched
  <2>3. OpenInv'
    BY <1>1, <1>2, <1>3, <1>5, <1>8 DEF AnyInv, UsedInv, TypeOK, OpenInv, Open, InQueue, Posted,
       Batched
  <2>4. ClosedInv'
    BY <1>1, <1>2, <1>3, <1>5, <1>8 DEF AnyInv, UsedInv, TypeOK, ClosedInv, Once, InQueue,
       Posted, Batched
  <2> QED BY <2>1, <2>2, <2>3, <2>4 DEF UsedInv
<1> QED BY <1>7, <1>8

\* A functor with a bare pointer runs while its poster holds the connection.
LEMMA RawFunctorStep ==
  ASSUME AnyInv, NEW f \in Raw, RawFunctor(f)
  PROVE  AnyInv' /\ (WellUsed /\ UsedInv => UsedInv')
<1>1. /\ functors # <<>> /\ Head(functors) = f /\ functors' = Tail(functors)
      /\ callback = "none" /\ batchHolds' \in BOOLEAN
      /\ UNCHANGED <<revents, guard, callback, connections_, server, onLoop, removals, phase,
                     timer, userRef, underway, ups, downs>>
  BY DEF RawFunctor, Functor, connVars, chanVars, pollVars, serverVars, queueVars, userVars,
     histVars
<1>2. /\ functors' \in Seq(Functors)
      /\ \A g : g \in Range(functors) <=> g = f \/ g \in Range(functors')
      /\ \A g : OnceIn(g, functors) =>
           OnceIn(g, functors') /\ (g = f => g \notin Range(functors'))
  <2>1. functors \in Seq(Functors)
    BY DEF AnyInv, TypeOK, Functors
  <2> QED BY <1>1, <2>1, Taking
<1>3. phase = "functors" /\ BatchInv' /\ Batched(f)
  BY <1>1, <1>2 DEF AnyInv, TypeOK, BatchInv, Batched
<1>4. ~Unborn /\ ~InQueue("connectEstablished")
  BY <1>1, <1>3 DEF AnyInv, TypeOK, FirstInv, Unborn, InQueue, Posted, Batched, Raw
<1>5. state_' = state_
  <2>1. CASE Gone
    BY <2>1 DEF RawFunctor, connVars
  <2>2. CASE ~Gone
    BY <2>2 DEF RawFunctor, connVars, Raw
  <2> QED BY <2>1, <2>2
<1>6. CASE Gone
  <2>1. aborted' = "useAfterFree" /\ UNCHANGED <<reading_, halfClosed, events, index, pending>>
    BY <1>6 DEF RawFunctor, connVars, chanVars
  <2>2. TypeOK'
    BY <1>1, <1>2, <1>5, <2>1 DEF AnyInv, TypeOK, Functors
  <2>3. AnyInv'
    BY <1>1, <1>2, <1>3, <1>4, <1>5, <2>1, <2>2, Later DEF AnyInv, InQueue, Posted, Batched,
       Unborn
  <2>4. ~UsedInv
    BY <1>3, <1>6 DEF UsedInv, HeldInv, InQueue, Gone, Held
  <2> QED BY <2>3, <2>4
<1>7. CASE ~Gone /\ f = "sendInLoop"
  <2>1. /\ pending' = pending \/ pending' = Append(pending, "writeComplete")
        /\ \/ UNCHANGED <<events, index>>
           \/ state_ # "kDisconnected" /\ events' = events \cup {"write"} /\ index' = "kAdded"
        /\ UNCHANGED <<reading_, halfClosed, aborted>>
    BY <1>7, SendEffect DEF RawFunctor, connVars
  <2>2. /\ pending' \in Seq(Functors)
        /\ \A g : g \in Range(pending') => g \in Range(pending) \/ g = "writeComplete"
        /\ \A g : g \in Range(pending) => g \in Range(pending')
        /\ \A g : g # "writeComplete" /\ OnceIn(g, pending) => OnceIn(g, pending')
    <3>1. pending \in Seq(Functors) /\ "writeComplete" \in Functors
      BY DEF AnyInv, TypeOK, Functors, Owning, Raw
    <3>2. CASE pending' = pending
      BY <3>1, <3>2
    <3>3. CASE pending' = Append(pending, "writeComplete")
      BY <3>1, <3>3, Posting
    <3> QED BY <2>1, <3>2, <3>3
  <2>e. events' \in SUBSET {"read", "write"} /\ index' \in {"kNew", "kAdded", "kDeleted"}
    BY <2>1 DEF AnyInv, TypeOK
  <2>3. TypeOK'
    BY <2>e, <1>1, <1>2, <1>5, <2>1, <2>2 DEF AnyInv, TypeOK, Functors
  <2>4. AnyInv'
    BY <1>1, <1>2, <1>3, <1>4, <1>5, <2>1, <2>2, <2>3, Later DEF AnyInv, InQueue, Posted,
       Batched, Unborn
  <2>5. ASSUME WellUsed, UsedInv PROVE UsedInv'
    <3>1. LoopInv'
      BY <1>1, <1>2, <1>3, <1>4, <1>5, <1>7, <2>1, <2>2, <2>5 DEF AnyInv, UsedInv, TypeOK,
         LoopInv, Open
    <3>2. HeldInv'
      BY <1>1, <1>2, <1>3, <1>4, <1>5, <1>7, <2>1, <2>2, <2>5 DEF AnyInv, UsedInv, TypeOK,
         HeldInv, Raw, InQueue, Posted, Batched
    <3>3. OpenInv'
      BY <1>1, <1>2, <1>3, <1>4, <1>5, <1>7, <2>1, <2>2, <2>5 DEF AnyInv, UsedInv, TypeOK,
         OpenInv, Open, InQueue, Posted, Batched, Unborn
    <3>4. ClosedInv'
      BY <1>1, <1>2, <1>3, <1>4, <1>5, <1>7, <2>1, <2>2, <2>5 DEF AnyInv, UsedInv, TypeOK,
         ClosedInv, Once, InQueue, Posted, Batched
    <3> QED BY <3>1, <3>2, <3>3, <3>4 DEF UsedInv
  <2> QED BY <2>4, <2>5
<1>8. CASE ~Gone /\ f # "sendInLoop"
  <2>1. /\ events' \in SUBSET {"read", "write"} /\ index' \in {"kNew", "kAdded", "kDeleted"}
        /\ reading_' \in BOOLEAN /\ halfClosed' \in BOOLEAN /\ UNCHANGED <<pending, aborted>>
    <3>1. CASE f = "shutdownInLoop"
      BY <1>8, <3>1 DEF AnyInv, TypeOK, RawFunctor, ShutdownInLoop, chanVars
    <3>2. CASE f = "startReadInLoop"
      BY <1>8, <3>2, ReadEffect DEF AnyInv, TypeOK, RawFunctor
    <3>3. CASE f = "stopReadInLoop"
      BY <1>8, <3>3, ReadEffect DEF AnyInv, TypeOK, RawFunctor
    <3> QED BY <1>8, <3>1, <3>2, <3>3 DEF Raw
  <2>2. TypeOK'
    BY <1>1, <1>2, <1>5, <2>1 DEF AnyInv, TypeOK, Functors
  <2>3. AnyInv'
    BY <1>1, <1>2, <1>3, <1>4, <1>5, <2>1, <2>2, Later DEF AnyInv, InQueue, Posted, Batched,
       Unborn
  <2>4. ~UsedInv
    BY <1>3, <1>8 DEF UsedInv, HeldInv, InQueue
  <2> QED BY <2>3, <2>4
<1> QED BY <1>6, <1>7, <1>8

\* A call in the IO loop.
LEMMA LoopCallStep ==
  ASSUME AnyInv, NEW call \in Calls, LoopCall(call)
  PROVE  AnyInv' /\ (WellUsed /\ UsedInv => UsedInv')
<1>1. /\ userRef /\ call \in LoopCalls /\ Passes(call)
      /\ UNCHANGED <<revents, guard, callback, connections_, server, onLoop, removals, functors,
                     phase, batchHolds, userRef, underway, ups, downs, aborted>>
  BY DEF LoopCall, connVars, chanVars, pollVars, serverVars, queueVars, userVars, histVars
<1>2. ~Unborn /\ ~InQueue("connectEstablished")
  BY <1>1 DEF AnyInv, TypeOK, UnbornInv, FirstInv, Unborn
<1>3. CASE call = "send"
  <2>1. /\ pending' = pending \/ pending' = Append(pending, "writeComplete")
        /\ \/ UNCHANGED <<events, index>>
           \/ state_ # "kDisconnected" /\ events' = events \cup {"write"} /\ index' = "kAdded"
        /\ UNCHANGED <<state_, reading_, halfClosed, timer>>
    BY <1>3, SendEffect DEF LoopCall, connVars
  <2>2. /\ pending' \in Seq(Functors)
        /\ \A g : g \in Range(pending') => g \in Range(pending) \/ g = "writeComplete"
        /\ \A g : g \in Range(pending) => g \in Range(pending')
        /\ \A g : g # "writeComplete" /\ OnceIn(g, pending) => OnceIn(g, pending')
    <3>1. pending \in Seq(Functors) /\ "writeComplete" \in Functors
      BY DEF AnyInv, TypeOK, Functors, Owning, Raw
    <3>2. CASE pending' = pending
      BY <3>1, <3>2
    <3>3. CASE pending' = Append(pending, "writeComplete")
      BY <3>1, <3>3, Posting
    <3> QED BY <2>1, <3>2, <3>3
  <2>e. events' \in SUBSET {"read", "write"} /\ index' \in {"kNew", "kAdded", "kDeleted"}
    BY <2>1 DEF AnyInv, TypeOK
  <2>3. TypeOK'
    BY <2>e, <1>1, <2>1, <2>2 DEF AnyInv, TypeOK, Functors
  <2>4. AnyInv'
    BY <1>1, <1>2, <2>1, <2>2, <2>3, Later DEF AnyInv, InQueue, Posted, Batched, Unborn
  <2>5. ASSUME WellUsed, UsedInv PROVE UsedInv'
    <3>1. HeldInv'
      BY <1>1, <1>2, <2>1, <2>2, <2>5 DEF AnyInv, UsedInv, TypeOK, HeldInv, Raw, InQueue,
         Posted, Batched
    <3>2. OpenInv'
      BY <1>1, <1>2, <2>1, <2>2, <2>5 DEF AnyInv, UsedInv, TypeOK, OpenInv, Open, InQueue,
         Posted, Batched, Unborn
    <3>3. ClosedInv'
      BY <1>1, <1>2, <2>1, <2>2, <2>5 DEF AnyInv, UsedInv, TypeOK, ClosedInv, Once, InQueue,
         Posted, Batched
    <3>4. LoopInv'
      BY <1>1, <1>2, <2>1, <2>2, <2>5 DEF AnyInv, UsedInv, TypeOK, LoopInv, Open
    <3> QED BY <3>1, <3>2, <3>3, <3>4 DEF UsedInv
  <2> QED BY <2>4, <2>5
<1>4. CASE call \in {"shutdown", "forceClose", "forceCloseWithDelay"}
  <2>1. /\ Open /\ state_' = "kDisconnecting" /\ UNCHANGED <<reading_, events, index>>
        /\ pending' = pending \/ pending' = Append(pending, "forceCloseInLoop")
    BY <1>1, <1>4 DEF LoopCall, Passes, CanClose, Open, chanVars
  <2>2. halfClosed' \in BOOLEAN /\ timer' \in BOOLEAN
    <3>1. CASE call = "shutdown"
      BY <3>1 DEF AnyInv, TypeOK, LoopCall, ShutdownInLoop
    <3>2. CASE call = "forceClose"
      BY <3>2 DEF AnyInv, TypeOK, LoopCall
    <3>3. CASE call = "forceCloseWithDelay"
      BY <3>3 DEF AnyInv, TypeOK, LoopCall
    <3> QED BY <1>4, <3>1, <3>2, <3>3
  <2>3. /\ pending' \in Seq(Functors)
        /\ \A g : g \in Range(pending') => g \in Range(pending) \/ g = "forceCloseInLoop"
        /\ \A g : g \in Range(pending) => g \in Range(pending')
        /\ \A g : g # "forceCloseInLoop" /\ OnceIn(g, pending) => OnceIn(g, pending')
    <3>1. pending \in Seq(Functors) /\ "forceCloseInLoop" \in Functors
      BY DEF AnyInv, TypeOK, Functors, Owning, Raw
    <3>2. CASE pending' = pending
      BY <3>1, <3>2
    <3>3. CASE pending' = Append(pending, "forceCloseInLoop")
      BY <3>1, <3>3, Posting
    <3> QED BY <2>1, <3>2, <3>3
  <2>4. TypeOK'
    BY <1>1, <2>1, <2>2, <2>3 DEF AnyInv, TypeOK, Functors
  <2>5. AnyInv'
    BY <1>1, <1>2, <2>1, <2>3, <2>4, Later DEF AnyInv, InQueue, Posted, Batched, Unborn
  <2>6. ASSUME WellUsed, UsedInv PROVE UsedInv'
    <3>1. LoopInv'
      BY <1>1, <1>2, <2>1, <2>3, <2>6 DEF AnyInv, UsedInv, TypeOK, LoopInv, Open
    <3>2. HeldInv'
      BY <1>1, <1>2, <2>1, <2>3, <2>6 DEF AnyInv, UsedInv, TypeOK, HeldInv, Raw, InQueue,
         Posted, Batched
    <3>3. OpenInv'
      BY <1>1, <1>2, <2>1, <2>3, <2>6 DEF AnyInv, UsedInv, TypeOK, OpenInv, Open, InQueue,
         Posted, Batched
    <3>4. ClosedInv'
      BY <1>1, <1>2, <2>1, <2>3, <2>6 DEF AnyInv, UsedInv, TypeOK, ClosedInv, Once, InQueue,
         Posted, Batched, OpenInv, Open
    <3> QED BY <3>1, <3>2, <3>3, <3>4 DEF UsedInv
  <2> QED BY <2>5, <2>6
<1>5. CASE call \in {"startRead", "stopRead"}
  <2>1. /\ events' \in SUBSET {"read", "write"} /\ index' \in {"kNew", "kAdded", "kDeleted"}
        /\ reading_' \in BOOLEAN /\ UNCHANGED <<state_, halfClosed, pending, timer>>
    BY <1>5, ReadEffect DEF AnyInv, LoopCall
  <2>2. TypeOK'
    BY <1>1, <2>1 DEF AnyInv, TypeOK
  <2>3. AnyInv'
    BY <1>1, <1>2, <2>1, <2>2, Later DEF AnyInv, InQueue, Posted, Batched, Unborn
  <2>4. ~WellUsed
    BY <1>1, <1>5 DEF WellUsed
  <2> QED BY <2>3, <2>4
<1> QED BY <1>3, <1>4, <1>5 DEF Calls

\* The user lets go of the pointer.
LEMMA DropRefStep ==
  ASSUME AnyInv, DropRef
  PROVE  AnyInv' /\ (WellUsed /\ UsedInv => UsedInv')
<1>1. /\ userRef /\ userRef' = FALSE /\ userRef' \in BOOLEAN
      /\ EarlyDrop \/ (NoCallUnderway /\ \A f \in Raw : ~InQueue(f))
      /\ UNCHANGED <<state_, reading_, halfClosed, events, index, revents, guard, callback,
                     connections_, server, onLoop, removals, pending, functors, phase,
                     batchHolds, timer, underway, ups, downs, aborted>>
  BY QueuedMeans DEF AnyInv, DropRef, NoCallUnderway, connVars, chanVars, pollVars, serverVars,
     queueVars, userVars, histVars
<1>2. ~Unborn /\ ~InQueue("connectEstablished")
  BY <1>1 DEF AnyInv, TypeOK, UnbornInv, FirstInv, Unborn
<1>3. TypeOK'
  BY <1>1 DEF AnyInv, TypeOK
<1>4. AnyInv'
  BY <1>1, <1>2, <1>3, Later DEF AnyInv, InQueue, Posted, Batched, Unborn
<1>5. ASSUME WellUsed, UsedInv PROVE UsedInv'
  <2>1. HeldInv'
    BY <1>1, <1>5 DEF AnyInv, UsedInv, TypeOK, HeldInv, Raw, InQueue, Posted, Batched, WellUsed,
       NoCallUnderway
  <2>2. LoopInv' /\ OpenInv' /\ ClosedInv'
    BY <1>1, <1>5 DEF AnyInv, UsedInv, TypeOK, LoopInv, Open, OpenInv, InQueue, Posted, Batched,
       ClosedInv, Once
  <2> QED BY <2>1, <2>2 DEF UsedInv
<1> QED BY <1>4, <1>5

\* A call of another thread: the test ...
LEMMA CallBeginsStep ==
  ASSUME AnyInv, NEW t \in Threads, NEW call \in Calls, CallBegins(t, call)
  PROVE  AnyInv' /\ (WellUsed /\ UsedInv => UsedInv')
<1>1. /\ userRef /\ call \in ThreadCalls
      /\ underway' = [underway EXCEPT ![t] = <<call, "tested">>]
      /\ UNCHANGED <<state_, reading_, halfClosed, events, index, revents, guard, callback,
                     connections_, server, onLoop, removals, pending, functors, phase,
                     batchHolds, timer, userRef, ups, downs, aborted>>
  BY DEF CallBegins, connVars, chanVars, pollVars, serverVars, queueVars, userVars, histVars
<1>2. ~Unborn /\ ~InQueue("connectEstablished")
  BY <1>1 DEF AnyInv, TypeOK, UnbornInv, FirstInv, Unborn
<1>3. /\ underway' \in [Threads -> {Idle} \cup (Calls \X {"tested", "set"})]
      /\ underway'[t] = <<call, "tested">> /\ \A u \in Threads \ {t} : underway'[u] = underway[u]
  BY <1>1 DEF AnyInv, TypeOK
<1>4. TypeOK'
  BY <1>1, <1>3 DEF AnyInv, TypeOK
<1>5. AnyInv'
  BY <1>1, <1>2, <1>4, Later DEF AnyInv, InQueue, Posted, Batched, Unborn
<1>6. ASSUME WellUsed, UsedInv PROVE UsedInv'
  <2>1. HeldInv'
    BY <1>1, <1>3, <1>6 DEF AnyInv, UsedInv, TypeOK, HeldInv, Raw, InQueue, Posted, Batched,
       WellUsed
  <2>2. LoopInv' /\ OpenInv' /\ ClosedInv'
    BY <1>1, <1>3, <1>6 DEF AnyInv, UsedInv, TypeOK, LoopInv, Open, OpenInv, InQueue, Posted,
       Batched, ClosedInv, Once
  <2> QED BY <2>1, <2>2 DEF UsedInv
<1> QED BY <1>5, <1>6

\* ... the assignment ...
LEMMA CallSetsStateStep ==
  ASSUME AnyInv, NEW t \in Threads, CallSetsState(t)
  PROVE  AnyInv' /\ (WellUsed /\ UsedInv => UsedInv')
<1>1. /\ underway[t][2] = "tested" /\ underway' = [underway EXCEPT ![t][2] = "set"]
      /\ state_' = (IF underway[t][1] \in {"shutdown", "forceClose", "forceCloseWithDelay"}
                      THEN "kDisconnecting" ELSE state_)
      /\ UNCHANGED <<reading_, halfClosed, events, index, revents, guard, callback,
                     connections_, server, onLoop, removals, pending, functors, phase,
                     batchHolds, timer, userRef, ups, downs, aborted>>
  BY DEF CallSetsState, connVars, chanVars, pollVars, serverVars, queueVars, userVars, histVars
<1>2. PICK call \in Calls : underway[t] = <<call, "tested">>
  BY <1>1 DEF AnyInv, TypeOK, Idle
<1>3. /\ underway' \in [Threads -> {Idle} \cup (Calls \X {"tested", "set"})]
      /\ underway'[t] = <<call, "set">> /\ \A u \in Threads \ {t} : underway'[u] = underway[u]
      /\ underway[t] # Idle /\ underway[t][1] = call /\ underway'[t][1] = call
  BY <1>1, <1>2 DEF AnyInv, TypeOK, Idle
<1>4. ~Unborn /\ ~InQueue("connectEstablished")
  BY <1>3 DEF AnyInv, TypeOK, UnbornInv, FirstInv, Unborn, NoCallUnderway
<1>5. TypeOK'
  BY <1>1, <1>3 DEF AnyInv, TypeOK
<1>6. AnyInv'
  BY <1>1, <1>4, <1>5, Later DEF AnyInv, InQueue, Posted, Batched, Unborn
<1>7. ASSUME WellUsed, UsedInv PROVE UsedInv'
  <2>0. call = "send" /\ userRef /\ state_' = state_
    BY <1>1, <1>3, <1>7 DEF UsedInv, HeldInv
  <2>1. HeldInv'
    BY <1>1, <1>3, <1>7, <2>0 DEF AnyInv, UsedInv, TypeOK, HeldInv, Raw, InQueue, Posted, Batched
  <2>2. LoopInv' /\ OpenInv' /\ ClosedInv'
    BY <1>1, <1>3, <1>7, <2>0 DEF AnyInv, UsedInv, TypeOK, LoopInv, Open, OpenInv, InQueue,
       Posted, Batched, ClosedInv, Once
  <2> QED BY <2>1, <2>2 DEF UsedInv
<1> QED BY <1>6, <1>7

\* ... and the push to the queue, with the pointer still held.
LEMMA CallQueuesStep ==
  ASSUME AnyInv, NEW t \in Threads, CallQueues(t)
  PROVE  AnyInv' /\ (WellUsed /\ UsedInv => UsedInv')
<1>1. /\ underway[t][2] = "set" /\ underway' = [underway EXCEPT ![t] = Idle]
      /\ UNCHANGED <<state_, reading_, halfClosed, events, index, revents, guard, callback,
                     connections_, server, onLoop, removals, functors, phase, batchHolds,
                     userRef, ups, downs, aborted>>
  BY DEF CallQueues, connVars, chanVars, pollVars, serverVars, queueVars, userVars, histVars
<1>2. PICK call \in Calls : underway[t] = <<call, "set">>
  BY <1>1 DEF AnyInv, TypeOK, Idle
<1>3. /\ underway' \in [Threads -> {Idle} \cup (Calls \X {"tested", "set"})]
      /\ underway'[t] = Idle /\ \A u \in Threads \ {t} : underway'[u] = underway[u]
      /\ underway[t] # Idle /\ underway[t][1] = call
  BY <1>1, <1>2 DEF AnyInv, TypeOK, Idle
<1>4. ~Unborn /\ ~InQueue("connectEstablished")
  BY <1>3 DEF AnyInv, TypeOK, UnbornInv, FirstInv, Unborn, NoCallUnderway
<1>5. CASE call = "forceCloseWithDelay"
  <2>1. timer' = TRUE /\ timer' \in BOOLEAN /\ pending' = pending
    BY <1>3, <1>5 DEF CallQueues
  <2>2. TypeOK'
    BY <1>1, <1>3, <2>1 DEF AnyInv, TypeOK
  <2>3. AnyInv'
    BY <1>1, <1>4, <2>1, <2>2, Later DEF AnyInv, InQueue, Posted, Batched, Unborn
  <2>4. UsedInv => call = "send"
    BY <1>3 DEF UsedInv, HeldInv
  <2> QED BY <1>5, <2>3, <2>4
<1>6. CASE call # "forceCloseWithDelay"
  <2>1. PICK f \in Functors : /\ pending' = Append(pending, f) /\ f # "connectEstablished"
                             /\ timer' = timer /\ (call = "send" => f = "sendInLoop")
    BY <1>3, <1>6 DEF CallQueues, PostedFunctor, Calls, Functors, Owning, Raw
  <2>2. /\ pending' \in Seq(Functors)
        /\ \A g : g \in Range(pending') <=> g \in Range(pending) \/ g = f
        /\ \A g : OnceIn(g, pending) /\ (g = f => g \notin Range(pending)) => OnceIn(g, pending')
    <3>1. pending \in Seq(Functors)
      BY DEF AnyInv, TypeOK, Functors
    <3> QED BY <2>1, <3>1, Posting
  <2>3. TypeOK'
    BY <1>1, <1>3, <2>1, <2>2 DEF AnyInv, TypeOK, Functors
  <2>4. AnyInv'
    BY <1>1, <1>4, <2>1, <2>2, <2>3, Later DEF AnyInv, InQueue, Posted, Batched, Unborn
  <2>5. ASSUME WellUsed, UsedInv PROVE UsedInv'
    <3>0. f = "sendInLoop" /\ userRef
      BY <1>3, <2>1, <2>5 DEF UsedInv, HeldInv
    <3>1. HeldInv'
      BY <1>1, <1>3, <2>2, <2>5, <3>0 DEF AnyInv, UsedInv, TypeOK, HeldInv, Raw, InQueue,
         Posted, Batched
    <3>2. OpenInv'
      BY <1>1, <1>3, <2>2, <2>5, <3>0 DEF AnyInv, UsedInv, TypeOK, OpenInv, Open, InQueue,
         Posted, Batched
    <3>3. ClosedInv'
      BY <1>1, <1>3, <2>2, <2>5, <3>0 DEF AnyInv, UsedInv, TypeOK, ClosedInv, Once, InQueue,
         Posted, Batched
    <3>4. LoopInv'
      BY <1>1, <1>3, <2>2, <2>5, <3>0 DEF AnyInv, UsedInv, TypeOK, LoopInv, Open
    <3> QED BY <3>1, <3>2, <3>3, <3>4 DEF UsedInv
  <2> QED BY <2>4, <2>5
<1> QED BY <1>5, <1>6

\* The delayed forceClose.
LEMMA DelayedForceCloseStep ==
  ASSUME AnyInv, DelayedForceClose
  PROVE  AnyInv' /\ (WellUsed /\ UsedInv => UsedInv')
<1>1. /\ timer /\ timer' = FALSE /\ timer' \in BOOLEAN
      /\ UNCHANGED <<reading_, halfClosed, events, index, revents, guard, callback,
                     connections_, server, onLoop, removals, functors, phase, batchHolds,
                     userRef, underway, ups, downs, aborted>>
  BY DEF DelayedForceClose, connVars, chanVars, pollVars, serverVars, queueVars, userVars,
     histVars
<1>2. ~Unborn /\ ~InQueue("connectEstablished")
  BY <1>1 DEF AnyInv, TypeOK, UnbornInv, FirstInv, Unborn
<1>3. CASE state_' = state_ /\ pending' = pending
  <2>1. TypeOK'
    BY <1>1, <1>3 DEF AnyInv, TypeOK
  <2>2. AnyInv'
    BY <1>1, <1>2, <1>3, <2>1, Later DEF AnyInv, InQueue, Posted, Batched, Unborn
  <2>3. ASSUME WellUsed, UsedInv PROVE UsedInv'
    <3>1. LoopInv'
      BY <1>1, <1>3, <2>3 DEF AnyInv, UsedInv, TypeOK, LoopInv, Open
    <3>2. HeldInv'
      BY <1>1, <1>3, <2>3 DEF AnyInv, UsedInv, TypeOK, HeldInv, Raw, InQueue, Posted, Batched
    <3>3. OpenInv'
      BY <1>1, <1>3, <2>3 DEF AnyInv, UsedInv, TypeOK, OpenInv, Open, InQueue, Posted, Batched
    <3>4. ClosedInv'
      BY <1>1, <1>3, <2>3 DEF AnyInv, UsedInv, TypeOK, ClosedInv, Once, InQueue, Posted, Batched
    <3> QED BY <3>1, <3>2, <3>3, <3>4 DEF UsedInv
  <2> QED BY <2>2, <2>3
<1>4. CASE /\ CanClose /\ state_' = "kDisconnecting"
           /\ pending' = Append(pending, "forceCloseInLoop")
  <2>1. /\ pending' \in Seq(Functors)
        /\ \A g : g \in Range(pending') <=> g \in Range(pending) \/ g = "forceCloseInLoop"
        /\ \A g : OnceIn(g, pending) /\ (g = "forceCloseInLoop" => g \notin Range(pending))
                  => OnceIn(g, pending')
    <3>1. pending \in Seq(Functors) /\ "forceCloseInLoop" \in Functors
      BY DEF AnyInv, TypeOK, Functors, Owning, Raw
    <3> QED BY <1>4, <3>1, Posting
  <2>2. TypeOK'
    BY <1>1, <1>4, <2>1 DEF AnyInv, TypeOK, Functors
  <2>3. AnyInv'
    BY <1>1, <1>2, <1>4, <2>1, <2>2, Later DEF AnyInv, InQueue, Posted, Batched, Unborn
  <2>4. ASSUME WellUsed, UsedInv PROVE UsedInv'
    <3>0. Open
      BY <1>4 DEF CanClose, Open
    <3>1. LoopInv'
      BY <1>1, <1>4, <2>1, <2>4, <3>0 DEF AnyInv, UsedInv, TypeOK, LoopInv, Open
    <3>2. HeldInv'
      BY <1>1, <1>4, <2>1, <2>4, <3>0 DEF AnyInv, UsedInv, TypeOK, HeldInv, Raw, InQueue,
         Posted, Batched
    <3>3. OpenInv'
      BY <1>1, <1>4, <2>1, <2>4, <3>0 DEF AnyInv, UsedInv, TypeOK, OpenInv, Open, InQueue,
         Posted, Batched
    <3>4. ClosedInv'
      BY <1>1, <1>4, <2>1, <2>4, <3>0 DEF AnyInv, UsedInv, TypeOK, ClosedInv, Once, InQueue,
         Posted, Batched, OpenInv, Open
    <3> QED BY <3>1, <3>2, <3>3, <3>4 DEF UsedInv
  <2> QED BY <2>3, <2>4
<1> QED BY <1>3, <1>4 DEF DelayedForceClose

\* A new connection is established on the spot or queued for its loop.
LEMMA NewConnectionStep ==
  ASSUME AnyInv, NewConnection
  PROVE  AnyInv' /\ (WellUsed /\ UsedInv => UsedInv')
<1>1. /\ state_ = "none" /\ connections_' = TRUE /\ connections_' \in BOOLEAN
      /\ UNCHANGED <<reading_, halfClosed, revents, guard, callback, server, onLoop, removals,
                     functors, phase, batchHolds, timer, underway, downs, aborted>>
  BY DEF NewConnection, connVars, chanVars, pollVars, serverVars, queueVars, userVars, histVars
<1>2. /\ pending = <<>> /\ functors = <<>> /\ ~userRef /\ NoCallUnderway /\ callback = "none"
      /\ removals = 0 /\ revents = {} /\ ~guard /\ index = "kNew" /\ events = {}
      /\ ups = 0 /\ downs = 0 /\ ~timer
  BY <1>1 DEF AnyInv, UnbornInv, FirstInv, Unborn
<1>3. /\ <<>> \in Seq(Functors)
      /\ \A f : f \notin Range(pending) /\ f \notin Range(functors)
      /\ \A f : OnceIn(f, pending) /\ OnceIn(f, functors)
  BY <1>2, EmptyQueue
<1>4. CASE onLoop
  <2>1. /\ state_' = "kConnected" /\ events' = {"read"} /\ index' = "kAdded" /\ ups' = 1
        /\ userRef' \in BOOLEAN /\ pending' = pending
    BY <1>2, <1>4 DEF NewConnection, Update
  <2>2. TypeOK'
    BY <1>1, <2>1 DEF AnyInv, TypeOK
  <2>3. UnbornInv' /\ FirstInv' /\ BatchInv' /\ aborted' # "connectEstablished"
    BY <1>1, <1>2, <1>3, <2>1 DEF AnyInv, UnbornInv, FirstInv, BatchInv, Unborn, Once, InQueue,
       Posted, Batched
  <2>4. ASSUME WellUsed, UsedInv PROVE UsedInv'
    <3>1. LoopInv'
      BY <1>1, <1>2, <1>3, <2>1, <2>4 DEF AnyInv, UsedInv, TypeOK, LoopInv, Open
    <3>2. HeldInv'
      BY <1>1, <1>2, <1>3, <2>1, <2>4 DEF AnyInv, UsedInv, TypeOK, HeldInv, Raw, InQueue,
         Posted, Batched, NoCallUnderway
    <3>3. OpenInv'
      BY <1>1, <1>2, <1>3, <2>1, <2>4 DEF AnyInv, UsedInv, TypeOK, OpenInv, Open, InQueue,
         Posted, Batched
    <3>4. ClosedInv'
      BY <1>1, <1>2, <1>3, <2>1, <2>4 DEF AnyInv, UsedInv, TypeOK, ClosedInv, Once, InQueue,
         Posted, Batched
    <3> QED BY <3>1, <3>2, <3>3, <3>4 DEF UsedInv
  <2> QED BY <2>2, <2>3, <2>4 DEF AnyInv
<1>5. CASE ~onLoop
  <2>1. /\ state_' = "kConnecting" /\ pending' = Append(pending, "connectEstablished")
        /\ UNCHANGED <<events, index, userRef, ups>>
    BY <1>5 DEF NewConnection, InitialState, chanVars
  <2>2. /\ pending' \in Seq(Functors)
        /\ \A g : g \in Range(pending') <=> g = "connectEstablished"
        /\ \A g : OnceIn(g, pending')
        /\ pending' # <<>> /\ Head(pending') = "connectEstablished"
    <3>1. pending \in Seq(Functors) /\ "connectEstablished" \in Functors
      BY DEF AnyInv, TypeOK, Functors, Owning, Raw
    <3> QED BY <1>2, <1>3, <2>1, <3>1, Posting
  <2>3. TypeOK'
    BY <1>1, <2>1, <2>2 DEF AnyInv, TypeOK, Functors
  <2>4. UnbornInv' /\ BatchInv' /\ aborted' # "connectEstablished"
    BY <1>1, <1>2, <2>1 DEF AnyInv, UnbornInv, BatchInv, Unborn, NoCallUnderway
  <2>5. FirstInv'
    BY <1>1, <1>2, <1>3, <1>5, <2>1, <2>2 DEF FirstInv, Once, InQueue, Posted, Batched
  <2>6. ASSUME WellUsed, UsedInv PROVE UsedInv'
    <3>1. LoopInv'
      BY <1>1, <1>2, <1>3, <2>1, <2>2, <2>6 DEF AnyInv, UsedInv, TypeOK, LoopInv, Open
    <3>2. HeldInv'
      BY <1>1, <1>2, <1>3, <2>1, <2>2, <2>6 DEF AnyInv, UsedInv, TypeOK, HeldInv, Raw, InQueue,
         Posted, Batched, NoCallUnderway
    <3>3. OpenInv'
      BY <1>1, <1>2, <1>3, <2>1, <2>2, <2>6 DEF AnyInv, UsedInv, TypeOK, OpenInv, Open, InQueue,
         Posted, Batched
    <3>4. ClosedInv'
      BY <1>1, <1>2, <1>3, <2>1, <2>2, <2>6 DEF AnyInv, UsedInv, TypeOK, ClosedInv, Once,
         InQueue, Posted, Batched
    <3> QED BY <3>1, <3>2, <3>3, <3>4 DEF UsedInv
  <2> QED BY <2>3, <2>4, <2>5, <2>6 DEF AnyInv
<1> QED BY <1>4, <1>5

\* A queued removal finds the connection in the map.
LEMMA RunRemovalStep ==
  ASSUME AnyInv, RunRemoval
  PROVE  AnyInv' /\ (WellUsed /\ UsedInv => UsedInv')
<1>1. removals # 0
  BY DEF RunRemoval, RemovalQueued, AnyInv, TypeOK
<1>2. ~Unborn /\ ~InQueue("connectEstablished")
  BY <1>1 DEF AnyInv, TypeOK, UnbornInv, FirstInv, Unborn
<1>3. CASE /\ connections_' = FALSE /\ pending' = Append(pending, "connectDestroyed")
           /\ removals' = removals - 1
           /\ UNCHANGED <<state_, reading_, halfClosed, events, index, revents, guard, callback,
                          server, onLoop, functors, phase, batchHolds, timer, userRef, underway,
                          ups, downs, aborted>>
  <2>1. /\ pending' \in Seq(Functors)
        /\ \A g : g \in Range(pending') <=> g \in Range(pending) \/ g = "connectDestroyed"
        /\ \A g : OnceIn(g, pending) /\ (g = "connectDestroyed" => g \notin Range(pending))
                  => OnceIn(g, pending')
    <3>1. pending \in Seq(Functors) /\ "connectDestroyed" \in Functors
      BY DEF AnyInv, TypeOK, Functors, Owning, Raw
    <3> QED BY <1>3, <3>1, Posting
  <2>0. connections_' \in BOOLEAN /\ removals' \in Nat
    <3>1. removals \in Nat
      BY DEF AnyInv, TypeOK
    <3>2. removals' \in Nat
      BY <1>1, <1>3, <3>1
    <3>3. connections_' \in BOOLEAN
      BY <1>3
    <3> QED BY <3>2, <3>3
  <2>2. TypeOK'
    BY <1>3, <2>0, <2>1 DEF AnyInv, TypeOK, Functors
  <2>3. AnyInv'
    BY <1>2, <1>3, <2>1, <2>2, Later DEF AnyInv, InQueue, Posted, Batched, Unborn
  <2>4. ASSUME WellUsed, UsedInv PROVE UsedInv'
    <3>0. state_ = "kDisconnected" /\ removals = 1
      BY <1>1, <2>4 DEF UsedInv, OpenInv, ClosedInv
    <3>1. HeldInv'
      BY <1>1, <1>3, <2>1, <2>4, <3>0 DEF AnyInv, UsedInv, TypeOK, HeldInv, Raw, InQueue,
         Posted, Batched
    <3>2. OpenInv'
      BY <1>1, <1>3, <2>1, <2>4, <3>0 DEF AnyInv, UsedInv, TypeOK, OpenInv, Open, InQueue,
         Posted, Batched
    <3>3. ClosedInv'
      BY <1>1, <1>3, <2>1, <2>4, <3>0 DEF AnyInv, UsedInv, TypeOK, ClosedInv, Once, InQueue,
         Posted, Batched
    <3>4. LoopInv'
      BY <1>1, <1>3, <2>1, <2>4, <3>0 DEF AnyInv, UsedInv, TypeOK, LoopInv, Open
    <3> QED BY <3>1, <3>2, <3>3, <3>4 DEF UsedInv
  <2> QED BY <2>3, <2>4
<1>4. CASE (~server /\ Abort("server")) \/ (~connections_ /\ Abort("removeConnection"))
  <2>1. AnyInv'
    BY <1>4, AbortStep
  <2>2. UsedInv => server /\ connections_
    BY <1>1 DEF UsedInv, LoopInv, OpenInv, ClosedInv
  <2> QED BY <1>4, <2>1, <2>2
<1> QED BY <1>3, <1>4 DEF RunRemoval, RemoveConnectionInLoop, connVars, chanVars, pollVars,
           serverVars, queueVars, userVars, histVars

\* ~TcpServer posts connectDestroyed behind connectEstablished, or runs it on the spot.
LEMMA DestroyServerStep ==
  ASSUME AnyInv, DestroyServer
  PROVE  AnyInv' /\ (WellUsed /\ UsedInv => UsedInv')
<1>1. /\ ServerDtor /\ state_ # "none" /\ server' \in BOOLEAN /\ connections_' \in BOOLEAN
      /\ UNCHANGED <<revents, guard, onLoop, removals, functors, phase, batchHolds, timer,
                     underway, ups>>
  BY DEF DestroyServer, connVars, chanVars, pollVars, serverVars, queueVars, userVars, histVars
<1>2. ~WellUsed
  BY <1>1 DEF WellUsed
<1>3. CASE UNCHANGED <<state_, reading_, halfClosed, events, index, revents, guard, callback,
                       onLoop, removals, pending, functors, phase, batchHolds, timer, userRef,
                       underway, ups, downs, aborted>>
  <2>1. TypeOK' /\ UnbornInv'
    BY <1>1, <1>3 DEF AnyInv, TypeOK, UnbornInv, Unborn, NoCallUnderway
  <2>2. FirstInv' /\ BatchInv' /\ aborted' # "connectEstablished"
    BY <1>3 DEF AnyInv, FirstInv, BatchInv, Once, InQueue, Posted, Batched
  <2> QED BY <1>2, <2>1, <2>2 DEF AnyInv
<1>4. CASE /\ ~onLoop /\ pending' = Append(pending, "connectDestroyed")
           /\ UNCHANGED <<state_, reading_, halfClosed, events, index, revents, guard, callback,
                          onLoop, removals, functors, phase, batchHolds, timer, userRef,
                          underway, ups, downs, aborted>>
  <2>1. /\ pending' \in Seq(Functors)
        /\ \A g : g \in Range(pending') <=> g \in Range(pending) \/ g = "connectDestroyed"
        /\ \A g : g # "connectDestroyed" /\ OnceIn(g, pending) => OnceIn(g, pending')
        /\ pending # <<>> => pending' # <<>> /\ Head(pending') = Head(pending)
    <3>1. pending \in Seq(Functors) /\ "connectDestroyed" \in Functors
      BY DEF AnyInv, TypeOK, Functors, Owning, Raw
    <3> QED BY <1>4, <3>1, Posting
  <2>2. TypeOK' /\ UnbornInv'
    BY <1>1, <1>4, <2>1 DEF AnyInv, TypeOK, Functors, UnbornInv, Unborn, NoCallUnderway
  <2>3. FirstInv' /\ BatchInv' /\ aborted' # "connectEstablished"
    BY <1>1, <1>4, <2>1 DEF AnyInv, FirstInv, BatchInv, Once, InQueue, Posted, Batched
  <2> QED BY <1>2, <2>2, <2>3 DEF AnyInv
<1>5. CASE onLoop /\ pending' = pending
  <2>1. ~Unborn /\ ~InQueue("connectEstablished")
    BY <1>1, <1>5 DEF AnyInv, FirstInv, Unborn
  <2>2. CASE /\ state_ = "kConnected" /\ DestroyConnected
             /\ UNCHANGED <<reading_, halfClosed, aborted>>
    <3>1. /\ state_' = "kDisconnected" /\ events' = {} /\ index' \in {"kAdded", "kDeleted"}
          /\ callback' = "destroying" /\ downs' \in Nat
      BY <2>2 DEF AnyInv, TypeOK, DestroyConnected, Update, Twice
    <3>2. userRef' \in BOOLEAN
      <4>1. userRef' = userRef \/ userRef' = TRUE
        BY <2>2 DEF DestroyConnected
      <4> QED BY <4>1, Zenon DEF AnyInv, TypeOK
    <3>3. TypeOK'
      BY <1>1, <1>5, <2>2, <3>1, <3>2 DEF AnyInv, TypeOK
    <3> QED BY <1>1, <1>2, <1>5, <2>1, <2>2, <3>1, <3>3, Later DEF AnyInv, InQueue, Posted,
               Batched, Unborn
  <2>3. CASE /\ aborted' = RemoveFails /\ index' = (IF RemoveFails = "no" THEN "kNew" ELSE index)
             /\ UNCHANGED <<state_, reading_, halfClosed, events, callback, userRef, downs>>
    <3>1. RemoveFails \in {"no", "remove", "removeChannel", "activeChannel"}
      BY DEF RemoveFails
    <3>2. TypeOK'
      BY <1>1, <1>5, <2>3, <3>1 DEF AnyInv, TypeOK
    <3> QED BY <1>1, <1>2, <1>5, <2>1, <2>3, <3>1, <3>2, Later DEF AnyInv, InQueue, Posted,
               Batched, Unborn
  <2>4. \/ UNCHANGED <<state_, reading_, halfClosed, events, index, callback, userRef, downs,
                       aborted>>
        \/ state_ = "kConnected" /\ DestroyConnected /\ UNCHANGED <<reading_, halfClosed,
                                                                    aborted>>
        \/ /\ aborted' = RemoveFails /\ index' = (IF RemoveFails = "no" THEN "kNew" ELSE index)
           /\ UNCHANGED <<state_, reading_, halfClosed, events, callback, userRef, downs>>
    BY <1>5 DEF DestroyServer, connVars, chanVars
  <2> QED BY <1>1, <1>3, <1>5, <2>2, <2>3, <2>4
<1> QED BY <1>1, <1>3, <1>4, <1>5 DEF DestroyServer, connVars, chanVars


-----------------------------------------------------------------------------
(* The theorems. *)

\* A step of no action.
LEMMA StutterInv ==
  ASSUME AnyInv, UNCHANGED vars PROVE AnyInv' /\ (WellUsed /\ UsedInv => UsedInv')
<1>1. UNCHANGED <<state_, reading_, halfClosed, events, index, revents, guard, callback,
                  connections_, server, onLoop, removals, pending, functors, phase, batchHolds,
                  timer, userRef, underway, ups, downs, aborted>>
  BY DEF vars, connVars, chanVars, pollVars, serverVars, queueVars, userVars, histVars
<1>2. TypeOK' /\ UnbornInv'
  BY <1>1 DEF AnyInv, TypeOK, UnbornInv, Unborn, NoCallUnderway
<1>3. FirstInv' /\ BatchInv' /\ aborted' # "connectEstablished"
  BY <1>1 DEF AnyInv, FirstInv, BatchInv, Once, InQueue, Posted, Batched
<1>4. ASSUME UsedInv PROVE UsedInv'
  <2>1. LoopInv'
    BY <1>1, <1>4 DEF AnyInv, UsedInv, TypeOK, LoopInv, Open
  <2>2. HeldInv'
    BY <1>1, <1>4 DEF AnyInv, UsedInv, TypeOK, HeldInv, Raw, InQueue, Posted, Batched
  <2>3. OpenInv'
    BY <1>1, <1>4 DEF AnyInv, UsedInv, TypeOK, OpenInv, Open, InQueue, Posted, Batched
  <2>4. ClosedInv'
    BY <1>1, <1>4 DEF AnyInv, UsedInv, TypeOK, ClosedInv, Once, InQueue, Posted, Batched
  <2> QED BY <2>1, <2>2, <2>3, <2>4 DEF UsedInv
<1> QED BY <1>2, <1>3, <1>4 DEF AnyInv

\* Every step keeps both invariants.
LEMMA NextInv ==
  ASSUME AnyInv, [Next]_vars PROVE AnyInv' /\ (WellUsed /\ UsedInv => UsedInv')
<1>1. CASE NewConnection \/ RunRemoval \/ DestroyServer \/ Poll \/ DelayedForceClose
  BY <1>1, NewConnectionStep, RunRemovalStep, DestroyServerStep, PollStep, DelayedForceCloseStep
<1>2. CASE LoopStep
  <2>1. CASE \/ HandleHup \/ HandleRead \/ HandleWrite \/ EndEvent \/ MessageReturns
             \/ CloseCallback \/ RemoveChannel \/ Swap \/ EndBatch
    BY <2>1, HandleHupStep, HandleReadStep, HandleWriteStep, EndEventStep, MessageReturnsStep,
       CloseCallbackStep, RemoveChannelStep, SwapStep, EndBatchStep
  <2>2. CASE \/ ConnectEstablished \/ ConnectDestroyed \/ ForceCloseInLoop \/ WriteComplete
             \/ \E f \in Raw : RawFunctor(f)
    BY <2>2, ConnectEstablishedStep, ConnectDestroyedStep, ForceCloseInLoopStep,
       WriteCompleteStep, RawFunctorStep
  <2> QED BY <1>2, <2>1, <2>2 DEF LoopStep
<1>3. CASE UserStep
  BY <1>3, LoopCallStep, DropRefStep, CallBeginsStep DEF UserStep
<1>4. CASE \E t \in Threads : ThreadStep(t)
  BY <1>4, CallSetsStateStep, CallQueuesStep DEF ThreadStep
<1>5. CASE UNCHANGED vars
  BY <1>5, StutterInv
<1> QED BY <1>1, <1>2, <1>3, <1>4, <1>5 DEF Next

\* The invariant of every use.
LEMMA AnyInvariance == SafetySpec => []AnyInv
<1>1. AnyInv /\ [Next]_vars => AnyInv'
  BY NextInv
<1> QED BY <1>1, InitInv, PTL DEF SafetySpec

\* The invariant of a well used connection.
LEMMA UsedInvariance == ASSUME WellUsed PROVE SafetySpec => []UsedInv
<1>1. AnyInv /\ UsedInv /\ [Next]_vars => UsedInv'
  BY NextInv
<1> QED BY <1>1, InitInv, AnyInvariance, PTL DEF SafetySpec

\* However a connection is used, by however many threads, and whenever its server
\* is destroyed: connectEstablished never finds it in a state other than
\* kConnecting (its assert), runs once, and before any report that it is down.
THEOREM EstablishedOnce == SafetySpec => []EstablishedFirst
<1>1. AnyInv => EstablishedFirst
  BY DEF AnyInv, TypeOK, UnbornInv, EstablishedFirst
<1> QED BY <1>1, AnyInvariance, PTL

\* A closed connection whose last pointer is dropped was taken out of the loop, and
\* no functor with a bare pointer to it is queued: what ~TcpConnection asserts.
LEMMA GoneIsClosed ==
  ASSUME AnyInv, UsedInv, Gone
  PROVE  state_ = "kDisconnected" /\ index = "kNew" /\ ~Queued(Raw) /\ downs = 1
<1>1. /\ state_ # "none" /\ ~connections_ /\ ~userRef /\ callback = "none"
      /\ ~InQueue("connectDestroyed")
  BY QueuedMeans DEF AnyInv, Gone, Held, Owning
<1>2. state_ = "kDisconnected"
  BY <1>1 DEF AnyInv, TypeOK, UsedInv, OpenInv, Open
<1>3. index = "kNew" /\ downs = 1
  BY <1>1, <1>2 DEF UsedInv, ClosedInv
<1>4. ~Queued(Raw)
  BY <1>1, QueuedMeans DEF AnyInv, UsedInv, HeldInv
<1> QED BY <1>2, <1>3, <1>4

\* For a well used connection: no assert on its path through TcpConnection,
\* TcpServer, Channel and EPollPoller fails, the destructor's included, and
\* nothing runs on the destroyed object.
THEOREM AssertsHold == ASSUME WellUsed PROVE SafetySpec => []NoAssertFails
<1>1. AnyInv /\ UsedInv => NoAssertFails
  BY GoneIsClosed DEF AnyInv, UsedInv, LoopInv, NoAssertFails, DestroyedClean
<1> QED BY <1>1, AnyInvariance, UsedInvariance, PTL

\* For a well used connection: the user hears of it up once, then down once, and
\* no connection is destroyed that the user was not told is down.
THEOREM UpThenDown == ASSUME WellUsed PROVE SafetySpec => []CallbacksPaired
<1>1. ASSUME AnyInv, UsedInv PROVE CallbacksPaired
  <2>1. ups <= 1 /\ downs <= ups
    BY <1>1 DEF AnyInv, TypeOK, UnbornInv, Unborn, UsedInv, OpenInv, Open, ClosedInv
  <2> QED BY <1>1, <2>1, GoneIsClosed DEF CallbacksPaired
<1> QED BY <1>1, AnyInvariance, UsedInvariance, PTL

\* Only handleRead calls messageCallback_.
LEMMA OnlyHandleRead ==
  ASSUME [Next]_vars, callback # "message", callback' = "message" PROVE HandleRead
<1> USE DEF Abort
<1>1. CASE NewConnection \/ RunRemoval \/ DestroyServer \/ Poll \/ DelayedForceClose
  BY <1>1 DEF NewConnection, RunRemoval, DestroyServer, DestroyConnected, Poll, DelayedForceClose
<1>2. CASE LoopStep
  <2>1. CASE HandleHup \/ HandleWrite \/ EndEvent \/ MessageReturns
    BY <2>1 DEF HandleHup, HandleClose, HandleWrite, EndEvent, MessageReturns
  <2>2. CASE CloseCallback \/ RemoveChannel \/ Swap \/ EndBatch
    BY <2>2 DEF CloseCallback, RemoveChannel, Swap, EndBatch
  <2>3. CASE ConnectEstablished \/ ConnectDestroyed
    BY <2>3 DEF ConnectEstablished, ConnectDestroyed, DestroyConnected
  <2>4. CASE ForceCloseInLoop \/ WriteComplete \/ \E f \in Raw : RawFunctor(f)
    BY <2>4 DEF ForceCloseInLoop, HandleClose, WriteComplete, RawFunctor
  <2> QED BY <1>2, <2>1, <2>2, <2>3, <2>4 DEF LoopStep
<1>3. CASE UserStep
  BY <1>3 DEF UserStep, LoopCall, DropRef, CallBegins
<1>4. CASE \E t \in Threads : ThreadStep(t)
  BY <1>4 DEF ThreadStep, CallSetsState, CallQueues
<1>5. CASE UNCHANGED vars
  BY <1>5 DEF vars
<1> QED BY <1>1, <1>2, <1>3, <1>4, <1>5 DEF Next

\* For a well used connection: what poll had reported before the connection was
\* closed is not delivered as a message after the report that it is down.
THEOREM DownIsLast == ASSUME WellUsed PROVE SafetySpec => NoMessageAfterDown
<1>1. ASSUME UsedInv, [Next]_vars, callback # "message", callback' = "message"
      PROVE  downs = 0
  <2>1. HandleRead => "in" \in revents
    BY DEF HandleRead
  <2>2. HandleRead => downs = 0
    BY <1>1, <2>1 DEF UsedInv, LoopInv, OpenInv
  <2>3. HandleRead
    BY <1>1, OnlyHandleRead
  <2> QED BY <2>2, <2>3
<1> QED BY <1>1, UsedInvariance, PTL DEF SafetySpec, NoMessageAfterDown
=============================================================================
