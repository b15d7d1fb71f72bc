-------------------------- MODULE TcpClientProofs --------------------------
(***************************************************************************)
(* Proofs about module TcpClient, for any threads, retry delays and bound  *)
(* on the queue: no assert of Connector and TcpClient fails and nothing    *)
(* runs on a destroyed object, every descriptor has one owner, no retry is *)
(* lost, and a stop() is final.                                            *)
(***************************************************************************)
EXTENDS TcpClient, TLAPS

Functors == Raw \cup {"connectDestroyed", "forceCloseInLoop"}

\* A functor waits in pendingFunctors_, or in the batch that is being called.
Posted(f)  == f \in Range(pending)
Batched(f) == f \in Range(functors)
InQueue(f) == Posted(f) \/ Batched(f)

\* A functor is in the queue once at most.
OnceIn(f, s) == \A i, j \in DOMAIN s : s[i] = f /\ s[j] = f => i = j

QueueInv ==
  \A f \in {"startInLoop", "resetChannel", "connectDestroyed"} :
    OnceIn(f, pending) /\ OnceIn(f, functors) /\ ~(Posted(f) /\ Batched(f))

\* A connect() in another thread is underway.
Calling == \E t \in Threads : underway[t][1] = "connect"

\* At most one attempt is in the making: a retry timer, a startInLoop that was
\* posted or a connect() underway, and nothing of the kind unless the connector
\* is disconnected.
AttemptInv ==
  /\ retryTimers > 0 => retryTimers = 1 /\ state_ = "kDisconnected"
  /\ InQueue("startInLoop") \/ Calling =>
       state_ = "kDisconnected" /\ channel_ = "null" /\ retryTimers = 0
  /\ ~(InQueue("startInLoop") /\ Calling)
  /\ \A t, u \in Threads : underway[t][1] = "connect" /\ underway[u][1] = "connect" => t = u

\* The channel is removed exactly while its reset is queued; what was queued
\* when the connector connected is called before the next poll.
ChannelInv ==
  /\ channel_ = "removed" <=> InQueue("resetChannel")
  /\ state_ = "kConnected" /\ Posted("resetChannel") => phase = "handle"

\* What poll has reported is not stale.
ActiveInv ==
  /\ phase # "handle" => active = {}
  /\ phase # "functors" => functors = <<>>
  /\ "write" \in active => channel_ # "null" /\ state_ # "kConnected" /\ conn = "none"
  /\ "timer" \in active => retryTimers > 0 /\ channel_ = "null"
  /\ "close" \in active => conn = "up" /\ channel_ = "null"

\* The connection, the client's pointer to it and the functor that destroys it.
ConnInv ==
  /\ conn \in {"up", "closing"} => state_ = "kConnected" /\ (toClient => connection_)
  /\ connection_ => client /\ toClient /\ conn \in {"up", "closing"}
  /\ conn = "closing" /\ toClient => phase = "handle" /\ channel_ = "null"
  /\ restarting => /\ client /\ phase = "handle" /\ conn = "down"
                   /\ state_ = "kConnected" /\ channel_ = "null"
  /\ conn = "down" <=> InQueue("connectDestroyed")
  /\ conn = "down" =>
       \/ phase = "handle" \/ Batched("connectDestroyed")
       \/ state_ = "kConnected" /\ ~client
  /\ InQueue("forceCloseInLoop") \/ ~toClient => ~client

\* Once the client is gone nobody connects, and the connector lives until what
\* is queued on it was called.
OwnerInv ==
  /\ holdTimer => ~client
  /\ ~client => NoCallUnderway /\ (~connect_ \/ state_ = "kConnected")
  /\ ~client /\ channel_ = "added" => InQueue("stopInLoop")
  /\ ~client /\ ~holdTimer => channel_ = "null" /\ \A f \in Raw : ~InQueue(f)

\* KeepsTrying, with the queue's two parts told apart.
TryInv ==
  connect_ /\ state_ = "kDisconnected" /\ ~gaveUp /\ ConnectorAlive =>
     \/ retryTimers > 0 \/ InQueue("startInLoop") \/ restarting
     \/ \E t \in Threads : underway[t] = <<"connect", 2>>

\* A stop() in the loop thread holds until the next connect().
StopInv ==
  stopped => /\ ~connect_ /\ ~restarting
             /\ clientConnect => \E t \in Threads : underway[t] = <<"connect", 1>>

IInv ==
  /\ TypeOK /\ aborted = "no"
  /\ SocketsAreOwned /\ TryInv
  /\ QueueInv /\ AttemptInv /\ ChannelInv /\ ActiveInv /\ ConnInv /\ OwnerInv /\ StopInv

\* ~Connector's assert has failed: the client was destroyed in the round that
\* connected it, and nothing more happens.
DeadInv ==
  /\ aborted = "~Connector" /\ TypeOK /\ SocketsAreOwned
  /\ state_ = "kConnected" /\ phase # "poll"

-----------------------------------------------------------------------------
(* The queue. *)

\* Posting a functor at the end.
LEMMA Posting ==
  ASSUME NEW s \in Seq(Functors), NEW f \in Functors
  PROVE  /\ Append(s, f) \in Seq(Functors)
         /\ \A g : g \in Range(Append(s, f)) <=> g \in Range(s) \/ g = f
         /\ \A g : OnceIn(g, s) /\ (g = f => g \notin Range(s)) => OnceIn(g, Append(s, f))
<1> DEFINE a == Append(s, f)
<1>1. /\ a \in Seq(Functors) /\ Len(a) = Len(s) + 1 /\ a[Len(s) + 1] = f
      /\ \A i \in DOMAIN s : i \in DOMAIN a /\ a[i] = s[i]
      /\ \A i \in DOMAIN a : i \in DOMAIN s \/ i = Len(s) + 1
      /\ Len(s) + 1 \in DOMAIN a /\ Len(s) + 1 \notin DOMAIN s
  OBVIOUS
<1> HIDE DEF a
<1>2. \A g : g \in Range(a) <=> g \in Range(s) \/ g = f
  BY <1>1 DEF Range
<1>3. ASSUME NEW g, OnceIn(g, s), g = f => g \notin Range(s) PROVE OnceIn(g, a)
  <2>1. ASSUME NEW i \in DOMAIN a, NEW j \in DOMAIN a, a[i] = g, a[j] = g PROVE i = j
    BY <1>1, <1>3, <2>1 DEF OnceIn, Range
  <2> QED BY <2>1 DEF OnceIn
<1> QED BY <1>1, <1>2, <1>3 DEF a

\* Taking the next functor of the batch.
LEMMA Taking ==
  ASSUME NEW s \in Seq(Functors), s # <<>>
  PROVE  /\ Tail(s) \in Seq(Functors)
         /\ \A g : g \in Range(s) <=> g = Head(s) \/ g \in Range(Tail(s))
         /\ \A g : OnceIn(g, s) => OnceIn(g, Tail(s)) /\ (g = Head(s) => g \notin Range(Tail(s)))
<1> DEFINE t == Tail(s)
<1>1. /\ t \in Seq(Functors) /\ Head(s) = s[1] /\ 1 \in DOMAIN s
      /\ \A i \in DOMAIN t : i + 1 \in DOMAIN s /\ i + 1 # 1 /\ t[i] = s[i + 1]
      /\ \A i \in DOMAIN s : i = 1 \/ (i - 1 \in DOMAIN t /\ t[i - 1] = s[i])
      /\ \A i, j \in DOMAIN t : i + 1 = j + 1 => i = j
  OBVIOUS
<1> HIDE DEF t
<1>2. \A g : g \in Range(s) <=> g = Head(s) \/ g \in Range(t)
  BY <1>1 DEF Range
<1>3. ASSUME NEW g, OnceIn(g, s) PROVE OnceIn(g, t) /\ (g = Head(s) => g \notin Range(t))
  <2>1. ASSUME NEW i \in DOMAIN t, NEW j \in DOMAIN t, t[i] = g, t[j] = g PROVE i = j
    BY <1>1, <1>3, <2>1 DEF OnceIn
  <2>2. g = Head(s) => g \notin Range(t)
    BY <1>1, <1>3 DEF OnceIn, Range
  <2> QED BY <2>1, <2>2 DEF OnceIn
<1> QED BY <1>1, <1>2, <1>3 DEF t

\* What Queued asks of the two parts of the queue.
LEMMA QueuedParts ==
  ASSUME NEW p \in Seq(Functors), NEW q \in Seq(Functors)
  PROVE  Range(p \o q) = Range(p) \cup Range(q)
<1> DEFINE r == p \o q
<1>1. /\ \A i \in DOMAIN p : i \in DOMAIN r /\ r[i] = p[i]
      /\ \A i \in DOMAIN q : Len(p) + i \in DOMAIN r /\ r[Len(p) + i] = q[i]
  OBVIOUS
<1>2. /\ DOMAIN r = 1..(Len(p) + Len(q)) /\ Len(p) \in Nat /\ Len(q) \in Nat
      /\ DOMAIN p = 1..Len(p) /\ DOMAIN q = 1..Len(q)
  OBVIOUS
<1> HIDE DEF r
<1>3. \A i \in DOMAIN r : i \in DOMAIN p \/ \E j \in DOMAIN q : i = Len(p) + j
  <2>1. ASSUME NEW i \in DOMAIN r, i \notin DOMAIN p PROVE i - Len(p) \in DOMAIN q
        /\ i = Len(p) + (i - Len(p))
    BY <1>2, <2>1
  <2> QED BY <2>1
<1>4. \A x : x \in Range(r) <=> x \in Range(p) \/ x \in Range(q)
  BY <1>1, <1>3 DEF Range
<1> QED BY <1>4 DEF r

\* Queued in terms of the two parts of the queue.
LEMMA QueuedMeans ==
  ASSUME TypeOK PROVE \A K : Queued(K) <=> \E f \in K : InQueue(f)
<1>1. pending \in Seq(Functors) /\ functors \in Seq(Functors)
  BY DEF TypeOK, Functors
<1>2. Range(pending \o functors) = Range(pending) \cup Range(functors)
  BY <1>1, QueuedParts
<1> QED BY <1>2 DEF Queued, InQueue, Posted, Batched

\* The empty queue.
LEMMA EmptyQueue == /\ <<>> \in Seq(Functors) /\ \A f : f \notin Range(<<>>) /\ OnceIn(f, <<>>)
BY DEF Range, OnceIn

-----------------------------------------------------------------------------
(* The handlers' parts. *)

\* The retry delay and its doubling stay among the delays.
LEMMA Delays ==
  ASSUME NEW d \in kInitRetryDelayMs..kMaxRetryDelayMs
  PROVE  Doubled(d) \in kInitRetryDelayMs..kMaxRetryDelayMs
BY DelayAssumption DEF Doubled, MinOf

\* What Connector::connect does, by what connect(2) answers.
LEMMA ConnectEffect ==
  ASSUME TypeOK, NEW d \in kInitRetryDelayMs..kMaxRetryDelayMs, Connect(d, 0)
  PROVE  /\ retryDelayMs_' \in kInitRetryDelayMs..kMaxRetryDelayMs /\ gaveUp' \in BOOLEAN
         /\ \/ /\ sockets' = sockets + 1 /\ state_' = "kConnecting" /\ channel_' = "added"
               /\ retryTimers' = 0 /\ gaveUp' = FALSE
            \/ /\ sockets' = sockets /\ state_' = "kDisconnected" /\ channel_' = channel_
               /\ (retryTimers' = 1 /\ gaveUp' = FALSE) \/ (retryTimers' = 0 /\ gaveUp' = TRUE)
<1>1. sockets \in Nat
  BY DEF TypeOK
<1>2. gaveUp' \in BOOLEAN
  BY Zenon DEF Connect, GiveUp
<1> QED BY <1>1, <1>2, Delays DEF Connect, Retry, GiveUp

\* The client before its first connect().
LEMMA InitInv == Init => IInv
<1> SUFFICES ASSUME Init PROVE IInv
  OBVIOUS
<1>1. TypeOK
  <2>1. pending \in Seq(Functors) /\ functors \in Seq(Functors)
    BY EmptyQueue DEF Init
  <2>2. underway \in [Threads -> {Idle}] /\ retryDelayMs_ \in kInitRetryDelayMs..kMaxRetryDelayMs
    BY DelayAssumption DEF Init
  <2> QED BY <2>1, <2>2 DEF Init, TypeOK, Functors
<1>2. QueueInv /\ ChannelInv /\ ActiveInv
  BY EmptyQueue DEF Init, QueueInv, ChannelInv, ActiveInv, InQueue, Posted, Batched
<1>3. AttemptInv
  BY EmptyQueue DEF Init, AttemptInv, Calling, InQueue, Posted, Batched, Idle
<1>4. ConnInv /\ OwnerInv /\ StopInv /\ TryInv
  BY EmptyQueue DEF Init, ConnInv, OwnerInv, StopInv, TryInv, InQueue, Posted, Batched
<1>5. SocketsAreOwned /\ aborted = "no"
  BY DEF Init, SocketsAreOwned, WatchesWhileConnecting
<1> QED BY <1>1, <1>2, <1>3, <1>4, <1>5 DEF IInv

-----------------------------------------------------------------------------
(* One lemma per action. *)

\* poll reports events of a channel, a timer and a connection that are there.
LEMMA PollStep == ASSUME IInv, Poll PROVE IInv'
<1>1. /\ phase = "poll" /\ phase' = "handle" /\ active' \in SUBSET Events
      /\ "write" \in active' => channel_ = "added"
      /\ "timer" \in active' => retryTimers > 0 /\ ~InQueue("resetChannel")
      /\ "close" \in active' => conn = "up"
      /\ UNCHANGED <<connect_, state_, channel_, retryDelayMs_, retryTimers, client,
                     clientConnect, retry_, connection_, restarting, holdTimer, conn, toClient,
                     functors, pending, underway, sockets, gaveUp, stopped, aborted>>
  BY QueuedMeans DEF IInv, Poll, connectorVars, clientVars, connVars, loopVars
<1>2. functors = <<>> /\ functors' = <<>> /\ ~Batched("resetChannel")
      /\ ~Batched("connectDestroyed")
  BY <1>1, EmptyQueue DEF IInv, ActiveInv, Batched
<1>3. TypeOK' /\ aborted' = "no"
  BY <1>1, <1>2 DEF IInv, TypeOK, Functors
<1>4. ChannelInv'
  BY <1>1, <1>2 DEF IInv, TypeOK, ChannelInv, SocketsAreOwned, WatchesWhileConnecting, InQueue,
     Posted, Batched
<1>5. ActiveInv'
  BY <1>1, <1>2 DEF IInv, TypeOK, ActiveInv, InQueue, Posted, Batched, AttemptInv, ChannelInv,
     ConnInv, SocketsAreOwned, WatchesWhileConnecting
<1>6. ConnInv'
  BY <1>1, <1>2 DEF IInv, TypeOK, ConnInv, InQueue, Posted, Batched
<1>7. SocketsAreOwned' /\ TryInv' /\ QueueInv'
  BY <1>1, <1>2 DEF IInv, TypeOK, SocketsAreOwned, WatchesWhileConnecting, TryInv,
     ConnectorAlive, InQueue, Posted, Batched, QueueInv
<1>8. AttemptInv' /\ OwnerInv' /\ StopInv'
  BY <1>1, <1>2 DEF IInv, TypeOK, AttemptInv, Calling, InQueue, Posted, Batched, OwnerInv,
     NoCallUnderway, Raw, StopInv
<1> QED BY <1>3, <1>4, <1>5, <1>6, <1>7, <1>8 DEF IInv

\* doPendingFunctors takes what was posted: the queue keeps its functors.
LEMMA SwapStep == ASSUME IInv, Swap PROVE IInv'
<1>1. /\ phase = "handle" /\ phase' = "functors" /\ active = {} /\ functors' = pending
      /\ pending' = <<>>
      /\ conn # "closing" /\ ~restarting
      /\ UNCHANGED <<connect_, state_, channel_, retryDelayMs_, retryTimers, client,
                     clientConnect, retry_, connection_, restarting, holdTimer, conn, toClient,
                     active, underway, sockets, gaveUp, stopped, aborted>>
  BY DEF Swap, connectorVars, clientVars, connVars, loopVars
<1>2. /\ pending' \in Seq(Functors) /\ functors' \in Seq(Functors)
      /\ \A g : g \notin Range(pending') /\ g \notin Range(functors) /\ OnceIn(g, pending')
      /\ \A g : g \in Range(functors') <=> g \in Range(pending)
  BY <1>1, EmptyQueue DEF IInv, TypeOK, Functors, ActiveInv
<1>3. TypeOK' /\ aborted' = "no"
  BY <1>1, <1>2 DEF IInv, TypeOK, Functors
<1>4. TryInv'
  BY <1>1, <1>2 DEF IInv, TypeOK, TryInv, ConnectorAlive, InQueue, Posted, Batched
<1>5. QueueInv'
  BY <1>1, <1>2 DEF IInv, QueueInv, InQueue, Posted, Batched
<1>6. AttemptInv'
  BY <1>1, <1>2 DEF IInv, TypeOK, AttemptInv, Calling, InQueue, Posted, Batched
<1>7. ChannelInv'
  BY <1>1, <1>2 DEF IInv, TypeOK, ChannelInv, SocketsAreOwned, WatchesWhileConnecting, InQueue,
     Posted, Batched
<1>8. ActiveInv'
  BY <1>1, <1>2 DEF IInv, TypeOK, ActiveInv, InQueue, Posted, Batched
<1>9. ConnInv'
  BY <1>1, <1>2 DEF IInv, TypeOK, ConnInv, InQueue, Posted, Batched
<1>10. OwnerInv'
  BY <1>1, <1>2 DEF IInv, TypeOK, OwnerInv, NoCallUnderway, Raw, InQueue, Posted, Batched
<1>11. SocketsAreOwned' /\ StopInv'
  BY <1>1, <1>2 DEF IInv, TypeOK, SocketsAreOwned, WatchesWhileConnecting, StopInv
<1> QED BY <1>3, <1>4, <1>5, <1>6, <1>7, <1>8, <1>9, <1>10, <1>11 DEF IInv

\* The batch was called to its end.
LEMMA EndBatchStep == ASSUME IInv, EndBatch PROVE IInv'
<1>1. /\ phase = "functors" /\ phase' = "poll" /\ functors = <<>>
      /\ conn # "closing" /\ ~restarting
      /\ UNCHANGED <<connect_, state_, channel_, retryDelayMs_, retryTimers, client,
                     clientConnect, retry_, connection_, restarting, holdTimer, conn, toClient,
                     active, functors, pending, underway, sockets, gaveUp, stopped, aborted>>
  BY DEF EndBatch, connectorVars, clientVars, connVars, loopVars
<1>2. \A g : g \notin Range(functors)
  BY <1>1, EmptyQueue
<1>3. TypeOK' /\ aborted' = "no"
  BY <1>1, <1>2 DEF IInv, TypeOK, Functors
<1>4. ChannelInv'
  BY <1>1, <1>2 DEF IInv, TypeOK, ChannelInv, SocketsAreOwned, WatchesWhileConnecting, InQueue,
     Posted, Batched, ConnInv, ActiveInv
<1>5. ActiveInv'
  BY <1>1, <1>2 DEF IInv, TypeOK, ActiveInv, InQueue, Posted, Batched
<1>6. ConnInv'
  BY <1>1, <1>2 DEF IInv, TypeOK, ConnInv, InQueue, Posted, Batched
<1>7. SocketsAreOwned' /\ TryInv' /\ QueueInv'
  BY <1>1, <1>2 DEF IInv, TypeOK, SocketsAreOwned, WatchesWhileConnecting, TryInv,
     ConnectorAlive, InQueue, Posted, Batched, QueueInv
<1>8. AttemptInv' /\ OwnerInv' /\ StopInv'
  BY <1>1, <1>2 DEF IInv, TypeOK, AttemptInv, Calling, InQueue, Posted, Batched, OwnerInv,
     NoCallUnderway, Raw, StopInv
<1> QED BY <1>3, <1>4, <1>5, <1>6, <1>7, <1>8 DEF IInv

\* The removeConnector timer lets go when nothing is queued on the connector.
LEMMA HoldExpiresStep == ASSUME IInv, HoldExpires PROVE IInv'
<1>1. /\ holdTimer /\ holdTimer' = FALSE /\ holdTimer' \in BOOLEAN /\ pending = <<>>
      /\ functors = <<>>
      /\ UNCHANGED <<connect_, state_, channel_, retryDelayMs_, retryTimers, client,
                     clientConnect, retry_, connection_, restarting, conn, toClient, phase,
                     active, functors, pending, underway, sockets, gaveUp, stopped, aborted>>
  BY DEF HoldExpires, connectorVars, clientVars, connVars, loopVars
<1>2. \A g : g \notin Range(pending) /\ g \notin Range(functors)
  BY <1>1, EmptyQueue
<1>3. TypeOK' /\ aborted' = "no"
  BY <1>1, <1>2 DEF IInv, TypeOK, Functors
<1>4. TryInv'
  BY <1>1, <1>2 DEF IInv, TypeOK, TryInv, ConnectorAlive, InQueue, Posted, Batched
<1>5. OwnerInv'
  BY <1>1, <1>2 DEF IInv, TypeOK, OwnerInv, NoCallUnderway, Raw, InQueue, Posted, Batched,
     ChannelInv
<1>6. SocketsAreOwned' /\ QueueInv' /\ AttemptInv'
  BY <1>1, <1>2 DEF IInv, TypeOK, SocketsAreOwned, WatchesWhileConnecting, QueueInv, InQueue,
     Posted, Batched, AttemptInv, Calling
<1>7. ChannelInv' /\ ActiveInv' /\ ConnInv'
  BY <1>1, <1>2 DEF IInv, TypeOK, ChannelInv, SocketsAreOwned, WatchesWhileConnecting, InQueue,
     Posted, Batched, ActiveInv, ConnInv
<1>8. StopInv'
  BY <1>1, <1>2 DEF IInv, TypeOK, StopInv
<1> QED BY <1>3, <1>4, <1>5, <1>6, <1>7, <1>8 DEF IInv

\* disconnect() in the loop thread clears one flag.
LEMMA LoopDisconnectStep == ASSUME IInv, LoopDisconnect PROVE IInv'
<1>1. /\ clientConnect' = FALSE /\ clientConnect' \in BOOLEAN
      /\ UNCHANGED <<connect_, state_, channel_, retryDelayMs_, retryTimers, client, retry_,
                     connection_, restarting, holdTimer, conn, toClient, phase, active,
                     functors, pending, underway, sockets, gaveUp, stopped, aborted>>
  BY DEF LoopDisconnect, connectorVars, clientVars, connVars, loopVars
<1>2. TypeOK' /\ aborted' = "no"
  BY <1>1 DEF IInv, TypeOK, Functors
<1>3. StopInv'
  BY <1>1 DEF IInv, TypeOK, StopInv
<1>4. SocketsAreOwned' /\ TryInv' /\ QueueInv'
  BY <1>1 DEF IInv, TypeOK, SocketsAreOwned, WatchesWhileConnecting, TryInv, ConnectorAlive,
     InQueue, Posted, Batched, QueueInv
<1>5. AttemptInv' /\ ChannelInv' /\ ActiveInv'
  BY <1>1 DEF IInv, TypeOK, AttemptInv, Calling, InQueue, Posted, Batched, ChannelInv,
     SocketsAreOwned, WatchesWhileConnecting, ActiveInv
<1>6. ConnInv' /\ OwnerInv'
  BY <1>1 DEF IInv, TypeOK, ConnInv, InQueue, Posted, Batched, OwnerInv, NoCallUnderway, Raw
<1> QED BY <1>2, <1>3, <1>4, <1>5, <1>6 DEF IInv

\* stop() in the loop thread clears both flags and posts stopInLoop.
LEMMA LoopStopStep == ASSUME IInv, LoopStop PROVE IInv'
<1>1. /\ client /\ ~restarting /\ clientConnect' = FALSE /\ connect_' = FALSE /\ stopped' = TRUE
      /\ clientConnect' \in BOOLEAN /\ connect_' \in BOOLEAN /\ stopped' \in BOOLEAN
      /\ pending' = Append(pending, "stopInLoop")
      /\ UNCHANGED <<state_, channel_, retryDelayMs_, retryTimers, client, retry_, connection_,
                     restarting, holdTimer, conn, toClient, phase, active, functors, underway,
                     sockets, gaveUp, aborted>>
  BY DEF LoopStop, InUserCode, connVars, loopVars
<1>2. /\ pending' \in Seq(Functors) /\ functors' \in Seq(Functors)
      /\ \A g : g \in Range(pending') <=> g \in Range(pending) \/ g = "stopInLoop"
      /\ \A g : OnceIn(g, pending) /\ g # "stopInLoop" => OnceIn(g, pending')
  <2>1. pending \in Seq(Functors) /\ functors \in Seq(Functors) /\ "stopInLoop" \in Functors
    BY DEF IInv, TypeOK, Functors, Raw
  <2> QED BY <1>1, <2>1, Posting
<1>3. TypeOK' /\ aborted' = "no"
  BY <1>1, <1>2 DEF IInv, TypeOK, Functors
<1>4. TryInv'
  BY <1>1, <1>2 DEF IInv, TypeOK, TryInv, ConnectorAlive, InQueue, Posted, Batched
<1>5. QueueInv'
  BY <1>1, <1>2 DEF IInv, QueueInv, InQueue, Posted, Batched
<1>6. AttemptInv'
  BY <1>1, <1>2 DEF IInv, TypeOK, AttemptInv, Calling, InQueue, Posted, Batched
<1>7. ChannelInv'
  BY <1>1, <1>2 DEF IInv, TypeOK, ChannelInv, SocketsAreOwned, WatchesWhileConnecting, InQueue,
     Posted, Batched
<1>8. ConnInv'
  BY <1>1, <1>2 DEF IInv, TypeOK, ConnInv, InQueue, Posted, Batched
<1>9. OwnerInv'
  BY <1>1, <1>2 DEF IInv, TypeOK, OwnerInv, NoCallUnderway, Raw, InQueue, Posted, Batched
<1>10. StopInv'
  BY <1>1, <1>2 DEF IInv, TypeOK, StopInv
<1>11. SocketsAreOwned' /\ ActiveInv'
  BY <1>1, <1>2 DEF IInv, TypeOK, SocketsAreOwned, WatchesWhileConnecting, ActiveInv, InQueue,
     Posted, Batched
<1> QED BY <1>3, <1>4, <1>5, <1>6, <1>7, <1>8, <1>9, <1>10, <1>11 DEF IInv

\* connectDestroyed runs once for a connection that is down.
LEMMA RunConnectDestroyedStep == ASSUME IInv, RunConnectDestroyed PROVE IInv'
<1>1. /\ functors # <<>> /\ Head(functors) = "connectDestroyed" /\ functors' = Tail(functors)
      /\ conn # "closing" /\ ~restarting
      /\ UNCHANGED <<connect_, state_, channel_, retryDelayMs_, retryTimers, client,
                     clientConnect, retry_, connection_, restarting, holdTimer, toClient, phase,
                     active, pending, underway, gaveUp, stopped, aborted>>
  BY DEF RunConnectDestroyed, Functor, clientVars
<1>2. /\ functors' \in Seq(Functors)
      /\ \A g : g \in Range(functors) <=> g = "connectDestroyed" \/ g \in Range(functors')
      /\ \A g : OnceIn(g, functors) =>
           OnceIn(g, functors') /\ (g = "connectDestroyed" => g \notin Range(functors'))
  <2>1. functors \in Seq(Functors)
    BY DEF IInv, TypeOK, Functors
  <2> QED BY <1>1, <2>1, Taking
<1>3. phase = "functors" /\ active = {} /\ InQueue("connectDestroyed")
  BY <1>1, <1>2 DEF IInv, TypeOK, ActiveInv, InQueue, Batched
<1>4. conn = "down" /\ conn' = "none" /\ sockets' = sockets - 1 /\ ~InQueue("connectDestroyed")'
  BY <1>1, <1>2, <1>3 DEF IInv, RunConnectDestroyed, ConnInv, QueueInv, InQueue, Posted, Batched
<1>5. TypeOK' /\ aborted' = "no"
  BY <1>1, <1>2, <1>3, <1>4 DEF IInv, TypeOK, Functors, SocketsAreOwned
<1>6. SocketsAreOwned'
  BY <1>1, <1>2, <1>3, <1>4 DEF IInv, TypeOK, SocketsAreOwned, WatchesWhileConnecting
<1>7. TryInv'
  BY <1>1, <1>2, <1>3, <1>4 DEF IInv, TypeOK, TryInv, ConnectorAlive, InQueue, Posted, Batched
<1>8. QueueInv'
  BY <1>1, <1>2, <1>3, <1>4 DEF IInv, QueueInv, InQueue, Posted, Batched
<1>9. AttemptInv'
  BY <1>1, <1>2, <1>3, <1>4 DEF IInv, TypeOK, AttemptInv, Calling, InQueue, Posted, Batched
<1>10. ChannelInv'
  BY <1>1, <1>2, <1>3, <1>4 DEF IInv, TypeOK, ChannelInv, SocketsAreOwned,
     WatchesWhileConnecting, InQueue, Posted, Batched
<1>11. ActiveInv'
  BY <1>1, <1>2, <1>3, <1>4 DEF IInv, TypeOK, ActiveInv, InQueue, Posted, Batched
<1>12. ConnInv'
  BY <1>1, <1>2, <1>3, <1>4 DEF IInv, TypeOK, ConnInv, InQueue, Posted, Batched
<1>13. OwnerInv'
  BY <1>1, <1>2, <1>3, <1>4 DEF IInv, TypeOK, OwnerInv, NoCallUnderway, Raw, InQueue, Posted,
     Batched
<1>14. StopInv'
  BY <1>1, <1>2, <1>3, <1>4 DEF IInv, TypeOK, StopInv
<1> QED BY <1>5, <1>6, <1>7, <1>8, <1>9, <1>10, <1>11, <1>12, <1>13, <1>14 DEF IInv

\* forceCloseInLoop is posted by ~TcpClient only.
LEMMA RunForceCloseStep == ASSUME IInv, RunForceClose PROVE IInv'
<1>1. /\ functors # <<>> /\ Head(functors) = "forceCloseInLoop" /\ functors' = Tail(functors)
      /\ conn # "closing" /\ ~restarting
      /\ UNCHANGED <<connect_, state_, channel_, retryDelayMs_, retryTimers, client,
                     clientConnect, retry_, connection_, restarting, holdTimer, toClient, phase,
                     active, pending, underway, sockets, gaveUp, stopped, aborted>>
  BY DEF RunForceClose, Functor, clientVars
<1>2. /\ functors' \in Seq(Functors)
      /\ \A g : g \in Range(functors) <=> g = "forceCloseInLoop" \/ g \in Range(functors')
      /\ \A g : OnceIn(g, functors) =>
           OnceIn(g, functors') /\ (g = "forceCloseInLoop" => g \notin Range(functors'))
  <2>1. functors \in Seq(Functors)
    BY DEF IInv, TypeOK, Functors
  <2> QED BY <1>1, <2>1, Taking
<1>3. phase = "functors" /\ active = {} /\ InQueue("forceCloseInLoop")
  BY <1>1, <1>2 DEF IInv, TypeOK, ActiveInv, InQueue, Batched
<1>4. ~client /\ conn' = IF conn = "up" THEN "closing" ELSE conn
  BY <1>3 DEF IInv, RunForceClose, ConnInv
<1>5. TypeOK' /\ aborted' = "no"
  BY <1>1, <1>2, <1>3, <1>4 DEF IInv, TypeOK, Functors
<1>6. SocketsAreOwned'
  BY <1>1, <1>2, <1>3, <1>4 DEF IInv, TypeOK, SocketsAreOwned, WatchesWhileConnecting
<1>7. TryInv'
  BY <1>1, <1>2, <1>3, <1>4 DEF IInv, TypeOK, TryInv, ConnectorAlive, InQueue, Posted, Batched
<1>8. QueueInv'
  BY <1>1, <1>2, <1>3, <1>4 DEF IInv, QueueInv, InQueue, Posted, Batched
<1>9. AttemptInv'
  BY <1>1, <1>2, <1>3, <1>4 DEF IInv, TypeOK, AttemptInv, Calling, InQueue, Posted, Batched
<1>10. ChannelInv'
  BY <1>1, <1>2, <1>3, <1>4 DEF IInv, TypeOK, ChannelInv, SocketsAreOwned,
     WatchesWhileConnecting, InQueue, Posted, Batched
<1>11. ActiveInv'
  BY <1>1, <1>2, <1>3, <1>4 DEF IInv, TypeOK, ActiveInv, InQueue, Posted, Batched
<1>12. ConnInv'
  BY <1>1, <1>2, <1>3, <1>4 DEF IInv, TypeOK, ConnInv, InQueue, Posted, Batched
<1>13. OwnerInv'
  BY <1>1, <1>2, <1>3, <1>4 DEF IInv, TypeOK, OwnerInv, NoCallUnderway, Raw, InQueue, Posted,
     Batched
<1>14. StopInv'
  BY <1>1, <1>2, <1>3, <1>4 DEF IInv, TypeOK, StopInv
<1> QED BY <1>5, <1>6, <1>7, <1>8, <1>9, <1>10, <1>11, <1>12, <1>13, <1>14 DEF IInv

\* resetChannel finds a channel that was removed.
LEMMA RunResetChannelStep == ASSUME IInv, RunResetChannel PROVE IInv'
<1>1. /\ functors # <<>> /\ Head(functors) = "resetChannel" /\ functors' = Tail(functors)
      /\ conn # "closing" /\ ~restarting
      /\ UNCHANGED <<connect_, state_, retryDelayMs_, retryTimers, client, clientConnect,
                     retry_, connection_, restarting, holdTimer, conn, toClient, phase, active,
                     pending, underway, sockets, gaveUp, stopped>>
  BY DEF RunResetChannel, Functor, clientVars
<1>2. /\ functors' \in Seq(Functors)
      /\ \A g : g \in Range(functors) <=> g = "resetChannel" \/ g \in Range(functors')
      /\ \A g : OnceIn(g, functors) =>
           OnceIn(g, functors') /\ (g = "resetChannel" => g \notin Range(functors'))
  <2>1. functors \in Seq(Functors)
    BY DEF IInv, TypeOK, Functors
  <2> QED BY <1>1, <2>1, Taking
<1>3. phase = "functors" /\ active = {} /\ InQueue("resetChannel")
  BY <1>1, <1>2 DEF IInv, TypeOK, ActiveInv, InQueue, Batched
<1>4. channel_ = "removed" /\ channel_' = "null" /\ aborted' = "no" /\ ~InQueue("resetChannel")'
  <2>1. channel_ = "removed" /\ ~InQueue("resetChannel")'
    BY <1>1, <1>2, <1>3 DEF IInv, ChannelInv, QueueInv, InQueue, Posted, Batched
  <2>2. ConnectorAlive
    BY <1>3 DEF IInv, OwnerInv, ConnectorAlive, Raw
  <2> QED BY <2>1, <2>2 DEF RunResetChannel
<1>5. TypeOK' /\ aborted' = "no"
  BY <1>1, <1>2, <1>3, <1>4 DEF IInv, TypeOK, Functors
<1>6. SocketsAreOwned'
  BY <1>1, <1>2, <1>3, <1>4 DEF IInv, TypeOK, SocketsAreOwned, WatchesWhileConnecting
<1>7. TryInv'
  BY <1>1, <1>2, <1>3, <1>4 DEF IInv, TypeOK, TryInv, ConnectorAlive, InQueue, Posted, Batched
<1>8. QueueInv'
  BY <1>1, <1>2, <1>3, <1>4 DEF IInv, QueueInv, InQueue, Posted, Batched
<1>9. AttemptInv'
  BY <1>1, <1>2, <1>3, <1>4 DEF IInv, TypeOK, AttemptInv, Calling, InQueue, Posted, Batched
<1>10. ChannelInv'
  BY <1>1, <1>2, <1>3, <1>4 DEF IInv, TypeOK, ChannelInv, SocketsAreOwned,
     WatchesWhileConnecting, InQueue, Posted, Batched
<1>11. ActiveInv'
  BY <1>1, <1>2, <1>3, <1>4 DEF IInv, TypeOK, ActiveInv, InQueue, Posted, Batched
<1>12. ConnInv'
  BY <1>1, <1>2, <1>3, <1>4 DEF IInv, TypeOK, ConnInv, InQueue, Posted, Batched
<1>13. OwnerInv'
  BY <1>1, <1>2, <1>3, <1>4 DEF IInv, TypeOK, OwnerInv, NoCallUnderway, Raw, InQueue, Posted,
     Batched
<1>14. StopInv'
  BY <1>1, <1>2, <1>3, <1>4 DEF IInv, TypeOK, StopInv
<1> QED BY <1>5, <1>6, <1>7, <1>8, <1>9, <1>10, <1>11, <1>12, <1>13, <1>14 DEF IInv

\* startInLoop finds a disconnected connector without a channel.
LEMMA RunStartInLoopStep == ASSUME IInv, RunStartInLoop PROVE IInv'
<1>1. /\ functors # <<>> /\ Head(functors) = "startInLoop" /\ functors' = Tail(functors)
      /\ conn # "closing" /\ ~restarting
      /\ UNCHANGED <<connect_, client, clientConnect, retry_, connection_, restarting,
                     holdTimer, conn, toClient, phase, active, pending, underway, stopped>>
  BY DEF RunStartInLoop, Functor, clientVars
<1>2. /\ functors' \in Seq(Functors)
      /\ \A g : g \in Range(functors) <=> g = "startInLoop" \/ g \in Range(functors')
      /\ \A g : OnceIn(g, functors) =>
           OnceIn(g, functors') /\ (g = "startInLoop" => g \notin Range(functors'))
  <2>1. functors \in Seq(Functors)
    BY DEF IInv, TypeOK, Functors
  <2> QED BY <1>1, <2>1, Taking
<1>3. phase = "functors" /\ active = {} /\ InQueue("startInLoop")
  BY <1>1, <1>2 DEF IInv, TypeOK, ActiveInv, InQueue, Batched
<1>4. /\ state_ = "kDisconnected" /\ channel_ = "null" /\ retryTimers = 0 /\ ~Calling
      /\ client \/ holdTimer
      /\ ~InQueue("startInLoop")'
  BY <1>1, <1>2, <1>3 DEF IInv, AttemptInv, OwnerInv, QueueInv, InQueue, Posted, Batched, Raw
<1>5. aborted' = "no" /\ StartInLoop(connect_, 0)
  BY <1>4 DEF RunStartInLoop, StartFails, ConnectorAlive
<1>6. CASE ~connect_
  <2>1. UNCHANGED <<state_, channel_, retryDelayMs_, retryTimers, sockets, gaveUp>>
    BY <1>4, <1>5, <1>6 DEF StartInLoop
  <2>2. TypeOK' /\ aborted' = "no"
    BY <1>1, <1>2, <1>3, <1>4, <1>5, <1>6, <2>1 DEF IInv, TypeOK, Functors
  <2>3. TryInv'
    BY <1>1, <1>2, <1>3, <1>4, <1>5, <1>6, <2>1 DEF IInv, TypeOK, TryInv, ConnectorAlive,
       InQueue, Posted, Batched
  <2>4. QueueInv'
    BY <1>1, <1>2, <1>3, <1>4, <1>5, <1>6, <2>1 DEF IInv, QueueInv, InQueue, Posted, Batched
  <2>5. AttemptInv'
    BY <1>1, <1>2, <1>3, <1>4, <1>5, <1>6, <2>1 DEF IInv, TypeOK, AttemptInv, Calling, InQueue,
       Posted, Batched
  <2>6. ChannelInv'
    BY <1>1, <1>2, <1>3, <1>4, <1>5, <1>6, <2>1 DEF IInv, TypeOK, ChannelInv, SocketsAreOwned,
       WatchesWhileConnecting, InQueue, Posted, Batched
  <2>7. ActiveInv'
    BY <1>1, <1>2, <1>3, <1>4, <1>5, <1>6, <2>1 DEF IInv, TypeOK, ActiveInv, InQueue, Posted,
       Batched
  <2>8. ConnInv'
    BY <1>1, <1>2, <1>3, <1>4, <1>5, <1>6, <2>1 DEF IInv, TypeOK, ConnInv, InQueue, Posted,
       Batched
  <2>9. OwnerInv'
    BY <1>1, <1>2, <1>3, <1>4, <1>5, <1>6, <2>1 DEF IInv, TypeOK, OwnerInv, NoCallUnderway, Raw,
       InQueue, Posted, Batched
  <2>10. SocketsAreOwned' /\ StopInv'
    BY <1>1, <1>2, <1>3, <1>4, <1>5, <1>6, <2>1 DEF IInv, TypeOK, SocketsAreOwned,
       WatchesWhileConnecting, StopInv
  <2> QED BY <2>2, <2>3, <2>4, <2>5, <2>6, <2>7, <2>8, <2>9, <2>10 DEF IInv
<1>7. CASE connect_
  <2>1. /\ retryDelayMs_' \in kInitRetryDelayMs..kMaxRetryDelayMs /\ gaveUp' \in BOOLEAN
        /\ \/ /\ sockets' = sockets + 1 /\ state_' = "kConnecting" /\ channel_' = "added"
              /\ retryTimers' = 0 /\ gaveUp' = FALSE
           \/ /\ sockets' = sockets /\ state_' = "kDisconnected" /\ channel_' = channel_
              /\ (retryTimers' = 1 /\ gaveUp' = FALSE) \/ (retryTimers' = 0 /\ gaveUp' = TRUE)
    <3>1. TypeOK /\ retryDelayMs_ \in kInitRetryDelayMs..kMaxRetryDelayMs
          /\ Connect(retryDelayMs_, 0)
      BY <1>5, <1>7 DEF IInv, TypeOK, StartInLoop
    <3> QED BY <3>1, ConnectEffect
  <2>2. TypeOK' /\ aborted' = "no"
    BY <1>1, <1>2, <1>3, <1>4, <1>5, <1>7, <2>1 DEF IInv, TypeOK, Functors
  <2>3. SocketsAreOwned'
    BY <1>1, <1>2, <1>3, <1>4, <1>5, <1>7, <2>1 DEF IInv, TypeOK, SocketsAreOwned,
       WatchesWhileConnecting
  <2>4. TryInv'
    BY <1>1, <1>2, <1>3, <1>4, <1>5, <1>7, <2>1 DEF IInv, TypeOK, TryInv, ConnectorAlive,
       InQueue, Posted, Batched
  <2>5. QueueInv'
    BY <1>1, <1>2, <1>3, <1>4, <1>5, <1>7, <2>1 DEF IInv, QueueInv, InQueue, Posted, Batched
  <2>6. AttemptInv'
    BY <1>1, <1>2, <1>3, <1>4, <1>5, <1>7, <2>1 DEF IInv, TypeOK, AttemptInv, Calling, InQueue,
       Posted, Batched
  <2>7. ChannelInv'
    BY <1>1, <1>2, <1>3, <1>4, <1>5, <1>7, <2>1 DEF IInv, TypeOK, ChannelInv, SocketsAreOwned,
       WatchesWhileConnecting, InQueue, Posted, Batched
  <2>8. ActiveInv'
    BY <1>1, <1>2, <1>3, <1>4, <1>5, <1>7, <2>1 DEF IInv, TypeOK, ActiveInv, InQueue, Posted,
       Batched
  <2>9. ConnInv'
    BY <1>1, <1>2, <1>3, <1>4, <1>5, <1>7, <2>1 DEF IInv, TypeOK, ConnInv, InQueue, Posted,
       Batched
  <2>10. OwnerInv'
    BY <1>1, <1>2, <1>3, <1>4, <1>5, <1>7, <2>1 DEF IInv, TypeOK, OwnerInv, NoCallUnderway, Raw,
       InQueue, Posted, Batched
  <2>11. StopInv'
    BY <1>1, <1>2, <1>3, <1>4, <1>5, <1>7, <2>1 DEF IInv, TypeOK, StopInv
  <2> QED BY <2>2, <2>3, <2>4, <2>5, <2>6, <2>7, <2>8, <2>9, <2>10, <2>11 DEF IInv
<1> QED BY <1>6, <1>7

\* stopInLoop ends the attempt, if one is underway.
LEMMA RunStopInLoopStep == ASSUME IInv, RunStopInLoop PROVE IInv'
<1>1. /\ functors # <<>> /\ Head(functors) = "stopInLoop" /\ functors' = Tail(functors)
      /\ conn # "closing" /\ ~restarting
      /\ UNCHANGED <<connect_, client, clientConnect, retry_, connection_, restarting,
                     holdTimer, conn, toClient, phase, active, underway, gaveUp, stopped>>
  BY DEF RunStopInLoop, Functor, clientVars
<1>2. /\ functors' \in Seq(Functors)
      /\ \A g : g \in Range(functors) <=> g = "stopInLoop" \/ g \in Range(functors')
      /\ \A g : OnceIn(g, functors) =>
           OnceIn(g, functors') /\ (g = "stopInLoop" => g \notin Range(functors'))
  <2>1. functors \in Seq(Functors)
    BY DEF IInv, TypeOK, Functors
  <2> QED BY <1>1, <2>1, Taking
<1>3. phase = "functors" /\ active = {} /\ InQueue("stopInLoop")
  BY <1>1, <1>2 DEF IInv, TypeOK, ActiveInv, InQueue, Batched
<1>4. aborted' = "no"
  BY <1>3 DEF IInv, RunStopInLoop, OwnerInv, ConnectorAlive, Raw
<1>5. CASE state_ # "kConnecting"
  <2>1. UNCHANGED <<state_, channel_, retryDelayMs_, retryTimers, sockets, pending>>
    BY <1>5 DEF RunStopInLoop, StopsConnecting
  <2>2. TypeOK' /\ aborted' = "no"
    BY <1>1, <1>2, <1>3, <1>4, <1>5, <2>1 DEF IInv, TypeOK, Functors
  <2>3. TryInv'
    BY <1>1, <1>2, <1>3, <1>4, <1>5, <2>1 DEF IInv, TypeOK, TryInv, ConnectorAlive, InQueue,
       Posted, Batched
  <2>4. QueueInv'
    BY <1>1, <1>2, <1>3, <1>4, <1>5, <2>1 DEF IInv, QueueInv, InQueue, Posted, Batched
  <2>5. AttemptInv'
    BY <1>1, <1>2, <1>3, <1>4, <1>5, <2>1 DEF IInv, TypeOK, AttemptInv, Calling, InQueue,
       Posted, Batched
  <2>6. ChannelInv'
    BY <1>1, <1>2, <1>3, <1>4, <1>5, <2>1 DEF IInv, TypeOK, ChannelInv, SocketsAreOwned,
       WatchesWhileConnecting, InQueue, Posted, Batched
  <2>7. ActiveInv'
    BY <1>1, <1>2, <1>3, <1>4, <1>5, <2>1 DEF IInv, TypeOK, ActiveInv, InQueue, Posted, Batched
  <2>8. ConnInv'
    BY <1>1, <1>2, <1>3, <1>4, <1>5, <2>1 DEF IInv, TypeOK, ConnInv, InQueue, Posted, Batched
  <2>9. OwnerInv'
    BY <1>1, <1>2, <1>3, <1>4, <1>5, <2>1 DEF IInv, TypeOK, OwnerInv, NoCallUnderway, Raw,
       InQueue, Posted, Batched, SocketsAreOwned, WatchesWhileConnecting
  <2>10. SocketsAreOwned' /\ StopInv'
    BY <1>1, <1>2, <1>3, <1>4, <1>5, <2>1 DEF IInv, TypeOK, SocketsAreOwned,
       WatchesWhileConnecting, StopInv
  <2> QED BY <2>2, <2>3, <2>4, <2>5, <2>6, <2>7, <2>8, <2>9, <2>10 DEF IInv
<1>6. CASE state_ = "kConnecting"
  <2>1. /\ state_ = "kConnecting" /\ channel_ = "added" /\ retryTimers = 0 /\ sockets \in Nat
        /\ sockets = 1 + (IF conn # "none" THEN 1 ELSE 0) /\ conn \in {"none", "down"}
        /\ ~InQueue("resetChannel") /\ ~InQueue("startInLoop") /\ ~Calling
    BY <1>6 DEF IInv, TypeOK, SocketsAreOwned, WatchesWhileConnecting, AttemptInv, ChannelInv,
       ConnInv
  <2>2. /\ sockets' = sockets - 1 /\ state_' = "kDisconnected" /\ channel_' = "removed"
        /\ retryTimers' = IF connect_ THEN 1 ELSE 0
        /\ retryDelayMs_' \in kInitRetryDelayMs..kMaxRetryDelayMs
        /\ pending' = Append(pending, "resetChannel")
    BY <1>6, <2>1, Delays DEF IInv, TypeOK, RunStopInLoop, StopsConnecting, Retry,
       RemoveAndResetChannel
  <2>3. /\ pending' \in Seq(Functors) /\ functors' \in Seq(Functors)
        /\ \A g : g \in Range(pending') <=> g \in Range(pending) \/ g = "resetChannel"
        /\ \A g : OnceIn(g, pending) /\ (g = "resetChannel" => g \notin Range(pending))
                  => OnceIn(g, pending')
    <3>1. pending \in Seq(Functors) /\ "resetChannel" \in Functors
      BY DEF IInv, TypeOK, Functors, Raw
    <3> QED BY <1>2, <2>2, <3>1, Posting
  <2>4. TypeOK' /\ aborted' = "no"
    BY <1>1, <1>2, <1>3, <1>4, <1>6, <2>1, <2>2, <2>3 DEF IInv, TypeOK, Functors
  <2>5. SocketsAreOwned'
    BY <1>1, <1>2, <1>3, <1>4, <1>6, <2>1, <2>2, <2>3 DEF IInv, TypeOK, SocketsAreOwned,
       WatchesWhileConnecting
  <2>6. TryInv'
    BY <1>1, <1>2, <1>3, <1>4, <1>6, <2>1, <2>2, <2>3 DEF IInv, TypeOK, TryInv, ConnectorAlive,
       InQueue, Posted, Batched
  <2>7. QueueInv'
    BY <1>1, <1>2, <1>3, <1>4, <1>6, <2>1, <2>2, <2>3 DEF IInv, QueueInv, InQueue, Posted, Batched
  <2>8. AttemptInv'
    BY <1>1, <1>2, <1>3, <1>4, <1>6, <2>1, <2>2, <2>3 DEF IInv, TypeOK, AttemptInv, Calling,
       InQueue, Posted, Batched
  <2>9. ChannelInv'
    BY <1>1, <1>2, <1>3, <1>4, <1>6, <2>1, <2>2, <2>3 DEF IInv, TypeOK, ChannelInv,
       SocketsAreOwned, WatchesWhileConnecting, InQueue, Posted, Batched
  <2>10. ActiveInv'
    BY <1>1, <1>2, <1>3, <1>4, <1>6, <2>1, <2>2, <2>3 DEF IInv, TypeOK, ActiveInv, InQueue,
       Posted, Batched
  <2>11. ConnInv'
    BY <1>1, <1>2, <1>3, <1>4, <1>6, <2>1, <2>2, <2>3 DEF IInv, TypeOK, ConnInv, InQueue,
       Posted, Batched
  <2>12. OwnerInv'
    BY <1>1, <1>2, <1>3, <1>4, <1>6, <2>1, <2>2, <2>3 DEF IInv, TypeOK, OwnerInv,
       NoCallUnderway, Raw, InQueue, Posted, Batched
  <2>13. StopInv'
    BY <1>1, <1>2, <1>3, <1>4, <1>6, <2>1, <2>2, <2>3 DEF IInv, TypeOK, StopInv
  <2> QED BY <2>4, <2>5, <2>6, <2>7, <2>8, <2>9, <2>10, <2>11, <2>12, <2>13 DEF IInv
<1> QED BY <1>5, <1>6

\* handleError: the attempt ends, and a retry is set if it is still wanted.
LEMMA HandleErrorStep == ASSUME IInv, HandleError PROVE IInv'
<1>1. /\ phase = "handle" /\ conn # "closing" /\ ~restarting /\ "error" \in active
      /\ active' = active \ {"error"}
      /\ UNCHANGED <<connect_, client, clientConnect, retry_, connection_, restarting,
                     holdTimer, conn, toClient, phase, functors, underway, gaveUp, stopped,
                     aborted>>
  BY DEF HandleError, Handles, clientVars, connVars
<1>2. CASE state_ # "kConnecting"
  <2>1. UNCHANGED <<state_, channel_, retryDelayMs_, retryTimers, sockets, pending>>
    BY <1>2 DEF HandleError
  <2>2. TypeOK' /\ aborted' = "no"
    BY <1>1, <1>2, <2>1 DEF IInv, TypeOK, Functors
  <2>3. ActiveInv'
    BY <1>1, <1>2, <2>1 DEF IInv, TypeOK, ActiveInv, InQueue, Posted, Batched
  <2>4. SocketsAreOwned' /\ TryInv' /\ QueueInv'
    BY <1>1, <1>2, <2>1 DEF IInv, TypeOK, SocketsAreOwned, WatchesWhileConnecting, TryInv,
       ConnectorAlive, InQueue, Posted, Batched, QueueInv
  <2>5. AttemptInv' /\ ChannelInv' /\ ConnInv'
    BY <1>1, <1>2, <2>1 DEF IInv, TypeOK, AttemptInv, Calling, InQueue, Posted, Batched,
       ChannelInv, SocketsAreOwned, WatchesWhileConnecting, ConnInv
  <2>6. OwnerInv' /\ StopInv'
    BY <1>1, <1>2, <2>1 DEF IInv, TypeOK, OwnerInv, NoCallUnderway, Raw, InQueue, Posted,
       Batched, StopInv
  <2> QED BY <2>2, <2>3, <2>4, <2>5, <2>6 DEF IInv
<1>3. CASE state_ = "kConnecting"
  <2>1. /\ state_ = "kConnecting" /\ channel_ = "added" /\ retryTimers = 0 /\ sockets \in Nat
        /\ sockets = 1 + (IF conn # "none" THEN 1 ELSE 0) /\ conn \in {"none", "down"}
        /\ ~InQueue("resetChannel") /\ ~InQueue("startInLoop") /\ ~Calling
    BY <1>3 DEF IInv, TypeOK, SocketsAreOwned, WatchesWhileConnecting, AttemptInv, ChannelInv,
       ConnInv
  <2>2. /\ sockets' = sockets - 1 /\ state_' = "kDisconnected" /\ channel_' = "removed"
        /\ retryTimers' = IF connect_ THEN 1 ELSE 0
        /\ retryDelayMs_' \in kInitRetryDelayMs..kMaxRetryDelayMs
        /\ pending' = Append(pending, "resetChannel")
    BY <1>3, <2>1, Delays DEF IInv, TypeOK, HandleError, Retry, RemoveAndResetChannel
  <2>3. /\ pending' \in Seq(Functors) /\ functors' \in Seq(Functors)
        /\ \A g : g \in Range(pending') <=> g \in Range(pending) \/ g = "resetChannel"
        /\ \A g : OnceIn(g, pending) /\ (g = "resetChannel" => g \notin Range(pending))
                  => OnceIn(g, pending')
    <3>1. pending \in Seq(Functors) /\ functors \in Seq(Functors) /\ "resetChannel" \in Functors
      BY DEF IInv, TypeOK, Functors, Raw
    <3> QED BY <1>1, <2>2, <3>1, Posting
  <2>4. TypeOK' /\ aborted' = "no"
    BY <1>1, <1>3, <2>1, <2>2, <2>3 DEF IInv, TypeOK, Functors
  <2>5. SocketsAreOwned'
    BY <1>1, <1>3, <2>1, <2>2, <2>3 DEF IInv, TypeOK, SocketsAreOwned, WatchesWhileConnecting
  <2>6. TryInv'
    BY <1>1, <1>3, <2>1, <2>2, <2>3 DEF IInv, TypeOK, TryInv, ConnectorAlive, InQueue, Posted,
       Batched
  <2>7. QueueInv'
    BY <1>1, <1>3, <2>1, <2>2, <2>3 DEF IInv, QueueInv, InQueue, Posted, Batched
  <2>8. AttemptInv'
    BY <1>1, <1>3, <2>1, <2>2, <2>3 DEF IInv, TypeOK, AttemptInv, Calling, InQueue, Posted,
       Batched
  <2>9. ChannelInv'
    BY <1>1, <1>3, <2>1, <2>2, <2>3 DEF IInv, TypeOK, ChannelInv, SocketsAreOwned,
       WatchesWhileConnecting, InQueue, Posted, Batched
  <2>10. ActiveInv'
    BY <1>1, <1>3, <2>1, <2>2, <2>3 DEF IInv, TypeOK, ActiveInv, InQueue, Posted, Batched
  <2>11. ConnInv'
    BY <1>1, <1>3, <2>1, <2>2, <2>3 DEF IInv, TypeOK, ConnInv, InQueue, Posted, Batched
  <2>12. OwnerInv'
    BY <1>1, <1>3, <2>1, <2>2, <2>3 DEF IInv, TypeOK, OwnerInv, NoCallUnderway, Raw, InQueue,
       Posted, Batched
  <2>13. StopInv'
    BY <1>1, <1>3, <2>1, <2>2, <2>3 DEF IInv, TypeOK, StopInv
  <2> QED BY <2>4, <2>5, <2>6, <2>7, <2>8, <2>9, <2>10, <2>11, <2>12, <2>13 DEF IInv
<1> QED BY <1>2, <1>3

\* handleWrite: stale, or a retry, or a connection, or one that nobody wants.
LEMMA HandleWriteStep == ASSUME IInv, HandleWrite PROVE IInv'
<1>1. /\ phase = "handle" /\ conn # "closing" /\ ~restarting /\ "write" \in active
      /\ active' = active \ {"write"} /\ channel_ # "null" /\ state_ # "kConnected"
      /\ conn = "none"
      /\ UNCHANGED <<client, clientConnect, retry_, restarting, holdTimer, phase,
                     functors, underway, gaveUp, stopped>>
  BY DEF HandleWrite, Handles, IInv, ActiveInv
<1>2. CASE state_ # "kConnecting"
  <2>1. state_ = "kDisconnected" /\ aborted' = "no"
        /\ UNCHANGED <<connect_, state_, channel_, retryDelayMs_, retryTimers, connection_, conn,
                       toClient, pending, sockets>>
    BY <1>1, <1>2 DEF IInv, TypeOK, HandleWrite, connectorVars, connVars
  <2>2. TypeOK' /\ aborted' = "no"
    BY <1>1, <1>2, <2>1 DEF IInv, TypeOK, Functors
  <2>3. ActiveInv'
    BY <1>1, <1>2, <2>1 DEF IInv, TypeOK, ActiveInv, InQueue, Posted, Batched
  <2>4. SocketsAreOwned' /\ TryInv' /\ QueueInv'
    BY <1>1, <1>2, <2>1 DEF IInv, TypeOK, SocketsAreOwned, WatchesWhileConnecting, TryInv,
       ConnectorAlive, InQueue, Posted, Batched, QueueInv
  <2>5. AttemptInv' /\ ChannelInv' /\ ConnInv'
    BY <1>1, <1>2, <2>1 DEF IInv, TypeOK, AttemptInv, Calling, InQueue, Posted, Batched,
       ChannelInv, SocketsAreOwned, WatchesWhileConnecting, ConnInv
  <2>6. OwnerInv' /\ StopInv'
    BY <1>1, <1>2, <2>1 DEF IInv, TypeOK, OwnerInv, NoCallUnderway, Raw, InQueue, Posted,
       Batched, StopInv
  <2> QED BY <2>2, <2>3, <2>4, <2>5, <2>6 DEF IInv
<1>3. CASE state_ = "kConnecting"
  <2>1. /\ state_ = "kConnecting" /\ channel_ = "added" /\ retryTimers = 0 /\ sockets \in Nat
        /\ sockets = 1 + (IF conn # "none" THEN 1 ELSE 0) /\ conn \in {"none", "down"}
        /\ ~InQueue("resetChannel") /\ ~InQueue("startInLoop") /\ ~Calling
    BY <1>3 DEF IInv, TypeOK, SocketsAreOwned, WatchesWhileConnecting, AttemptInv, ChannelInv,
       ConnInv
  <2>2. pending' = Append(pending, "resetChannel") /\ channel_' = "removed"
        /\ connect_' = connect_
    BY <1>3 DEF HandleWrite, RemoveAndResetChannel
  <2>3. /\ pending' \in Seq(Functors) /\ functors' \in Seq(Functors)
        /\ \A g : g \in Range(pending') <=> g \in Range(pending) \/ g = "resetChannel"
        /\ \A g : OnceIn(g, pending) /\ (g = "resetChannel" => g \notin Range(pending))
                  => OnceIn(g, pending')
    <3>1. pending \in Seq(Functors) /\ functors \in Seq(Functors) /\ "resetChannel" \in Functors
      BY DEF IInv, TypeOK, Functors, Raw
    <3> QED BY <1>1, <2>2, <3>1, Posting
  <2>4. CASE /\ Retry(connect_, retryDelayMs_, sockets, retryTimers)
             /\ UNCHANGED <<connection_, conn, toClient, aborted>>
    <3>1. /\ sockets' = sockets - 1 /\ state_' = "kDisconnected" /\ channel_' = "removed"
          /\ retryTimers' = IF connect_ THEN 1 ELSE 0
          /\ retryDelayMs_' \in kInitRetryDelayMs..kMaxRetryDelayMs
          /\ pending' = Append(pending, "resetChannel")
      BY <2>1, <2>2, <2>4, Delays DEF IInv, TypeOK, Retry
    <3>2. TypeOK' /\ aborted' = "no"
      BY <1>1, <1>3, <2>1, <2>2, <2>3, <2>4, <3>1 DEF IInv, TypeOK, Functors
    <3>3. SocketsAreOwned'
      BY <1>1, <1>3, <2>1, <2>2, <2>3, <2>4, <3>1 DEF IInv, TypeOK, SocketsAreOwned,
         WatchesWhileConnecting
    <3>4. TryInv'
      BY <1>1, <1>3, <2>1, <2>2, <2>3, <2>4, <3>1 DEF IInv, TypeOK, TryInv, ConnectorAlive,
         InQueue, Posted, Batched
    <3>5. QueueInv'
      BY <1>1, <1>3, <2>1, <2>2, <2>3, <2>4, <3>1 DEF IInv, QueueInv, InQueue, Posted, Batched
    <3>6. AttemptInv'
      BY <1>1, <1>3, <2>1, <2>2, <2>3, <2>4, <3>1 DEF IInv, TypeOK, AttemptInv, Calling,
         InQueue, Posted, Batched
    <3>7. ChannelInv'
      BY <1>1, <1>3, <2>1, <2>2, <2>3, <2>4, <3>1 DEF IInv, TypeOK, ChannelInv, SocketsAreOwned,
         WatchesWhileConnecting, InQueue, Posted, Batched
    <3>8. ActiveInv'
      BY <1>1, <1>3, <2>1, <2>2, <2>3, <2>4, <3>1 DEF IInv, TypeOK, ActiveInv, InQueue, Posted,
         Batched
    <3>9. ConnInv'
      BY <1>1, <1>3, <2>1, <2>2, <2>3, <2>4, <3>1 DEF IInv, TypeOK, ConnInv, InQueue, Posted,
         Batched
    <3>10. OwnerInv'
      BY <1>1, <1>3, <2>1, <2>2, <2>3, <2>4, <3>1 DEF IInv, TypeOK, OwnerInv, NoCallUnderway,
         Raw, InQueue, Posted, Batched
    <3>11. StopInv'
      BY <1>1, <1>3, <2>1, <2>2, <2>3, <2>4, <3>1 DEF IInv, TypeOK, StopInv
    <3> QED BY <3>2, <3>3, <3>4, <3>5, <3>6, <3>7, <3>8, <3>9, <3>10, <3>11 DEF IInv
  <2>5. CASE /\ state_' = "kConnected" /\ connect_
             /\ aborted' = (IF client THEN "no" ELSE "newConnection")
             /\ connection_' = TRUE /\ conn' = "up" /\ toClient' = TRUE
             /\ UNCHANGED <<sockets, retryDelayMs_, retryTimers>>
    <3>1. client /\ aborted' = "no" /\ connection_' \in BOOLEAN /\ toClient' \in BOOLEAN
      BY <1>3, <2>5 DEF IInv, OwnerInv
    <3>2. TypeOK' /\ aborted' = "no"
      BY <1>1, <1>3, <2>1, <2>2, <2>3, <2>5, <3>1 DEF IInv, TypeOK, Functors
    <3>3. SocketsAreOwned'
      BY <1>1, <1>3, <2>1, <2>2, <2>3, <2>5, <3>1 DEF IInv, TypeOK, SocketsAreOwned,
         WatchesWhileConnecting
    <3>4. TryInv'
      BY <1>1, <1>3, <2>1, <2>2, <2>3, <2>5, <3>1 DEF IInv, TypeOK, TryInv, ConnectorAlive,
         InQueue, Posted, Batched
    <3>5. QueueInv'
      BY <1>1, <1>3, <2>1, <2>2, <2>3, <2>5, <3>1 DEF IInv, QueueInv, InQueue, Posted, Batched
    <3>6. AttemptInv'
      BY <1>1, <1>3, <2>1, <2>2, <2>3, <2>5, <3>1 DEF IInv, TypeOK, AttemptInv, Calling,
         InQueue, Posted, Batched
    <3>7. ChannelInv'
      BY <1>1, <1>3, <2>1, <2>2, <2>3, <2>5, <3>1 DEF IInv, TypeOK, ChannelInv, SocketsAreOwned,
         WatchesWhileConnecting, InQueue, Posted, Batched
    <3>8. ActiveInv'
      BY <1>1, <1>3, <2>1, <2>2, <2>3, <2>5, <3>1 DEF IInv, TypeOK, ActiveInv, InQueue, Posted,
         Batched
    <3>9. ConnInv'
      BY <1>1, <1>3, <2>1, <2>2, <2>3, <2>5, <3>1 DEF IInv, TypeOK, ConnInv, InQueue, Posted,
         Batched
    <3>10. OwnerInv'
      BY <1>1, <1>3, <2>1, <2>2, <2>3, <2>5, <3>1 DEF IInv, TypeOK, OwnerInv, NoCallUnderway,
         Raw, InQueue, Posted, Batched
    <3>11. StopInv'
      BY <1>1, <1>3, <2>1, <2>2, <2>3, <2>5, <3>1 DEF IInv, TypeOK, StopInv
    <3> QED BY <3>2, <3>3, <3>4, <3>5, <3>6, <3>7, <3>8, <3>9, <3>10, <3>11 DEF IInv
  <2>6. CASE /\ state_' = "kConnected" /\ ~connect_ /\ sockets' = sockets - 1
             /\ UNCHANGED <<connection_, conn, toClient, aborted, retryDelayMs_, retryTimers>>
    <3>1. TypeOK' /\ aborted' = "no"
      BY <1>1, <1>3, <2>1, <2>2, <2>3, <2>6 DEF IInv, TypeOK, Functors
    <3>2. SocketsAreOwned'
      BY <1>1, <1>3, <2>1, <2>2, <2>3, <2>6 DEF IInv, TypeOK, SocketsAreOwned,
         WatchesWhileConnecting
    <3>3. TryInv'
      BY <1>1, <1>3, <2>1, <2>2, <2>3, <2>6 DEF IInv, TypeOK, TryInv, ConnectorAlive, InQueue,
         Posted, Batched
    <3>4. QueueInv'
      BY <1>1, <1>3, <2>1, <2>2, <2>3, <2>6 DEF IInv, QueueInv, InQueue, Posted, Batched
    <3>5. AttemptInv'
      BY <1>1, <1>3, <2>1, <2>2, <2>3, <2>6 DEF IInv, TypeOK, AttemptInv, Calling, InQueue,
         Posted, Batched
    <3>6. ChannelInv'
      BY <1>1, <1>3, <2>1, <2>2, <2>3, <2>6 DEF IInv, TypeOK, ChannelInv, SocketsAreOwned,
         WatchesWhileConnecting, InQueue, Posted, Batched
    <3>7. ActiveInv'
      BY <1>1, <1>3, <2>1, <2>2, <2>3, <2>6 DEF IInv, TypeOK, ActiveInv, InQueue, Posted, Batched
    <3>8. ConnInv'
      BY <1>1, <1>3, <2>1, <2>2, <2>3, <2>6 DEF IInv, TypeOK, ConnInv, InQueue, Posted, Batched
    <3>9. OwnerInv'
      BY <1>1, <1>3, <2>1, <2>2, <2>3, <2>6 DEF IInv, TypeOK, OwnerInv, NoCallUnderway, Raw,
         InQueue, Posted, Batched
    <3>10. StopInv'
      BY <1>1, <1>3, <2>1, <2>2, <2>3, <2>6 DEF IInv, TypeOK, StopInv
    <3> QED BY <3>1, <3>2, <3>3, <3>4, <3>5, <3>6, <3>7, <3>8, <3>9, <3>10 DEF IInv
  <2> QED BY <1>3, <2>4, <2>5, <2>6 DEF HandleWrite, connVars
<1> QED BY <1>2, <1>3

\* A retry timer that fires was the only attempt in the making.
LEMMA RetryTimerStep == ASSUME IInv, RetryTimer PROVE IInv'
<1>1. /\ phase = "handle" /\ conn # "closing" /\ ~restarting /\ "timer" \in active
      /\ active' = active \ {"timer"}
      /\ UNCHANGED <<connect_, client, clientConnect, retry_, connection_, restarting,
                     holdTimer, conn, toClient, phase, functors, pending, underway, stopped>>
  BY DEF RetryTimer, Handles, clientVars, connVars
<1>2. /\ state_ = "kDisconnected" /\ channel_ = "null" /\ retryTimers = 1
      /\ ~InQueue("startInLoop") /\ ~Calling /\ ~InQueue("resetChannel")
      /\ "write" \notin active
  BY <1>1 DEF IInv, ActiveInv, AttemptInv, ChannelInv
<1>3. aborted' = "no" /\ StartInLoop(connect_, 0)
  BY <1>2 DEF RetryTimer, StartFails
<1>4. CASE ~connect_
  <2>1. retryTimers' = 0 /\ UNCHANGED <<state_, channel_, retryDelayMs_, sockets, gaveUp>>
    BY <1>3, <1>4 DEF StartInLoop
  <2>2. TypeOK' /\ aborted' = "no"
    BY <1>1, <1>2, <1>3, <1>4, <2>1 DEF IInv, TypeOK, Functors
  <2>3. TryInv'
    BY <1>1, <1>2, <1>3, <1>4, <2>1 DEF IInv, TypeOK, TryInv, ConnectorAlive, InQueue, Posted,
       Batched
  <2>4. AttemptInv'
    BY <1>1, <1>2, <1>3, <1>4, <2>1 DEF IInv, TypeOK, AttemptInv, Calling, InQueue, Posted,
       Batched
  <2>5. ActiveInv'
    BY <1>1, <1>2, <1>3, <1>4, <2>1 DEF IInv, TypeOK, ActiveInv, InQueue, Posted, Batched, ConnInv
  <2>6. SocketsAreOwned' /\ QueueInv' /\ ChannelInv'
    BY <1>1, <1>2, <1>3, <1>4, <2>1 DEF IInv, TypeOK, SocketsAreOwned, WatchesWhileConnecting,
       QueueInv, InQueue, Posted, Batched, ChannelInv
  <2>7. ConnInv' /\ OwnerInv' /\ StopInv'
    BY <1>1, <1>2, <1>3, <1>4, <2>1 DEF IInv, TypeOK, ConnInv, InQueue, Posted, Batched,
       OwnerInv, NoCallUnderway, Raw, StopInv
  <2> QED BY <2>2, <2>3, <2>4, <2>5, <2>6, <2>7 DEF IInv
<1>5. CASE connect_
  <2>1. /\ retryDelayMs_' \in kInitRetryDelayMs..kMaxRetryDelayMs /\ gaveUp' \in BOOLEAN
        /\ \/ /\ sockets' = sockets + 1 /\ state_' = "kConnecting" /\ channel_' = "added"
              /\ retryTimers' = 0 /\ gaveUp' = FALSE
           \/ /\ sockets' = sockets /\ state_' = "kDisconnected" /\ channel_' = channel_
              /\ (retryTimers' = 1 /\ gaveUp' = FALSE) \/ (retryTimers' = 0 /\ gaveUp' = TRUE)
    <3>1. TypeOK /\ retryDelayMs_ \in kInitRetryDelayMs..kMaxRetryDelayMs
          /\ Connect(retryDelayMs_, 0)
      BY <1>3, <1>5 DEF IInv, TypeOK, StartInLoop
    <3> QED BY <3>1, ConnectEffect
  <2>2. TypeOK' /\ aborted' = "no"
    BY <1>1, <1>2, <1>3, <1>5, <2>1 DEF IInv, TypeOK, Functors
  <2>3. SocketsAreOwned'
    BY <1>1, <1>2, <1>3, <1>5, <2>1 DEF IInv, TypeOK, SocketsAreOwned, WatchesWhileConnecting
  <2>4. TryInv'
    BY <1>1, <1>2, <1>3, <1>5, <2>1 DEF IInv, TypeOK, TryInv, ConnectorAlive, InQueue, Posted,
       Batched
  <2>5. AttemptInv'
    BY <1>1, <1>2, <1>3, <1>5, <2>1 DEF IInv, TypeOK, AttemptInv, Calling, InQueue, Posted,
       Batched
  <2>6. ChannelInv'
    BY <1>1, <1>2, <1>3, <1>5, <2>1 DEF IInv, TypeOK, ChannelInv, SocketsAreOwned,
       WatchesWhileConnecting, InQueue, Posted, Batched
  <2>7. ActiveInv'
    BY <1>1, <1>2, <1>3, <1>5, <2>1 DEF IInv, TypeOK, ActiveInv, InQueue, Posted, Batched, ConnInv
  <2>8. ConnInv'
    BY <1>1, <1>2, <1>3, <1>5, <2>1 DEF IInv, TypeOK, ConnInv, InQueue, Posted, Batched
  <2>9. OwnerInv'
    BY <1>1, <1>2, <1>3, <1>5, <2>1 DEF IInv, TypeOK, OwnerInv, NoCallUnderway, Raw, InQueue,
       Posted, Batched
  <2>10. QueueInv' /\ StopInv'
    BY <1>1, <1>2, <1>3, <1>5, <2>1 DEF IInv, QueueInv, InQueue, Posted, Batched, TypeOK, StopInv
  <2> QED BY <2>2, <2>3, <2>4, <2>5, <2>6, <2>7, <2>8, <2>9, <2>10 DEF IInv
<1> QED BY <1>4, <1>5

\* connect() in the loop thread.
LEMMA LoopConnectStep == ASSUME IInv, LoopConnect PROVE IInv'
<1>1. /\ client /\ ~restarting /\ clientConnect' = TRUE /\ connect_' = TRUE /\ stopped' = FALSE
      /\ clientConnect' \in BOOLEAN /\ connect_' \in BOOLEAN /\ stopped' \in BOOLEAN
      /\ UNCHANGED <<client, retry_, connection_, restarting, holdTimer, conn, toClient, phase,
                     active, functors, pending, underway, aborted>>
  BY DEF LoopConnect, InUserCode, connVars, loopVars
<1>2. /\ state_ = "kDisconnected" /\ channel_ = "null" /\ retryTimers = 0
      /\ ~InQueue("startInLoop") /\ ~Calling /\ ~InQueue("resetChannel")
  BY QueuedMeans DEF IInv, LoopConnect, AtRest, Raw, NoCallUnderway, Calling, Idle
<1>3. /\ retryDelayMs_' \in kInitRetryDelayMs..kMaxRetryDelayMs /\ gaveUp' \in BOOLEAN
      /\ \/ /\ sockets' = sockets + 1 /\ state_' = "kConnecting" /\ channel_' = "added"
            /\ retryTimers' = 0 /\ gaveUp' = FALSE
         \/ /\ sockets' = sockets /\ state_' = "kDisconnected" /\ channel_' = channel_
            /\ (retryTimers' = 1 /\ gaveUp' = FALSE) \/ (retryTimers' = 0 /\ gaveUp' = TRUE)
  <2>1. TypeOK /\ retryDelayMs_ \in kInitRetryDelayMs..kMaxRetryDelayMs
        /\ Connect(retryDelayMs_, 0)
    BY <1>2 DEF IInv, TypeOK, LoopConnect, StartInLoop
  <2> QED BY <2>1, ConnectEffect
<1>4. TypeOK' /\ aborted' = "no"
  BY <1>1, <1>2, <1>3 DEF IInv, TypeOK, Functors
<1>5. SocketsAreOwned'
  BY <1>1, <1>2, <1>3 DEF IInv, TypeOK, SocketsAreOwned, WatchesWhileConnecting
<1>6. TryInv'
  BY <1>1, <1>2, <1>3 DEF IInv, TypeOK, TryInv, ConnectorAlive, InQueue, Posted, Batched
<1>7. AttemptInv'
  BY <1>1, <1>2, <1>3 DEF IInv, TypeOK, AttemptInv, Calling, InQueue, Posted, Batched
<1>8. ChannelInv'
  BY <1>1, <1>2, <1>3 DEF IInv, TypeOK, ChannelInv, SocketsAreOwned, WatchesWhileConnecting,
     InQueue, Posted, Batched
<1>9. ActiveInv'
  BY <1>1, <1>2, <1>3 DEF IInv, TypeOK, ActiveInv, InQueue, Posted, Batched, ConnInv
<1>10. ConnInv'
  BY <1>1, <1>2, <1>3 DEF IInv, TypeOK, ConnInv, InQueue, Posted, Batched
<1>11. OwnerInv'
  BY <1>1, <1>2, <1>3 DEF IInv, TypeOK, OwnerInv, NoCallUnderway, Raw, InQueue, Posted, Batched
<1>12. StopInv'
  BY <1>1, <1>2, <1>3 DEF IInv, TypeOK, StopInv
<1>13. QueueInv'
  BY <1>1, <1>2, <1>3 DEF IInv, QueueInv, InQueue, Posted, Batched
<1> QED BY <1>4, <1>5, <1>6, <1>7, <1>8, <1>9, <1>10, <1>11, <1>12, <1>13 DEF IInv

\* restart() after the connection was lost.
LEMMA RestartStep == ASSUME IInv, Restart PROVE IInv'
<1>1. /\ restarting /\ restarting' = FALSE /\ connect_' = TRUE
      /\ restarting' \in BOOLEAN /\ connect_' \in BOOLEAN
      /\ UNCHANGED <<client, clientConnect, retry_, connection_, holdTimer, conn, toClient,
                     phase, active, functors, pending, underway, stopped>>
  BY DEF Restart, connVars, loopVars
<1>2. /\ client /\ phase = "handle" /\ conn = "down" /\ state_ = "kConnected" /\ channel_ = "null"
      /\ retryTimers = 0 /\ ~InQueue("startInLoop") /\ ~Calling /\ ~InQueue("resetChannel")
  BY <1>1 DEF IInv, TypeOK, ConnInv, AttemptInv, ChannelInv
<1>3. aborted' = "no" /\ kInitRetryDelayMs \in kInitRetryDelayMs..kMaxRetryDelayMs
  BY <1>2, DelayAssumption DEF Restart
<1>4. /\ retryDelayMs_' \in kInitRetryDelayMs..kMaxRetryDelayMs /\ gaveUp' \in BOOLEAN
      /\ \/ /\ sockets' = sockets + 1 /\ state_' = "kConnecting" /\ channel_' = "added"
            /\ retryTimers' = 0 /\ gaveUp' = FALSE
         \/ /\ sockets' = sockets /\ state_' = "kDisconnected" /\ channel_' = channel_
            /\ (retryTimers' = 1 /\ gaveUp' = FALSE) \/ (retryTimers' = 0 /\ gaveUp' = TRUE)
  <2>1. TypeOK /\ Connect(kInitRetryDelayMs, 0)
    BY <1>2 DEF IInv, Restart
  <2> QED BY <1>3, <2>1, ConnectEffect
<1>5. TypeOK' /\ aborted' = "no"
  BY <1>1, <1>2, <1>3, <1>4 DEF IInv, TypeOK, Functors
<1>6. SocketsAreOwned'
  BY <1>1, <1>2, <1>3, <1>4 DEF IInv, TypeOK, SocketsAreOwned, WatchesWhileConnecting
<1>7. TryInv'
  BY <1>1, <1>2, <1>3, <1>4 DEF IInv, TypeOK, TryInv, ConnectorAlive, InQueue, Posted, Batched
<1>8. AttemptInv'
  BY <1>1, <1>2, <1>3, <1>4 DEF IInv, TypeOK, AttemptInv, Calling, InQueue, Posted, Batched
<1>9. ChannelInv'
  BY <1>1, <1>2, <1>3, <1>4 DEF IInv, TypeOK, ChannelInv, SocketsAreOwned,
     WatchesWhileConnecting, InQueue, Posted, Batched
<1>10. ActiveInv'
  BY <1>1, <1>2, <1>3, <1>4 DEF IInv, TypeOK, ActiveInv, InQueue, Posted, Batched, ConnInv
<1>11. ConnInv'
  BY <1>1, <1>2, <1>3, <1>4 DEF IInv, TypeOK, ConnInv, InQueue, Posted, Batched
<1>12. OwnerInv'
  BY <1>1, <1>2, <1>3, <1>4 DEF IInv, TypeOK, OwnerInv, NoCallUnderway, Raw, InQueue, Posted,
     Batched
<1>13. StopInv'
  BY <1>1, <1>2, <1>3, <1>4 DEF IInv, TypeOK, StopInv
<1>14. QueueInv'
  BY <1>1, <1>2, <1>3, <1>4 DEF IInv, QueueInv, InQueue, Posted, Batched
<1> QED BY <1>5, <1>6, <1>7, <1>8, <1>9, <1>10, <1>11, <1>12, <1>13, <1>14 DEF IInv

\* handleClose of a connection that is up.
LEMMA HandleCloseStep == ASSUME IInv, HandleClose PROVE IInv'
<1>1. /\ phase = "handle" /\ conn # "closing" /\ ~restarting /\ "close" \in active
      /\ active' = active \ {"close"}
      /\ UNCHANGED <<connect_, state_, channel_, retryDelayMs_, retryTimers, client,
                     clientConnect, retry_, connection_, restarting, holdTimer, toClient, phase,
                     functors, pending, underway, sockets, gaveUp, stopped, aborted>>
  BY DEF HandleClose, Handles, connectorVars, clientVars
<1>2. conn = "up" /\ conn' = "closing" /\ channel_ = "null"
  BY <1>1 DEF IInv, ActiveInv, HandleClose
<1>3. TypeOK' /\ aborted' = "no"
  BY <1>1, <1>2 DEF IInv, TypeOK, Functors
<1>4. SocketsAreOwned'
  BY <1>1, <1>2 DEF IInv, TypeOK, SocketsAreOwned, WatchesWhileConnecting
<1>5. ActiveInv'
  BY <1>1, <1>2 DEF IInv, TypeOK, ActiveInv, InQueue, Posted, Batched, ConnInv
<1>6. ConnInv'
  BY <1>1, <1>2 DEF IInv, TypeOK, ConnInv, InQueue, Posted, Batched
<1>7. TryInv' /\ QueueInv' /\ AttemptInv'
  BY <1>1, <1>2 DEF IInv, TypeOK, TryInv, ConnectorAlive, InQueue, Posted, Batched, QueueInv,
     AttemptInv, Calling
<1>8. ChannelInv' /\ OwnerInv' /\ StopInv'
  BY <1>1, <1>2 DEF IInv, TypeOK, ChannelInv, SocketsAreOwned, WatchesWhileConnecting, InQueue,
     Posted, Batched, OwnerInv, NoCallUnderway, Raw, StopInv
<1> QED BY <1>3, <1>4, <1>5, <1>6, <1>7, <1>8 DEF IInv

\* closeCallback_: the client is there if the callback is still its own.
LEMMA CloseCallbackStep == ASSUME IInv, CloseCallback PROVE IInv'
<1>1. /\ conn = "closing" /\ conn' = "down" /\ pending' = Append(pending, "connectDestroyed")
      /\ UNCHANGED <<connect_, state_, channel_, retryDelayMs_, retryTimers, client,
                     clientConnect, retry_, holdTimer, toClient, phase, active, functors,
                     underway, sockets, gaveUp, stopped>>
  BY DEF CloseCallback, RemoveConnection, connectorVars, loopVars
<1>2. /\ state_ = "kConnected"
      /\ toClient => connection_ /\ client /\ phase = "handle" /\ channel_ = "null"
      /\ "close" \notin active /\ "write" \notin active /\ ~InQueue("connectDestroyed")
      /\ ~restarting
      /\ channel_ # "added"
  BY <1>1 DEF IInv, TypeOK, ConnInv, ActiveInv, SocketsAreOwned, WatchesWhileConnecting
<1>3. /\ pending' \in Seq(Functors) /\ functors' \in Seq(Functors)
      /\ \A g : g \in Range(pending') <=> g \in Range(pending) \/ g = "connectDestroyed"
      /\ \A g : OnceIn(g, pending) /\ (g = "connectDestroyed" => g \notin Range(pending))
                => OnceIn(g, pending')
  <2>1. pending \in Seq(Functors) /\ functors \in Seq(Functors) /\ "connectDestroyed" \in Functors
    BY DEF IInv, TypeOK, Functors, Raw
  <2> QED BY <1>1, <2>1, Posting
<1>4. CASE toClient
  <2>1. /\ connection_' = FALSE /\ connection_' \in BOOLEAN /\ restarting' \in BOOLEAN
        /\ restarting' => clientConnect
        /\ aborted' = "no"
    BY <1>2, <1>4 DEF IInv, TypeOK, CloseCallback, RemoveConnection
  <2>2. restarting' => ~stopped
    BY <1>2, <2>1 DEF IInv, StopInv, AttemptInv, Calling
  <2>3. TypeOK' /\ aborted' = "no"
    BY <1>1, <1>2, <1>3, <1>4, <2>1, <2>2 DEF IInv, TypeOK, Functors
  <2>4. SocketsAreOwned'
    BY <1>1, <1>2, <1>3, <1>4, <2>1, <2>2 DEF IInv, TypeOK, SocketsAreOwned,
       WatchesWhileConnecting
  <2>5. TryInv'
    BY <1>1, <1>2, <1>3, <1>4, <2>1, <2>2 DEF IInv, TypeOK, TryInv, ConnectorAlive, InQueue,
       Posted, Batched
  <2>6. QueueInv'
    BY <1>1, <1>2, <1>3, <1>4, <2>1, <2>2 DEF IInv, QueueInv, InQueue, Posted, Batched
  <2>7. AttemptInv'
    BY <1>1, <1>2, <1>3, <1>4, <2>1, <2>2 DEF IInv, TypeOK, AttemptInv, Calling, InQueue,
       Posted, Batched
  <2>8. ChannelInv'
    BY <1>1, <1>2, <1>3, <1>4, <2>1, <2>2 DEF IInv, TypeOK, ChannelInv, SocketsAreOwned,
       WatchesWhileConnecting, InQueue, Posted, Batched
  <2>9. ActiveInv'
    BY <1>1, <1>2, <1>3, <1>4, <2>1, <2>2 DEF IInv, TypeOK, ActiveInv, InQueue, Posted, Batched
  <2>10. ConnInv'
    BY <1>1, <1>2, <1>3, <1>4, <2>1, <2>2 DEF IInv, TypeOK, ConnInv, InQueue, Posted, Batched
  <2>11. OwnerInv'
    BY <1>1, <1>2, <1>3, <1>4, <2>1, <2>2 DEF IInv, TypeOK, OwnerInv, NoCallUnderway, Raw,
       InQueue, Posted, Batched
  <2>12. StopInv'
    BY <1>1, <1>2, <1>3, <1>4, <2>1, <2>2 DEF IInv, TypeOK, StopInv
  <2> QED BY <2>3, <2>4, <2>5, <2>6, <2>7, <2>8, <2>9, <2>10, <2>11, <2>12 DEF IInv
<1>5. CASE ~toClient
  <2>1. UNCHANGED <<connection_, restarting, aborted>> /\ ~client
    BY <1>1, <1>5 DEF IInv, CloseCallback, ConnInv
  <2>2. TypeOK' /\ aborted' = "no"
    BY <1>1, <1>2, <1>3, <1>5, <2>1 DEF IInv, TypeOK, Functors
  <2>3. SocketsAreOwned'
    BY <1>1, <1>2, <1>3, <1>5, <2>1 DEF IInv, TypeOK, SocketsAreOwned, WatchesWhileConnecting
  <2>4. TryInv'
    BY <1>1, <1>2, <1>3, <1>5, <2>1 DEF IInv, TypeOK, TryInv, ConnectorAlive, InQueue, Posted,
       Batched
  <2>5. QueueInv'
    BY <1>1, <1>2, <1>3, <1>5, <2>1 DEF IInv, QueueInv, InQueue, Posted, Batched
  <2>6. AttemptInv'
    BY <1>1, <1>2, <1>3, <1>5, <2>1 DEF IInv, TypeOK, AttemptInv, Calling, InQueue, Posted,
       Batched
  <2>7. ChannelInv'
    BY <1>1, <1>2, <1>3, <1>5, <2>1 DEF IInv, TypeOK, ChannelInv, SocketsAreOwned,
       WatchesWhileConnecting, InQueue, Posted, Batched
  <2>8. ActiveInv'
    BY <1>1, <1>2, <1>3, <1>5, <2>1 DEF IInv, TypeOK, ActiveInv, InQueue, Posted, Batched
  <2>9. ConnInv'
    BY <1>1, <1>2, <1>3, <1>5, <2>1 DEF IInv, TypeOK, ConnInv, InQueue, Posted, Batched
  <2>10. OwnerInv'
    BY <1>1, <1>2, <1>3, <1>5, <2>1 DEF IInv, TypeOK, OwnerInv, NoCallUnderway, Raw, InQueue,
       Posted, Batched
  <2>11. StopInv'
    BY <1>1, <1>2, <1>3, <1>5, <2>1 DEF IInv, TypeOK, StopInv
  <2> QED BY <2>2, <2>3, <2>4, <2>5, <2>6, <2>7, <2>8, <2>9, <2>10, <2>11 DEF IInv
<1> QED BY <1>4, <1>5

\* ~TcpClient, with and without a connection; with one whose resetChannel is
\* still queued the assert fails.
LEMMA DestroyClientStep == ASSUME IInv, DestroyClient PROVE IInv' \/ DeadInv'
<1>1. /\ client /\ ~restarting /\ client' = FALSE /\ client' \in BOOLEAN /\ NoCallUnderway
      /\ \A f \in {"startInLoop", "stopInLoop"} : ~InQueue(f)
      /\ aborted = "no" /\ phase # "poll"
      /\ UNCHANGED <<state_, channel_, retryDelayMs_, retryTimers, clientConnect, retry_,
                     restarting, conn, phase, active, functors, underway, sockets, gaveUp,
                     stopped>>
  BY QueuedMeans DEF IInv, DestroyClient, InUserCode, loopVars
<1>2. ~Calling /\ holdTimer = FALSE
  BY <1>1 DEF IInv, TypeOK, NoCallUnderway, Calling, Idle, OwnerInv
<1>3. CASE connection_
  <2>0. /\ toClient' = FALSE /\ connection_' = FALSE /\ UNCHANGED <<connect_, holdTimer>>
        /\ toClient' \in BOOLEAN /\ connection_' \in BOOLEAN
        /\ conn \in {"up", "closing"} /\ state_ = "kConnected" /\ retryTimers = 0
        /\ aborted' = IF channel_ = "null" THEN "no" ELSE "~Connector"
    <3>1. conn \in {"up", "closing"} /\ state_ = "kConnected"
      BY <1>3 DEF IInv, ConnInv
    <3>2. retryTimers = 0
      BY <3>1 DEF IInv, TypeOK, AttemptInv
    <3>3. ~(retryTimers > 0)
      BY <3>2
    <3> QED BY <1>3, <3>1, <3>2, <3>3 DEF DestroyClient
  <2>1. CASE channel_ # "null"
    <3>1. pending' \in Seq(Functors)
      <4>1. pending \in Seq(Functors) /\ "forceCloseInLoop" \in Functors
        BY DEF IInv, TypeOK, Functors, Raw
      <4>2. pending' = pending \/ pending' = Append(pending, "forceCloseInLoop")
        BY <1>3 DEF DestroyClient
      <4> QED BY <4>1, <4>2, Posting
    <3>2. TypeOK' /\ aborted' = "~Connector"
      BY <1>1, <2>0, <2>1, <3>1 DEF IInv, TypeOK, Functors
    <3>3. SocketsAreOwned'
      BY <1>1 DEF IInv, SocketsAreOwned, WatchesWhileConnecting
    <3> QED BY <1>1, <2>0, <3>2, <3>3 DEF DeadInv
  <2>2. CASE channel_ = "null"
    <3> SUFFICES IInv'
      OBVIOUS
    <3>1. /\ toClient' = FALSE /\ connection_' = FALSE /\ UNCHANGED <<connect_, holdTimer, aborted>>
          /\ toClient' \in BOOLEAN /\ connection_' \in BOOLEAN
          /\ conn \in {"up", "closing"} /\ state_ = "kConnected" /\ channel_ = "null"
          /\ \A f \in Raw : ~InQueue(f)
      BY <1>1, <2>0, <2>2 DEF IInv, ChannelInv, Raw
    <3>2. CASE pending' = pending
      <4>1. TypeOK' /\ aborted' = "no"
        BY <1>1, <1>2, <1>3, <3>1, <3>2 DEF IInv, TypeOK, Functors
      <4>2. TryInv'
        BY <1>1, <1>2, <1>3, <3>1, <3>2 DEF IInv, TypeOK, TryInv, ConnectorAlive, InQueue, Posted,
           Batched
      <4>3. QueueInv'
        BY <1>1, <1>2, <1>3, <3>1, <3>2 DEF IInv, QueueInv, InQueue, Posted, Batched
      <4>4. AttemptInv'
        BY <1>1, <1>2, <1>3, <3>1, <3>2 DEF IInv, TypeOK, AttemptInv, Calling, InQueue, Posted,
           Batched
      <4>5. ChannelInv'
        BY <1>1, <1>2, <1>3, <3>1, <3>2 DEF IInv, TypeOK, ChannelInv, SocketsAreOwned,
           WatchesWhileConnecting, InQueue, Posted, Batched
      <4>6. ConnInv'
        BY <1>1, <1>2, <1>3, <3>1, <3>2 DEF IInv, TypeOK, ConnInv, InQueue, Posted, Batched
      <4>7. OwnerInv'
        BY <1>1, <1>2, <1>3, <3>1, <3>2 DEF IInv, TypeOK, OwnerInv, NoCallUnderway, Raw, InQueue,
           Posted, Batched
      <4>8. StopInv'
        BY <1>1, <1>2, <1>3, <3>1, <3>2 DEF IInv, TypeOK, StopInv
      <4>9. SocketsAreOwned' /\ ActiveInv'
        BY <1>1, <1>2, <1>3, <3>1, <3>2 DEF IInv, TypeOK, SocketsAreOwned, WatchesWhileConnecting,
           ActiveInv, InQueue, Posted, Batched
      <4> QED BY <4>1, <4>2, <4>3, <4>4, <4>5, <4>6, <4>7, <4>8, <4>9 DEF IInv
    <3>3. CASE pending' = Append(pending, "forceCloseInLoop")
      <4>0. /\ pending' \in Seq(Functors) /\ functors' \in Seq(Functors)
            /\ \A g : g \in Range(pending') <=> g \in Range(pending) \/ g = "forceCloseInLoop"
            /\ \A g : OnceIn(g, pending) /\ (g = "forceCloseInLoop" => g \notin Range(pending))
                      => OnceIn(g, pending')
        <5>1. pending \in Seq(Functors) /\ functors \in Seq(Functors)
              /\ "forceCloseInLoop" \in Functors
          BY DEF IInv, TypeOK, Functors, Raw
        <5> QED BY <1>1, <3>3, <5>1, Posting
      <4>1. TypeOK' /\ aborted' = "no"
        BY <1>1, <1>2, <1>3, <3>1, <3>3, <4>0 DEF IInv, TypeOK, Functors
      <4>2. TryInv'
        BY <1>1, <1>2, <1>3, <3>1, <3>3, <4>0 DEF IInv, TypeOK, TryInv, ConnectorAlive, InQueue,
           Posted, Batched
      <4>3. QueueInv'
        BY <1>1, <1>2, <1>3, <3>1, <3>3, <4>0 DEF IInv, QueueInv, InQueue, Posted, Batched
      <4>4. AttemptInv'
        BY <1>1, <1>2, <1>3, <3>1, <3>3, <4>0 DEF IInv, TypeOK, AttemptInv, Calling, InQueue,
           Posted, Batched
      <4>5. ChannelInv'
        BY <1>1, <1>2, <1>3, <3>1, <3>3, <4>0 DEF IInv, TypeOK, ChannelInv, SocketsAreOwned,
           WatchesWhileConnecting, InQueue, Posted, Batched
      <4>6. ConnInv'
        BY <1>1, <1>2, <1>3, <3>1, <3>3, <4>0 DEF IInv, TypeOK, ConnInv, InQueue, Posted, Batched
      <4>7. OwnerInv'
        BY <1>1, <1>2, <1>3, <3>1, <3>3, <4>0 DEF IInv, TypeOK, OwnerInv, NoCallUnderway, Raw,
           InQueue, Posted, Batched
      <4>8. StopInv'
        BY <1>1, <1>2, <1>3, <3>1, <3>3, <4>0 DEF IInv, TypeOK, StopInv
      <4>9. SocketsAreOwned' /\ ActiveInv'
        BY <1>1, <1>2, <1>3, <3>1, <3>3, <4>0 DEF IInv, TypeOK, SocketsAreOwned,
           WatchesWhileConnecting, ActiveInv, InQueue, Posted, Batched
      <4> QED BY <4>1, <4>2, <4>3, <4>4, <4>5, <4>6, <4>7, <4>8, <4>9 DEF IInv
    <3> QED BY <1>3, <3>2, <3>3 DEF DestroyClient
  <2> QED BY <2>1, <2>2
<1>4. CASE ~connection_
  <2>1. /\ connect_' = FALSE /\ holdTimer' = TRUE /\ UNCHANGED <<connection_, toClient>>
        /\ connect_' \in BOOLEAN /\ holdTimer' \in BOOLEAN
        /\ pending' = Append(pending, "stopInLoop") /\ (conn \in {"up", "closing"} => ~toClient)
        /\ UNCHANGED aborted
    BY <1>4 DEF IInv, DestroyClient, ConnInv
  <2>2. /\ pending' \in Seq(Functors) /\ functors' \in Seq(Functors)
        /\ \A g : g \in Range(pending') <=> g \in Range(pending) \/ g = "stopInLoop"
        /\ \A g : OnceIn(g, pending) /\ (g = "stopInLoop" => g \notin Range(pending))
                  => OnceIn(g, pending')
    <3>1. pending \in Seq(Functors) /\ functors \in Seq(Functors) /\ "stopInLoop" \in Functors
      BY DEF IInv, TypeOK, Functors, Raw
    <3> QED BY <1>1, <2>1, <3>1, Posting
  <2>3. TypeOK' /\ aborted' = "no"
    BY <1>1, <1>2, <1>4, <2>1, <2>2 DEF IInv, TypeOK, Functors
  <2>4. TryInv'
    BY <1>1, <1>2, <1>4, <2>1, <2>2 DEF IInv, TypeOK, TryInv, ConnectorAlive, InQueue, Posted,
       Batched
  <2>5. QueueInv'
    BY <1>1, <1>2, <1>4, <2>1, <2>2 DEF IInv, QueueInv, InQueue, Posted, Batched
  <2>6. AttemptInv'
    BY <1>1, <1>2, <1>4, <2>1, <2>2 DEF IInv, TypeOK, AttemptInv, Calling, InQueue, Posted,
       Batched
  <2>7. ChannelInv'
    BY <1>1, <1>2, <1>4, <2>1, <2>2 DEF IInv, TypeOK, ChannelInv, SocketsAreOwned,
       WatchesWhileConnecting, InQueue, Posted, Batched
  <2>8. ConnInv'
    BY <1>1, <1>2, <1>4, <2>1, <2>2 DEF IInv, TypeOK, ConnInv, InQueue, Posted, Batched
  <2>9. OwnerInv'
    BY <1>1, <1>2, <1>4, <2>1, <2>2 DEF IInv, TypeOK, OwnerInv, NoCallUnderway, Raw, InQueue,
       Posted, Batched
  <2>10. StopInv'
    BY <1>1, <1>2, <1>4, <2>1, <2>2 DEF IInv, TypeOK, StopInv
  <2>11. SocketsAreOwned' /\ ActiveInv'
    BY <1>1, <1>2, <1>4, <2>1, <2>2 DEF IInv, TypeOK, SocketsAreOwned, WatchesWhileConnecting,
       ActiveInv, InQueue, Posted, Batched
  <2> QED BY <2>3, <2>4, <2>5, <2>6, <2>7, <2>8, <2>9, <2>10, <2>11 DEF IInv
<1> QED BY <1>3, <1>4

\* A call in another thread sets the flag of the client ...
LEMMA CallBeginsStep ==
  ASSUME IInv, NEW t \in Threads, NEW call \in {"connect", "disconnect", "stop"},
         CallBegins(t, call)
  PROVE  IInv'
<1>1. /\ client /\ underway[t] = Idle /\ clientConnect' = (call = "connect")
      /\ clientConnect' \in BOOLEAN
      /\ underway' = [underway EXCEPT ![t] = IF call = "disconnect" THEN Idle ELSE <<call, 1>>]
      /\ UNCHANGED <<connect_, state_, channel_, retryDelayMs_, retryTimers, client, retry_,
                     connection_, restarting, holdTimer, conn, toClient, phase, active,
                     functors, pending, sockets, gaveUp, stopped, aborted>>
  BY DEF CallBegins, connectorVars, connVars, loopVars
<1>2. /\ underway' \in [Threads -> {Idle} \cup ({"connect", "stop"} \X {1, 2})]
      /\ underway'[t] = IF call = "disconnect" THEN Idle ELSE <<call, 1>>
      /\ \A u \in Threads \ {t} : underway'[u] = underway[u]
  BY <1>1 DEF IInv, TypeOK
<1>3. /\ underway'[t] # <<"connect", 2>> /\ underway[t] # <<"connect", 2>>
      /\ underway[t] # <<"connect", 1>> /\ underway[t][1] # "connect"
      /\ (underway'[t][1] = "connect" <=> call = "connect")
      /\ (underway'[t] = <<"connect", 1>> <=> call = "connect")
  BY <1>1, <1>2 DEF Idle
<1>4. call = "connect" =>
        /\ state_ = "kDisconnected" /\ channel_ = "null" /\ retryTimers = 0
        /\ ~InQueue("startInLoop") /\ ~Calling
  BY QueuedMeans DEF IInv, CallBegins, AtRest, Raw, NoCallUnderway, Calling, Idle
<1>5. TypeOK' /\ aborted' = "no"
  BY <1>1, <1>2, <1>3, <1>4 DEF IInv, TypeOK, Functors
<1>6. TryInv'
  BY <1>1, <1>2, <1>3, <1>4 DEF IInv, TypeOK, TryInv, ConnectorAlive, InQueue, Posted, Batched
<1>7. AttemptInv'
  BY <1>1, <1>2, <1>3, <1>4 DEF IInv, TypeOK, AttemptInv, Calling, InQueue, Posted, Batched
<1>8. OwnerInv'
  BY <1>1, <1>2, <1>3, <1>4 DEF IInv, TypeOK, OwnerInv, NoCallUnderway, Raw, InQueue, Posted,
     Batched
<1>9. StopInv'
  BY <1>1, <1>2, <1>3, <1>4 DEF IInv, TypeOK, StopInv
<1>10. SocketsAreOwned' /\ QueueInv' /\ ChannelInv' /\ ActiveInv' /\ ConnInv'
  BY <1>1, <1>2, <1>3, <1>4 DEF IInv, TypeOK, SocketsAreOwned, WatchesWhileConnecting, QueueInv,
     InQueue, Posted, Batched, ChannelInv, ActiveInv, ConnInv
<1> QED BY <1>5, <1>6, <1>7, <1>8, <1>9, <1>10 DEF IInv

\* ... then that of the connector ...
LEMMA CallSetsConnectStep == ASSUME IInv, NEW t \in Threads, CallSetsConnect(t) PROVE IInv'
<1>1. /\ underway[t][2] = 1 /\ connect_' = (underway[t][1] = "connect") /\ connect_' \in BOOLEAN
      /\ stopped' = (stopped /\ underway[t][1] # "connect") /\ stopped' \in BOOLEAN
      /\ underway' = [underway EXCEPT ![t][2] = 2]
      /\ UNCHANGED <<state_, channel_, retryDelayMs_, retryTimers, client, clientConnect,
                     retry_, connection_, restarting, holdTimer, conn, toClient, phase, active,
                     functors, pending, sockets, gaveUp, aborted>>
  BY DEF CallSetsConnect, clientVars, connVars, loopVars
<1>2. PICK call \in {"connect", "stop"} : underway[t] = <<call, 1>>
  BY <1>1 DEF IInv, TypeOK, Idle
<1>3. /\ underway' \in [Threads -> {Idle} \cup ({"connect", "stop"} \X {1, 2})]
      /\ underway'[t] = <<call, 2>>
      /\ \A u \in Threads \ {t} : underway'[u] = underway[u]
  BY <1>1, <1>2 DEF IInv, TypeOK
<1>4. /\ (underway[t][1] = "connect" <=> call = "connect")
      /\ (underway'[t][1] = "connect" <=> call = "connect")
      /\ (underway[t] = <<"connect", 1>> <=> call = "connect")
      /\ (underway'[t] = <<"connect", 2>> <=> call = "connect") /\ underway[t] # <<"connect", 2>>
      /\ underway[t] # Idle /\ client
  BY <1>2, <1>3 DEF IInv, OwnerInv, NoCallUnderway, Idle
<1>5. TypeOK' /\ aborted' = "no"
  BY <1>1, <1>3, <1>4 DEF IInv, TypeOK, Functors
<1>6. TryInv'
  BY <1>1, <1>3, <1>4 DEF IInv, TypeOK, TryInv, ConnectorAlive, InQueue, Posted, Batched
<1>7. AttemptInv'
  BY <1>1, <1>3, <1>4 DEF IInv, TypeOK, AttemptInv, Calling, InQueue, Posted, Batched
<1>8. OwnerInv'
  BY <1>1, <1>3, <1>4 DEF IInv, TypeOK, OwnerInv, NoCallUnderway, Raw, InQueue, Posted, Batched
<1>9. StopInv'
  BY <1>1, <1>3, <1>4 DEF IInv, TypeOK, StopInv
<1>10. SocketsAreOwned' /\ QueueInv' /\ ChannelInv' /\ ActiveInv' /\ ConnInv'
  BY <1>1, <1>3, <1>4 DEF IInv, TypeOK, SocketsAreOwned, WatchesWhileConnecting, QueueInv,
     InQueue, Posted, Batched, ChannelInv, ActiveInv, ConnInv
<1> QED BY <1>5, <1>6, <1>7, <1>8, <1>9, <1>10 DEF IInv

\* ... and posts its functor.
LEMMA CallQueuesStep == ASSUME IInv, NEW t \in Threads, CallQueues(t) PROVE IInv'
<1>1. /\ underway[t][2] = 2 /\ underway' = [underway EXCEPT ![t] = Idle]
      /\ pending' = Append(pending, IF underway[t][1] = "connect" THEN "startInLoop"
                                                                 ELSE "stopInLoop")
      /\ UNCHANGED <<connect_, state_, channel_, retryDelayMs_, retryTimers, client,
                     clientConnect, retry_, connection_, restarting, holdTimer, conn, toClient,
                     phase, active, functors, sockets, gaveUp, stopped, aborted>>
  BY DEF CallQueues, connectorVars, clientVars, connVars, loopVars
<1>2. PICK call \in {"connect", "stop"} : underway[t] = <<call, 2>>
  BY <1>1 DEF IInv, TypeOK, Idle
<1>3. /\ underway' \in [Threads -> {Idle} \cup ({"connect", "stop"} \X {1, 2})]
      /\ underway'[t] = Idle
      /\ \A u \in Threads \ {t} : underway'[u] = underway[u]
  BY <1>1, <1>2 DEF IInv, TypeOK
<1>4. /\ (underway[t][1] = "connect" <=> call = "connect") /\ underway'[t][1] # "connect"
      /\ (underway[t] = <<"connect", 2>> <=> call = "connect") /\ underway'[t] # <<"connect", 2>>
      /\ underway[t] # <<"connect", 1>> /\ underway'[t] # <<"connect", 1>>
      /\ underway[t] # Idle /\ client
  BY <1>2, <1>3 DEF IInv, OwnerInv, NoCallUnderway, Idle
<1>5. PICK f \in Functors : f = IF call = "connect" THEN "startInLoop" ELSE "stopInLoop"
  BY DEF Functors, Raw
<1>6. /\ pending' \in Seq(Functors) /\ functors' \in Seq(Functors)
      /\ \A g : g \in Range(pending') <=> g \in Range(pending) \/ g = f
      /\ \A g : OnceIn(g, pending) /\ (g = f => g \notin Range(pending)) => OnceIn(g, pending')
  <2>1. pending \in Seq(Functors) /\ functors \in Seq(Functors) /\ pending' = Append(pending, f)
    BY <1>1, <1>4, <1>5 DEF IInv, TypeOK, Functors
  <2> QED BY <1>1, <2>1, Posting
<1>7. call = "connect" => ~InQueue("startInLoop")
  BY <1>4 DEF IInv, AttemptInv, Calling
<1>8. call = "connect" => \A u \in Threads \ {t} : underway[u][1] # "connect"
  BY <1>4 DEF IInv, AttemptInv
<1>9. TypeOK' /\ aborted' = "no"
  BY <1>1, <1>3, <1>4, <1>5, <1>6, <1>7, <1>8 DEF IInv, TypeOK, Functors
<1>10. TryInv'
  BY <1>1, <1>3, <1>4, <1>5, <1>6, <1>7, <1>8 DEF IInv, TypeOK, TryInv, ConnectorAlive, InQueue,
     Posted, Batched
<1>11. QueueInv'
  BY <1>1, <1>3, <1>4, <1>5, <1>6, <1>7, <1>8 DEF IInv, QueueInv, InQueue, Posted, Batched
<1>12. AttemptInv'
  BY <1>1, <1>3, <1>4, <1>5, <1>6, <1>7, <1>8 DEF IInv, TypeOK, AttemptInv, Calling, InQueue,
     Posted, Batched
<1>13. ChannelInv'
  BY <1>1, <1>3, <1>4, <1>5, <1>6, <1>7, <1>8 DEF IInv, TypeOK, ChannelInv, SocketsAreOwned,
     WatchesWhileConnecting, InQueue, Posted, Batched
<1>14. ConnInv'
  BY <1>1, <1>3, <1>4, <1>5, <1>6, <1>7, <1>8 DEF IInv, TypeOK, ConnInv, InQueue, Posted, Batched
<1>15. OwnerInv'
  BY <1>1, <1>3, <1>4, <1>5, <1>6, <1>7, <1>8 DEF IInv, TypeOK, OwnerInv, NoCallUnderway, Raw,
     InQueue, Posted, Batched
<1>16. StopInv'
  BY <1>1, <1>3, <1>4, <1>5, <1>6, <1>7, <1>8 DEF IInv, TypeOK, StopInv
<1>17. SocketsAreOwned' /\ ActiveInv'
  BY <1>1, <1>3, <1>4, <1>5, <1>6, <1>7, <1>8 DEF IInv, TypeOK, SocketsAreOwned,
     WatchesWhileConnecting, ActiveInv, InQueue, Posted, Batched
<1> QED BY <1>9, <1>10, <1>11, <1>12, <1>13, <1>14, <1>15, <1>16, <1>17 DEF IInv

\* Every step keeps the invariant, or is the one that fails the assert.
LEMMA NextInv == IInv /\ [Next]_vars => IInv' \/ DeadInv'
<1> SUFFICES ASSUME IInv, [Next]_vars PROVE IInv' \/ DeadInv'
  OBVIOUS
<1>1. CASE LoopStep
  BY <1>1, HandleErrorStep, HandleWriteStep, RetryTimerStep, HandleCloseStep, CloseCallbackStep,
     RestartStep, SwapStep, EndBatchStep, RunStartInLoopStep, RunStopInLoopStep,
        RunResetChannelStep,
     RunConnectDestroyedStep, RunForceCloseStep DEF LoopStep
<1>2. CASE UserStep
  BY <1>2, LoopConnectStep, LoopDisconnectStep, LoopStopStep, DestroyClientStep,
     CallBeginsStep DEF UserStep
<1>3. CASE \E t \in Threads : ThreadStep(t)
  BY <1>3, CallSetsConnectStep, CallQueuesStep DEF ThreadStep
<1>4. CASE UNCHANGED vars
  <2>1. UNCHANGED <<connect_, state_, channel_, retryDelayMs_, retryTimers, client,
                    clientConnect, retry_, connection_, restarting, holdTimer, conn, toClient,
                    phase, active, functors, pending, underway, sockets, gaveUp, stopped,
                       aborted>>
    BY <1>4 DEF vars, connectorVars, clientVars, connVars, loopVars
  <2>2. TypeOK' /\ aborted' = "no"
    BY <2>1 DEF IInv, TypeOK, Functors
  <2>3. SocketsAreOwned' /\ TryInv' /\ QueueInv'
    BY <2>1 DEF IInv, TypeOK, SocketsAreOwned, WatchesWhileConnecting, TryInv, ConnectorAlive,
       InQueue, Posted, Batched, QueueInv
  <2>4. AttemptInv' /\ ChannelInv' /\ ActiveInv'
    BY <2>1 DEF IInv, TypeOK, AttemptInv, Calling, InQueue, Posted, Batched, ChannelInv,
       SocketsAreOwned, WatchesWhileConnecting, ActiveInv
  <2>5. ConnInv' /\ OwnerInv' /\ StopInv'
    BY <2>1 DEF IInv, TypeOK, ConnInv, InQueue, Posted, Batched, OwnerInv, NoCallUnderway, Raw,
       StopInv
  <2> QED BY <2>2, <2>3, <2>4, <2>5 DEF IInv
<1>5. ~Aborted
  BY DEF IInv, Aborted
<1> QED BY <1>1, <1>2, <1>3, <1>4, <1>5, PollStep, HoldExpiresStep DEF Next

\* Nothing happens after the assert has failed.
LEMMA DeadStep == DeadInv /\ [Next]_vars => UNCHANGED vars /\ DeadInv'
<1> SUFFICES ASSUME DeadInv, [Next]_vars PROVE UNCHANGED vars /\ DeadInv'
  OBVIOUS
<1>0. aborted # "no"
  BY DEF DeadInv
<1>1. ~LoopStep
  BY <1>0 DEF LoopStep, HandleError, HandleWrite, RetryTimer, HandleClose, Handles, CloseCallback,
     Restart, Swap, EndBatch, RunStartInLoop, RunStopInLoop, RunResetChannel, RunConnectDestroyed,
     RunForceClose, Functor
<1>2. ~UserStep /\ ~Poll /\ ~HoldExpires
  BY <1>0 DEF UserStep, LoopConnect, LoopDisconnect, LoopStop, DestroyClient, CallBegins, InUserCode,
     Poll, HoldExpires
<1>3. ~\E t \in Threads : ThreadStep(t)
  BY <1>0 DEF ThreadStep, CallSetsConnect, CallQueues
<1>4. UNCHANGED vars
  BY <1>1, <1>2, <1>3 DEF Next, Aborted
<1>5. UNCHANGED <<connect_, state_, channel_, retryDelayMs_, retryTimers, client,
                  clientConnect, retry_, connection_, restarting, holdTimer, conn, toClient,
                  phase, active, functors, pending, underway, sockets, gaveUp, stopped, aborted>>
  BY <1>4 DEF vars, connectorVars, clientVars, connVars, loopVars
<1>6. DeadInv'
  BY <1>5 DEF DeadInv, TypeOK, SocketsAreOwned, WatchesWhileConnecting
<1> QED BY <1>4, <1>6

-----------------------------------------------------------------------------
(* The theorems. *)

\* The inductive invariant holds in every state, until the assert fails.
THEOREM Invariance == Spec => [](IInv \/ DeadInv)
<1>1. (IInv \/ DeadInv) /\ [Next]_vars => IInv' \/ DeadInv'
  BY NextInv, DeadStep
<1> QED BY InitInv, <1>1, PTL DEF Spec, SafetySpec

\* No assert of Connector and TcpClient fails and no handler, timer or functor
\* runs on a destroyed client or connector, whatever the threads call and when;
\* but for ~Connector's assert, in the round that connected.
THEOREM AssertsHold == Spec => []NoAssertFails
<1>1. IInv => NoAssertFails
  <2> SUFFICES ASSUME IInv PROVE NoAssertFails
    OBVIOUS
  <2>1. ConnectorDestroyedClean
    BY QueuedMeans DEF IInv, ConnectorDestroyedClean, ConnectorAlive, OwnerInv
  <2>2. ~Batched("resetChannel") \/ phase = "functors"
    <3>1. Range(<<>>) = {}
      BY DEF Range
    <3> QED BY <3>1 DEF IInv, ActiveInv, Batched
  <2>3. ResetBeforePoll
    BY <2>2 DEF IInv, TypeOK, ResetBeforePoll, ChannelInv, SocketsAreOwned, WatchesWhileConnecting,
       InQueue
  <2> QED BY <2>1, <2>3 DEF IInv, NoAssertFails
<1>2. DeadInv => NoAssertFails
  BY DEF DeadInv, NoAssertFails, ConnectorDestroyedClean, ResetBeforePoll
<1> QED BY <1>1, <1>2, Invariance, PTL

\* Every descriptor that connect() opens is owned by the channel of the attempt
\* or by the connection, and closed once.
THEOREM NoSocketLeaks == Spec => []SocketsAreOwned
<1>1. IInv \/ DeadInv => SocketsAreOwned
  BY DEF IInv, DeadInv
<1> QED BY <1>1, Invariance, PTL

\* A connector that shall connect is never left without a timer, a functor or a
\* call that will make the next attempt.
THEOREM NoRetryIsLost == Spec => []KeepsTrying
<1>1. IInv => KeepsTrying
  BY QueuedMeans DEF IInv, KeepsTrying, TryInv
<1>2. DeadInv => KeepsTrying
  BY DEF DeadInv, KeepsTrying
<1> QED BY <1>1, <1>2, Invariance, PTL

\* After stop() in the loop thread neither a retry timer that is still set nor a
\* reconnect opens a descriptor, until connect() is called.
THEOREM StoppedForGood == Spec => StopIsFinal
<1>1. IInv /\ [Next]_vars => [stopped /\ stopped' => sockets' <= sockets]_vars
  <2> SUFFICES ASSUME IInv, Next, stopped, stopped' PROVE sockets' <= sockets
    OBVIOUS
  <2>1. ~connect_ /\ ~restarting /\ sockets \in Nat
    BY DEF IInv, StopInv, TypeOK
  <2>2. CASE LoopStep
    BY <2>1, <2>2 DEF LoopStep, HandleError, HandleWrite, RetryTimer, HandleClose, CloseCallback,
       Restart, Swap, EndBatch, RunStartInLoop, RunStopInLoop, RunResetChannel,
          RunConnectDestroyed,
       RunForceClose, Retry, StartInLoop
  <2>3. CASE UserStep
    BY <2>1, <2>3 DEF UserStep, LoopConnect, LoopDisconnect, LoopStop, DestroyClient, CallBegins
  <2>4. CASE Poll \/ HoldExpires \/ \E t \in Threads : ThreadStep(t)
    <3>1. sockets' = sockets
      BY <2>4, Zenon DEF Poll, HoldExpires, ThreadStep, CallSetsConnect, CallQueues
    <3> QED BY <2>1, <3>1
  <2>5. ~Aborted
    BY DEF IInv, Aborted
  <2> QED BY <2>2, <2>3, <2>4, <2>5 DEF Next
<1>2. DeadInv /\ [Next]_vars => [stopped /\ stopped' => sockets' <= sockets]_vars
  BY DeadStep
<1> QED BY <1>1, <1>2, Invariance, PTL DEF Spec, SafetySpec, StopIsFinal
=============================================================================
