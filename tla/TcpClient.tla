----------------------------- MODULE TcpClient -----------------------------
(***************************************************************************)
(* muduo::net::TcpClient (TcpClient.cpp) and its Connector                 *)
(* (Connector.cpp): connecting without blocking, retrying with back-off,   *)
(* reconnecting when the connection is lost, stopping, and destruction.    *)
(*                                                                         *)
(* One loop thread runs the handlers.  connect, disconnect and stop are    *)
(* called in it or in other threads; the latter set two flags and post a   *)
(* functor, in steps that the loop thread may interleave.  The connection  *)
(* itself is the one of module TcpConnection: here it is up, goes down in  *)
(* handleClose and is destroyed by connectDestroyed.                       *)
(***************************************************************************)
EXTENDS Naturals, Sequences, Functions

CONSTANTS
  Threads,            \* threads other than the loop thread
  kInitRetryDelayMs,
  kMaxRetryDelayMs,
  MaxQueue            \* bound on the functors that user calls queue

ASSUME DelayAssumption ==
  /\ kInitRetryDelayMs \in Nat \ {0} /\ kMaxRetryDelayMs \in Nat
  /\ kInitRetryDelayMs <= kMaxRetryDelayMs
  /\ MaxQueue \in Nat

VARIABLES
  (* the Connector *)
  connect_,         \* Connector::connect_
  state_,           \* kDisconnected, kConnecting, kConnected
  channel_,         \* "null", "added" to the poller, or "removed" and not reset
  retryDelayMs_,
  retryTimers,      \* number of retry timers set; each owns the connector
  holdTimer,        \* the removeConnector timer, which owns it for a second
  (* the TcpClient *)
  client,           \* it exists
  clientConnect,    \* TcpClient::connect_
  retry_,           \* enableRetry() was called
  connection_,      \* connection_ is not null
  restarting,       \* removeConnection has decided to call restart()
  (* the connection *)
  conn,             \* "none", "up", "closing" (in handleClose), "down"
  toClient,         \* its closeCallback_ is TcpClient::removeConnection
  (* the loop *)
  phase,            \* "poll", "handle" (active channels) or "functors"
  active,           \* reported by poll: subset of Events
  pending,          \* functors queued
  functors,         \* rest of the batch being called
  underway,         \* per thread: the call it is in and how far it is
  (* history *)
  sockets,          \* number of open descriptors
  gaveUp,           \* the last connect(2) failed with an error not retried
  stopped,          \* stop() was called in the loop thread, and connect() not since
  aborted           \* the assert that failed, or "no"

connectorVars == <<connect_, state_, channel_, retryDelayMs_, retryTimers>>
clientVars    == <<client, clientConnect, retry_, connection_, restarting, holdTimer>>
connVars      == <<conn, toClient>>
loopVars      == <<phase, active, functors>>
vars          == <<connectorVars, clientVars, connVars, loopVars, pending,
                   underway, sockets, gaveUp, stopped, aborted>>

Events == {"error", "write", "timer", "close"}
Idle   == <<"none", 0>>

\* Functors bound to a bare Connector*.
Raw == {"startInLoop", "stopInLoop", "resetChannel"}

Queued(kinds) == Range(pending \o functors) \cap kinds # {}

\* Somebody owns the connector.
ConnectorAlive == client \/ retryTimers > 0 \/ holdTimer

Init ==
  /\ connect_ = FALSE /\ state_ = "kDisconnected" /\ channel_ = "null"
  /\ retryDelayMs_ = kInitRetryDelayMs /\ retryTimers = 0 /\ holdTimer = FALSE
  /\ client = TRUE /\ clientConnect = TRUE /\ retry_ \in BOOLEAN
  /\ connection_ = FALSE /\ restarting = FALSE
  /\ conn = "none" /\ toClient = TRUE
  /\ phase = "handle" /\ active = {} /\ pending = <<>> /\ functors = <<>>
  /\ underway = [t \in Threads |-> Idle]
  /\ sockets = 0 /\ gaveUp = FALSE /\ stopped = FALSE /\ aborted = "no"

-----------------------------------------------------------------------------
(* Parts of the Connector's handlers.  Each says what becomes of state_,     *)
(* channel_, retryDelayMs_, retryTimers, sockets and gaveUp; its parameters  *)
(* are connect_, retryDelayMs_, the sockets open and the retry timers set.   *)

MinOf(x, y) == IF x <= y THEN x ELSE y

Doubled(delay) == MinOf(delay * 2, kMaxRetryDelayMs)

\* Mutants of Retry: the socket stays open; the timer is not set.
RetryLeavesSocket(wanted, delay, open, set) ==
  /\ sockets' = open
  /\ state_' = "kDisconnected"
  /\ retryTimers' = IF wanted THEN set + 1 ELSE set
  /\ retryDelayMs_' = IF wanted THEN Doubled(delay) ELSE delay
RetryWithoutTimer(wanted, delay, open, set) ==
  /\ sockets' = open - 1
  /\ state_' = "kDisconnected"
  /\ retryTimers' = set
  /\ retryDelayMs_' = IF wanted THEN Doubled(delay) ELSE delay
\* retry: the socket is closed and, unless stop() was called, a timer set.
Retry(wanted, delay, open, set) ==
  /\ sockets' = open - 1
  /\ state_' = "kDisconnected"
  /\ retryTimers' = IF wanted THEN set + 1 ELSE set
  /\ retryDelayMs_' = IF wanted THEN Doubled(delay) ELSE delay

\* An error of connect(2) that is not retried: the socket is closed.
GiveUp(delay, set) ==
  /\ state_' = "kDisconnected"
  /\ retryTimers' = set /\ retryDelayMs_' = delay
  /\ gaveUp' = TRUE
  /\ UNCHANGED <<sockets, channel_>>

\* connect, by what connect(2) answers: in progress (or done), an error after
\* which it is tried again, or an error that ends it.
Connect(delay, set) ==
  \/ /\ sockets' = sockets + 1
     /\ state_' = "kConnecting" /\ channel_' = "added"
     /\ retryTimers' = set /\ retryDelayMs_' = delay
     /\ gaveUp' = FALSE
  \/ /\ Retry(TRUE, delay, sockets + 1, set)
     /\ gaveUp' = FALSE
     /\ UNCHANGED channel_
  \/ GiveUp(delay, set)

\* startInLoop: the assert on the state, and the one in connecting().
StartFails ==
  IF state_ # "kDisconnected" THEN "startInLoop"
  ELSE IF connect_ /\ channel_ # "null" THEN "connecting" ELSE "no"

\* Mutant of StartInLoop: connect_ is not tested.
StartAnyway(wanted, set) == Connect(retryDelayMs_, set)

StartInLoop(wanted, set) ==
  IF wanted THEN Connect(retryDelayMs_, set)
  ELSE /\ retryTimers' = set
       /\ UNCHANGED <<state_, channel_, retryDelayMs_, sockets, gaveUp>>

\* Mutant of RemoveAndResetChannel: the reset is not queued.
RemoveChannelOnly ==
  /\ channel_' = "removed"
  /\ UNCHANGED pending

RemoveAndResetChannel ==
  /\ channel_' = "removed"
  /\ pending' = Append(pending, "resetChannel")

-----------------------------------------------------------------------------
(* Events in the loop. *)

\* poll returns.  A connecting socket that failed may be reported as an error
\* and as writable at once.  A retry delay, of 500 ms and more, is longer than
\* the loop takes to call a functor that was queued when the timer was set.
Poll ==
  /\ aborted = "no"
  /\ phase = "poll"
  /\ phase' = "handle"
  /\ \E a \in SUBSET Events :
       /\ a \cap {"error", "write"} # {} => channel_ = "added"
       /\ "timer" \in a => retryTimers > 0 /\ ~Queued({"resetChannel"})
       /\ "close" \in a => conn = "up"
       /\ active' = a
  /\ UNCHANGED <<connectorVars, clientVars, connVars, functors, pending, underway,
                 sockets, gaveUp, stopped, aborted>>

\* The next event dispatched is e; nothing else of the loop is in between.
Handles(e) ==
  /\ aborted = "no" /\ phase = "handle" /\ conn # "closing" /\ ~restarting
  /\ e \in active
  /\ active' = active \ {e}

\* Connector::handleError
HandleError ==
  /\ Handles("error")
  /\ IF state_ = "kConnecting"
       THEN RemoveAndResetChannel /\ Retry(connect_, retryDelayMs_, sockets, retryTimers)
       ELSE UNCHANGED <<state_, channel_, retryDelayMs_, retryTimers, sockets, pending>>
  /\ UNCHANGED <<connect_, clientVars, connVars, phase, functors, underway, gaveUp,
                 stopped, aborted>>

\* Connector::handleWrite: the socket failed or connected to itself; or it is
\* connected, and handed to TcpClient::newConnection if connect_ still holds.
HandleWrite ==
  /\ Handles("write") /\ "error" \notin active
  /\ IF state_ # "kConnecting"
       THEN /\ aborted' = IF state_ = "kDisconnected" THEN "no" ELSE "handleWrite"
            /\ UNCHANGED <<connectorVars, connection_, connVars, pending, sockets>>
       ELSE /\ RemoveAndResetChannel
            /\ \/ Retry(connect_, retryDelayMs_, sockets, retryTimers) /\ UNCHANGED <<connection_, connVars, aborted>>
               \/ /\ state_' = "kConnected"
                  /\ IF connect_
                       THEN /\ aborted' = IF client THEN "no" ELSE "newConnection"
                            /\ connection_' = TRUE
                            /\ conn' = "up" /\ toClient' = TRUE
                            /\ UNCHANGED sockets
                       ELSE /\ sockets' = sockets - 1
                            /\ UNCHANGED <<connection_, connVars, aborted>>
                  /\ UNCHANGED <<retryDelayMs_, retryTimers>>
            /\ UNCHANGED connect_
  /\ UNCHANGED <<client, clientConnect, retry_, restarting, holdTimer, phase,
                 functors, underway, gaveUp, stopped>>

\* The retry timer: startInLoop.
RetryTimer ==
  /\ Handles("timer")
  /\ aborted' = StartFails
  /\ IF StartFails = "no"
       THEN StartInLoop(connect_, retryTimers - 1)
       ELSE UNCHANGED <<state_, channel_, retryDelayMs_, retryTimers, sockets, gaveUp>>
  /\ UNCHANGED <<connect_, clientVars, connVars, phase, functors, pending, underway,
                 stopped>>

\* TcpConnection::handleClose, up to the user's callback.
HandleClose ==
  /\ Handles("close")
  /\ conn' = IF conn = "up" THEN "closing" ELSE conn
  /\ UNCHANGED <<connectorVars, clientVars, toClient, phase, functors, pending,
                 underway, sockets, gaveUp, stopped, aborted>>

\* TcpClient::removeConnection up to its test.
RemoveConnection ==
  /\ connection_' = FALSE
  /\ pending' = Append(pending, "connectDestroyed")
  /\ restarting' = (retry_ /\ clientConnect)

\* The rest of handleClose: closeCallback_, which is TcpClient::removeConnection
\* or, after ~TcpClient, detail::removeConnection.
CloseCallback ==
  /\ aborted = "no" /\ conn = "closing"
  /\ IF toClient
       THEN /\ RemoveConnection
            /\ aborted' = IF client /\ connection_ THEN "no" ELSE "removeConnection"
       ELSE /\ pending' = Append(pending, "connectDestroyed")
            /\ UNCHANGED <<connection_, restarting, aborted>>
  /\ conn' = "down"
  /\ UNCHANGED <<connectorVars, client, clientConnect, retry_, holdTimer, toClient,
                 loopVars, underway, sockets, gaveUp, stopped>>

\* Connector::restart.
Restart ==
  /\ aborted = "no" /\ restarting
  /\ restarting' = FALSE
  /\ connect_' = TRUE
  /\ aborted' = IF channel_ # "null" THEN "connecting" ELSE "no"
  /\ Connect(kInitRetryDelayMs, retryTimers)
  /\ UNCHANGED <<client, clientConnect, retry_, connection_, holdTimer, connVars,
                 loopVars, pending, underway, stopped>>

-----------------------------------------------------------------------------
(* doPendingFunctors. *)

Swap ==
  /\ aborted = "no" /\ conn # "closing" /\ ~restarting
  /\ phase = "handle" /\ active = {}
  /\ phase' = "functors"
  /\ functors' = pending
  /\ pending' = <<>>
  /\ UNCHANGED <<connectorVars, clientVars, connVars, active, underway, sockets,
                 gaveUp, stopped, aborted>>

EndBatch ==
  /\ aborted = "no" /\ conn # "closing" /\ ~restarting
  /\ phase = "functors" /\ functors = <<>>
  /\ phase' = "poll"
  /\ UNCHANGED <<connectorVars, clientVars, connVars, active, functors, pending,
                 underway, sockets, gaveUp, stopped, aborted>>

Functor(f) ==
  /\ aborted = "no" /\ conn # "closing" /\ ~restarting
  /\ functors # <<>>
  /\ Head(functors) = f
  /\ functors' = Tail(functors)
  /\ UNCHANGED <<connect_, clientVars, toClient, phase, active, underway, stopped>>

\* The connector's functors run on a bare pointer.
RunStartInLoop ==
  /\ Functor("startInLoop")
  /\ aborted' = IF ConnectorAlive THEN StartFails ELSE "useAfterFree"
  /\ IF aborted' = "no"
       THEN StartInLoop(connect_, retryTimers)
       ELSE UNCHANGED <<state_, channel_, retryDelayMs_, retryTimers, sockets, gaveUp>>
  /\ UNCHANGED <<conn, pending>>

StopsConnecting == state_ = "kConnecting"

\* stopInLoop: "if (state_ == kConnecting)"
RunStopInLoop ==
  /\ Functor("stopInLoop")
  /\ aborted' = IF ConnectorAlive THEN "no" ELSE "useAfterFree"
  /\ IF StopsConnecting
       THEN RemoveAndResetChannel /\ Retry(connect_, retryDelayMs_, sockets, retryTimers)
       ELSE UNCHANGED <<state_, channel_, retryDelayMs_, retryTimers, sockets, pending>>
  /\ UNCHANGED <<conn, gaveUp>>

RunResetChannel ==
  /\ Functor("resetChannel")
  /\ aborted' = IF ~ConnectorAlive THEN "useAfterFree"
                ELSE IF channel_ = "added" THEN "~Channel" ELSE "no"
  /\ channel_' = "null"
  /\ UNCHANGED <<state_, retryDelayMs_, retryTimers, conn, pending, sockets, gaveUp>>

\* TcpConnection::connectDestroyed; the connection closes its socket.
RunConnectDestroyed ==
  /\ Functor("connectDestroyed")
  /\ conn' = "none"
  /\ sockets' = sockets - 1
  /\ UNCHANGED <<state_, channel_, retryDelayMs_, retryTimers, pending, gaveUp, aborted>>

\* TcpConnection::forceCloseInLoop
RunForceClose ==
  /\ Functor("forceCloseInLoop")
  /\ conn' = IF conn = "up" THEN "closing" ELSE conn
  /\ UNCHANGED <<state_, channel_, retryDelayMs_, retryTimers, pending, sockets,
                 gaveUp, aborted>>

-----------------------------------------------------------------------------
(* Calls in the loop thread. *)

InUserCode == aborted = "no" /\ client /\ phase # "poll" /\ ~restarting

NoCallUnderway == \A t \in Threads : underway[t] = Idle

\* Users call connect() on a client that is at rest.
AtRest ==
  /\ state_ = "kDisconnected" /\ channel_ = "null" /\ retryTimers = 0
  /\ ~Queued(Raw) /\ NoCallUnderway

\* TcpClient::connect, Connector::start
LoopConnect ==
  /\ InUserCode /\ AtRest
  /\ clientConnect' = TRUE
  /\ connect_' = TRUE
  /\ stopped' = FALSE
  /\ StartInLoop(TRUE, retryTimers)
  /\ UNCHANGED <<client, retry_, connection_, restarting, holdTimer, connVars,
                 loopVars, pending, underway, aborted>>

\* TcpClient::disconnect; the shutdown() is a matter of the connection.
LoopDisconnect ==
  /\ InUserCode
  /\ clientConnect' = FALSE
  /\ UNCHANGED <<connectorVars, client, retry_, connection_, restarting, holdTimer,
                 connVars, loopVars, pending, underway, sockets, gaveUp, stopped,
                 aborted>>

\* TcpClient::stop, Connector::stop
LoopStop ==
  /\ InUserCode
  /\ Len(pending) < MaxQueue
  /\ clientConnect' = FALSE
  /\ connect_' = FALSE
  /\ pending' = Append(pending, "stopInLoop")
  /\ stopped' = TRUE
  /\ UNCHANGED <<state_, channel_, retryDelayMs_, retryTimers, client, retry_,
                 connection_, restarting, holdTimer, connVars, loopVars, underway,
                 sockets, gaveUp, aborted>>

\* ~TcpClient, with no call of the user's underway or posted.  With a
\* connection, the connector is destroyed with the client, and the connection
\* is closed if nobody else has a pointer to it; without, the connector is
\* stopped and kept for a second.  ~Connector asserts that the channel was
\* reset, which it is not while the resetChannel of this connection is queued.
DestroyClient ==
  /\ InUserCode
  /\ ~Queued({"startInLoop", "stopInLoop"}) /\ NoCallUnderway
  /\ client' = FALSE
  /\ IF connection_
       THEN /\ toClient' = FALSE
            /\ connection_' = FALSE
            /\ pending' \in {pending} \cup
                            (IF conn = "up" THEN {Append(pending, "forceCloseInLoop")} ELSE {})
            /\ aborted' = IF channel_ = "null" \/ retryTimers > 0 THEN "no" ELSE "~Connector"
            /\ UNCHANGED <<connect_, holdTimer>>
       ELSE /\ connect_' = FALSE
            /\ pending' = Append(pending, "stopInLoop")
            /\ holdTimer' = TRUE
            /\ UNCHANGED <<connection_, toClient, aborted>>
  /\ UNCHANGED <<state_, channel_, retryDelayMs_, retryTimers, clientConnect, retry_,
                 restarting, conn, loopVars, underway, sockets, gaveUp, stopped>>

\* The removeConnector timer.  A second is longer than the loop takes to serve
\* what was queued before ("FIXME: HACK").
HoldExpires ==
  /\ aborted = "no" /\ holdTimer /\ phase = "handle"
  /\ pending = <<>> /\ functors = <<>>
  /\ holdTimer' = FALSE
  /\ UNCHANGED <<connectorVars, client, clientConnect, retry_, connection_, restarting,
                 connVars, loopVars, pending, underway, sockets, gaveUp, stopped,
                 aborted>>

-----------------------------------------------------------------------------
(* Calls in other threads: the two flags are set one after the other, then a *)
(* functor is queued.                                                        *)

CallBegins(t, call) ==
  /\ aborted = "no" /\ client
  /\ underway[t] = Idle
  /\ call = "connect" => AtRest
  /\ clientConnect' = (call = "connect")
  /\ underway' = [underway EXCEPT ![t] = IF call = "disconnect" THEN Idle ELSE <<call, 1>>]
  /\ UNCHANGED <<connectorVars, client, retry_, connection_, restarting, holdTimer,
                 connVars, loopVars, pending, sockets, gaveUp, stopped, aborted>>

CallSetsConnect(t) ==
  /\ aborted = "no"
  /\ underway[t][2] = 1
  /\ connect_' = (underway[t][1] = "connect")
  /\ stopped' = (stopped /\ underway[t][1] # "connect")
  /\ underway' = [underway EXCEPT ![t][2] = 2]
  /\ UNCHANGED <<state_, channel_, retryDelayMs_, retryTimers, clientVars, connVars,
                 loopVars, pending, sockets, gaveUp, aborted>>

CallQueues(t) ==
  /\ aborted = "no"
  /\ underway[t][2] = 2
  /\ Len(pending) < MaxQueue
  /\ pending' = Append(pending, IF underway[t][1] = "connect" THEN "startInLoop"
                                                             ELSE "stopInLoop")
  /\ underway' = [underway EXCEPT ![t] = Idle]
  /\ UNCHANGED <<connectorVars, clientVars, connVars, loopVars, sockets, gaveUp,
                 stopped, aborted>>

-----------------------------------------------------------------------------
LoopStep ==
  \/ HandleError \/ HandleWrite \/ RetryTimer \/ HandleClose
  \/ CloseCallback \/ Restart
  \/ Swap \/ EndBatch
  \/ RunStartInLoop \/ RunStopInLoop \/ RunResetChannel
  \/ RunConnectDestroyed \/ RunForceClose

UserStep ==
  \/ LoopConnect \/ LoopDisconnect \/ LoopStop \/ DestroyClient
  \/ \E t \in Threads, call \in {"connect", "disconnect", "stop"} : CallBegins(t, call)

ThreadStep(t) == CallSetsConnect(t) \/ CallQueues(t)

\* A failed assert ends the process.
Aborted == aborted # "no" /\ UNCHANGED vars

Next ==
  \/ LoopStep \/ Poll \/ HoldExpires \/ UserStep \/ Aborted
  \/ \E t \in Threads : ThreadStep(t)

\* The loop serves its queue and what poll has reported, and poll returns if
\* something is queued; threads finish the calls they are in.
Fairness ==
  /\ WF_vars(LoopStep)
  /\ WF_vars(pending # <<>> /\ Poll)
  /\ \A t \in Threads : WF_vars(ThreadStep(t))

SafetySpec == Init /\ [][Next]_vars

Spec == SafetySpec /\ Fairness

-----------------------------------------------------------------------------
(* Properties. *)

TypeOK ==
  /\ connect_ \in BOOLEAN
  /\ state_ \in {"kDisconnected", "kConnecting", "kConnected"}
  /\ channel_ \in {"null", "added", "removed"}
  /\ retryDelayMs_ \in kInitRetryDelayMs..kMaxRetryDelayMs
  /\ retryTimers \in Nat /\ holdTimer \in BOOLEAN
  /\ client \in BOOLEAN /\ clientConnect \in BOOLEAN /\ retry_ \in BOOLEAN
  /\ connection_ \in BOOLEAN /\ restarting \in BOOLEAN
  /\ conn \in {"none", "up", "closing", "down"} /\ toClient \in BOOLEAN
  /\ phase \in {"poll", "handle", "functors"} /\ active \in SUBSET Events
  /\ pending \in Seq(Raw \cup {"connectDestroyed", "forceCloseInLoop"})
  /\ functors \in Seq(Raw \cup {"connectDestroyed", "forceCloseInLoop"})
  /\ underway \in [Threads -> {Idle} \cup ({"connect", "stop"} \X {1, 2})]
  /\ sockets \in Nat /\ gaveUp \in BOOLEAN /\ stopped \in BOOLEAN
  /\ aborted \in {"no", "startInLoop", "connecting", "handleWrite", "newConnection",
                  "removeConnection", "useAfterFree", "~Channel", "~Connector"}

\* The connector watches a socket exactly while it is connecting: no attempt
\* that nobody will finish, no channel left in the poller.
WatchesWhileConnecting == (channel_ = "added") <=> (state_ = "kConnecting")

\* Every open descriptor has exactly one owner: the channel of a connection
\* attempt, or the connection.  Nothing is leaked and nothing closed twice on
\* the paths through retry, handleWrite after a stop(), and restart.
SocketsAreOwned ==
  /\ sockets = (IF channel_ = "added" THEN 1 ELSE 0) + (IF conn # "none" THEN 1 ELSE 0)
  /\ WatchesWhileConnecting

\* A connector that shall connect is connected, connecting, about to try again,
\* or has met an error that it does not retry: no retry is lost.
KeepsTrying ==
  (connect_ /\ state_ = "kDisconnected" /\ ~gaveUp /\ ConnectorAlive) =>
     \/ retryTimers > 0
     \/ Queued({"startInLoop"})
     \/ restarting
     \/ \E t \in Threads : underway[t] = <<"connect", 2>>

\* When the last owner of the connector lets go, be it the client, a retry timer
\* or the removeConnector timer, the channel is reset and no functor with a bare
\* pointer is queued; but for the one failure of ~Connector's assert(!channel_).
ConnectorDestroyedClean ==
  ~ConnectorAlive /\ aborted = "no" => channel_ = "null" /\ ~Queued(Raw)

\* ~Connector's assert(!channel_) can fail only when the client is destroyed in
\* the round of the loop in which it connected: the channel of a connector that
\* has connected is reset before the loop polls again.
ResetBeforePoll ==
  /\ state_ = "kConnected" /\ phase = "poll" => channel_ = "null"
  /\ aborted = "~Connector" => state_ = "kConnected" /\ phase # "poll"

\* No assert of Connector, TcpClient or ~Channel fails, and no callback runs on a
\* destroyed client or connector, whenever stop() and disconnect() are called
\* and in whatever thread; but for ~Connector's assert, when the client is
\* destroyed before the round that connected it is over.
NoAssertFails ==
  TypeOK /\ aborted \in {"no", "~Connector"} /\ ConnectorDestroyedClean /\ ResetBeforePoll

\* After a stop() in the loop thread no further attempt is made, neither by a
\* retry timer that is still set ("FIXME: cancel timer") nor by a reconnect.
StopIsFinal == [][stopped /\ stopped' => sockets' <= sockets]_vars

\* stop() ends an attempt that is underway.
StopEndsConnecting ==
  (~connect_ /\ state_ = "kConnecting") ~> (state_ # "kConnecting" \/ connect_)

\* stop() takes effect at once on what is underway and for good on the rest.
StopWorks == StopIsFinal /\ StopEndsConnecting
=============================================================================
