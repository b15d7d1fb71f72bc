---------------------------- MODULE TcpConnection ----------------------------
(***************************************************************************)
(* The life of one muduo::net::TcpConnection: TcpConnection.cpp, with the  *)
(* TcpServer that creates and forgets it (TcpServer.cpp), its Channel and  *)
(* the channel's registration with the EPollPoller.                        *)
(*                                                                         *)
(* The connection lives on its IO loop.  The server lives on its own loop, *)
(* which is another thread, or the same one if the server has no thread    *)
(* pool (onLoop).  Functors are queued on loops in FIFO order and called   *)
(* in batches, as in module EventLoop; some own a TcpConnectionPtr, some   *)
(* hold a bare `this`.  The object is destroyed with its last reference.   *)
(* A failed assert stops the program.                                      *)
(***************************************************************************)
EXTENDS Naturals, Sequences, Functions

CONSTANTS
  Threads,      \* threads other than the two loops that call the connection
  LoopCalls,    \* calls that user code makes in the IO loop
  ThreadCalls,  \* calls that other threads make
  LateReadCalls,\* startRead/stopRead are also called when not connected()
  LoopSharing,  \* the values of onLoop to consider
  EarlyDrop,    \* the user drops its pointer with calls of its own underway
  ServerDtor,   \* the TcpServer may be destroyed while connections exist
  MaxQueue      \* bound on the functors queued on each loop by user calls

Calls == {"send", "shutdown", "forceClose", "forceCloseWithDelay",
          "startRead", "stopRead"}

ASSUME CallsAssumption ==
  /\ LoopCalls \subseteq Calls
  /\ ThreadCalls \subseteq Calls
  /\ LateReadCalls \in BOOLEAN /\ EarlyDrop \in BOOLEAN /\ ServerDtor \in BOOLEAN
  /\ LoopSharing \subseteq BOOLEAN
  /\ MaxQueue \in Nat

VARIABLES
  state_,        \* "none" before the connection is created
  reading_,
  events,        \* the channel's events_, a subset of {"read", "write"}
  index,         \* the channel's index_; addedToLoop_ is index # "kNew"
  revents,       \* what poll reported of the channel and is not yet dispatched
  guard,         \* Channel::handleEvent is running and has locked tie_
  callback,      \* the user callback being run: "message", "closing" (in
                 \* handleClose), "destroying" (in connectDestroyed) or "none"
  halfClosed,    \* socket_->shutdownWrite() was called
  connections_,  \* the server's map holds the connection
  server,        \* the TcpServer is alive
  onLoop,        \* the connection's IO loop is the server's loop
  pending,       \* functors queued on the IO loop
  functors,      \* the rest of the batch being called
  phase,         \* where the IO loop is: "poll", "handle" (dispatching active
                 \* channels) or "functors" (in doPendingFunctors)
  batchHolds,    \* a functor already called in this batch owns a pointer
  removals,      \* removeConnectionInLoop functors queued on the server's loop
  timer,         \* a forceCloseWithDelay timer (a weak callback) is set
  userRef,       \* user code holds a TcpConnectionPtr
  underway,      \* per thread: the call it is in and how far it is
  ups, downs,    \* history: connectionCallback_ calls, by connected()
  aborted        \* the assert that failed, or "no"

connVars   == <<state_, reading_, halfClosed>>
chanVars   == <<events, index>>
pollVars   == <<revents, guard>>
serverVars == <<connections_, server, onLoop, removals>>
queueVars  == <<pending, functors, phase, batchHolds>>
userVars   == <<timer, userRef, underway>>
histVars   == <<ups, downs>>
vars       == <<connVars, chanVars, pollVars, callback, serverVars, queueVars,
                userVars, histVars, aborted>>

\* Functors that are bound to a TcpConnectionPtr; the others have a bare this.
Owning == {"connectEstablished", "connectDestroyed", "forceCloseInLoop",
           "writeComplete"}
Raw    == {"sendInLoop", "shutdownInLoop", "startReadInLoop", "stopReadInLoop"}

Idle == <<"none", "none">>

Queued(kinds) == Range(pending \o functors) \cap kinds # {}

\* Somebody holds a TcpConnectionPtr.
Held ==
  \/ connections_ \/ userRef \/ guard \/ callback # "none" \/ batchHolds
  \/ removals > 0 \/ Queued(Owning)
  \/ \E t \in Threads : underway[t] # Idle

\* The connection has been destroyed.
Gone == state_ # "none" /\ ~Held

Init ==
  /\ state_ = "none" /\ reading_ = TRUE /\ halfClosed = FALSE
  /\ events = {} /\ index = "kNew"
  /\ revents = {} /\ guard = FALSE
  /\ callback = "none"
  /\ connections_ = FALSE /\ server = TRUE /\ onLoop \in LoopSharing /\ removals = 0
  /\ pending = <<>> /\ functors = <<>> /\ phase = "handle" /\ batchHolds = FALSE
  /\ timer = FALSE /\ userRef = FALSE
  /\ underway = [t \in Threads |-> Idle]
  /\ ups = 0 /\ downs = 0
  /\ aborted = "no"

-----------------------------------------------------------------------------
(* Channel and EPollPoller. *)

\* Channel::update, EPollPoller::updateChannel: a channel that is not in the
\* epoll set is added whatever its events; one without events is taken out.
Update(ev) ==
  /\ events' = ev
  /\ index' = IF index = "kAdded" /\ ev = {} THEN "kDeleted" ELSE "kAdded"

\* What is left as it is when an assert fails.
Abort(where) ==
  /\ aborted' = where
  /\ UNCHANGED <<connVars, chanVars, pollVars, callback, serverVars, queueVars,
                 userVars, histVars>>

\* Channel::remove, EventLoop::removeChannel, EPollPoller::removeChannel: the
\* asserts on the way.  (The last one stands for a channel that is still to be
\* dispatched.  The code's fails for one that was, too, as it stays in
\* activeChannels_: a matter of ~TcpServer in a later callback of the round.)
RemoveFails ==
  IF events # {} THEN "remove"                        \* isNoneEvent()
  ELSE IF index = "kNew" THEN "removeChannel"         \* channels_.find(fd)
  ELSE IF revents # {} /\ ~guard THEN "activeChannel" \* not in activeChannels_
  ELSE "no"

-----------------------------------------------------------------------------
(* The bodies that run in the IO loop. *)

\* Mutant of RemoveConnectionInLoop: connectDestroyed is not queued.
EraseOnly ==
  /\ connections_' = FALSE
  /\ UNCHANGED pending

\* TcpServer::removeConnectionInLoop
RemoveConnectionInLoop ==
  /\ connections_' = FALSE
  /\ pending' = Append(pending, "connectDestroyed")

\* The history counter only tells none, once and more often.
Twice(n) == IF n < 2 THEN n + 1 ELSE n

\* Mutant of HandleClose: the channel is not disabled.
HandleCloseKeepsEvents ==
  /\ state_' = "kDisconnected"
  /\ callback' = "closing"
  /\ userRef' \in {userRef, TRUE}
  /\ downs' = Twice(downs)
  /\ UNCHANGED <<chanVars, reading_, halfClosed>>

\* handleClose up to its connectionCallback_, which may copy the pointer.
HandleClose ==
  /\ state_' = "kDisconnected"
  /\ Update({})
  /\ callback' = "closing"
  /\ userRef' \in {userRef, TRUE}
  /\ downs' = Twice(downs)
  /\ UNCHANGED <<reading_, halfClosed>>

\* Mutants of CanClose: a closed connection passes; a closing one does not.
CanAlwaysClose == state_ # "kConnecting"
CanCloseConnected == state_ = "kConnected"

\* The test of forceClose, forceCloseInLoop and of handleClose's assert.
CanClose == state_ \in {"kConnected", "kDisconnecting"}

\* connectDestroyed of a connection that is kConnected, up to its callback.
DestroyConnected ==
  /\ state_' = "kDisconnected"
  /\ Update({})
  /\ callback' = "destroying"
  /\ userRef' \in {userRef, TRUE}
  /\ downs' = Twice(downs)

\* sendInLoop: given up; written whole; partly written or buffered, perhaps
\* over the high water mark; or failed for good.  The two kinds of callback it
\* queues own a pointer and run user code, and are not told apart here.
SendInLoop ==
  \/ /\ state_ = "kDisconnected" \/ "write" \notin events  \* given up, or EPIPE
     /\ UNCHANGED <<chanVars, pending>>
  \/ /\ state_ # "kDisconnected" /\ "write" \notin events
     /\ pending' = Append(pending, "writeComplete")
     /\ UNCHANGED chanVars
  \/ /\ state_ # "kDisconnected"
     /\ pending' \in {pending, Append(pending, "writeComplete")}
     /\ IF "write" \in events THEN UNCHANGED chanVars
                              ELSE Update(events \cup {"write"})

ShutdownInLoop == halfClosed' = (halfClosed \/ "write" \notin events)

StartReadInLoop ==
  IF ~reading_ \/ "read" \notin events
    THEN Update(events \cup {"read"}) /\ reading_' = TRUE
    ELSE UNCHANGED <<chanVars, reading_>>

StopReadInLoop ==
  IF reading_ \/ "read" \in events
    THEN Update(events \ {"read"}) /\ reading_' = FALSE
    ELSE UNCHANGED <<chanVars, reading_>>

-----------------------------------------------------------------------------
(* TcpServer, in its loop. *)

\* Mutant of InitialState.
InitialStateConnected == "kConnected"

\* state_ of a TcpConnection that was just constructed.
InitialState == "kConnecting"

\* newConnection: connectEstablished runs on the spot, or is queued.
NewConnection ==
  /\ aborted = "no" /\ server
  /\ state_ = "none"
  /\ connections_' = TRUE
  /\ IF onLoop
       THEN /\ phase = "handle"
            /\ state_' = "kConnected"
            /\ Update({"read"})
            /\ userRef' \in BOOLEAN
            /\ ups' = ups + 1
            /\ UNCHANGED pending
       ELSE /\ state_' = InitialState
            /\ pending' = Append(pending, "connectEstablished")
            /\ UNCHANGED <<chanVars, userRef, ups>>
  /\ UNCHANGED <<reading_, halfClosed, pollVars, callback, server, onLoop,
                 removals, functors, phase, batchHolds, timer, underway, downs,
                 aborted>>

\* Mutant of RemovalQueued: the guard is dropped.
RemovalOutOfTheBlue == connections_

RemovalQueued == removals > 0

\* A queued removeConnectionInLoop.
RunRemoval ==
  /\ aborted = "no"
  /\ RemovalQueued
  /\ IF ~server THEN Abort("server")                        \* FIXME: unsafe
     ELSE IF ~connections_ THEN Abort("removeConnection")   \* assert(n == 1)
     ELSE /\ RemoveConnectionInLoop
          /\ removals' = removals - 1
          /\ UNCHANGED <<connVars, chanVars, pollVars, callback, server, onLoop,
                         functors, phase, batchHolds, userVars, histVars, aborted>>

\* ~TcpServer, with the connection in its map (or not any more).  Not inside a
\* callback of this connection; the join of the other loops is left out.
DestroyServer ==
  /\ aborted = "no" /\ ServerDtor /\ server /\ state_ # "none"
  /\ server' = FALSE
  /\ connections_' = FALSE
  /\ IF ~connections_
       THEN UNCHANGED <<connVars, chanVars, callback, pending, userRef, downs, aborted>>
     ELSE IF ~onLoop
       THEN /\ pending' = Append(pending, "connectDestroyed")
            /\ UNCHANGED <<connVars, chanVars, callback, userRef, downs, aborted>>
     ELSE /\ callback = "none" /\ phase # "poll"
          /\ IF state_ = "kConnected"
               THEN /\ DestroyConnected
                    /\ UNCHANGED <<reading_, halfClosed, pending, aborted>>
               ELSE /\ aborted' = RemoveFails
                    /\ index' = IF RemoveFails = "no" THEN "kNew" ELSE index
                    /\ UNCHANGED <<connVars, events, callback, pending, userRef, downs>>
  /\ UNCHANGED <<pollVars, onLoop, removals, functors, phase, batchHolds, timer,
                 underway, ups>>

-----------------------------------------------------------------------------
(* Events on the socket. *)

\* poll returns.  epoll reports of the channel what it asked for; a hang-up is
\* always reported, and comes with "in" if that was asked for.
Poll ==
  /\ aborted = "no"
  /\ phase = "poll"
  /\ phase' = "handle"
  /\ \E r \in SUBSET {"in", "out", "hup"} :
       /\ r # {} => index = "kAdded"
       /\ "in" \in r => "read" \in events
       /\ "out" \in r => "write" \in events
       /\ "hup" \in r => "read" \notin events
       /\ revents' = r
  /\ UNCHANGED <<connVars, chanVars, guard, callback, serverVars, pending, functors,
                 batchHolds, userVars, histVars, aborted>>

\* handleEventWithGuard: POLLHUP without POLLIN.
HandleHup ==
  /\ aborted = "no" /\ callback = "none"
  /\ "hup" \in revents
  /\ IF CanClose
       THEN /\ HandleClose
            /\ guard' = TRUE
            /\ revents' = revents \ {"hup"}
            /\ UNCHANGED <<serverVars, queueVars, timer, underway, ups, aborted>>
       ELSE Abort("handleClose")

\* handleRead: a message, the end of the stream, or an error that is logged.
HandleRead ==
  /\ aborted = "no" /\ callback = "none"
  /\ "in" \in revents
  /\ \/ /\ callback' = "message"
        /\ userRef' \in {userRef, TRUE}
        /\ guard' = TRUE /\ revents' = revents \ {"in"}
        /\ UNCHANGED <<connVars, chanVars, serverVars, queueVars, timer, underway,
                       histVars, aborted>>
     \/ /\ CanClose
        /\ HandleClose
        /\ guard' = TRUE /\ revents' = revents \ {"in"}
        /\ UNCHANGED <<serverVars, queueVars, timer, underway, ups, aborted>>
     \/ /\ ~CanClose
        /\ Abort("handleClose")
     \/ /\ guard' = TRUE /\ revents' = revents \ {"in"}
        /\ UNCHANGED <<connVars, chanVars, callback, serverVars, queueVars,
                       userVars, histVars, aborted>>

\* handleWrite: nothing to write any more; some written, or an error that is
\* logged; or all written, which completes a shutdown().
HandleWrite ==
  /\ aborted = "no" /\ callback = "none"
  /\ revents = {"out"}
  /\ guard' = TRUE /\ revents' = {}
  /\ \/ UNCHANGED <<chanVars, halfClosed, pending>>
     \/ /\ "write" \in events
        /\ Update(events \ {"write"})
        /\ pending' = Append(pending, "writeComplete")
        /\ halfClosed' = (halfClosed \/ state_ = "kDisconnecting")
  /\ UNCHANGED <<state_, reading_, callback, serverVars, functors, phase,
                 batchHolds, userVars, histVars, aborted>>

\* handleEvent returns and drops its guard.
EndEvent ==
  /\ aborted = "no" /\ callback = "none"
  /\ guard /\ revents = {}
  /\ guard' = FALSE
  /\ UNCHANGED <<connVars, chanVars, revents, callback, serverVars, queueVars,
                 userVars, histVars, aborted>>

MessageReturns ==
  /\ aborted = "no"
  /\ callback = "message"
  /\ callback' = "none"
  /\ UNCHANGED <<connVars, chanVars, pollVars, serverVars, queueVars, userVars,
                 histVars, aborted>>

\* handleClose after its connectionCallback_: closeCallback_, which is
\* TcpServer::removeConnection.
CloseCallback ==
  /\ aborted = "no"
  /\ callback = "closing"
  /\ IF ~server THEN Abort("server")
     ELSE IF onLoop /\ ~connections_ THEN Abort("removeConnection")
     ELSE /\ callback' = "none"
          /\ IF onLoop THEN RemoveConnectionInLoop /\ UNCHANGED removals
                       ELSE removals' = removals + 1 /\ UNCHANGED <<connections_, pending>>
          /\ UNCHANGED <<connVars, chanVars, pollVars, server, onLoop, functors,
                         phase, batchHolds, userVars, histVars, aborted>>

\* connectDestroyed after its connectionCallback_: channel_->remove().
RemoveChannel ==
  /\ aborted = "no"
  /\ callback = "destroying"
  /\ IF RemoveFails # "no" THEN Abort(RemoveFails)
     ELSE /\ index' = "kNew"
          /\ callback' = "none"
          /\ UNCHANGED <<connVars, events, pollVars, serverVars, queueVars,
                         userVars, histVars, aborted>>

-----------------------------------------------------------------------------
(* doPendingFunctors of the IO loop. *)

Swap ==
  /\ aborted = "no" /\ callback = "none"
  /\ phase = "handle" /\ revents = {} /\ ~guard
  /\ functors' = pending
  /\ pending' = <<>>
  /\ phase' = "functors"
  /\ UNCHANGED <<connVars, chanVars, pollVars, callback, serverVars, batchHolds,
                 userVars, histVars, aborted>>

\* The vector of called functors is destroyed, with the pointers they own.
EndBatch ==
  /\ aborted = "no" /\ callback = "none"
  /\ phase = "functors" /\ functors = <<>>
  /\ phase' = "poll"
  /\ batchHolds' = FALSE
  /\ UNCHANGED <<connVars, chanVars, pollVars, callback, serverVars, pending,
                 functors, userVars, histVars, aborted>>

\* The next functor of the batch is f; what all bodies below have in common.
Functor(f) ==
  /\ aborted = "no" /\ callback = "none"
  /\ functors # <<>>
  /\ Head(functors) = f
  /\ functors' = Tail(functors)
  /\ batchHolds' = (batchHolds \/ f \in Owning)
  /\ UNCHANGED <<pollVars, serverVars, phase, timer, underway>>

ConnectEstablished ==
  /\ Functor("connectEstablished")
  /\ IF state_ # "kConnecting"
       THEN aborted' = "connectEstablished" /\ UNCHANGED <<state_, chanVars, userRef, ups>>
       ELSE /\ state_' = "kConnected"
            /\ Update(events \cup {"read"})
            /\ userRef' \in BOOLEAN
            /\ ups' = ups + 1
            /\ UNCHANGED aborted
  /\ UNCHANGED <<reading_, halfClosed, callback, pending, downs>>

ConnectDestroyed ==
  /\ Functor("connectDestroyed")
  /\ IF state_ = "kConnected"
       THEN DestroyConnected /\ UNCHANGED aborted
       ELSE /\ aborted' = RemoveFails
            /\ index' = IF RemoveFails = "no" THEN "kNew" ELSE index
            /\ UNCHANGED <<state_, events, callback, userRef, downs>>
  /\ UNCHANGED <<reading_, halfClosed, pending, ups>>

ForceCloseInLoop ==
  /\ Functor("forceCloseInLoop")
  /\ IF CanClose THEN HandleClose
                 ELSE UNCHANGED <<connVars, chanVars, callback, userRef, downs>>
  /\ UNCHANGED <<pending, ups, aborted>>

\* writeCompleteCallback_ or highWaterMarkCallback_: user code with a pointer.
WriteComplete ==
  /\ Functor("writeComplete")
  /\ userRef' \in {userRef, TRUE}
  /\ UNCHANGED <<connVars, chanVars, callback, pending, histVars, aborted>>

\* A functor with a bare this runs on whatever that points to.
RawFunctor(f) ==
  /\ Functor(f)
  /\ IF Gone
       THEN aborted' = "useAfterFree" /\ UNCHANGED <<connVars, chanVars, pending>>
       ELSE /\ CASE f = "sendInLoop"      -> SendInLoop /\ UNCHANGED connVars
                 [] f = "shutdownInLoop"  -> ShutdownInLoop
                                             /\ UNCHANGED <<state_, reading_, chanVars, pending>>
                 [] f = "startReadInLoop" -> StartReadInLoop
                                             /\ UNCHANGED <<state_, halfClosed, pending>>
                 [] f = "stopReadInLoop"  -> StopReadInLoop
                                             /\ UNCHANGED <<state_, halfClosed, pending>>
            /\ UNCHANGED aborted
  /\ UNCHANGED <<callback, userRef, histVars>>

-----------------------------------------------------------------------------
(* Calls from user code in the IO loop, in callbacks of this connection or  *)
(* of anything else on the loop.  runInLoop runs on the spot.               *)

ReadCallAllowed == LateReadCalls \/ state_ = "kConnected"

\* The test and the assignment at the head of shutdown (from kConnected) and
\* of forceClose and forceCloseWithDelay (from kDisconnecting, too).
Passes(call) ==
  CASE call \in {"send", "shutdown"}                  -> state_ = "kConnected"
    [] call \in {"forceClose", "forceCloseWithDelay"} -> CanClose
    [] call \in {"startRead", "stopRead"}             -> ReadCallAllowed

LoopCall(call) ==
  /\ aborted = "no" /\ userRef /\ phase # "poll"
  /\ call \in LoopCalls
  /\ Passes(call)
  /\ Len(pending) < MaxQueue
  /\ CASE call = "send" -> SendInLoop /\ UNCHANGED <<connVars, timer>>
       [] call = "shutdown" -> /\ state_' = "kDisconnecting"
                               /\ ShutdownInLoop
                               /\ UNCHANGED <<reading_, chanVars, pending, timer>>
       [] call = "forceClose" -> /\ state_' = "kDisconnecting"
                                 /\ pending' = Append(pending, "forceCloseInLoop")
                                 /\ UNCHANGED <<reading_, halfClosed, chanVars, timer>>
       [] call = "forceCloseWithDelay" -> /\ state_' = "kDisconnecting"
                                          /\ timer' = TRUE
                                          /\ UNCHANGED <<reading_, halfClosed, chanVars, pending>>
       [] call = "startRead" -> StartReadInLoop
                                /\ UNCHANGED <<state_, halfClosed, pending, timer>>
       [] call = "stopRead" -> StopReadInLoop
                               /\ UNCHANGED <<state_, halfClosed, pending, timer>>
  /\ UNCHANGED <<pollVars, callback, serverVars, functors, phase, batchHolds,
                 userRef, underway, histVars, aborted>>

\* The timer of forceCloseWithDelay: forceClose, if the object still exists.
DelayedForceClose ==
  /\ aborted = "no" /\ timer
  /\ callback = "none" /\ phase = "handle" /\ ~guard
  /\ timer' = FALSE
  /\ IF ~Gone /\ CanClose
       THEN /\ state_' = "kDisconnecting"
            /\ pending' = Append(pending, "forceCloseInLoop")
       ELSE UNCHANGED <<state_, pending>>
  /\ UNCHANGED <<reading_, halfClosed, chanVars, pollVars, callback, serverVars,
                 functors, phase, batchHolds, userRef, underway, histVars, aborted>>

\* The user forgets the connection.
DropRef ==
  /\ aborted = "no" /\ userRef
  /\ EarlyDrop \/ (~Queued(Raw) /\ \A t \in Threads : underway[t] = Idle)
  /\ userRef' = FALSE
  /\ UNCHANGED <<connVars, chanVars, pollVars, callback, serverVars, queueVars,
                 timer, underway, histVars, aborted>>

-----------------------------------------------------------------------------
(* Calls from other threads: the test of state_, the assignment of state_    *)
(* and the push to the queue are steps of their own.                         *)

PostedFunctor(call) ==
  CASE call = "send"       -> "sendInLoop"
    [] call = "shutdown"   -> "shutdownInLoop"
    [] call = "forceClose" -> "forceCloseInLoop"
    [] call = "startRead"  -> "startReadInLoop"
    [] call = "stopRead"   -> "stopReadInLoop"

CallBegins(t, call) ==
  /\ aborted = "no" /\ userRef
  /\ underway[t] = Idle
  /\ removals < MaxQueue
  /\ call \in ThreadCalls
  /\ Passes(call)
  /\ underway' = [underway EXCEPT ![t] = <<call, "tested">>]
  /\ UNCHANGED <<connVars, chanVars, pollVars, callback, serverVars, queueVars,
                 timer, userRef, histVars, aborted>>

CallSetsState(t) ==
  /\ aborted = "no"
  /\ underway[t][2] = "tested"
  /\ state_' = IF underway[t][1] \in {"shutdown", "forceClose", "forceCloseWithDelay"}
                 THEN "kDisconnecting" ELSE state_
  /\ underway' = [underway EXCEPT ![t][2] = "set"]
  /\ UNCHANGED <<reading_, halfClosed, chanVars, pollVars, callback, serverVars,
                 queueVars, timer, userRef, histVars, aborted>>

CallQueues(t) ==
  /\ aborted = "no"
  /\ underway[t][2] = "set"
  /\ Len(pending) < MaxQueue
  /\ IF underway[t][1] = "forceCloseWithDelay"
       THEN timer' = TRUE /\ UNCHANGED pending
       ELSE pending' = Append(pending, PostedFunctor(underway[t][1])) /\ UNCHANGED timer
  /\ underway' = [underway EXCEPT ![t] = Idle]
  /\ UNCHANGED <<connVars, chanVars, pollVars, callback, serverVars, functors,
                 phase, batchHolds, userRef, histVars, aborted>>

-----------------------------------------------------------------------------
LoopStep ==
  \/ HandleHup \/ HandleRead \/ HandleWrite \/ EndEvent
  \/ MessageReturns \/ CloseCallback \/ RemoveChannel
  \/ Swap \/ EndBatch
  \/ ConnectEstablished \/ ConnectDestroyed \/ ForceCloseInLoop \/ WriteComplete
  \/ \E f \in Raw : RawFunctor(f)

UserStep ==
  \/ \E call \in Calls : LoopCall(call)
  \/ DropRef
  \/ \E t \in Threads, call \in Calls : CallBegins(t, call)

ThreadStep(t) == CallSetsState(t) \/ CallQueues(t)

Next ==
  \/ NewConnection \/ RunRemoval \/ DestroyServer
  \/ LoopStep \/ Poll \/ DelayedForceClose
  \/ UserStep
  \/ \E t \in Threads : ThreadStep(t)

\* The loops serve their queues and dispatch what poll reported; poll returns
\* when a functor was queued (NoLostWakeup in EventLoop) or a timer is set, and
\* a timer that is due is not starved (TimersFire in TimerQueue).  Peers and
\* users need not do anything.
Fairness ==
  /\ WF_vars(LoopStep)
  /\ WF_vars((pending # <<>> \/ timer) /\ Poll)
  /\ WF_vars(RunRemoval)
  /\ SF_vars(DelayedForceClose)
  /\ \A t \in Threads : WF_vars(ThreadStep(t))

SafetySpec == Init /\ [][Next]_vars

Spec == SafetySpec /\ Fairness

-----------------------------------------------------------------------------
(* Properties. *)

TypeOK ==
  /\ state_ \in {"none", "kConnecting", "kConnected", "kDisconnecting", "kDisconnected"}
  /\ reading_ \in BOOLEAN /\ halfClosed \in BOOLEAN
  /\ events \in SUBSET {"read", "write"}
  /\ index \in {"kNew", "kAdded", "kDeleted"}
  /\ revents \in SUBSET {"in", "out", "hup"}
  /\ guard \in BOOLEAN
  /\ callback \in {"none", "message", "closing", "destroying"}
  /\ connections_ \in BOOLEAN /\ server \in BOOLEAN /\ onLoop \in BOOLEAN
  /\ removals \in Nat
  /\ pending \in Seq(Owning \cup Raw) /\ functors \in Seq(Owning \cup Raw)
  /\ phase \in {"poll", "handle", "functors"} /\ batchHolds \in BOOLEAN
  /\ timer \in BOOLEAN /\ userRef \in BOOLEAN
  /\ underway \in [Threads -> {Idle} \cup (Calls \X {"tested", "set"})]
  /\ ups \in Nat /\ downs \in Nat
  /\ aborted \in {"no", "handleClose", "remove", "removeChannel", "activeChannel",
                  "removeConnection", "server", "connectEstablished", "useAfterFree"}

\* connectEstablished comes first and once, whatever users, other threads and
\* ~TcpServer do: it never finds the connection in a state other than
\* kConnecting, and nothing reports the connection down before it is up.
EstablishedFirst ==
  /\ aborted # "connectEstablished"
  /\ ups <= 1
  /\ downs > 0 => ups = 1

\* ~TcpConnection and ~Channel: at the last reference the connection is
\* kDisconnected, its channel has left the loop, and no functor with a bare
\* pointer to it is queued.
DestroyedClean ==
  Gone => /\ state_ = "kDisconnected"
          /\ index = "kNew"
          /\ ~Queued(Raw)

\* No assert of TcpConnection (the destructor's included), TcpServer, Channel,
\* EventLoop::removeChannel or EPollPoller on the connection's path fails, and
\* nothing runs on a destroyed connection or server.
NoAssertFails == TypeOK /\ aborted = "no" /\ DestroyedClean

\* connectionCallback_ reports the connection up once and, later, down once;
\* no connection is destroyed that the user still believes to be up.
CallbacksPaired ==
  /\ ups <= 1 /\ downs <= ups
  /\ Gone => downs = 1

\* No messageCallback_ once the user was told that the connection is down: what
\* poll had already reported for it is not delivered.
NoMessageAfterDown == [][callback # "message" /\ callback' = "message" => downs = 0]_vars

\* A connection that was closed leaves the server's map and the loop.
ClosedIsReclaimed ==
  (state_ = "kDisconnected") ~> (~connections_ /\ index = "kNew" /\ removals = 0)

\* forceClose and forceCloseWithDelay close the connection, whatever the peer
\* does and whatever else the user has called.
ForceCloseCloses ==
  (timer \/ Queued({"forceCloseInLoop"})) ~> (state_ = "kDisconnected")

\* Closing, however it began, runs to its end.
ClosingCompletes == ForceCloseCloses /\ ClosedIsReclaimed

\* Not kept (README, section 5): after stopRead() a hang-up closes twice.
\* handleClose: assert(state_ == kConnected || state_ == kDisconnecting).
ClosesOnce == aborted # "handleClose"

\* Not kept (README, section 5): the posted call holds a bare pointer.
\* The comment on send(): a call from another thread is moved to the IO thread,
\* "there is no thread-safety problem".
NoUseAfterFree == aborted # "useAfterFree"
=============================================================================
