------------------------------ MODULE TcpSend ------------------------------
(***************************************************************************)
(* The sending side of muduo::net::TcpConnection (TcpConnection.cpp):      *)
(* send, sendInLoop, handleWrite, shutdown, shutdownInLoop, forceClose,    *)
(* forceCloseWithDelay, and what handleClose does to it.  The loop thread  *)
(* calls sendInLoop and shutdownInLoop on the spot; another thread tests   *)
(* state_, (to close) sets state_, and posts the call to the loop, in      *)
(* three steps.  A close by the loop between the test and the assignment   *)
(* is overwritten: the connection is then kDisconnecting once more.        *)
(*                                                                         *)
(* A byte is a pair <<source, n>>: the n-th byte that this thread gave to  *)
(* send().                                                                 *)
(***************************************************************************)
EXTENDS Naturals, Sequences, FiniteSets, Functions

CONSTANTS
  Threads,          \* threads other than the loop thread that call send
  Closers,          \* of these, and of Loop, the ones that call shutdown,
                    \* forceClose and forceCloseWithDelay
  Loop,             \* the loop thread
  Lengths,          \* lengths of messages
  highWaterMark_,
  MaxBytes,         \* bound on the bytes each thread sends
  MaxPosted         \* bound on the calls posted to the loop

ASSUME SendAssumption ==
  /\ Loop \notin Threads
  /\ Closers \subseteq Threads \cup {Loop}
  /\ Lengths \subseteq Nat
  /\ highWaterMark_ \in Nat \ {0}
  /\ MaxBytes \in Nat /\ MaxPosted \in Nat

Sources == Threads \cup {Loop}
Closing == {"shutdown", "forceClose", "forceCloseWithDelay"}

VARIABLES
  state_,         \* kConnected, kDisconnecting or kDisconnected
  outputBuffer_,
  writing,        \* channel_->isWriting()
  halfClosed,     \* socket_->shutdownWrite() was called
  broken,         \* the peer has reset the connection: writes fail
  sent,           \* the bytes write() has taken
  notice,         \* the callback the last step queued: "writeComplete",
                  \* "highWaterMark" or "none"
  posted,         \* calls posted to the loop
  timer,          \* a timer will call forceClose
  closed,         \* handleClose has run at least once
  underway,       \* per thread: the call it is in
  tested,         \* threads that have tested state_ and not yet set it
  called,         \* per source: number of bytes given to send()
  promised        \* bytes a thread had given to send() before it called shutdown

kernelVars == <<halfClosed, broken, sent>>
loopVars   == <<outputBuffer_, writing, notice, timer, closed>>
userVars   == <<underway, tested, called, promised>>
vars       == <<state_, loopVars, kernelVars, posted, userVars>>

Returned == [step |-> "none", data |-> <<>>]

\* The next len bytes of a source.
Bytes(s, len) == [i \in 1..len |-> <<s, called[s] + i>>]

Init ==
  /\ state_ = "kConnected"
  /\ outputBuffer_ = <<>> /\ writing = FALSE
  /\ halfClosed = FALSE /\ broken = FALSE /\ sent = <<>>
  /\ notice = "none"
  /\ posted = <<>> /\ timer = FALSE /\ closed = FALSE /\ tested = {}
  /\ underway = [t \in Threads |-> Returned]
  /\ called = [s \in Sources |-> 0]
  /\ promised = {}

-----------------------------------------------------------------------------
(* In the loop thread. *)

\* The outcomes of write(fd, data): the number of bytes it took.  A connection
\* that is broken or shut down for writing takes nothing.
Taken(data) == IF broken \/ halfClosed THEN {0} ELSE 0..Len(data)

\* Mutant of CanWriteNow: what is buffered is overtaken.
CanAlwaysWriteNow == TRUE

\* "if no thing in output queue, try writing directly"
CanWriteNow == ~writing /\ outputBuffer_ = <<>>

\* sendInLoop.  With nothing buffered it writes at once.  What was not written
\* is buffered, unless write failed with EPIPE or ECONNRESET.
SendInLoop(data) ==
  IF state_ = "kDisconnected"
    THEN notice' = "none" /\ UNCHANGED <<outputBuffer_, writing, sent>>
    ELSE \E k \in IF CanWriteNow THEN Taken(data) ELSE {0} :
           LET faultError == CanWriteNow /\ (broken \/ halfClosed)
               remaining  == SubSeq(data, k + 1, Len(data))
               oldLen     == Len(outputBuffer_)
           IN  /\ sent' = sent \o SubSeq(data, 1, k)
               /\ IF ~faultError /\ remaining # <<>>
                    THEN /\ outputBuffer_' = outputBuffer_ \o remaining
                         /\ writing' = TRUE
                         /\ notice' = IF /\ oldLen + Len(remaining) >= highWaterMark_
                                         /\ oldLen < highWaterMark_
                                        THEN "highWaterMark" ELSE "none"
                    ELSE /\ notice' = IF CanWriteNow /\ ~faultError
                                        THEN "writeComplete" ELSE "none"
                         /\ UNCHANGED <<outputBuffer_, writing>>

\* Mutant of ShutdownInLoop: isWriting() is not tested.
ShutdownAtOnce == halfClosed' = TRUE

ShutdownInLoop == halfClosed' = (halfClosed \/ ~writing)

Send(len) ==
  /\ state_ = "kConnected"
  /\ called[Loop] + len <= MaxBytes
  /\ SendInLoop(Bytes(Loop, len))
  /\ called' = [called EXCEPT ![Loop] = @ + len]
  /\ UNCHANGED <<state_, halfClosed, broken, posted, timer, closed, underway, tested, promised>>

Shutdown ==
  /\ Loop \in Closers
  /\ state_ = "kConnected"
  /\ state_' = "kDisconnecting"
  /\ ShutdownInLoop
  /\ promised' = {<<Loop, n>> : n \in 1..called[Loop]}
  /\ UNCHANGED <<loopVars, broken, sent, posted, underway, tested, called>>

Call(step, data) == [step |-> step, data |-> data]

\* forceClose in the loop thread; forceCloseInLoop is queued all the same.
ForceClose ==
  /\ Loop \in Closers
  /\ state_ # "kDisconnected"
  /\ Len(posted) < MaxPosted
  /\ state_' = "kDisconnecting"
  /\ posted' = Append(posted, Call("forceClose", <<>>))
  /\ UNCHANGED <<loopVars, kernelVars, userVars>>

\* (A second timer would only call forceClose once more.)
ForceCloseWithDelay ==
  /\ Loop \in Closers
  /\ state_ # "kDisconnected"
  /\ Len(posted) < MaxPosted
  /\ state_' = "kDisconnecting"
  /\ timer' = TRUE
  /\ UNCHANGED <<outputBuffer_, writing, notice, closed, kernelVars, posted, userVars>>

\* The timer of forceCloseWithDelay calls forceClose.
TimerFires ==
  /\ timer
  /\ timer' = FALSE
  /\ IF state_ # "kDisconnected"
       THEN /\ state_' = "kDisconnecting"
            /\ posted' = Append(posted, Call("forceClose", <<>>))
       ELSE UNCHANGED <<state_, posted>>
  /\ UNCHANGED <<outputBuffer_, writing, notice, closed, kernelVars, userVars>>

\* handleClose: disableAll() ends the interest in writing.
HandleClose ==
  /\ state_' = "kDisconnected"
  /\ writing' = FALSE
  /\ closed' = TRUE

\* doPendingFunctors calls the oldest posted functor.
RunPosted ==
  /\ posted # <<>>
  /\ posted' = Tail(posted)
  /\ \/ /\ Head(posted).step = "send"
        /\ SendInLoop(Head(posted).data)
        /\ UNCHANGED <<state_, halfClosed, timer, closed>>
     \/ /\ Head(posted).step = "shutdown"
        /\ ShutdownInLoop
        /\ UNCHANGED <<state_, loopVars, sent>>
     \/ /\ Head(posted).step = "forceClose"
        /\ IF state_ # "kDisconnected" THEN HandleClose ELSE UNCHANGED <<state_, writing, closed>>
        /\ UNCHANGED <<outputBuffer_, notice, halfClosed, timer, sent>>
     \/ /\ Head(posted).step = "forceCloseWithDelay"
        /\ timer' = TRUE
        /\ UNCHANGED <<state_, outputBuffer_, writing, notice, halfClosed, closed, sent>>
  /\ UNCHANGED <<broken, userVars>>

\* Mutant of Drained: the shutdown is forgotten.
DrainedForgetsShutdown ==
  /\ writing' = FALSE
  /\ notice' = "writeComplete"
  /\ UNCHANGED halfClosed

\* handleWrite has emptied the output buffer.
Drained ==
  /\ writing' = FALSE
  /\ notice' = "writeComplete"
  /\ halfClosed' = (halfClosed \/ state_ = "kDisconnecting")

\* handleWrite, when the socket is writable: some bytes are taken.  (A write
\* that fails is logged and changes nothing.)
HandleWrite ==
  /\ writing /\ ~broken /\ ~halfClosed
  /\ \E k \in 1..Len(outputBuffer_) :
       /\ sent' = sent \o SubSeq(outputBuffer_, 1, k)
       /\ outputBuffer_' = SubSeq(outputBuffer_, k + 1, Len(outputBuffer_))
  /\ IF outputBuffer_' = <<>>
       THEN Drained
       ELSE notice' = "none" /\ UNCHANGED <<writing, halfClosed>>
  /\ UNCHANGED <<state_, broken, posted, timer, closed, userVars>>

\* The peer closes or resets the connection and the channel reports it: a
\* channel without any interest, as disableAll() leaves it, reports nothing.
PeerCloses ==
  /\ state_ # "kDisconnected"
  /\ ~closed \/ writing
  /\ HandleClose
  /\ UNCHANGED <<outputBuffer_, kernelVars, notice, posted, timer, userVars>>

\* The peer resets the connection; the loop finds out later.
Reset ==
  /\ ~broken
  /\ broken' = TRUE
  /\ UNCHANGED <<state_, loopVars, halfClosed, sent, posted, userVars>>

-----------------------------------------------------------------------------
(* In another thread. *)

\* send: the test, then the post.
SendTests(t, len) ==
  /\ underway[t].step = "none"
  /\ state_ = "kConnected"
  /\ called[t] + len <= MaxBytes
  /\ Len(posted) < MaxPosted
  /\ underway' = [underway EXCEPT ![t] = Call("send", Bytes(t, len))]
  /\ called' = [called EXCEPT ![t] = @ + len]
  /\ UNCHANGED <<state_, loopVars, kernelVars, posted, tested, promised>>

\* The states in which shutdown, forceClose and forceCloseWithDelay go on.
MayClose(call) == state_ = "kConnected" \/ (call # "shutdown" /\ state_ = "kDisconnecting")

\* shutdown, forceClose, forceCloseWithDelay: the test, the assignment, then
\* the post.
CloseTests(t, call) ==
  /\ t \in Closers
  /\ underway[t].step = "none"
  /\ MayClose(call)
  /\ Len(posted) < MaxPosted
  /\ underway' = [underway EXCEPT ![t] = Call(call, <<>>)]
  /\ tested' = tested \union {t}
  /\ promised' = IF call = "shutdown" THEN {<<t, n>> : n \in 1..called[t]} ELSE promised
  /\ UNCHANGED <<state_, loopVars, kernelVars, posted, called>>

\* The assignment is made whatever state_ is by now.
CloseSets(t) ==
  /\ t \in tested
  /\ tested' = tested \ {t}
  /\ state_' = "kDisconnecting"
  /\ UNCHANGED <<loopVars, kernelVars, posted, underway, called, promised>>

Post(t) ==
  /\ underway[t].step # "none" /\ t \notin tested
  /\ posted' = Append(posted, underway[t])
  /\ underway' = [underway EXCEPT ![t] = Returned]
  /\ UNCHANGED <<state_, loopVars, kernelVars, tested, called, promised>>

-----------------------------------------------------------------------------
ThreadStep(t) ==
  \/ \E len \in Lengths : SendTests(t, len)
  \/ \E call \in Closing : CloseTests(t, call)
  \/ CloseSets(t) \/ Post(t)

Next ==
  \/ \E len \in Lengths : Send(len)
  \/ Shutdown \/ ForceClose \/ ForceCloseWithDelay
  \/ TimerFires \/ RunPosted \/ HandleWrite \/ PeerCloses \/ Reset
  \/ \E t \in Threads : ThreadStep(t)

\* The loop serves posted functors, timers and a writable socket, and the peer
\* keeps reading, so that the socket becomes writable.
Fairness ==
  /\ WF_vars(RunPosted) /\ WF_vars(HandleWrite) /\ WF_vars(TimerFires)
  /\ \A t \in Threads : WF_vars(CloseSets(t) \/ Post(t))

SafetySpec == Init /\ [][Next]_vars

Spec == SafetySpec /\ Fairness

-----------------------------------------------------------------------------
(* Properties. *)

ByteSet == Sources \X (1..MaxBytes)

TypeOK ==
  /\ state_ \in {"kConnected", "kDisconnecting", "kDisconnected"}
  /\ outputBuffer_ \in Seq(ByteSet) /\ sent \in Seq(ByteSet)
  /\ writing \in BOOLEAN /\ halfClosed \in BOOLEAN /\ broken \in BOOLEAN
  /\ notice \in {"none", "writeComplete", "highWaterMark"}
  /\ timer \in BOOLEAN /\ closed \in BOOLEAN /\ tested \in SUBSET Threads
  /\ posted \in Seq([step : {"send"} \union Closing, data : Seq(ByteSet)])
  /\ underway \in [Threads -> [step : {"none", "send"} \union Closing, data : Seq(ByteSet)]]
  /\ called \in [Sources -> 0..MaxBytes]
  /\ promised \in SUBSET ByteSet

\* The loop watches for writability exactly while bytes are buffered: no busy
\* loop with nothing to write, and, until handleClose, no buffered byte that
\* nobody will write.
WritingWhileBuffered ==
  /\ writing => outputBuffer_ # <<>>
  /\ (outputBuffer_ # <<>> /\ ~closed) => writing

\* The connection is over, and no thread is about to overwrite its state.
Over == state_ = "kDisconnected" /\ tested = {}

\* sendInLoop and handleWrite together implement a byte stream: no byte
\* overtakes another; before handleClose the write side is shut down only with
\* nothing buffered; a connection that was closed, and was made kDisconnecting
\* again by an assignment that came late, still keeps the order.
Stream == INSTANCE ByteStream
            WITH out <- sent, toGo <- outputBuffer_, fin <- halfClosed,
                 lossy <- closed, ended <- Over

ImplementsStream == Stream!StreamSpec

\* The bytes of each source are in the order in which it gave them to send().
InOrder(s) == \A i, j \in DOMAIN s : i < j /\ s[i][1] = s[j][1] => s[i][2] < s[j][2]

\* The bytes of one thread leave in the order of its calls, and none twice.
OrderedPerSource == InOrder(sent \o outputBuffer_)

\* Direct and buffered writes keep the order of the calls, and the loop neither
\* forgets buffered bytes nor spins without any.
BytesInOrder == TypeOK /\ WritingWhileBuffered /\ OrderedPerSource

\* When the write side is shut down, everything that was given to send() before
\* shutdown() was called has been written.  (The comments at shutdown() and in
\* handleWrite: "if there is data not yet written, it must not be closed, but
\* only after it is written".)
ShutdownAfterData == halfClosed => promised \subseteq Range(sent) \/ broken

\* shutdown() leads to the half-close, unless the connection ends otherwise.
ShutdownHappens ==
  (state_ = "kDisconnecting") ~> (halfClosed \/ broken \/ closed)

\* A high-water notice, on which a user stops producing, is followed by a
\* write-complete notice, on which it starts again.
HighWaterIsRelieved ==
  (notice = "highWaterMark") ~>
     (notice = "writeComplete" \/ broken \/ closed)

\* What is started is brought to its end: a shutdown, and a throttling.
SendingProgresses == ShutdownHappens /\ HighWaterIsRelieved
=============================================================================
