--------------------------- MODULE CthriftClient ---------------------------
(***************************************************************************)
(* Synchronous calls of the cthrift client: threads that each have their   *)
(* own CthriftTransport (src/cthrift/cthrift_transport.cc) and share one   *)
(* CthriftClientWorker (cthrift_client_worker.cc), whose event loop sends  *)
(* the requests over the one connection to the server and hands out the    *)
(* answers by sequence number.  The worker's server list has one entry,    *)
(* the address that the user gave: nothing else calls UpdateSvrList.       *)
(* Every call is two-way: flush is followed by read_virt.                  *)
(***************************************************************************)
EXTENDS Integers, Sequences, FiniteSets

CONSTANTS
  Callers,         \* threads that make calls
  MaxCalls,        \* bound: calls of each thread
  MaxConns,        \* bound: connections made, one after the other
  kInt32Max,       \* numeric_limits<int32_t>::max()
  kHighWaterSize   \* kI32HighWaterSize, in requests

ASSUME BoundsAssumption == MaxCalls \in [Callers -> Nat] /\ MaxConns \in Nat

AllCalls == UNION {{c} \X (1..MaxCalls[c]) : c \in Callers}
ASSUME Int32Assumption ==   \* no lap: numbers are not reused within the bounds
  kInt32Max \in Nat /\ IsFiniteSet(AllCalls) /\ kInt32Max > 3 + Cardinality(AllCalls)
ASSUME HighWaterAssumption == kHighWaterSize \in Nat \ {0}

VARIABLES
  seqId,       \* g_atomic_i32_seq_id
  stage,       \* of a caller: "idle", "reset", "flush", "read" (in read_virt)
  strId,       \* str_id of the caller's transport, and the id in its write buffer
  calls,       \* calls begun by the caller
  readBuf,     \* sp_read_tmembuf_: {} or {the answer}
  functors,    \* the worker loop's queue
  requestMap,  \* map_id_sharedcontextsp_: entries with distinct ids
  conn,        \* "down", "up" or "shut" (shutdown() called)
  epoch,       \* number of the connection
  highwater,   \* b_highwater of the connection's context
  available,   \* atomic_avaliable_conn_num_
  output,      \* requests in the connection's output buffer
  served,      \* requests the server has and has not answered
  lost         \* history: callers whose request or answer was given up

callerVars     == <<seqId, stage, strId, calls, readBuf>>
clientConnVars == <<conn, epoch, highwater, available>>
netVars        == <<output, served>>
clientVars     == <<callerVars, functors, requestMap, clientConnVars, netVars, lost>>

\* The sequence numbers start at 0; the process may have made many calls.
ClientInit ==
  /\ seqId \in {0, kInt32Max - 2}
  /\ stage = [c \in Callers |-> "idle"]
  /\ strId = [c \in Callers |-> 0]
  /\ calls = [c \in Callers |-> 0]
  /\ readBuf = [c \in Callers |-> {}]
  /\ functors = <<>>
  /\ requestMap = {}
  /\ conn = "down"
  /\ epoch = 0
  /\ highwater = FALSE
  /\ available = 0
  /\ output = <<>>
  /\ served = {}
  /\ lost = {}

-----------------------------------------------------------------------------
(* A caller's thread. *)

\* incrementAndGet of a 32-bit integer.
Incremented(n) == IF n = kInt32Max THEN -kInt32Max - 1 ELSE n + 1

\* writeMessageBegin: a new sequence number and an empty write buffer.
WriteMessageBegin(c) ==
  /\ stage[c] = "idle"
  /\ calls[c] < MaxCalls[c]
  /\ calls' = [calls EXCEPT ![c] = @ + 1]
  /\ seqId' = Incremented(seqId)
  /\ strId' = [strId EXCEPT ![c] = seqId']
  /\ stage' = [stage EXCEPT ![c] = IF seqId' = kInt32Max THEN "reset" ELSE "flush"]
  /\ UNCHANGED <<readBuf, functors, requestMap, clientConnVars, netVars, lost>>

\* Mutant of ResetSeqId: the counter restarts one too low.
ResetSeqIdToZero(c) ==
  /\ stage[c] = "reset"
  /\ seqId' = 0
  /\ strId' = [strId EXCEPT ![c] = 1]
  /\ stage' = [stage EXCEPT ![c] = "flush"]
  /\ UNCHANGED <<calls, readBuf, functors, requestMap, clientConnVars, netVars, lost>>

\* writeMessageBegin at the largest number: getAndSet(1), a step of its own.
ResetSeqId(c) ==
  /\ stage[c] = "reset"
  /\ seqId' = 1
  /\ strId' = [strId EXCEPT ![c] = 1]
  /\ stage' = [stage EXCEPT ![c] = "flush"]
  /\ UNCHANGED <<calls, readBuf, functors, requestMap, clientConnVars, netVars, lost>>

\* flush: empty the read buffer, post a copy of the shared context.  Its
\* timeout token, new for every call, is stood for by the number of the call.
Flush(c) ==
  /\ stage[c] = "flush"
  /\ readBuf' = [readBuf EXCEPT ![c] = {}]
  /\ functors' = Append(functors, [type |-> "send", id |-> strId[c], caller |-> c, call |-> calls[c]])
  /\ stage' = [stage EXCEPT ![c] = "read"]
  /\ UNCHANGED <<seqId, strId, calls, requestMap, clientConnVars, netVars, lost>>

\* read_virt: spins until the read buffer has something; there is no timeout.
ReadVirt(c) ==
  /\ stage[c] = "read"
  /\ readBuf[c] # {}
  /\ stage' = [stage EXCEPT ![c] = "idle"]
  /\ UNCHANGED <<seqId, strId, calls, readBuf, functors, requestMap, clientConnVars, netVars, lost>>

-----------------------------------------------------------------------------
(* Functors of the worker's loop. *)

Running(type) == functors # <<>> /\ Head(functors).type = type
Notice(type) == <<[type |-> type, epoch |-> epoch]>>

\* The context that a notice is about is that of the present connection.
IsCurrent(f) == f.epoch = epoch /\ conn # "down"

\* CheckConnHealthy, by which ChooseNextReadyConn takes the one server or none.
CheckConnHealthy == conn = "up" /\ ~highwater

\* GetWriteBuf: what the transport's write buffer holds now.
GetWriteBuf(c) == [id |-> strId[c], caller |-> c, call |-> calls[c]]

\* map_id_sharedcontextsp_[str_id] = sp_shared
Registered(f) ==
  {e \in requestMap : e.id # f.id} \union {[id |-> f.id, caller |-> f.caller, call |-> f.call]}

\* SendTransportReq without a healthy connection: the request is dropped.
SendDropped ==
  /\ Running("send")
  /\ ~CheckConnHealthy
  /\ lost' = lost \union {Head(functors).caller}
  /\ functors' = Tail(functors)
  /\ UNCHANGED <<callerVars, requestMap, clientConnVars, netVars>>

\* SendTransportReq, and the socket takes the request at once.
SendDirect ==
  /\ Running("send")
  /\ CheckConnHealthy
  /\ output = <<>>
  /\ served' = served \union {GetWriteBuf(Head(functors).caller)}
  /\ requestMap' = Registered(Head(functors))
  /\ functors' = Tail(functors) \o Notice("writeComplete")
  /\ UNCHANGED <<callerVars, clientConnVars, output, lost>>

\* SendTransportReq, and the request stays in the output buffer, which may
\* reach the high-water mark.
SendBuffered ==
  /\ Running("send")
  /\ CheckConnHealthy
  /\ output' = Append(output, GetWriteBuf(Head(functors).caller))
  /\ requestMap' = Registered(Head(functors))
  /\ functors' = Tail(functors) \o (IF Len(output) + 1 = kHighWaterSize
                                    THEN Notice("highWater") ELSE <<>>)
  /\ UNCHANGED <<callerVars, clientConnVars, served, lost>>

\* Mutant of OnWriteComplete: the flag is kept while others are available.
OnWriteCompleteIfNone ==
  /\ Running("writeComplete")
  /\ highwater' = (highwater /\ ~(IsCurrent(Head(functors)) /\ available = 0))
  /\ available' = available + 1
  /\ functors' = Tail(functors)
  /\ UNCHANGED <<callerVars, requestMap, conn, epoch, netVars, lost>>

OnWriteComplete ==
  /\ Running("writeComplete")
  /\ highwater' = (highwater /\ ~IsCurrent(Head(functors)))
  /\ available' = available + 1
  /\ functors' = Tail(functors)
  /\ UNCHANGED <<callerVars, requestMap, conn, epoch, netVars, lost>>

\* decrementAndGet, adjusted to 0
Decremented == IF available <= 1 THEN 0 ELSE available - 1

OnHighWaterMark ==
  /\ Running("highWater")
  /\ highwater' = (highwater \/ IsCurrent(Head(functors)))
  /\ available' = Decremented
  /\ functors' = Tail(functors)
  /\ UNCHANGED <<callerVars, requestMap, conn, epoch, netVars, lost>>

-----------------------------------------------------------------------------
(* The connection. *)

\* OnConn, connected, after TcpClient has connected again: a fresh context.
ClientConnUp ==
  /\ conn = "down"
  /\ epoch < MaxConns
  /\ conn' = "up"
  /\ epoch' = epoch + 1
  /\ available' = available + 1
  /\ UNCHANGED <<callerVars, functors, requestMap, highwater, netVars, lost>>

\* OnConn, disconnected.  What was not answered never will be, and the
\* entries of requestMap stay.
ClientConnDown ==
  /\ conn # "down"
  /\ conn' = "down"
  /\ available' = IF highwater THEN available ELSE Decremented
  /\ highwater' = FALSE
  /\ lost' = lost \union {r.caller : r \in served} \union {output[i].caller : i \in DOMAIN output}
  /\ output' = <<>>
  /\ served' = {}
  /\ UNCHANGED <<callerVars, functors, requestMap, epoch>>

\* TcpConnection::handleWrite sends n of the buffered requests.
HandleWrite(n) ==
  /\ n \in 1..Len(output)
  /\ served' = served \union {output[i] : i \in 1..n}
  /\ output' = SubSeq(output, n + 1, Len(output))
  /\ functors' = IF output' = <<>> THEN functors \o Notice("writeComplete") ELSE functors
  /\ UNCHANGED <<callerVars, requestMap, clientConnVars, lost>>

\* Mutant of IsTimeout: the token dies with flush().
IsTimeoutAlways(e) == TRUE

\* The caller has made another call since.
IsTimeout(e) == e.call # calls[e.caller]

\* Mutant of Erased: the entry stays.
ErasedNothing(id) == requestMap

\* map_id_sharedcontextsp_.erase(str_id)
Erased(id) == {e \in requestMap : e.id # id}

\* OnMsg with the whole frame of an answer to r (with a part of one it waits
\* for the rest), HandleMsg, and HandleThriftMsg of a positive number.  The
\* caller may go on between ResetReadBuf and the erase; they are one step, as
\* only the loop touches the map and the erase takes its number from flush's
\* copy of the context.
ClientOnMsg(r) ==
  /\ r \in served
  /\ r.id > 0
  /\ served' = served \ {r}
  /\ readBuf' = [c \in Callers |->
                   IF \E e \in requestMap : e.id = r.id /\ e.caller = c /\ ~IsTimeout(e)
                   THEN {r} ELSE readBuf[c]]
  /\ requestMap' = Erased(r.id)
  /\ UNCHANGED <<seqId, stage, strId, calls, functors, clientConnVars, output, lost>>

\* HandleThriftMsg of any other number: conn->shutdown().
OnBadMsg(r) ==
  /\ r \in served
  /\ r.id <= 0
  /\ served' = served \ {r}
  /\ conn' = "shut"
  /\ lost' = lost \union {r.caller}
  /\ UNCHANGED <<callerVars, functors, requestMap, epoch, highwater, available, output>>

-----------------------------------------------------------------------------
RunFunctor ==
  \/ SendDropped \/ SendDirect \/ SendBuffered
  \/ OnWriteComplete \/ OnHighWaterMark
Proceed(c) == ResetSeqId(c) \/ Flush(c) \/ ReadVirt(c)
Write == \E n \in 1..Len(output) : HandleWrite(n)
ServerAnswers(r) == ClientOnMsg(r) \/ OnBadMsg(r)

ClientNext ==
  \/ RunFunctor \/ Write \/ ClientConnUp \/ ClientConnDown
  \/ \E c \in Callers : WriteMessageBegin(c) \/ Proceed(c)
  \/ \E r \in served : ServerAnswers(r)

\* Threads are scheduled, the loop goes on, and a server that stays connected
\* reads what is sent and answers every request.
ClientFairness ==
  /\ WF_clientVars(RunFunctor) /\ WF_clientVars(Write)
  /\ \A c \in Callers : WF_clientVars(Proceed(c)) /\ WF_clientVars(\E r \in served : r.caller = c /\ ServerAnswers(r))

ClientSpec == ClientInit /\ [][ClientNext]_clientVars /\ ClientFairness

-----------------------------------------------------------------------------
ClientTypeOK ==
  /\ stage \in [Callers -> {"idle", "reset", "flush", "read"}]
  /\ conn \in {"down", "up", "shut"}
  /\ epoch \in 0..MaxConns
  /\ highwater \in BOOLEAN
  /\ available \in Nat
  /\ lost \subseteq Callers

\* An answer that read_virt finds is the answer to the call it was made for,
\* also when the sequence numbers start again and when a new call is made
\* while old answers and stale entries of requestMap are about.
AnswersMatch ==
  \A c \in Callers : stage[c] = "read" => readBuf[c] \subseteq {GetWriteBuf(c)}

\* HandleThriftMsg leaves no entry behind: each is of a call still waited for.
EntriesAreAwaited ==
  /\ ClientTypeOK
  /\ \A e \in requestMap : stage[e.caller] = "read" /\ ~IsTimeout(e) /\ readBuf[e.caller] = {}

\* A connection marked as above its high-water mark, which no request is sent
\* on any more, is bound to be unmarked: the notice that does it is to come.
HighWaterClears ==
  highwater => \/ output # <<>>
               \/ \E i \in DOMAIN functors :
                    functors[i].type = "writeComplete" /\ functors[i].epoch = epoch

\* A call returns, unless there was no healthy connection when it was sent,
\* the connection was lost, or its number was not positive.
HangsOnlyWhenLost ==
  \A c \in Callers : stage[c] # "idle" ~> stage[c] = "idle" \/ c \in lost

\* "exclude disconn/highwater/occupied": atomic_avaliable_conn_num_ counts the
\* connections that can be used, at least while nothing is going on.
\* Not kept (README, section 5).
AvailableIsExact ==
  functors = <<>> /\ conn # "shut" => available = IF CheckConnHealthy THEN 1 ELSE 0
=============================================================================
