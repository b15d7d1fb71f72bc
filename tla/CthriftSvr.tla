----------------------------- MODULE CthriftSvr -----------------------------
(***************************************************************************)
(* CthriftSvr (src/cthrift/cthrift_svr.cc): one IO thread of the server,   *)
(* with its connections, the framing of their input and its time wheel of  *)
(* idle connections, and the worker threads that process the requests.     *)
(* Input is a sequence of tokens, which stand for bytes: the length word   *)
(* of a frame, then as many tokens of its body as the length says.  The IO *)
(* thread runs one callback at a time; OnMsg is split at the turns of its  *)
(* loop.  Left out: i32_curr_conn_num_, which nothing reads.               *)
(***************************************************************************)
EXTENDS Naturals, Sequences, FiniteSets

CONSTANTS
  Conns,                 \* connections, each accepted once
  Sizes,                 \* Sizes[c][k]: length of the body of the k-th request on c
  kSizeBytes,            \* sizeof(int32_t): tokens of a length word
  WorkerNum,             \* i16_worker_thread_num_
  kI8TimeWheelGridNum,
  None

ASSUME SizesAssumption == Sizes \in [Conns -> Seq(Nat)]
ASSUME SizeBytesAssumption == kSizeBytes \in Nat \ {0}
ASSUME WorkerAssumption == WorkerNum \in Nat \ {0}
ASSUME WheelAssumption == kI8TimeWheelGridNum \in Nat \ {0}

Workers  == 1..WorkerNum
Requests == UNION {{c} \X DOMAIN Sizes[c] : c \in Conns}

VARIABLES
  state,       \* "new", "up" (connected() holds), "shut" (shutdown() called), "down"
  input,       \* tokens that the peer has yet to send
  buffer,      \* tokens received and not yet retrieved
  enum_state, i32_want_size,
  wheel,       \* LocalSingConnEntryCirculBuf: buckets of connections whose
               \* ConnEntry they hold, oldest first
  idle,        \* kicks since the connection was last put into the wheel
  io,          \* the connection whose OnMsg is running, or None
  pos,         \* atom_i64_worker_thread_pos_
  queue,       \* per worker: the copied buffers and their connections
  busy,        \* per worker: the request in process(), or None
  fate,        \* of each request: "none", "queued", "answered", "unanswered"
  stopping     \* stop() has told the loops of the workers to quit

connVars   == <<state, input, buffer, enum_state, i32_want_size>>
wheelVars  == <<wheel, idle>>
workerVars == <<pos, queue, busy, fate, stopping>>
svrVars == <<connVars, wheelVars, io, workerVars>>

\* The tokens of the k-th frame of c: those of its length word, then its body.
Frame(c, k) == [i \in 1..(kSizeBytes + Sizes[c][k]) |-> <<k, i>>]
Body(c, k) == SubSeq(Frame(c, k), kSizeBytes + 1, kSizeBytes + Sizes[c][k])
Stream(c) ==
  LET upTo[k \in 0..Len(Sizes[c])] == IF k = 0 THEN <<>> ELSE upTo[k - 1] \o Frame(c, k)
  IN upTo[Len(Sizes[c])]

SvrInit ==
  /\ state = [c \in Conns |-> "new"]
  /\ input = [c \in Conns |-> Stream(c)]
  /\ buffer = [c \in Conns |-> <<>>]
  /\ enum_state = [c \in Conns |-> "kExpectFrameSize"]
  /\ i32_want_size = [c \in Conns |-> 0]
  /\ wheel = [i \in 1..kI8TimeWheelGridNum |-> {}]
  /\ idle = [c \in Conns |-> 0]
  /\ io = None
  /\ pos = 0
  /\ queue = [w \in Workers |-> <<>>]
  /\ busy = [w \in Workers |-> None]
  /\ fate = [r \in Requests |-> "none"]
  /\ stopping = FALSE

-----------------------------------------------------------------------------
(* The time wheel. *)

\* wp_conn_entry.lock() succeeds.
EntryAlive(c) == \E i \in DOMAIN wheel : c \in wheel[i]

\* back().insert(sp_conn_entry)
Insert(c) ==
  /\ wheel' = [wheel EXCEPT ![kI8TimeWheelGridNum] = @ \union {c}]
  /\ idle' = [idle EXCEPT ![c] = 0]

\* Mutant of Dying: everything in the oldest bucket.
DyingAll == Head(wheel)

\* The entries that only the oldest bucket holds.
Dying == Head(wheel) \ UNION {wheel[i] : i \in 2..kI8TimeWheelGridNum}

\* push_back on the full circular buffer drops the oldest bucket; the dtor of
\* a ConnEntry shuts its connection down if it is connected.
TimewheelKick ==
  /\ io = None
  /\ wheel' = Append(Tail(wheel), {})
  /\ state' = [c \in Conns |-> IF c \in Dying /\ state[c] = "up" THEN "shut" ELSE state[c]]
  /\ idle' = [c \in Conns |-> IF idle[c] < kI8TimeWheelGridNum THEN idle[c] + 1 ELSE idle[c]]
  /\ UNCHANGED <<input, buffer, enum_state, i32_want_size, io, workerVars>>

-----------------------------------------------------------------------------
(* Callbacks of the connections. *)

\* Mutant of OnConnUp: the entry is first put into the wheel by OnMsg.
OnConnUpUnwatched(c) ==
  /\ io = None
  /\ state[c] = "new"
  /\ state' = [state EXCEPT ![c] = "up"]
  /\ UNCHANGED <<input, buffer, enum_state, i32_want_size, wheelVars, io, workerVars>>

\* OnConn, connected: a fresh context and a fresh entry.
OnConnUp(c) ==
  /\ io = None
  /\ state[c] = "new"
  /\ state' = [state EXCEPT ![c] = "up"]
  /\ Insert(c)
  /\ UNCHANGED <<input, buffer, enum_state, i32_want_size, io, workerVars>>

\* OnConn, disconnected; the connection's buffer goes with it.
OnConnDown(c) ==
  /\ io = None
  /\ state[c] \in {"up", "shut"}
  /\ state' = [state EXCEPT ![c] = "down"]
  /\ buffer' = [buffer EXCEPT ![c] = <<>>]
  /\ UNCHANGED <<input, enum_state, i32_want_size, wheelVars, io, workerVars>>

\* The next n tokens arrive and OnMsg is called; without an entry it returns.
OnMsg(c, n) ==
  /\ io = None
  /\ state[c] \in {"up", "shut"}
  /\ n \in 1..Len(input[c])
  /\ buffer' = [buffer EXCEPT ![c] = @ \o SubSeq(input[c], 1, n)]
  /\ input' = [input EXCEPT ![c] = SubSeq(@, n + 1, Len(@))]
  /\ IF EntryAlive(c) THEN Insert(c) /\ io' = c
                      ELSE UNCHANGED <<wheelVars, io>>
  /\ UNCHANGED <<state, enum_state, i32_want_size, workerVars>>

\* Mutant of SizeIsThere: a part of the length word is enough.
SizeHasBegun(c) == Len(buffer[c]) > 0

\* readableBytes() >= sizeof(int32_t)
SizeIsThere(c) == Len(buffer[c]) >= kSizeBytes

\* Turn of OnMsg's loop: the length of a frame, readInt32().
ReadFrameSize(c) ==
  /\ io = c
  /\ enum_state[c] = "kExpectFrameSize"
  /\ SizeIsThere(c)
  /\ i32_want_size' = [i32_want_size EXCEPT ![c] = Sizes[c][Head(buffer[c])[1]]]
  /\ buffer' = [buffer EXCEPT ![c] = SubSeq(@, kSizeBytes + 1, Len(@))]
  /\ enum_state' = [enum_state EXCEPT ![c] = "kExpectFrame"]
  /\ UNCHANGED <<state, input, wheelVars, io, workerVars>>

\* more = false: what there is of a length word waits for the next OnMsg.
LeaveOnMsg(c) ==
  /\ io = c
  /\ enum_state[c] = "kExpectFrameSize"
  /\ ~SizeIsThere(c)
  /\ io' = None
  /\ UNCHANGED <<connVars, wheelVars, workerVars>>

\* Round robin.
NextWorker == IF WorkerNum = 1 THEN 1 ELSE (pos % WorkerNum) + 1

\* buffer->retrieve(i32_want_size)
Retrieved(c) == SubSeq(buffer[c], i32_want_size[c] + 1, Len(buffer[c]))

\* Mutant of NextTurn: OnMsg takes one frame per call.
ReturnAfterFrame(c) ==
  /\ io' = None
  /\ IF EntryAlive(c) THEN Insert(c) ELSE UNCHANGED wheelVars

\* After a frame the loop goes on, unless the entry is gone.
NextTurn(c) == IF EntryAlive(c) THEN Insert(c) /\ UNCHANGED io
                                ELSE io' = None /\ UNCHANGED wheelVars

\* Turn of OnMsg's loop: a whole frame is there; copy it to a worker.
DispatchFrame(c) ==
  /\ io = c
  /\ enum_state[c] = "kExpectFrame"
  /\ Len(buffer[c]) >= i32_want_size[c]
  /\ LET body == SubSeq(buffer[c], 1, i32_want_size[c])
     IN /\ queue' = [queue EXCEPT ![NextWorker] = Append(@, [conn |-> c, body |-> body])]
        /\ fate' = IF body = <<>> THEN fate ELSE [fate EXCEPT ![<<c, body[1][1]>>] = "queued"]
  /\ pos' = IF WorkerNum = 1 THEN pos ELSE (pos + 1) % WorkerNum
  /\ buffer' = [buffer EXCEPT ![c] = Retrieved(c)]
  /\ enum_state' = [enum_state EXCEPT ![c] = "kExpectFrameSize"]
  /\ NextTurn(c)
  /\ UNCHANGED <<state, input, i32_want_size, busy, stopping>>

\* Turn of OnMsg's loop with a part of a frame: nothing changes, and as the
\* thread that would receive the rest is this one, nothing ever does.
Spinning == \E c \in Conns :
  io = c /\ enum_state[c] = "kExpectFrame" /\ Len(buffer[c]) < i32_want_size[c]
Spin == Spinning /\ UNCHANGED svrVars

-----------------------------------------------------------------------------
(* Workers. *)

Req(m) == IF m.body = <<>> THEN None ELSE <<m.conn, m.body[1][1]>>
Settle(r, f) == fate' = IF r = None THEN fate ELSE [fate EXCEPT ![r] = f]

\* Process: the connection is gone, or the request is empty.
DiscardRequest(w) ==
  /\ busy[w] = None /\ queue[w] # <<>>
  /\ LET m == Head(queue[w])
     IN /\ state[m.conn] # "up" \/ m.body = <<>>
        /\ Settle(Req(m), "unanswered")
  /\ queue' = [queue EXCEPT ![w] = Tail(@)]
  /\ UNCHANGED <<connVars, wheelVars, io, pos, busy, stopping>>

\* Process: process() is called.
Begin(w) ==
  /\ busy[w] = None /\ queue[w] # <<>>
  /\ LET m == Head(queue[w])
     IN /\ state[m.conn] = "up" /\ m.body # <<>>
        /\ busy' = [busy EXCEPT ![w] = Req(m)]
  /\ queue' = [queue EXCEPT ![w] = Tail(@)]
  /\ UNCHANGED <<connVars, wheelVars, io, pos, fate, stopping>>

\* process() throws: no answer.
Throws(w) ==
  /\ busy[w] # None
  /\ Settle(busy[w], "unanswered")
  /\ busy' = [busy EXCEPT ![w] = None]
  /\ UNCHANGED <<connVars, wheelVars, io, pos, queue, stopping>>

\* process() returns: send the answer if the connection is still connected.
Answer(w) ==
  /\ busy[w] # None
  /\ Settle(busy[w], IF state[busy[w][1]] = "up" THEN "answered" ELSE "unanswered")
  /\ busy' = [busy EXCEPT ![w] = None]
  /\ UNCHANGED <<connVars, wheelVars, io, pos, queue, stopping>>

\* InitWorkerThreadPos, every five minutes in the main loop.
InitWorkerThreadPos ==
  /\ WorkerNum > 1
  /\ pos' = 0
  /\ UNCHANGED <<connVars, wheelVars, io, queue, busy, fate, stopping>>

\* stop(): the loops of the workers are told to quit, those of the IO threads
\* not.  A worker may or may not get to what is queued after that.
Stop ==
  /\ ~stopping
  /\ stopping' = TRUE
  /\ UNCHANGED <<connVars, wheelVars, io, pos, queue, busy, fate>>

OnMsgTurn == \E c \in Conns : ReadFrameSize(c) \/ LeaveOnMsg(c) \/ DispatchFrame(c)
WorkerStep(w) == DiscardRequest(w) \/ Begin(w) \/ Throws(w) \/ Answer(w)

SvrNext ==
  \/ TimewheelKick \/ OnMsgTurn \/ Spin \/ InitWorkerThreadPos \/ Stop
  \/ \E c \in Conns : OnConnUp(c) \/ OnConnDown(c) \/ \E n \in 1..Len(input[c]) : OnMsg(c, n)
  \/ \E w \in Workers : WorkerStep(w)

\* Callbacks go on, the wheel's timer fires, workers take what is queued until
\* they are stopped, and process() returns.
SvrFairness ==
  /\ WF_svrVars(OnMsgTurn) /\ WF_svrVars(TimewheelKick)
  /\ \A w \in Workers : /\ WF_svrVars(~stopping /\ (DiscardRequest(w) \/ Begin(w)))
                      /\ WF_svrVars(Throws(w) \/ Answer(w))

SvrSpec == SvrInit /\ [][SvrNext]_svrVars /\ SvrFairness

-----------------------------------------------------------------------------
SvrTypeOK ==
  /\ state \in [Conns -> {"new", "up", "shut", "down"}]
  /\ enum_state \in [Conns -> {"kExpectFrameSize", "kExpectFrame"}]
  /\ i32_want_size \in [Conns -> Nat]
  /\ wheel \in [1..kI8TimeWheelGridNum -> SUBSET Conns]
  /\ idle \in [Conns -> 0..kI8TimeWheelGridNum]
  /\ io \in Conns \union {None}
  /\ pos \in 0..WorkerNum
  /\ busy \in [Workers -> Requests \union {None}]
  /\ fate \in [Requests -> {"none", "queued", "answered", "unanswered"}]
  /\ stopping \in BOOLEAN

\* The wheel shuts down exactly the connections that have been silent for
\* kI8TimeWheelGridNum kicks: one that OnMsg has put back since, into however
\* many buckets, is kept, and no connected one is forgotten.
IdleIsKicked ==
  \A c \in Conns :
    /\ state[c] = "up" => EntryAlive(c) /\ idle[c] < kI8TimeWheelGridNum
    /\ state[c] = "shut" => ~EntryAlive(c) /\ idle[c] = kI8TimeWheelGridNum

\* Whatever way the input is cut, within a length word too, a worker gets the
\* bodies of the frames that were sent, whole, and the framing state never loses
\* its place in the stream: the next token is the first of a length word where
\* one is expected, and after the length word of an empty frame, and else the
\* first of a body.
FramesAreWhole ==
  /\ SvrTypeOK
  /\ \A w \in Workers : \A i \in DOMAIN queue[w] : LET m == queue[w][i] IN
       m.body # <<>> => m.body = Body(m.conn, m.body[1][1])
  /\ \A c \in Conns : buffer[c] # <<>> =>
       Head(buffer[c])[2] = IF enum_state[c] = "kExpectFrameSize" \/ i32_want_size[c] = 0
                            THEN 1 ELSE kSizeBytes + 1

\* The last token of request r has arrived.
Received(r) == \A i \in DOMAIN input[r[1]] : input[r[1]][i][1] # r[2]

\* Every request that is received whole on a connection that the wheel has not
\* shut is taken from the buffer and settled (answered, or not because the
\* connection went or process() threw), also when several come in one read, or
\* the end of one with the start of the next; unless the workers were stopped,
\* or the IO thread spins on a part of a frame before it gets to the request.
RequestsAreServed ==
  \A r \in Requests : Sizes[r[1]][r[2]] > 0 =>
    (state[r[1]] = "up" /\ Received(r)
       ~> \/ fate[r] \in {"answered", "unanswered"}
          \/ stopping
          \/ Spinning /\ fate[r] = "none")

\* A connection that was accepted and stays silent is shut down, unless a
\* connection of the same IO thread has sent a part of a frame.
SilentIsShut ==
  \A c \in Conns : state[c] = "up" ~> state[c] # "up" \/ input[c] # Stream(c) \/ Spinning
=============================================================================
