# A formal model of the muduo reactor in tstmuduo

The repository collects a modified copy of the muduo network library
(`src/muduo/net`), its base library (`src/muduo/base`), an RPC framework on top
of them (`src/cthrift`) and many example programs. This project models the part
everything else stands on, the reactor (the event loop, its timers, the
connections that live on it, the client that keeps a connection up), the
concurrent parts of the base library (thread pool, asynchronous log, Thrift
connection pool) and the request paths of the cthrift server and client. The
modules are TLA+; TLC checks them on small instances, and for the reactor and the
base library TLAPS proves the safety properties for every instance.

Asserts are live in the build (there is no `-DNDEBUG`), so "no assert fails" is
a property of the program and not of a debug build only.

## 1. Inventory

| Part | State | Operations | What makes it hard | Correct when |
|---|---|---|---|---|
| `EventLoop` | `quit_`, `pendingFunctors_`, `callingPendingFunctors_`, the wakeup eventfd, active channels | `loop`, `runInLoop`, `queueInLoop`, `quit`, `wakeup`, `doPendingFunctors` | other threads post and quit while the loop is about to sleep in a poll without timeout | no wakeup and no quit is lost; functors run once, in order, without starving IO |
| `EPollPoller`, `Channel` | `events_` list, per channel `index_`, interest, `tie_` | `poll`, `updateChannel`, `removeChannel`, `handleEvent` | events reported by one poll are dispatched after other callbacks have changed or removed channels | no removed channel is dispatched; a full event list starves nobody |
| `EventLoopThread` | `loop_`, the thread | `startLoop`, `threadFunc`, destructor | `loop_` is read without its lock while the thread resets it | `startLoop` returns a live loop; the destructor stops it |
| `EventLoopThreadPool` | loops, `next_` | `start`, `getNextLoop` | none of its own: all in the base loop | round robin |
| `TimerQueue`, `Timer` | two sets of timers, cancelling set, timerfd | `addTimer`, `cancel`, `handleRead`, `reset` | cancel and add inside callbacks and from other threads; reuse of addresses | both sets agree; nothing used is deleted; the timerfd is never late |
| `TcpConnection` | `state_`, `reading_`, buffers, channel | `send`, `shutdown`, `forceClose`, `startRead`, `stopRead`, the four handlers, `connectEstablished`, `connectDestroyed` | life time shared by the server's map, queued functors and users; state tested in one thread and set in another | closed once, up and down reported once, destroyed after it has left the loop; bytes in order |
| `TcpServer` | `connections_` | `newConnection`, `removeConnection`, destructor | runs in another loop than its connections | every closed connection leaves the map |
| `TcpClient`, `Connector` | two `connect_` flags, `state_`, `channel_`, retry delay, `connection_` | `connect`, `stop`, `disconnect`, `restart`, `retry`, handlers, destructors | retry timers that cannot be cancelled, functors with bare pointers, stop from other threads | no socket leaked, no retry lost, stop is final |
| `ThreadPool` | `queue_`, `running_`, a mutex and two conditions | `start`, `run`, `take`, `stop` | one notify per item, tasks that call `run`, stop with a full queue | no notify is wasted; tasks run; `stop` returns |
| `AsyncLogging` | two front and two spare buffers, `buffers_`, `running_` | `append`, `threadFunc`, `start`, `stop` | buffers change hands and are recycled; more than 25 are dropped; `stop` notifies without the lock | no line lost, doubled or overtaken without a notice; `stop` returns |
| Thrift connection pool | idle and active connections per host, `mTotalConn` | `get_connection`, `return_connection`, `destroy_connection` | two limits, one condition for all hosts | the books balance; nobody waits beside a connection it could have |
| cthrift server | per connection a framing state, the time wheel; request queues of the workers | `OnConn`, `OnMsg`, `TimewheelKick`, `Process`, `stop` | frames in pieces; connections that go while their requests are queued; the wheel against messages | whole frames, once; silent connections shut and no others; requests that have arrived are served |
| cthrift client | sequence numbers, map of outstanding requests, connection with its high-water flag | `flush`, `read_virt`, `SendTransportReq`, `OnMsg`, `OnConn`, water marks | many callers and one connection; numbers that wrap; lost connections | every caller gets its own answer, or is known to have lost it |
| `Acceptor`, `Socket`, `Buffer`, `LogFile`, HTTP, protobuf RPC, blocking queues | – | – | chunked input, descriptor exhaustion | see the plan |

`PROJECT.json` lists every component with its status and every hazard at its
line.

Interactions: other threads reach a loop only through `queueInLoop` (a mutex and
the eventfd); `TimerQueue` and `TcpConnection` are reached through it, so that
their own state is touched by the loop thread alone, with three exceptions which
the models keep as separate steps: `TcpConnection::state_`, the two `connect_`
flags of a client, and the `Timer` that `addTimer` reads after it was handed
over. `TcpServer` and its connections exchange functors between two loops.

## 2. Plan

1. `EventLoop` with the abstract `FunctorQueue`, and its proofs (done).
2. `EventLoopThread`, which extends `EventLoop` with the thread that runs it (done).
3. `TimerQueue` and its proofs (done).
4. `TcpConnection`, with the server, channel and poller it interacts with, and its
   proofs (done).
5. `TcpSend` with the abstract `ByteStream`, and the proof that it implements it (done).
6. `TcpClient` with its `Connector`, and its proofs (done).
7. `ThreadPool`: blocked producers and consumers at `stop()` (done).
8. `AsyncLogging`: double buffering, dropping, what is written at stop (done).
9. The Thrift connection pool, the cthrift server's framing and time wheel, the
   cthrift client's calls (done).
10. Left: `Acceptor` with `EventLoopThreadPool`; the asynchronous cthrift calls
    and a client with several servers; `RpcChannel`; as pure operators `Buffer`
    and the `HttpContext` parser over input in pieces; the rolling of `LogFile`.

Theorems, in this order: the event loop, the timer queue, `ThreadPool!NoLostSignal`,
`AsyncLogging!NoAssertFails`, the two invariants of the Thrift connection pool,
`TcpSend!BytesInOrder` and `ImplementsStream`, the invariants of `TcpClient`, those of
`TcpConnection`, `AsyncLogging!LogIsInOrder`, the invariants of `CthriftSvr` and
`CthriftClient`, and the safety of `EventLoopThread` (all done). Every invariant that a
run checks is a theorem.

## 3. Modules

**FunctorQueue, EventLoop.** The loop thread is a program counter (`pc`) over the
steps of `loop()`: test `quit_`, poll, handle the active channels, swap the
functor vector, call the functors. `queueInLoop` and `quit` of another thread
are two steps, the change and the `wakeup()`; between them `wakeupDue[t]` holds.
User code of the loop thread may queue functors and call `quit()` whenever a
callback runs, and before `loop()`. `poll` returns at most as many events as
`events_` has room for, and doubles it when it was full. `FunctorQueue` is what
`queueInLoop` promises: a FIFO queue whose elements are called once, one at a
time; the refinement maps the queue to `functors \o pendingFunctors_`.

**EventLoopThread** extends `EventLoop`: the stages of `threadFunc`, the pointer
`loop_`, and the owner that calls `startLoop` and the destructor. The
destructor's test of `loop_` and its use are two steps, as in the code.

**TimerQueue.** A heap of `Timer` objects at addresses that are reused after
`delete`; the two sets `timers_` and `activeTimers_`; `handleRead` in steps
(take the expired timers, call each, `reset`) between which other callbacks and
threads act; the timerfd, which counts down. Time is relative, so no clock needs
a bound. `howMuchTimeFromNow`'s minimal delay is one tick.

**TcpConnection.** One connection, from `TcpServer::newConnection` to its
destruction, with the server on the same loop or on another (`onLoop`). The
functor queue of the IO loop is explicit and its elements either own a pointer
or hold a bare `this`; `Held` says who still owns the connection, and `Gone`
that it is destroyed. The channel has its interest, its `index_` in the poller
and the events poll has reported but the loop not yet dispatched. Handlers that
call user code are split there, so that user calls nest in them. `aborted` names
the assert that failed, or the object that was used after its destruction.

**TcpSend, ByteStream.** The bytes: each is `<<thread, n>>`. `sendInLoop` writes
what the kernel takes and buffers the rest, `handleWrite` drains, `shutdown`
half-closes at once or after draining, `forceClose` (also by the timer of
`forceCloseWithDelay`) posts `handleClose`. A thread's closing call is three steps:
it tests `state_`, sets it, and posts. As in the code the assignment is made whatever
`state_` has become, so that one that comes late makes a `kDisconnected` connection
`kDisconnecting` again; `tested` holds the threads between the two steps, and `closed`
remembers that `handleClose` has run. `ByteStream` is the promise: bytes leave in
the order accepted, and the write side is closed only when none is left to go. From
`handleClose` on the stream is `lossy`, its end may come with bytes left, but no byte
leaves out of order; when no thread can overwrite the state any more, it has `ended`.

**TcpClient.** `TcpClient` and `Connector`: `connect(2)` by its three outcomes,
retry timers with doubling delays, `restart`, `stop`, and the destructor in the
loop thread. `sockets` counts open descriptors. The destructor may come while the
connector's own `resetChannel` is queued, in which case `~Connector`'s
`assert(!channel_)` fails (`aborted = "~Connector"`, and the process ends: `Aborted`).
`Poll` makes one assumption on timing: a retry timer is not reported while a
`resetChannel` is queued. The timer is set, 500 ms or more ahead, in the step that
queues `resetChannel`, and the loop calls that functor in the same round; the
assumption is that the round takes less than the delay.

**ThreadPool.** Workers and producers are program counters; what the code does under
the mutex is one action. `notify` wakes one of the threads in that condition's wait,
any one; a woken thread has to test again; a wait may also end spuriously. Tasks may
call `run()` on their own pool. `maxQueueSize_` is 0 (unbounded) or a bound.

**AsyncLogging.** Buffers are sequences of numbered lines, `NULL` for an empty
`unique_ptr`. The front end appends; the back end is the loop of `threadFunc` in
steps: test `running_`, lock, wait, swap, write and recycle. The wait ends on a
notify or after `flushInterval_`, so that a lost notify only delays. `file` keeps
what was written, with the notices of dropped buffers.

**ThriftConnectionPool.** Borrowers inside `get_connection`, waiting, or with a
`ThriftConnection`; the idle deques and active sets per host. Opening a connection
happens under the pool's mutex, as in the code, and may throw. `freed` remembers who
waits since before a `destroy_connection`, which notifies nobody.

**CthriftSvr.** One IO thread with its connections and the workers it deals requests
to. The peer's bytes are tokens: a length word of `kSizeBytes` of them, then the body;
they arrive in any pieces, and a piece may end inside a length word.
`i32_curr_conn_num_`, which nothing reads, is left out.
`OnMsg` is split at the turns of its loop, and a turn that changes nothing (a body
that is not complete) is the step `Spin`, after which the thread does nothing else,
since the loop has no exit there. The time wheel is a ring of buckets of entries; an
entry dies when no bucket holds it, and its destructor shuts the connection.

**CthriftClient.** Callers that share one worker: `writeMessageBegin` takes a
sequence number (and resets the counter in a second step when it reaches the
largest `int32_t`), `flush` posts the request, `read_virt` spins. The worker's loop
runs the posted sends, the water-mark notices and the connection's callbacks. The
connection may be lost and replaced; requests may be buffered, and the server answers
in any order. `lost` remembers the callers whose request or answer was given up.

The last three share no names, the server's and the client's definitions having the
prefixes `Svr` and `Client` where they would, so that one module can extend all of them
for the proofs.

Each `MC` module instantiates a module for TLC. Operators introduced as "Mutant
of X" are wrong versions of X, one for every checked property: with X replaced
by the mutant, TLC finds that property violated.

## 4. Runs

### Passing

| Run | Instance | Shows |
|---|---|---|
| `event_loop` | the owner and 2 threads, 2 functors, 2 channels, room for 1 event | `NothingLost`: neither a queued functor nor a `quit` is left behind by a loop that sleeps; the loop implements `FunctorQueue`; queued functors are called; IO is not starved by functors that queue functors, nor by a full event list; `OwnerReturns`: `startLoop` returns, a running loop is stopped and joined, and the destructor skips `quit` only if there is no loop to stop |
| `timer_queue` | 2 timers, 2 addresses, delays 0 and 2, one-shot and repeating | the two sets agree; no timer is deleted while it is expired or its add is queued; the timerfd never sleeps past a timer; a stopped timer never runs; every timer runs or is cancelled |
| `tcp_connection` | 1 thread, server on the same or another loop | under the usage contract below: no assert fails and the connection is destroyed only when closed and out of the loop; up and down reported once; no message after down; `ClosingCompletes`: `forceClose` closes, a closed connection is reclaimed |
| `tcp_connection_any` | any reading call and closing call from any thread, the server destroyed at any time | even without the contract, `connectEstablished` comes first and once |
| `tcp_send` | loop and 1 thread, 2 bytes each in messages of 0 to 2, high-water mark 2, both make every closing call | `BytesInOrder`: each thread's bytes arrive in order, and until `handleClose` the loop watches for writability exactly while bytes are buffered; the byte stream is implemented, also when a late `kDisconnecting` overwrites `kDisconnected`; `SendingProgresses`: `shutdown` takes effect, and a high-water notice is followed by a write-complete notice |
| `tcp_client` | 2 threads, the delays of the code (500 ms to 30 s) | no assert fails and the connector is destroyed clean, except that `~Connector`'s assert fails for a client destroyed in the very round of the loop that connected it, which `ResetBeforePoll` shows to be the only case; every descriptor has one owner and the channel is watched exactly while connecting; no retry is lost; `StopWorks`: nothing is opened after a `stop` in the loop, and `stop` ends an attempt |
| `thread_pool` | 2 workers, 2 producers, 4 tasks, queue bounds 0, 1 and 2 | `NoLostSignal`: no thread sleeps beside an item that nobody is on the way to; tasks run unless the pool is stopped or its tasks have blocked all workers; `stop` returns unless a worker waits in `run` |
| `async_logging` | 11 lines, 2 to a buffer, dropping above 3 buffers | the asserts of `threadFunc` hold; the log is in order and lines are missing only behind a notice; lines are written unless `stop` comes first; `stop` returns |
| `connection_pool` | 3 borrowers, 2 hosts, 3 connections in all and 2 per host | the books are right; a borrower waits beside room only if a `destroy` made it; `get_connection` comes back |
| `cthrift_server` | 2 connections with 2 requests (one without a body) and 1, length words of 2 tokens, 2 workers, a wheel of 3 | the wheel shuts the silent connections and no others; workers get whole frames, wherever the input is cut; a request that has arrived whole is dispatched and processed, unless the workers are stopped or the IO thread spins before it gets there; a silent connection is shut unless its IO thread spins |
| `cthrift_client` | 2 callers with 3 and 2 calls, 2 connections, mark at 2 requests | answers match calls across the wrap of the numbers; the map holds only awaited calls; a high-water flag is bound to be cleared; a call hangs only if its request or answer was lost |

The **usage contract** of `tcp_connection`: in the IO loop, any of `send`,
`shutdown`, `forceClose` and `forceCloseWithDelay`; from another thread, `send`,
with the pointer kept until the call was served; `startRead`/`stopRead` are not
called and the server is not destroyed. Each of the exclusions is needed; section
5 says what happens without it. In `tcp_client`, `connect()` is called on a client
at rest (no attempt, connection or timer) and the client is destroyed in its loop
thread with no `connect` or `stop` of the user's still queued or underway; what the
connector itself has queued may still be there.

**Why the bounds are enough.** The races in this code are between one step of the
loop and one call of another thread: two threads show that calls do not disturb
each other, two functors show order and nesting, and room for one event with two
channels makes the list overflow and grow. Two timers are enough for one callback
to add or cancel the other, for both to expire together, and for an address to be
reused. Two bytes per source, in one message or in two, make partial writes,
buffering and the crossing of the water mark happen together, and two posted calls
let a late shutdown and a close meet. The retry delays
are the code's own, seven values. In the pool of threads two waiters of each kind
let a notify go to the wrong one, and four tasks fill a queue of two and leave
producers and workers waiting for room. Eleven lines make a dropped batch, and
another round after it. Two hosts and limits that bind make the shared condition
matter. One connection of the server sends two frames, so that a frame ends and the
next begins inside one read and `OnMsg` has to go on, and the first is empty, so that a
size is read and no body follows; a length word of two tokens can be cut in one place,
which is what `readableBytes() >= sizeof(int32_t)` is there for; the numbers of the client start near 0 or near the
largest, so that both the reset and the step past it happen; `Int32Assumption` says
that there are more numbers than calls, so that none is used a second time while the
call that has it could still be waiting.

**Deadlock** is checked except where the program really ends: `event_loop` (the
thread is joined), `tcp_send` (the connection is closed and all is sent),
`thread_pool` and `async_logging` (stopped), `cthrift_client` (all calls made, or
every caller hangs), `tcp_connection_any` and the violation run (a failed assert ends
the program).

**Fairness.** Weak fairness of the loop thread's own steps: callbacks return and
the loop goes on; `event_loop` assumes nothing more of it. Weak fairness of a
thread that is in the middle of a call (`Wakeup`, `Post`, `CallQueues`): threads
are scheduled. Poll returns when something is queued, which is what
`NoLostWakeup` shows of the loop, or a timer is due (`TimersFire`); `DelayedForceClose`
has strong fairness because the timer's turn comes in some round, not in every
state. In `tcp_send` a socket with a live peer becomes writable again. Workers and
log thread are scheduled, and a task of the pool returns; the log's wait has a
time-out. A borrower's wait has strong fairness of its time-out, since the deadline is
absolute and notifies do not extend it. The server's wheel turns, its IO thread takes
the next step of `OnMsg`, and workers process; in `cthrift_client` a server that
stays connected answers. Nobody has to call anything, and peers need not send, close
or accept.

### Violation

It states what a comment of the code says, and TLC shows a run of the code that
contradicts it.

| Run | Property | What happens |
|---|---|---|
| `tcp_send_thread_shutdown` | `ShutdownAfterData` | a thread's `send()` then `shutdown()`: `handleWrite` drains older bytes, sees `kDisconnecting` and half-closes before the posted bytes |

## 5. Behaviour the contracts and properties exclude

Seen in the models when a contract is lifted or a stronger property is stated, and
left without a run of its own. The stronger properties are defined in the modules,
marked "Not kept", and TLC refutes them:

- `EventLoopThread!DtorTerminates`: `quit()` between the publication of `loop_` and
  `loop()` is undone by `quit_ = false`, and the destructor joins for ever, although
  the comment above it says that a non-NULL `loop_` is a running loop.
- `TimerQueue!AddTimerReadsLiveTimer`: `addTimer` of another thread evaluates
  `timer->sequence()` after the loop thread may have run and deleted the timer.
- `TcpConnection!ClosesOnce` (with `startRead`/`stopRead` allowed, as in
  `MCTcpConnectionAny.cfg`): after `stopRead()`, `handleClose`'s `disableAll()` adds
  the channel to epoll again, and a hang-up closes the connection a second time.
- `TcpConnection!NoUseAfterFree` (with threads that do not keep their pointer): `send()`
  from a thread posts a bare `this`; the connection may be gone when it runs.
- `CthriftClient!AvailableIsExact`: `atomic_avaliable_conn_num_` counts every write
  completion as a new connection. Its readers are commented out, so it is only logged.

The rest is in the models as behaviour that the properties allow:

- `ThreadPool::stop()` wakes no producer that waits for room, and a task that waits in
  `run()` of its own pool keeps `stop()` from returning. Tasks still queued when the
  workers stop are never called.
- `AsyncLogging::stop()` leaves what was appended after the last swap unwritten.
- `destroy_connection` makes room and notifies nobody: a waiting borrower sees the room
  at the next return, or times out.
- `CthriftSvr::OnMsg` has no exit for a frame whose body is incomplete: the IO thread
  spins, and the rest of the body, and all its other connections, wait for ever.
  `stop()` quits the workers with requests queued.
- `CthriftTransport::read_virt` has no timeout (it is commented out): a request that is
  dropped because no connection is healthy, or whose connection is lost, hangs its
  caller. A caller that takes a number between the two steps of the reset gets a
  negative one, whose answer shuts the connection.

- In `TcpSend`, a thread's `shutdown()` or `forceClose()` whose assignment comes after
  `handleClose` makes the connection `kDisconnecting` again: bytes still buffered have
  no interest in writing behind them, so nobody sends them, and the posted
  `shutdownInLoop` closes the write side in front of them. The connection was closed
  in any case, and what had left was in order.
- A `TcpClient` that is destroyed in the loop thread later in the round that connected
  it (in the connection callback's round, before the queued `resetChannel`) fails
  `~Connector`'s `assert(!channel_)`.
- If a round of the loop took longer than the retry delay, the timer could come before
  the queued `resetChannel`, and the next attempt would fail `assert(!channel_)`. The
  model assumes that it does not (section 3).
- `forceClose` from another thread tests and sets `state_` in two steps; racing the
  peer's close it reopens the state, and `TcpServer` erases twice (`assert(n == 1)`).
- `startRead` on a closed connection registers its channel again, and
  `connectDestroyed` then removes a channel with events (`assert(isNoneEvent())`).
  `~TcpServer` on a connection in `kDisconnecting` does the same.
- `~TcpServer` in one loop while a connection closes in another: the close callback
  holds a bare `TcpServer*`.
- A functor that the loop thread queues before `loop()` wakes nothing and waits for
  the first other event (`silent` in `EventLoop`).
- A cancel that overtakes the queued add of the same timer is ignored, and a timer
  that expired in the current round but was not called yet still runs once.
- `TcpClient::connect()` during an attempt, with a retry timer set, or after a
  connection that was not retried, fails `assert(state_ == kDisconnected)`.
  `TcpClient::stop()` of another thread between the test in `removeConnection` and
  `restart()` is undone. `stop()` followed by the destructor of a connected client
  leaves a functor with a bare pointer.

## 6. Proofs

`EventLoopProofs` proves, for any sets of threads, functors and channels and any
initial size of `events_`:

- `TypeCorrect`: `Spec => []TypeOK`;
- `NothingIsLost`: `Spec => []NothingLost`, from `WakeupIsNeverLost` and
  `QuitIsNeverLost`, which say it of functors and of `quit`;
- `LoopImplementsQueue`: the safety part of the loop implements `FunctorQueue`.

All rest on one inductive invariant, `IInv == TypeOK /\ BatchInv /\ NoLostWakeup /\
NoLostQuit`. `NoLostWakeup` is not inductive alone: a functor that queues a functor
writes the eventfd only if `callingPendingFunctors_` is set, so the proof needs
that the flag is set exactly while functors are swapped and called (`BatchInv`). The
second half of `BatchInv`, that outside `doPendingFunctors` no batch is left and no
functor running, is what makes the swap a stuttering step of the abstract queue.
The argument for the wakeup itself: the only step that clears the eventfd is its
read handler, which runs before the swap that takes everything queued so far, and
every push outside that window writes the eventfd or is about to.

Assumptions: `NamesAssumption` (the wakeup channel is none of the others, NULL is
neither functor nor channel) and `SizeAssumption` (`events_` is not empty at first).
TLC evaluates both in every run of `EventLoop`.

The same module proves of `EventLoopThread`, in addition with `OwnerAssumption` (the
owner is one of the threads):

- `ThreadUsesLoop`: `TSpec => SafetySpec`, every step of the composed system is a step of
  `EventLoop` or leaves the loop alone, so that its theorems carry over;
- `ThreadLosesNothing`: `TSpec => []NothingLost /\ ImplementsFunctorQueue`;
- `DtorLeavesNoLoop`: `TSpec => [](TTypeOK /\ SkipsOnlyWhenStopped /\ ...)`, the safety
  half of `OwnerReturns`, and that after a `join()`, or a `loop_` found reset, the thread
  is outside `loop()`. It rests on `StageInv`: `loop_` is published exactly between the
  two assignments of `threadFunc`, and `startLoop` returns only after the first, which is
  why the destructor cannot mistake a thread that still runs `callback_` for a stopped one.

`TimerQueueProofs` proves, for any addresses, delays and intervals and any bounds on
the timers created and the functors queued:

- `TypeCorrect`: `SafetySpec => []TypeOK`;
- `SetsAgree`: `SafetySpec => []SameTimers`;
- `NoUseAfterDelete`: `SafetySpec => []TouchedStayAlive`;
- `NeverLate`: `SafetySpec => []NoOversleep`;
- `StoppedStaysStopped`: `SafetySpec => StoppedNeverRuns`.

They rest on `IInv == SetsInv /\ NoOversleep /\ StoppedInv`, in three layers.
`SetsInv` says where a live timer can be: in the queue, in the vector of
`handleRead`, or in a queued `addTimerInLoop`, never in two of them. `SameTimers`
needs it, because an insert keeps the two sets in step only if the timer is in
neither; and no two queued adds are for the same timer (`AddsDistinct`), because
running the first would otherwise break what the second relies on. `NoOversleep` is
inductive given `SetsInv`: a new earliest timer arms the timerfd, another one is
covered by the timer that is earlier, and `reset()` arms for the earliest.
`StoppedInv` is the reason a stopped repeating timer does not come back: if it was
called in the current round, `reset()` finds it in `cancelingTimers_`, and clearing
that set in the next `handleRead` is harmless since no expired timer is a stopped
one. It uses that sequence numbers are never given out twice (`Numbered`), which is
what makes a reused address a different timer. TLC checked
`IInv` for up to three timers before it was proved.

Assumption: `ConstantsAssumption` (delays, intervals and bounds are naturals, and
`Never` is not one).

`ThreadPoolProofs` proves `SignalsAreNotLost`: `Spec => []NoLostSignal`, for any finite
sets of threads, any tasks and any bound on the queue. The invariant counts: the
queued tasks against the workers on their way to `take()`, and the free places against
the callers on their way into the queue. Each step moves one thread, or one and the
thread it notifies, so that both sides change by one (`Arrives`, `Leaves`). It is
inductive with the types, the fact that whoever is inside `run()` has a task
(`ArgInv`), and that nobody is inside the pool before `start()` (`NewInv`).
Assumptions: `FiniteAssumption` and `SizesAssumption`.

`AsyncLoggingProofs` proves, for any capacity, drop limit and number of lines:

- `AssertsHold`: `Spec => []NoAssertFails`. The assertion about recycling needs two
  buffers exactly if the back end gave both of its spare ones away; it does so only if
  the front end has used up its own spare buffer, and then a full buffer was queued
  before (`FrontInv`), so that with the current one there are two (`SparesInv`), and
  dropping keeps two.
- `NoLineIsLost`: `Spec => []LogIsInOrder`. `LogIsInOrder` speaks of one long sequence;
  the invariant `OrderInv` speaks of its four parts instead, the file, the buffers that
  are written, the queued ones and the current one: each is in order (`PartsInv`),
  every line of a part is older than those of the next (`PlaceInv`), and together they
  hold all lines but the dropped ones (`TotalInv`). Then each step moves whole buffers
  from one part to the next, and `Joining` says what that does. `NoticeInv` is stronger
  than the property: the two buffers behind a notice are already in the file, so that
  later lines cannot come before them. It needs that only the last buffer taken can be
  without lines (`FilledInv`).

Assumptions: `CapacityAssumption`, `DropAssumption` (the limit is at least the two
buffers that are kept), `LinesAssumption`, `NullAssumption`.

`ThriftProofs` proves the invariants of the pool, the server and the client of Thrift.

*The connection pool.* `BooksAreRight`: `Spec => []Accounting` and
`NobodyWaitsInVain`: `Spec => []WaitsInNeed`, for any sets of borrowers, hosts and
clients and any two limits. The counts are cardinalities, so the invariant keeps what
makes them exact: no client twice in a deque, none at two places, and every lent client
with the one borrower that has it (`LentInv`), which is why `return_connection` and
`destroy_connection` always find what they take out. `WaitsInNeed` is inductive beside
these. Assumptions: `LimitsAssumption` and `NullAssumption` (NULL is no client).

*The cthrift server*, for any connections, workers, frames and size of the wheel:

- `SvrIdleIsKicked`: `SvrSpec => []IdleIsKicked`. That an entry lives is not inductive; that
  its newest bucket is the one its idle time names is (`WheelInv`): a turn of the wheel
  moves all buckets and all idle times by one, and an insertion resets both.
- `SvrFramesAreWhole`: `SvrSpec => []FramesAreWhole`. `StreamInv` says that what is in the
  buffer and still to come is the end of the stream that was sent (`CutOf`), and that the
  framing state fits the place where it begins (`AtPlace`): at the first token of a length
  word, or at the first of a body of `i32_want_size`. A length word that is cut stays in
  the buffer, so that the place is the same when the rest has come. That a stream is made of whole frames at all
  (`StreamFramed`) is a fact about the recursive function `Stream`, for which induction is
  needed; it is obtained from the least element of a set of naturals (`LeastNat`), which
  the library's theorems on well-founded relations give without an operator parameter.
  The proof showed that the third conjunct of `FramesAreWhole` had not allowed for frames
  without a body, after whose size the next token is a size again; the property was put
  right and the instance given such a frame.

Assumptions: `SizesAssumption`, `SizeBytesAssumption` (a length word is not empty),
`WorkerAssumption`, `WheelAssumption`.

*The cthrift client*, for any callers, connections and high-water mark:

- `ClientAnswersMatch`: `ClientSpec => []AnswersMatch`;
- `ClientEntriesAreAwaited`: `ClientSpec => []EntriesAreAwaited`;
- `ClientHighWaterClears`: `ClientSpec => []HighWaterClears`.

An answer is handed out by number alone, so the first two need that calls in progress
have different numbers. `IdInv` says so, with what makes it inductive: before the wrap
all numbers in use are at most the counter; after it they are the few high ones from
before it, or at most the counter; and a pending reset happens either before or after
the step past the largest number, when number 1 is free in both cases. Then a caller has
at most one request, in the loop's queue, in the output buffer or with the server, and
entries of the map only for that call (`SendInv`, `WireInv`), so that the answer takes
the last of them away. `HighWaterClears` needs the order of notices: with nothing left to
write, behind a notice that marks the connection there is one of the same connection that
unmarks it (`MarkInv`), and no queued notice is of a connection to come (`EpochInv`), so
that a new connection inherits none. Assumptions: `BoundsAssumption`, and
`Int32Assumption`: the calls that are made are finitely many, and fewer than the largest
number by more than three. A process that makes more may meet a call that has waited for
a whole lap, about which nothing is claimed.

`TcpSendProofs` proves `OrderIsKept`: `Spec => []BytesInOrder`, and
`SendingImplementsStream`: `Spec => ImplementsStream`, for any threads, message lengths
and high-water mark. Order of what was sent is not inductive: the invariant orders the
bytes on their whole way, in a call underway, among the posted calls and in the stream
(`PostedInv`, `UnderwayInv`), and says that no byte is newer than the calls made
(`CountInv`). The refinement takes `outputBuffer_` for the stream's queue, `closed` for
`lossy`, and for `ended` that the state is `kDisconnected` with no thread about to
overwrite it. It needs `WriteInv`: a closed write side has nothing buffered until
`handleClose`, a `kDisconnected` connection has been through `handleClose`, and only a
connection that is not `kDisconnected` is watched for writability, so that after the
last assignment no byte leaves. Assumption: `SendAssumption`.

`TcpClientProofs` proves, for any threads, retry delays and bound on the queue:

- `AssertsHold`: `Spec => []NoAssertFails`;
- `NoSocketLeaks`: `Spec => []SocketsAreOwned`;
- `NoRetryIsLost`: `Spec => []KeepsTrying`;
- `StoppedForGood`: `Spec => StopIsFinal`, the safety half of `StopWorks`.

They follow from `Spec => [](IInv \/ DeadInv)`. `DeadInv` is the state after
`~Connector`'s assert has failed, in which nothing moves; the one step into it is a
destruction of the client while the channel that connected waits for its reset, and
`NoAssertFails` says when that can be (`ResetBeforePoll`): never once the loop is back in
poll. `IInv` says how few things can be underway at once: one attempt at most is in the
making, and only while the connector is disconnected (`AttemptInv`), so that `connect()`
and the retry timer never find it in another state; a removed channel has its reset
queued, once, and the reset is called before the channel could be needed again
(`ChannelInv`); what poll has reported is not stale (`ActiveInv`); the connection, the
client's pointer and `connectDestroyed` agree (`ConnInv`); after the client is gone, the
connector outlives the functors with a bare pointer to it (`OwnerInv`). Assumption:
`DelayAssumption`.

`TcpConnectionProofs` proves, for any number of threads and any bound on the queue,
with the connection's loop the server's own or another:

- `EstablishedOnce`: `SafetySpec => []EstablishedFirst`, for every use;
- under `WellUsed`: `AssertsHold`: `SafetySpec => []NoAssertFails`; `UpThenDown`:
  `SafetySpec => []CallbacksPaired`; `DownIsLast`: `SafetySpec => NoMessageAfterDown`.

`WellUsed` is the usage contract of section 4 as a condition on the constants; the
instance of the run `tcp_connection` satisfies it, and section 5 says how each of its
clauses is needed. There are two invariants. `AnyInv`, of every use: before
`connectEstablished` nobody holds the connection or can call it, and that functor is the
head of the queue, with at most a `connectDestroyed` of `~TcpServer` behind it. `UsedInv`,
of a well used connection: every functor with a bare pointer has a user that holds the
connection (`HeldInv`); an open connection is in the map and in the epoll set
(`OpenInv`); a closed one is at exactly one of four stations on its way out, in
`handleClose` before its callback, with a removal queued at the server, with
`connectDestroyed` queued, or out (`ClosedInv`). With these, every assert on the path is
a consequence of the station. Assumption: `CallsAssumption`.

The inductive invariants were checked by TLC on the instances of the runs before they were
proved.

**Only model-checked.** Every liveness property (`FunctorsAreCalled`, `IoIsNotStarved`,
`OwnerReturns`, `TimersFire`, `ClosingCompletes`, `SendingProgresses`, the second half of
`StopWorks`, `TasksRun`, `StopTerminates`, `LinesAreWritten`, `StopReturns`, `GetReturns`,
`RequestsAreServed`, `SilentIsShut`, `HangsOnlyWhenLost`): TLAPS does not reason about
fairness, nor about `ENABLED`. Of `OwnerReturns` and `StopWorks` the safety halves are
proved (`DtorLeavesNoLoop`, `StoppedForGood`). All invariants and the two refinements that
the runs check are theorems. `ShutdownAfterData` and the properties of section 5 marked
"Not kept" are refuted by TLC.

## 7. Not modelled

Destruction of a `TcpClient` from another thread (the code says "not 100% safe");
destruction of a `TcpServer` inside a callback of its own connection, and the join of
its thread pool; the assert of `EventLoop::removeChannel` for a channel that is in
`activeChannels_` but was dispatched already, which only `~TcpServer` on the
connection's loop could meet;
`forceClose` and the like on a client's connection, which is the subject of
`TcpConnection`; the contents of messages beyond the identity of bytes; the text
that `EPollPoller::poll` prints into a fixed buffer; clock changes; the poll(2)
backend; signals.

Of the base library: `BlockingQueue` and `BoundedBlockingQueue` (the pattern of
`ThreadPool` without a stop), the rolling of `LogFile`, exceptions of pool tasks
(they end the process), the formatting of logs and dates. Of the network library:
`Acceptor`, `EventLoopThreadPool`, `Buffer`, the HTTP server and the protobuf RPC,
which step 10 of the plan lists.

Of cthrift: one-way calls, whose `flush` is not followed by `read_virt` (every call of
the model is a two-way one, and `EntriesAreAwaited` is about these); start-up and registration, and the naming code, which depends on
ZooKeeper and a name-service library outside the repository. The weighted choice among
several servers is not modelled: `GetSvrList`'s body is commented out, so the server
list of a worker is the one address that the user gave, and a client made from an
application key alone has none. The asynchronous calls are not modelled:
`AsyncSendReq` takes the 1 that `GetAsyncWriteBuf` returns on success for a failure
and sends nothing. Nor is the process-wide map of workers in
`CthriftClient::InitWorker`, which hands out no worker when all of a key's workers
have expired.

Vendored libraries, generated code and the example programs are out of
scope.
