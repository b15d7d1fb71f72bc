---------------------------- MODULE AsyncLogging ----------------------------
(***************************************************************************)
(* muduo::AsyncLogging (src/muduo/base/AsyncLogging.cc): the front end     *)
(* appends lines to currentBuffer_ and hands full buffers over; the back   *)
(* end, one thread, takes all buffers every flushInterval_ seconds or when *)
(* notified, writes them and gives two of them back.  A buffer is the      *)
(* sequence of its lines, or NULL when its unique_ptr is empty; a stretch  *)
(* of code under the mutex is one action.                                  *)
(***************************************************************************)
EXTENDS Naturals, Sequences

CONSTANTS
  Capacity,    \* lines that fit in a Buffer
  DropLimit,   \* 25: more buffers than this are dropped but for Kept
  MaxLines,    \* bound: lines appended
  NULL         \* an empty unique_ptr

Kept == 2
ASSUME CapacityAssumption == Capacity \in Nat \ {0}
ASSUME DropAssumption == DropLimit \in Nat /\ DropLimit >= Kept
ASSUME LinesAssumption == MaxLines \in Nat
ASSUME NullAssumption == NULL # <<>>

VARIABLES
  running_, currentBuffer_, nextBuffer_, buffers_,
  newBuffer1, newBuffer2, buffersToWrite,   \* locals of threadFunc
  thread,    \* threadFunc: "unstarted", "begin", "test", "lock", "wait", "swap",
             \* "write", "ended"
  owner,     \* the owner: "new", "latch" in start(), "started", then in stop()
             \* "notifying", "joining", "joined"
  lines,     \* lines appended so far; line n is the n-th
  file,      \* what was written: buffers, and notices of dropped ones
  dropped    \* the lines that went with the dropped buffers

front == <<currentBuffer_, nextBuffer_, buffers_>>
back  == <<newBuffer1, newBuffer2, buffersToWrite>>
vars  == <<running_, front, back, thread, owner, lines, file, dropped>>

\* An entry of the file: the lines of a buffer, or the notice "Dropped log
\* messages at ..., n larger buffers".
Text(buf) == [notice |-> 0, text |-> buf]
Notice(n) == [notice |-> n, text |-> <<>>]

Init ==
  /\ running_ = FALSE
  /\ currentBuffer_ = <<>> /\ nextBuffer_ = <<>> /\ buffers_ = <<>>
  /\ newBuffer1 = <<>> /\ newBuffer2 = <<>> /\ buffersToWrite = <<>>
  /\ thread = "unstarted" /\ owner = "new"
  /\ lines = 0 /\ file = <<>> /\ dropped = {}

\* cond_.notify(): the back end, if it waits, goes on.
Notified == IF thread = "wait" THEN "swap" ELSE thread

-----------------------------------------------------------------------------
(* The front end. *)

\* append() into the current buffer.
AppendFits ==
  /\ lines < MaxLines
  /\ Len(currentBuffer_) < Capacity
  /\ currentBuffer_' = Append(currentBuffer_, lines + 1)
  /\ lines' = lines + 1
  /\ UNCHANGED <<running_, nextBuffer_, buffers_, back, thread, owner, file, dropped>>

\* append() with the current buffer full: queue it, take the spare one or
\* a new one, and notify the back end.
AppendFull ==
  /\ lines < MaxLines
  /\ Len(currentBuffer_) = Capacity
  /\ buffers_' = Append(buffers_, currentBuffer_)
  /\ currentBuffer_' = Append(IF nextBuffer_ = NULL THEN <<>> ELSE nextBuffer_, lines + 1)
  /\ nextBuffer_' = NULL
  /\ thread' = Notified
  /\ lines' = lines + 1
  /\ UNCHANGED <<running_, back, owner, file, dropped>>

\* start(): running_ is set, the thread started, the latch waited for.
Start ==
  /\ owner = "new"
  /\ owner' = "latch"
  /\ running_' = TRUE
  /\ thread' = "begin"
  /\ UNCHANGED <<front, back, lines, file, dropped>>

\* stop() or the destructor: running_ is cleared without the lock ...
Stop ==
  /\ owner = "started"
  /\ owner' = "notifying"
  /\ running_' = FALSE
  /\ UNCHANGED <<front, back, thread, lines, file, dropped>>

\* ... cond_ notified ...
StopNotify ==
  /\ owner = "notifying"
  /\ owner' = "joining"
  /\ thread' = Notified
  /\ UNCHANGED <<running_, front, back, lines, file, dropped>>

\* ... and the thread joined.
Join ==
  /\ owner = "joining" /\ thread = "ended"
  /\ owner' = "joined"
  /\ UNCHANGED <<running_, front, back, thread, lines, file, dropped>>

-----------------------------------------------------------------------------
(* The back end, threadFunc(). *)

\* latch_.countDown(), which lets start() return.
Begin ==
  /\ thread = "begin"
  /\ thread' = "test"
  /\ owner' = "started"
  /\ UNCHANGED <<running_, front, back, lines, file, dropped>>

\* while (running_)
TestRunning ==
  /\ thread = "test"
  /\ thread' = IF running_ THEN "lock" ELSE "ended"
  /\ UNCHANGED <<running_, front, back, owner, lines, file, dropped>>

\* if (buffers_.empty()) wait, under the lock.
Lock ==
  /\ thread = "lock"
  /\ thread' = IF buffers_ = <<>> THEN "wait" ELSE "swap"
  /\ UNCHANGED <<running_, front, back, owner, lines, file, dropped>>

\* Mutant of WaitEnds: a wait without a timeout.
WaitNeverEnds == FALSE /\ UNCHANGED vars

\* waitForSeconds returns without a notify: after flushInterval_, or spuriously.
WaitEnds ==
  /\ thread = "wait"
  /\ thread' = "swap"
  /\ UNCHANGED <<running_, front, back, owner, lines, file, dropped>>

\* Mutant of Swap: the spare buffer is not replaced.
SwapWithoutSpare ==
  /\ thread = "swap"
  /\ buffersToWrite' = Append(buffers_, currentBuffer_)
  /\ buffers_' = buffersToWrite
  /\ currentBuffer_' = newBuffer1
  /\ newBuffer1' = NULL
  /\ nextBuffer_' = newBuffer2
  /\ newBuffer2' = NULL
  /\ thread' = "write"
  /\ UNCHANGED <<running_, owner, lines, file, dropped>>

\* Under the lock again: take all buffers, leave fresh ones.
Swap ==
  /\ thread = "swap"
  /\ buffersToWrite' = Append(buffers_, currentBuffer_)
  /\ buffers_' = buffersToWrite
  /\ currentBuffer_' = newBuffer1
  /\ newBuffer1' = NULL
  /\ nextBuffer_' = IF nextBuffer_ = NULL THEN newBuffer2 ELSE nextBuffer_
  /\ newBuffer2' = IF nextBuffer_ = NULL THEN NULL ELSE newBuffer2
  /\ thread' = "write"
  /\ UNCHANGED <<running_, owner, lines, file, dropped>>

TooMany == Len(buffersToWrite) > DropLimit

\* Mutant of Written: the last two of too many.
WrittenNewest ==
  IF TooMany THEN SubSeq(buffersToWrite, Len(buffersToWrite) - 1, Len(buffersToWrite))
             ELSE buffersToWrite

\* The buffers that are written: all, or the first two of too many.
Written == IF TooMany THEN SubSeq(buffersToWrite, 1, Kept) ELSE buffersToWrite

\* buffersToWrite.resize(2): how many buffers are left to refill from.
Left == IF Len(Written) > Kept THEN Kept ELSE Len(Written)

LinesIn(seq) == UNION {{seq[i][j] : j \in DOMAIN seq[i]} : i \in DOMAIN seq}

\* Mutant of reset: the buffer is recycled with its lines.
resetNothing(buf) == buf

\* Buffer::reset()
reset(buf) == <<>>

\* output.append() of the buffers; a round without a line leaves the file as it is.
Entries == IF LinesIn(Written) = {} THEN <<>> ELSE [i \in 1..Len(Written) |-> Text(Written[i])]

\* Drop, write, recycle two buffers, flush.
Write ==
  /\ thread = "write"
  /\ file' = file \o (IF TooMany THEN <<Notice(Len(buffersToWrite) - Kept)>> ELSE <<>>)
                  \o Entries
  /\ dropped' = dropped \union (LinesIn(buffersToWrite) \ LinesIn(Written))
  /\ newBuffer1' = reset(Written[Left])
  /\ newBuffer2' = IF newBuffer2 = NULL THEN reset(Written[Left - 1]) ELSE newBuffer2
  /\ buffersToWrite' = <<>>
  /\ thread' = "test"
  /\ UNCHANGED <<running_, front, owner, lines>>

ThreadFunc == Begin \/ TestRunning \/ Lock \/ WaitEnds \/ Swap \/ Write

Next == AppendFits \/ AppendFull \/ Start \/ Stop \/ StopNotify \/ Join \/ ThreadFunc

\* The back end runs, its wait ends at the latest after flushInterval_, and
\* stop() goes on once called.  Nobody has to append or to call stop().
Spec == Init /\ [][Next]_vars /\ WF_vars(ThreadFunc) /\ WF_vars(StopNotify \/ Join)

-----------------------------------------------------------------------------
IsBuffer(b) == b \in Seq(1..MaxLines) /\ Len(b) <= Capacity

TypeOK ==
  /\ running_ \in BOOLEAN
  /\ IsBuffer(currentBuffer_)
  /\ \A b \in {nextBuffer_, newBuffer1, newBuffer2} : b = NULL \/ IsBuffer(b)
  /\ \A bs \in {buffers_, buffersToWrite} : \A i \in DOMAIN bs : IsBuffer(bs[i])
  /\ thread \in {"unstarted", "begin", "test", "lock", "wait", "swap", "write", "ended"}
  /\ owner \in {"new", "latch", "started", "notifying", "joining", "joined"}
  /\ lines \in 0..MaxLines /\ dropped \subseteq 1..lines

\* The assertions of threadFunc hold: the two spare buffers are there, and
\* empty, at the top of the loop, there is something to write, and as many
\* buffers come back from writing as were given to the front end.
NoAssertFails ==
  /\ TypeOK
  /\ thread \in {"lock", "wait", "swap"} =>
       newBuffer1 = <<>> /\ newBuffer2 = <<>> /\ buffersToWrite = <<>>
  /\ thread = "write" => Left >= IF newBuffer2 = NULL THEN 2 ELSE 1

\* The whole log: what is in the file and what is on its way to it.
Log == [i \in DOMAIN file |-> file[i].text] \o buffersToWrite \o buffers_ \o <<currentBuffer_>>

\* No line is lost, written twice or overtaken on its way through the
\* buffers; lines are missing only directly behind the two buffers that
\* follow a notice of dropped buffers.
LogIsInOrder ==
  /\ LinesIn(Log) = (1..lines) \ dropped
  /\ \A i, j \in DOMAIN Log : \A k \in DOMAIN Log[i], l \in DOMAIN Log[j] :
       i < j \/ (i = j /\ k < l) => Log[i][k] < Log[j][l]
  /\ \A d \in dropped : \E n \in DOMAIN file :
       /\ file[n].notice > 0
       /\ \A i \in DOMAIN Log : \A k \in DOMAIN Log[i] : Log[i][k] < d <=> i <= n + Kept

\* A line that was appended reaches the file or is dropped with a notice,
\* unless stop() comes first; and in any case if it was appended before the
\* back end took the buffers of a round that it has begun.
LinesAreWritten ==
  \A l \in 1..MaxLines :
    LET Settled == l \in dropped \/ l \in LinesIn([i \in DOMAIN file |-> file[i].text])
    IN /\ l <= lines ~> Settled \/ ~running_
       /\ l <= lines /\ thread \in {"lock", "wait", "swap"} ~> Settled

\* stop() returns although it notifies without the lock, and so perhaps
\* between the back end's test of running_ and its wait.
StopReturns == owner = "notifying" ~> owner = "joined"
=============================================================================
