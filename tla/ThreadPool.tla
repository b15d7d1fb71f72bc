----------------------------- MODULE ThreadPool -----------------------------
(***************************************************************************)
(* muduo::ThreadPool (src/muduo/base/ThreadPool.cc): worker threads that   *)
(* take tasks from one queue, optionally bounded, under one mutex and two  *)
(* conditions.  A stretch of code under the mutex is one action; a thread  *)
(* waiting in a condition is woken by a notify or spuriously and then      *)
(* tests its condition again.  run() may be called by any thread, a task   *)
(* of the pool included.                                                   *)
(***************************************************************************)
EXTENDS Naturals, Sequences, FiniteSets

CONSTANTS
  Workers,       \* the threads that start(numThreads) may create
  Producers,     \* other threads that call run()
  Tasks,         \* the tasks; each is submitted once
  MaxQueueSizes, \* what setMaxQueueSize may have been given; 0 is no bound
  NULL           \* no task

ASSUME SizesAssumption == MaxQueueSizes \subseteq Nat
ASSUME ThreadsAssumption == Workers \intersect Producers = {}
ASSUME FiniteAssumption == IsFiniteSet(Workers) /\ IsFiniteSet(Producers)

VARIABLES
  running_, queue_, maxQueueSize_,
  threads_,  \* the workers that start() created
  owner,     \* the owner of the pool: "new", "started", "stopping" inside the
             \* joins of stop(), "joined"
  pc,        \* a thread: "idle" or "task" outside the pool's code, "put" and
             \* "notFull" in run(), "test", "take" and "notEmpty" in
             \* runInThread(), "exited"
  arg,       \* the task with which a thread is inside run(), else NULL
  fresh,     \* tasks not yet submitted
  ran        \* tasks that were called

vars == <<running_, queue_, maxQueueSize_, threads_, owner, pc, arg, fresh, ran>>

Callers == Workers \union Producers
At(l)   == {c \in Callers : pc[c] = l}

Init ==
  /\ running_ = FALSE
  /\ queue_ = <<>>
  /\ maxQueueSize_ \in MaxQueueSizes
  /\ threads_ = {}
  /\ owner = "new"
  /\ pc = [c \in Callers |-> "idle"]
  /\ arg = [c \in Callers |-> NULL]
  /\ fresh = Tasks
  /\ ran = {}

isFull == maxQueueSize_ > 0 /\ Len(queue_) >= maxQueueSize_

\* Condition::notify after a step that leaves the program counters p: the
\* signal moves one of the threads waiting at `from`, if any, to `to`.
Notify(p, from, to) ==
  LET waiting == {c \in Callers : p[c] = from}
  IN IF waiting = {} THEN {p} ELSE {[p EXCEPT ![c] = to] : c \in waiting}

\* Condition::notifyAll.
NotifyAll(p, from, to) == [c \in Callers |-> IF p[c] = from THEN to ELSE p[c]]

-----------------------------------------------------------------------------
\* start(numThreads): W are the threads it creates.
Start(W) ==
  /\ owner = "new"
  /\ owner' = "started"
  /\ threads_' = W
  /\ running_' = TRUE
  /\ pc' = [c \in Callers |-> IF c \in W THEN "test" ELSE pc[c]]
  /\ UNCHANGED <<queue_, maxQueueSize_, arg, fresh, ran>>

\* run(task) is called: without threads the caller runs the task itself.
Run(c, t) ==
  /\ pc[c] = "task" \/ (c \in Producers /\ pc[c] = "idle")
  /\ t \in fresh
  /\ fresh' = fresh \ {t}
  /\ IF threads_ # {}
     THEN /\ pc' = [pc EXCEPT ![c] = "put"]
          /\ arg' = [arg EXCEPT ![c] = t]
          /\ UNCHANGED ran
     ELSE /\ ran' = ran \union {t}
          /\ UNCHANGED <<pc, arg>>
  /\ UNCHANGED <<running_, queue_, maxQueueSize_, threads_, owner>>

\* Where run() returns to.
Returned(c) == [pc EXCEPT ![c] = IF c \in Workers THEN "task" ELSE "idle"]

\* Mutant of Enqueue: no notEmpty_.notify().
EnqueueSilently(c) ==
  /\ queue_' = Append(queue_, arg[c])
  /\ arg' = [arg EXCEPT ![c] = NULL]
  /\ pc' = Returned(c)

\* queue_.push_back(task); notEmpty_.notify();
Enqueue(c) ==
  /\ queue_' = Append(queue_, arg[c])
  /\ arg' = [arg EXCEPT ![c] = NULL]
  /\ pc' \in Notify(Returned(c), "notEmpty", "take")

\* run() under the lock: wait while the queue is full.
Put(c) ==
  /\ pc[c] = "put"
  /\ IF isFull
     THEN pc' = [pc EXCEPT ![c] = "notFull"] /\ UNCHANGED <<queue_, arg>>
     ELSE Enqueue(c)
  /\ UNCHANGED <<running_, maxQueueSize_, threads_, owner, fresh, ran>>

\* runInThread(): while (running_), read without the lock.
TestRunning(w) ==
  /\ pc[w] = "test"
  /\ pc' = [pc EXCEPT ![w] = IF running_ THEN "take" ELSE "exited"]
  /\ UNCHANGED <<running_, queue_, maxQueueSize_, threads_, owner, arg, fresh, ran>>

\* take() with nothing to take: wait, or return an empty task.
TakeNothing(w) ==
  /\ pc[w] = "take"
  /\ queue_ = <<>>
  /\ pc' = [pc EXCEPT ![w] = IF running_ THEN "notEmpty" ELSE "test"]
  /\ UNCHANGED <<running_, queue_, maxQueueSize_, threads_, owner, arg, fresh, ran>>

\* Mutant of TakeNotifies: notify only when the queue was full.
TakeNotifiesWhenFull(w) ==
  IF isFull THEN Notify([pc EXCEPT ![w] = "task"], "notFull", "put")
            ELSE {[pc EXCEPT ![w] = "task"]}

\* if (maxQueueSize_ > 0) notFull_.notify();
TakeNotifies(w) ==
  IF maxQueueSize_ > 0 THEN Notify([pc EXCEPT ![w] = "task"], "notFull", "put")
                       ELSE {[pc EXCEPT ![w] = "task"]}

\* take() returns a task, and runInThread calls it.
Take(w) ==
  /\ pc[w] = "take"
  /\ queue_ # <<>>
  /\ queue_' = Tail(queue_)
  /\ ran' = ran \union {Head(queue_)}
  /\ pc' \in TakeNotifies(w)
  /\ UNCHANGED <<running_, maxQueueSize_, threads_, owner, arg, fresh>>

\* The task returns.
TaskReturns(w) ==
  /\ pc[w] = "task"
  /\ pc' = [pc EXCEPT ![w] = "test"]
  /\ UNCHANGED <<running_, queue_, maxQueueSize_, threads_, owner, arg, fresh, ran>>

\* Condition::wait returns without a notify.
SpuriousWakeup(c) ==
  /\ pc[c] \in {"notFull", "notEmpty"}
  /\ pc' = [pc EXCEPT ![c] = IF pc[c] = "notFull" THEN "put" ELSE "take"]
  /\ UNCHANGED <<running_, queue_, maxQueueSize_, threads_, owner, arg, fresh, ran>>

\* Mutant of Stop: one waiting worker is woken instead of all.
StopNotifiesOne ==
  /\ owner = "started"
  /\ owner' = "stopping"
  /\ running_' = FALSE
  /\ pc' \in Notify(pc, "notEmpty", "take")
  /\ UNCHANGED <<queue_, maxQueueSize_, threads_, arg, fresh, ran>>

\* stop(), called by the owner or by the destructor, up to the joins.
Stop ==
  /\ owner = "started"
  /\ owner' = "stopping"
  /\ running_' = FALSE
  /\ pc' = NotifyAll(pc, "notEmpty", "take")
  /\ UNCHANGED <<queue_, maxQueueSize_, threads_, arg, fresh, ran>>

\* The joins of stop() return.
Join ==
  /\ owner = "stopping"
  /\ \A w \in threads_ : pc[w] = "exited"
  /\ owner' = "joined"
  /\ UNCHANGED <<running_, queue_, maxQueueSize_, threads_, pc, arg, fresh, ran>>

WorkerStep(w) == TestRunning(w) \/ TakeNothing(w) \/ Take(w) \/ TaskReturns(w)

Next ==
  \/ \E W \in SUBSET Workers : Start(W)
  \/ Stop \/ Join
  \/ \E c \in Callers : Put(c) \/ SpuriousWakeup(c) \/ \E t \in Tasks : Run(c, t)
  \/ \E w \in Workers : WorkerStep(w)

\* Threads that can run do run, the mutex is not withheld from one for ever,
\* and tasks return.  Nobody has to call run() or stop(), and no spurious
\* wakeup has to happen.
Fairness ==
  /\ \A c \in Callers : WF_vars(Put(c))
  /\ \A w \in Workers : WF_vars(WorkerStep(w))
  /\ WF_vars(Join)

Spec == Init /\ [][Next]_vars /\ Fairness

-----------------------------------------------------------------------------
TypeOK ==
  /\ running_ \in BOOLEAN
  /\ threads_ \subseteq Workers
  /\ owner \in {"new", "started", "stopping", "joined"}
  /\ maxQueueSize_ \in MaxQueueSizes
  /\ queue_ \in Seq(Tasks)
  /\ pc \in [Callers -> {"idle", "task", "put", "notFull", "test", "take",
                         "notEmpty", "exited"}]
  /\ arg \in [Callers -> Tasks \union {NULL}]
  /\ fresh \subseteq Tasks /\ ran \subseteq Tasks

\* Each of the two conditions is signalled once per item, not once per
\* waiter: while a worker sleeps in a running pool, every queued task has a
\* worker of its own that is awake and on its way to take(); while a caller
\* sleeps in run(), every free place has a caller of its own on its way to it.
NoLostSignal ==
  /\ TypeOK
  /\ running_ /\ At("notEmpty") # {} => Len(queue_) <= Cardinality(At("take"))
  /\ At("notFull") # {} => Len(queue_) + Cardinality(At("put")) >= maxQueueSize_

\* Every worker is inside run() of its own pool, waiting for room.
WorkersBlocked == threads_ # {} /\ threads_ \subseteq At("notFull")

\* A task given to run() is called, unless the pool is stopped first or its
\* tasks have blocked all workers by calling run() on the full pool.
TasksRun ==
  \A t \in Tasks :
    t \notin fresh ~> t \in ran \/ owner \in {"stopping", "joined"} \/ WorkersBlocked

\* stop() returns, unless a worker is inside run() of its own pool, waiting
\* for room that no stopped worker makes any more.
StopTerminates ==
  owner = "stopping" ~> owner = "joined" \/ \E w \in threads_ : pc[w] = "notFull"
=============================================================================
