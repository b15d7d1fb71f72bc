--------------------------- MODULE EventLoopThread ---------------------------
(***************************************************************************)
(* muduo::net::EventLoopThread (src/muduo/net/EventLoopThread.cc): a       *)
(* thread whose function owns an EventLoop on its stack, publishes its     *)
(* address in loop_ and runs loop(); and the owner of the EventLoopThread  *)
(* object, which calls startLoop() and later the destructor.  The loop     *)
(* itself, and the threads that post to it, are those of module EventLoop. *)
(***************************************************************************)
EXTENDS EventLoop

CONSTANT Owner           \* the thread that owns the EventLoopThread object

ASSUME OwnerAssumption == Owner \in Threads

VARIABLES
  stage,   \* how far threadFunc is: "unstarted", "init" (loop constructed,
           \* callback_ running), "published", "looping", "unpublished"
           \* (loop_ reset), "ended" (the EventLoop is destroyed)
  loop_,   \* loop_ != NULL
  owner    \* the owner: "new", "waiting" in startLoop, "running" (startLoop has
           \* returned), then in the destructor "quitting", "joining", and
           \* finally "joined", "skipped" (loop_ was NULL, nothing to stop) or
           \* "crashed" (loop_ became NULL between its test and its use)

threadVars == <<stage, loop_, owner>>
allVars    == <<vars, threadVars>>

TInit ==
  /\ Init
  /\ stage = "unstarted"
  /\ loop_ = FALSE
  /\ owner = "new"

-----------------------------------------------------------------------------
(* startLoop() and ~EventLoopThread() *)

\* thread_.start()
StartLoop ==
  /\ owner = "new"
  /\ owner' = "waiting"
  /\ stage' = "init"
  /\ UNCHANGED <<loop_, vars>>

\* Mutant of StartLoopReturns: it does not wait for loop_.
StartLoopDoesNotWait ==
  /\ owner = "waiting"
  /\ owner' = "running"
  /\ UNCHANGED <<stage, loop_, vars>>

\* while (loop_ == NULL) cond_.wait();  return loop_;
StartLoopReturns ==
  /\ owner = "waiting"
  /\ loop_
  /\ owner' = "running"
  /\ UNCHANGED <<stage, loop_, vars>>

\* ~EventLoopThread: if (loop_ != NULL), read without the lock.
DtorTest ==
  /\ owner \in {"new", "running"}
  /\ ~wakeupDue[Owner]
  /\ owner' = IF loop_ THEN "quitting" ELSE "skipped"
  /\ UNCHANGED <<stage, loop_, vars>>

\* loop_->quit(), with loop_ read again; its wakeup() is Wakeup(Owner).
DtorQuit ==
  /\ owner = "quitting"
  /\ IF loop_ THEN Quit(Owner) /\ owner' = "joining"
              ELSE UNCHANGED vars /\ owner' = "crashed"
  /\ UNCHANGED <<stage, loop_>>

\* thread_.join()
DtorJoin ==
  /\ owner = "joining"
  /\ ~wakeupDue[Owner]
  /\ stage = "ended"
  /\ owner' = "joined"
  /\ UNCHANGED <<stage, loop_, vars>>

-----------------------------------------------------------------------------
(* threadFunc() *)

\* Mutant of Publish: the address is not published.
PublishNothing ==
  /\ stage = "init"
  /\ stage' = "published"
  /\ UNCHANGED <<loop_, owner, vars>>

\* loop_ = &loop; cond_.notify(); under the lock, after callback_ returned.
Publish ==
  /\ stage = "init"
  /\ stage' = "published"
  /\ loop_' = TRUE
  /\ UNCHANGED <<owner, vars>>

EnterLoop ==
  /\ stage = "published"
  /\ stage' = "looping"
  /\ Loop
  /\ UNCHANGED <<loop_, owner>>

\* loop() has returned: loop_ = NULL, without the lock.
Unpublish ==
  /\ stage = "looping"
  /\ ~looping_
  /\ stage' = "unpublished"
  /\ loop_' = FALSE
  /\ UNCHANGED <<owner, vars>>

\* The EventLoop on the stack is destroyed and the thread ends.
Destroy ==
  /\ stage = "unpublished"
  /\ stage' = "ended"
  /\ UNCHANGED <<loop_, owner, vars>>

ThreadFunc == Publish \/ EnterLoop \/ Unpublish \/ Destroy

-----------------------------------------------------------------------------
(* Steps of EventLoop in this setting. *)

\* User code of the loop thread: the thread-init callback_, event callbacks
\* and functors; nothing of the user's runs around loop() otherwise.
InsideUserStep == (looping_ \/ stage = "init") /\ UserStep /\ UNCHANGED threadVars

\* Other threads post to the loop between startLoop() and the destructor.
Post(t) ==
  /\ owner = "running"
  /\ stage \in {"published", "looping"}
  /\ \E f \in Functors : RunInLoop(t, f)
  /\ UNCHANGED threadVars

TNext ==
  \/ StartLoop \/ StartLoopReturns \/ DtorTest \/ DtorQuit \/ DtorJoin
  \/ ThreadFunc
  \/ LoopStep /\ UNCHANGED threadVars
  \/ PollInterrupted /\ UNCHANGED threadVars
  \/ InsideUserStep
  \/ \E t \in Threads : Post(t) \/ (Wakeup(t) /\ UNCHANGED threadVars)
  \/ \E c \in Channels : stage # "unstarted" /\ IoEvent(c) /\ UNCHANGED threadVars

\* The threads keep running; nobody has to call startLoop() or the destructor.
TFairness ==
  /\ WF_allVars(LoopStep /\ UNCHANGED threadVars)
  /\ WF_allVars(ThreadFunc)
  /\ WF_allVars(StartLoopReturns \/ DtorQuit \/ DtorJoin)
  /\ \A t \in Threads : WF_allVars(Wakeup(t) /\ UNCHANGED threadVars)

TSpec == TInit /\ [][TNext]_allVars /\ TFairness

-----------------------------------------------------------------------------
(* Properties. *)

TTypeOK ==
  /\ TypeOK
  /\ stage \in {"unstarted", "init", "published", "looping", "unpublished", "ended"}
  /\ loop_ \in BOOLEAN
  /\ owner \in {"new", "waiting", "running", "quitting", "joining", "joined",
                "skipped", "crashed"}

\* startLoop() returns, unless the loop has already been left again (by a
\* quit() from one of its own callbacks).
StartLoopTerminates ==
  (owner = "waiting") ~> (owner = "running" \/ stage \in {"unpublished", "ended"})

\* The destructor leaves out quit() and join() only if there is no loop to
\* stop: the thread was never started, or its loop() has returned.  (The
\* comment "not 100% race-free, eg. threadFunc could be running callback_" is
\* kept harmless by startLoop, which waits until loop_ is published.)
SkipsOnlyWhenStopped == owner = "skipped" => stage \in {"unstarted", "unpublished", "ended"}

\* A destructor that gets to quit() while the thread is inside loop() returns,
\* or finds loop_ reset under its feet.
DtorStopsRunningLoop ==
  (owner = "quitting" /\ looping_) ~> (owner \in {"joined", "crashed"})

\* startLoop() and the destructor do their work: they return, and what they
\* leave behind is not a loop that nobody stops.
OwnerReturns ==
  StartLoopTerminates /\ DtorStopsRunningLoop /\ [](TTypeOK /\ SkipsOnlyWhenStopped)

\* Not kept (README, section 5): quit() before loop() is forgotten.
\* ~EventLoopThread returns.  The comment above it: if loop_ is not NULL the
\* loop is running, the EventLoop has to be shut down, and the thread is joined.
DtorTerminates ==
  (owner = "quitting") ~> (owner \in {"joined", "crashed"})
=============================================================================
