-------------------------- MODULE ThreadPoolProofs --------------------------
(***************************************************************************)
(* No notification of the thread pool is lost, for any numbers of workers, *)
(* producers and tasks and any bound on the queue.                         *)
(***************************************************************************)
EXTENDS ThreadPool, FiniteSetTheorems, TLAPS

\* The two halves of NoLostSignal.
NotEmptyOK ==
  running_ /\ At("notEmpty") # {} => Len(queue_) <= Cardinality(At("take"))
NotFullOK ==
  At("notFull") # {} => Len(queue_) + Cardinality(At("put")) >= maxQueueSize_

\* Whoever is inside run() has a task, and nobody is inside the pool's code
\* before start().
ArgInv == \A c \in Callers : pc[c] \in {"put", "notFull"} => arg[c] \in Tasks
NewInv == owner = "new" => threads_ = {} /\ \A c \in Callers : pc[c] = "idle"

IInv == TypeOK /\ ArgInv /\ NewInv /\ NotEmptyOK /\ NotFullOK

PCs == {"idle", "task", "put", "notFull", "test", "take", "notEmpty", "exited"}

\* The threads at l when the program counters are p, and their number.
Where(p, l) == {c \in Callers : p[c] = l}
Count(p, l) == Cardinality(Where(p, l))

-----------------------------------------------------------------------------
\* The labels of the program counters.
LEMMA Labels ==
  /\ "idle" \in PCs /\ "task" \in PCs /\ "put" \in PCs /\ "notFull" \in PCs
  /\ "test" \in PCs /\ "take" \in PCs /\ "notEmpty" \in PCs /\ "exited" \in PCs
BY DEF PCs

\* There are finitely many threads anywhere.
LEMMA WhereFinite ==
  ASSUME NEW p, NEW l
  PROVE  IsFiniteSet(Where(p, l)) /\ Count(p, l) \in Nat
<1>1. IsFiniteSet(Callers)
  BY FiniteAssumption, FS_Union DEF Callers
<1>2. IsFiniteSet(Where(p, l))
  BY <1>1, FS_Subset DEF Where
<1> QED BY <1>2, FS_CardinalityType DEF Count

\* A thread that comes to l is one more there.
LEMMA Arrives ==
  ASSUME NEW p, NEW q, NEW l, NEW c, c \notin Where(p, l), Where(q, l) = Where(p, l) \union {c}
  PROVE  Count(q, l) = Count(p, l) + 1
BY WhereFinite, FS_AddElement DEF Count

\* A thread that leaves l is one less there.
LEMMA Leaves ==
  ASSUME NEW p, NEW q, NEW l, NEW c, c \in Where(p, l), Where(q, l) = Where(p, l) \ {c}
  PROVE  Count(q, l) = Count(p, l) - 1
BY WhereFinite, FS_RemoveElement DEF Count

\* A notify wakes one of those who wait, unless there are none.
LEMMA NotifyWakes ==
  ASSUME NEW p \in [Callers -> PCs], NEW from \in PCs, NEW to \in PCs,
         NEW q \in Notify(p, from, to)
  PROVE  \/ q = p /\ Where(p, from) = {}
         \/ \E c \in Callers : p[c] = from /\ q = [p EXCEPT ![c] = to]
BY DEF Notify, Where

\* The two halves of NoLostSignal, in the numbers of the lemmas above.
LEMMA Counted ==
  /\ NotEmptyOK <=> (running_ /\ Where(pc, "notEmpty") # {} => Len(queue_) <= Count(pc, "take"))
  /\ NotFullOK <=> (Where(pc, "notFull") # {} => Len(queue_) + Count(pc, "put") >= maxQueueSize_)
BY DEF NotEmptyOK, NotFullOK, At, Where, Count

\* The same of the next state.
LEMMA CountedNext ==
  /\ NotEmptyOK' <=> (running_' /\ Where(pc', "notEmpty") # {} => Len(queue_') <= Count(pc', "take"))
  /\ NotFullOK' <=> (Where(pc', "notFull") # {} =>
                        Len(queue_') + Count(pc', "put") >= maxQueueSize_')
BY DEF NotEmptyOK, NotFullOK, At, Where, Count

\* The numbers that the invariant compares are naturals.
LEMMA Numbers ==
  ASSUME TypeOK
  PROVE  /\ pc \in [Callers -> PCs] /\ maxQueueSize_ \in Nat
         /\ Len(queue_) \in Nat
         /\ \A l : Count(pc, l) \in Nat
BY WhereFinite, SizesAssumption DEF TypeOK, PCs

-----------------------------------------------------------------------------
\* The start satisfies the invariant.
LEMMA InitInv == Init => IInv
<1> SUFFICES ASSUME Init PROVE IInv
  OBVIOUS
<1>1. queue_ \in Seq(Tasks) /\ maxQueueSize_ \in MaxQueueSizes
  BY DEF Init
<1>2. TypeOK
  BY <1>1 DEF Init, TypeOK
<1>3. ArgInv /\ NewInv
  BY DEF Init, ArgInv, NewInv
<1>4. NotEmptyOK /\ NotFullOK
  BY DEF Init, NotEmptyOK, NotFullOK, At
<1> QED BY <1>2, <1>3, <1>4 DEF IInv

\* start(): nobody waits for anything yet.
LEMMA StartStep == ASSUME IInv, NEW W \in SUBSET Workers, Start(W) PROVE IInv'
<1>1. \A c \in Callers : pc'[c] \in {"test", "idle"}
  BY DEF IInv, NewInv, Start
<1>2. TypeOK'
  BY DEF IInv, TypeOK, Start, Callers
<1>3. ArgInv' /\ NewInv'
  BY <1>1 DEF Start, ArgInv, NewInv
<1>4. NotEmptyOK' /\ NotFullOK'
  BY <1>1 DEF NotEmptyOK, NotFullOK, At
<1> QED BY <1>2, <1>3, <1>4 DEF IInv

\* run() is called: one more on the way to a place in the queue.
LEMMA RunStep == ASSUME IInv, NEW c \in Callers, NEW t \in Tasks, Run(c, t) PROVE IInv'
<1>1. TypeOK'
  BY DEF IInv, TypeOK, Run
<1>2. ArgInv' /\ NewInv'
  BY DEF IInv, TypeOK, ArgInv, NewInv, Run
<1>3. CASE threads_ = {}
  BY <1>1, <1>2, <1>3 DEF IInv, NotEmptyOK, NotFullOK, At, Run
<1>4. CASE threads_ # {}
  <2>1. pc \in [Callers -> PCs] /\ pc[c] \in {"task", "idle"} /\ pc' = [pc EXCEPT ![c] = "put"]
    BY <1>4 DEF IInv, TypeOK, PCs, Run
  <2>2. /\ Count(pc', "put") = Count(pc, "put") + 1
        /\ Where(pc', "notFull") = Where(pc, "notFull")
        /\ Where(pc', "notEmpty") = Where(pc, "notEmpty")
        /\ Where(pc', "take") = Where(pc, "take")
    <3>1. Count(pc', "put") = Count(pc, "put") + 1
      <4>1. c \notin Where(pc, "put") /\ Where(pc', "put") = Where(pc, "put") \union {c}
        BY <2>1 DEF Where
      <4> QED BY <4>1, Arrives
    <3>2. \A l \in PCs \ {pc[c], "put"} : Where(pc', l) = Where(pc, l)
      BY <2>1, Labels DEF Where
    <3> QED BY <2>1, <3>1, <3>2, Labels
  <2>3. UNCHANGED <<running_, queue_, maxQueueSize_>>
    BY DEF Run
  <2>4. NotEmptyOK'
    BY <2>2, <2>3 DEF IInv, NotEmptyOK, At, Where
  <2>5. NotFullOK'
    BY <2>2, <2>3, Counted, CountedNext, Numbers DEF IInv
  <2> QED BY <1>1, <1>2, <2>4, <2>5 DEF IInv
<1> QED BY <1>3, <1>4

\* run() on a full queue: the caller waits, and every place is taken.
LEMMA PutWaits == ASSUME IInv, NEW c \in Callers, Put(c), isFull PROVE IInv'
<1>1. /\ pc \in [Callers -> PCs] /\ pc[c] = "put" /\ pc' = [pc EXCEPT ![c] = "notFull"]
      /\ UNCHANGED <<running_, queue_, maxQueueSize_, threads_, owner, arg, fresh, ran>>
  BY DEF IInv, TypeOK, PCs, Put
<1>2. TypeOK'
  BY <1>1 DEF IInv, TypeOK
<1>3. ArgInv' /\ NewInv'
  BY <1>1 DEF IInv, TypeOK, ArgInv, NewInv
<1>4. Where(pc', "notEmpty") = Where(pc, "notEmpty") /\ Where(pc', "take") = Where(pc, "take")
  <2>1. \A l \in PCs \ {"put", "notFull"} : Where(pc', l) = Where(pc, l)
    BY <1>1, Labels DEF Where
  <2> QED BY <2>1, Labels
<1>5. NotEmptyOK'
  BY <1>1, <1>4 DEF IInv, NotEmptyOK, At, Where
<1>6. NotFullOK'
  <2>1. Cardinality(At("put"))' \in Nat
    BY WhereFinite DEF At, Where, Count
  <2> QED BY <1>1, <2>1, SizesAssumption DEF IInv, TypeOK, NotFullOK, isFull
<1> QED BY <1>2, <1>3, <1>5, <1>6 DEF IInv

\* run() with room: the new task has a worker of its own if one slept.
LEMMA PutEnqueues == ASSUME IInv, NEW c \in Callers, Put(c), ~isFull PROVE IInv'
<1> DEFINE r == Returned(c)
<1>1. /\ pc \in [Callers -> PCs] /\ pc[c] = "put"
      /\ UNCHANGED <<running_, maxQueueSize_, threads_, owner, fresh, ran>>
      /\ Enqueue(c)
  BY DEF IInv, TypeOK, PCs, Put
<1>2. /\ queue_ \in Seq(Tasks) /\ arg[c] \in Tasks
      /\ queue_' \in Seq(Tasks) /\ Len(queue_') = Len(queue_) + 1
  BY <1>1 DEF IInv, TypeOK, ArgInv, Enqueue
<1>3. /\ r \in [Callers -> PCs]
      /\ Count(r, "put") = Count(pc, "put") - 1
      /\ \A l \in {"notEmpty", "take", "notFull"} : Where(r, l) = Where(pc, l)
  <2>1. \E m \in {"task", "idle"} : r = [pc EXCEPT ![c] = m]
    BY DEF Returned
  <2>2. PICK m \in {"task", "idle"} : r = [pc EXCEPT ![c] = m]
    BY <2>1
  <2>3. r \in [Callers -> PCs]
    BY <1>1, <2>2 DEF PCs
  <2>4. Count(r, "put") = Count(pc, "put") - 1
    <3>1. c \in Where(pc, "put") /\ Where(r, "put") = Where(pc, "put") \ {c}
      BY <1>1, <2>2 DEF Where
    <3> QED BY <3>1, Leaves
  <2>5. \A l \in {"notEmpty", "take", "notFull"} : Where(r, l) = Where(pc, l)
    <3>1. \A l \in PCs \ {pc[c], m} : Where(r, l) = Where(pc, l)
      BY <1>1, <2>2, Labels DEF Where
    <3> QED BY <1>1, <2>2, <3>1, Labels
  <2> QED BY <2>3, <2>4, <2>5
<1>4. CASE pc' = r /\ Where(r, "notEmpty") = {}
  <2>1. NotEmptyOK'
    BY <1>4 DEF NotEmptyOK, At, Where
  <2>2. NotFullOK'
    BY <1>1, <1>2, <1>3, <1>4, Counted, CountedNext, Numbers DEF IInv
  <2>3. TypeOK'
    BY <1>1, <1>2, <1>3, <1>4 DEF IInv, TypeOK, Enqueue, PCs
  <2>4. ArgInv' /\ NewInv'
    BY <1>1, <1>4 DEF IInv, TypeOK, ArgInv, NewInv, Enqueue, Returned
  <2> QED BY <2>1, <2>2, <2>3, <2>4 DEF IInv
<1>5. ASSUME NEW d \in Callers, r[d] = "notEmpty", pc' = [r EXCEPT ![d] = "take"]
      PROVE IInv'
  <2>1. /\ pc' \in [Callers -> PCs]
        /\ Count(pc', "take") = Count(r, "take") + 1
        /\ \A l \in {"put", "notFull"} : Where(pc', l) = Where(r, l)
    <3>1. pc' \in [Callers -> PCs]
      BY <1>3, <1>5 DEF PCs
    <3>2. Count(pc', "take") = Count(r, "take") + 1
      <4>1. d \notin Where(r, "take") /\ Where(pc', "take") = Where(r, "take") \union {d}
        BY <1>3, <1>5 DEF Where
      <4> QED BY <4>1, Arrives
    <3>3. \A l \in {"put", "notFull"} : Where(pc', l) = Where(r, l)
      <4>1. \A l \in PCs \ {r[d], "take"} : Where(pc', l) = Where(r, l)
        BY <1>3, <1>5, Labels DEF Where
      <4> QED BY <1>5, <4>1, Labels
    <3> QED BY <3>1, <3>2, <3>3
  <2>2. NotEmptyOK'
    <3>1. Where(pc, "notEmpty") # {}
      BY <1>3, <1>5 DEF Where
    <3>2. Count(r, "take") = Count(pc, "take")
      BY <1>3 DEF Count
    <3> QED BY <1>1, <1>2, <2>1, <3>1, <3>2, Counted, CountedNext, Numbers DEF IInv
  <2>3. NotFullOK'
    <3>1. Count(pc', "put") = Count(pc, "put") - 1
      BY <1>3, <2>1 DEF Count
    <3> QED BY <1>1, <1>2, <1>3, <2>1, <3>1, Counted, CountedNext, Numbers DEF IInv
  <2>4. TypeOK'
    BY <1>1, <1>2, <2>1 DEF IInv, TypeOK, Enqueue, PCs
  <2>5. ArgInv' /\ NewInv'
    BY <1>1, <1>5 DEF IInv, TypeOK, ArgInv, NewInv, Enqueue, Returned
  <2> QED BY <2>2, <2>3, <2>4, <2>5 DEF IInv
<1> QED BY <1>1, <1>3, <1>4, <1>5, NotifyWakes DEF Enqueue, PCs

\* Steps of a worker that takes nothing: the flag is tested, or the queue is empty.
LEMMA IdleStep ==
  ASSUME IInv, NEW w \in Workers, TestRunning(w) \/ TakeNothing(w) \/ TaskReturns(w)
  PROVE  IInv'
<1>1. /\ pc \in [Callers -> PCs] /\ w \in Callers
      /\ UNCHANGED <<running_, queue_, maxQueueSize_, threads_, owner, arg, fresh, ran>>
      /\ \E m \in {"take", "exited", "notEmpty", "test"} : pc' = [pc EXCEPT ![w] = m]
      /\ pc[w] \in {"test", "take", "task"}
  BY DEF IInv, TypeOK, PCs, Callers, TestRunning, TakeNothing, TaskReturns
<1>2. TypeOK'
  BY <1>1 DEF IInv, TypeOK
<1>3. ArgInv' /\ NewInv'
  BY <1>1 DEF IInv, TypeOK, ArgInv, NewInv
<1>4. Where(pc', "notFull") = Where(pc, "notFull") /\ Where(pc', "put") = Where(pc, "put")
  BY <1>1 DEF Where
<1>5. NotFullOK'
  BY <1>1, <1>4, Counted, CountedNext DEF IInv, Count
<1>6. NotEmptyOK'
  <2>1. CASE TestRunning(w)
    <3>1. pc[w] = "test" /\ pc' = [pc EXCEPT ![w] = IF running_ THEN "take" ELSE "exited"]
      BY <2>1 DEF TestRunning
    <3>2. CASE running_
      <4>1. Where(pc', "notEmpty") = Where(pc, "notEmpty")
        BY <1>1, <3>1, <3>2 DEF Where
      <4>2. Count(pc', "take") = Count(pc, "take") + 1
        <5>1. w \notin Where(pc, "take") /\ Where(pc', "take") = Where(pc, "take") \union {w}
          BY <1>1, <3>1, <3>2 DEF Where
        <5> QED BY <5>1, Arrives
      <4>3. Len(queue_') = Len(queue_) /\ running_' = running_
        BY <1>1
      <4>4. Len(queue_) \in Nat /\ Count(pc, "take") \in Nat
        BY Numbers DEF IInv
      <4>5. Where(pc, "notEmpty") # {} => Len(queue_) <= Count(pc, "take")
        BY <3>2, Counted DEF IInv
      <4>6. Where(pc', "notEmpty") # {} => Len(queue_') <= Count(pc', "take")
        BY <4>1, <4>2, <4>3, <4>4, <4>5
      <4> QED BY <4>6, CountedNext
    <3>3. CASE ~running_
      BY <1>1, <3>3, CountedNext
    <3> QED BY <3>2, <3>3
  <2>2. CASE TakeNothing(w)
    <3>1. Len(queue_') = 0
      BY <2>2 DEF TakeNothing
    <3>2. Count(pc', "take") \in Nat
      BY WhereFinite
    <3> QED BY <3>1, <3>2, CountedNext
  <2>3. CASE TaskReturns(w)
    <3>1. /\ Where(pc', "notEmpty") = Where(pc, "notEmpty")
          /\ Where(pc', "take") = Where(pc, "take")
      BY <1>1, <2>3 DEF TaskReturns, Where
    <3> QED BY <1>1, <3>1, Counted, CountedNext DEF IInv, Count
  <2> QED BY <2>1, <2>2, <2>3
<1> QED BY <1>2, <1>3, <1>5, <1>6 DEF IInv

\* take() of a task: the place it leaves has a caller of its own if one slept.
LEMMA TakeStep == ASSUME IInv, NEW w \in Workers, Take(w) PROVE IInv'
<1> DEFINE r == [pc EXCEPT ![w] = "task"]
<1>1. /\ pc \in [Callers -> PCs] /\ w \in Callers /\ pc[w] = "take"
      /\ UNCHANGED <<running_, maxQueueSize_, threads_, owner, arg, fresh>>
      /\ pc' \in TakeNotifies(w)
  BY DEF IInv, TypeOK, PCs, Callers, Take
<1>2. /\ queue_' \in Seq(Tasks) /\ Len(queue_') = Len(queue_) - 1
      /\ ran' \subseteq Tasks
  BY DEF IInv, TypeOK, Take
<1>3. r \in [Callers -> PCs] /\ r[w] = "task"
  BY <1>1, Labels
<1>4. Count(r, "take") = Count(pc, "take") - 1
  <2>1. w \in Where(pc, "take") /\ Where(r, "take") = Where(pc, "take") \ {w}
    BY <1>1 DEF Where
  <2> QED BY <2>1, Leaves
<1>5. \A l \in {"notEmpty", "put", "notFull"} : Where(r, l) = Where(pc, l)
  BY <1>1 DEF Where
<1>6. \/ pc' = r /\ (maxQueueSize_ = 0 \/ Where(r, "notFull") = {})
      \/ \E d \in Callers : r[d] = "notFull" /\ pc' = [r EXCEPT ![d] = "put"]
  <2>1. CASE maxQueueSize_ > 0
    <3>1. pc' \in Notify(r, "notFull", "put")
      BY <1>1, <2>1 DEF TakeNotifies
    <3> HIDE DEF r
    <3> QED BY <1>3, <3>1, NotifyWakes, Labels
  <2>2. CASE ~(maxQueueSize_ > 0)
    BY <1>1, <2>2, Numbers DEF IInv, TakeNotifies
  <2> QED BY <2>1, <2>2
<1> HIDE DEF r
<1>7. CASE pc' = r /\ (maxQueueSize_ = 0 \/ Where(r, "notFull") = {})
  <2>1. NotEmptyOK'
    BY <1>1, <1>2, <1>4, <1>5, <1>7, Counted, CountedNext, Numbers DEF IInv
  <2>2. NotFullOK'
    <3>1. Count(pc', "put") \in Nat /\ Len(queue_') \in Nat
      BY <1>2, WhereFinite
    <3> QED BY <1>1, <1>7, <3>1, CountedNext
  <2>3. TypeOK'
    BY <1>1, <1>2, <1>3, <1>7 DEF IInv, TypeOK, PCs
  <2>4. ArgInv' /\ NewInv'
    BY <1>1, <1>3, <1>7 DEF IInv, TypeOK, ArgInv, NewInv, r
  <2> QED BY <2>1, <2>2, <2>3, <2>4 DEF IInv
<1>8. ASSUME NEW d \in Callers, r[d] = "notFull", pc' = [r EXCEPT ![d] = "put"]
      PROVE IInv'
  <2>1. pc' \in [Callers -> PCs]
    BY <1>3, <1>8, Labels
  <2>2. Count(pc', "put") = Count(r, "put") + 1
    <3>1. d \notin Where(r, "put") /\ Where(pc', "put") = Where(r, "put") \union {d}
      BY <1>3, <1>8 DEF Where
    <3> QED BY <3>1, Arrives
  <2>3. Where(pc', "notEmpty") = Where(r, "notEmpty") /\ Where(pc', "take") = Where(r, "take")
    BY <1>3, <1>8 DEF Where
  <2>4. NotEmptyOK'
    <3>1. Count(pc', "take") = Count(pc, "take") - 1
      BY <1>4, <2>3 DEF Count
    <3> QED BY <1>1, <1>2, <1>5, <2>3, <3>1, Counted, CountedNext, Numbers DEF IInv
  <2>5. NotFullOK'
    <3>1. Where(pc, "notFull") # {}
      BY <1>5, <1>8 DEF Where
    <3>2. Count(pc', "put") = Count(pc, "put") + 1
      BY <1>5, <2>2 DEF Count
    <3> QED BY <1>1, <1>2, <3>1, <3>2, Counted, CountedNext, Numbers DEF IInv
  <2>6. TypeOK'
    BY <1>1, <1>2, <2>1 DEF IInv, TypeOK, PCs
  <2>7. ArgInv' /\ NewInv'
    BY <1>1, <1>3, <1>8 DEF IInv, TypeOK, ArgInv, NewInv, r
  <2> QED BY <2>4, <2>5, <2>6, <2>7 DEF IInv
<1> QED BY <1>6, <1>7, <1>8

\* A wait that ends by itself brings one more to where the notify would.
LEMMA SpuriousStep == ASSUME IInv, NEW c \in Callers, SpuriousWakeup(c) PROVE IInv'
<1>1. /\ pc \in [Callers -> PCs]
      /\ UNCHANGED <<running_, queue_, maxQueueSize_, threads_, owner, arg, fresh, ran>>
  BY DEF IInv, TypeOK, PCs, SpuriousWakeup
<1>2. TypeOK'
  BY DEF IInv, TypeOK, SpuriousWakeup
<1>3. ArgInv' /\ NewInv'
  BY DEF IInv, TypeOK, ArgInv, NewInv, SpuriousWakeup
<1>4. CASE pc[c] = "notFull"
  <2>1. pc' = [pc EXCEPT ![c] = "put"]
    BY <1>4 DEF SpuriousWakeup
  <2>2. c \notin Where(pc, "put") /\ Where(pc', "put") = Where(pc, "put") \union {c}
    BY <1>1, <1>4, <2>1 DEF Where
  <2>3. /\ Where(pc', "notEmpty") = Where(pc, "notEmpty") /\ Where(pc', "take") = Where(pc, "take")
        /\ Where(pc, "notFull") # {}
    BY <1>1, <1>4, <2>1 DEF Where
  <2>4. Count(pc', "put") = Count(pc, "put") + 1
    BY <2>2, Arrives
  <2>5. NotEmptyOK'
    BY <1>1, <2>3, Counted, CountedNext DEF IInv, Count
  <2>6. NotFullOK'
    BY <1>1, <2>3, <2>4, Counted, CountedNext, Numbers DEF IInv
  <2> QED BY <1>2, <1>3, <2>5, <2>6 DEF IInv
<1>5. CASE pc[c] = "notEmpty"
  <2>1. pc' = [pc EXCEPT ![c] = "take"]
    BY <1>5 DEF SpuriousWakeup
  <2>2. c \notin Where(pc, "take") /\ Where(pc', "take") = Where(pc, "take") \union {c}
    BY <1>1, <1>5, <2>1 DEF Where
  <2>3. /\ Where(pc', "notFull") = Where(pc, "notFull") /\ Where(pc', "put") = Where(pc, "put")
        /\ Where(pc, "notEmpty") # {}
    BY <1>1, <1>5, <2>1 DEF Where
  <2>4. Count(pc', "take") = Count(pc, "take") + 1
    BY <2>2, Arrives
  <2>5. NotFullOK'
    BY <1>1, <2>3, Counted, CountedNext DEF IInv, Count
  <2>6. NotEmptyOK'
    BY <1>1, <2>3, <2>4, Counted, CountedNext, Numbers DEF IInv
  <2> QED BY <1>2, <1>3, <2>5, <2>6 DEF IInv
<1> QED BY <1>4, <1>5 DEF SpuriousWakeup

\* stop() wakes every worker that waits for a task, and no caller of run().
LEMMA StopStep == ASSUME IInv, Stop PROVE IInv'
<1>1. pc \in [Callers -> PCs] /\ pc' = [c \in Callers |-> IF pc[c] = "notEmpty" THEN "take" ELSE pc[c]]
  BY DEF IInv, TypeOK, PCs, Stop, NotifyAll
<1>2. TypeOK'
  <2>1. pc' \in [Callers -> PCs]
    BY <1>1, Labels
  <2> QED BY <2>1 DEF IInv, TypeOK, Stop, PCs
<1>3. ArgInv' /\ NewInv'
  BY <1>1 DEF IInv, TypeOK, ArgInv, NewInv, Stop
<1>4. NotEmptyOK'
  BY DEF NotEmptyOK, Stop
<1>5. Where(pc', "notFull") = Where(pc, "notFull") /\ Where(pc', "put") = Where(pc, "put")
  BY <1>1 DEF Where
<1>6. NotFullOK'
  BY <1>5, Counted, CountedNext DEF IInv, Count, Stop
<1> QED BY <1>2, <1>3, <1>4, <1>6 DEF IInv

\* The joins, and steps of others, change nothing that the invariant speaks of.
LEMMA QuietStep == ASSUME IInv, Join \/ UNCHANGED vars PROVE IInv'
<1>1. UNCHANGED <<running_, queue_, maxQueueSize_, threads_, pc, arg, fresh, ran>>
  BY DEF Join, vars
<1>2. owner' \in {"new", "started", "stopping", "joined"} /\ (owner' = "new" => owner = "new")
  BY DEF IInv, TypeOK, Join, vars
<1>3. TypeOK' /\ ArgInv' /\ NewInv'
  BY <1>1, <1>2 DEF IInv, TypeOK, ArgInv, NewInv
<1>4. NotEmptyOK' /\ NotFullOK'
  BY <1>1 DEF IInv, NotEmptyOK, NotFullOK, At
<1> QED BY <1>3, <1>4 DEF IInv

-----------------------------------------------------------------------------
\* No notify of the pool is lost: in a running pool a worker sleeps only while
\* every queued task has a worker on its way to take(), and a caller of run()
\* sleeps only while every free place has a caller on its way to it; for any
\* numbers of threads and tasks, any bound, and tasks that call run().
THEOREM SignalsAreNotLost == Spec => []NoLostSignal
<1>1. IInv /\ [Next]_vars => IInv'
  <2> SUFFICES ASSUME IInv, [Next]_vars PROVE IInv'
    OBVIOUS
  <2>1. ASSUME NEW W \in SUBSET Workers, Start(W) PROVE IInv'
    BY <2>1, StartStep
  <2>2. ASSUME NEW c \in Callers, Put(c) PROVE IInv'
    BY <2>2, PutWaits, PutEnqueues
  <2>3. ASSUME NEW c \in Callers, SpuriousWakeup(c) PROVE IInv'
    BY <2>3, SpuriousStep
  <2>4. ASSUME NEW c \in Callers, NEW t \in Tasks, Run(c, t) PROVE IInv'
    BY <2>4, RunStep
  <2>5. ASSUME NEW w \in Workers, WorkerStep(w) PROVE IInv'
    BY <2>5, IdleStep, TakeStep DEF WorkerStep
  <2>6. CASE Stop
    BY <2>6, StopStep
  <2>7. CASE Join \/ UNCHANGED vars
    BY <2>7, QuietStep
  <2> QED BY <2>1, <2>2, <2>3, <2>4, <2>5, <2>6, <2>7 DEF Next
<1>2. IInv => NoLostSignal
  BY DEF IInv, NotEmptyOK, NotFullOK, NoLostSignal
<1> QED BY InitInv, <1>1, <1>2, PTL DEF Spec
=============================================================================
