------------------------ MODULE ThriftConnectionPool ------------------------
(***************************************************************************)
(* ThriftConnectionPool (src/muduo/base/thrift_connection_pool.h): threads *)
(* borrow connections to hosts, return or destroy them; the pool keeps     *)
(* idle connections for ever, bounds their number per host and in all, and *)
(* lets a borrower wait, for at most mBlockWaitMs, on one condition for    *)
(* all hosts.  Everything under mMutex, opening a connection included, is  *)
(* one action.  The maps' entries appear with the first use of a host and  *)
(* stay; here they are there, empty, from the start.                       *)
(***************************************************************************)
EXTENDS Naturals, Sequences, FiniteSets, Functions

CONSTANTS
  Borrowers, Hosts,
  Clients,          \* addresses for client objects, reused after delete
  mMaxConn, mMaxConnPerHost,
  NULL

ASSUME LimitsAssumption == mMaxConn \in Nat /\ mMaxConnPerHost \in Nat
ASSUME NullAssumption == NULL \notin Clients

VARIABLES
  mIdleConns,    \* per host, a deque of clients
  mActiveConns,  \* per host, the set of clients that are lent
  mTotalConn,
  pc,      \* a borrower: "out", "get" about to test for a connection inside
           \* get_connection, "wait" in timed_wait, "hold" with a ThriftConnection
  host,    \* the host it asks for, or has a connection to
  client,  \* mClient of its ThriftConnection; NULL if none, or after destroy()
  freed    \* the waiting borrowers since whose last test destroy_connection
           \* has freed a place

vars == <<mIdleConns, mActiveConns, mTotalConn, pc, host, client, freed>>

Waiting == {b \in Borrowers : pc[b] = "wait"}
Live == UNION {Range(mIdleConns[h]) \union mActiveConns[h] : h \in Hosts}

Init ==
  /\ mIdleConns = [h \in Hosts |-> <<>>]
  /\ mActiveConns = [h \in Hosts |-> {}]
  /\ mTotalConn = 0
  /\ pc = [b \in Borrowers |-> "out"]
  /\ host \in [Borrowers -> Hosts]
  /\ client = [b \in Borrowers |-> NULL]
  /\ freed = {}

\* get_connection(h) is called.
Get(b, h) ==
  /\ pc[b] = "out"
  /\ pc' = [pc EXCEPT ![b] = "get"]
  /\ host' = [host EXCEPT ![b] = h]
  /\ UNCHANGED <<mIdleConns, mActiveConns, mTotalConn, client, freed>>

\* Borrower b gets client c.
Lend(b, c) ==
  /\ mActiveConns' = [mActiveConns EXCEPT ![host[b]] = @ \union {c}]
  /\ client' = [client EXCEPT ![b] = c]
  /\ pc' = [pc EXCEPT ![b] = "hold"]

\* connIdle is not empty: take its front.
TakeIdle(b) ==
  /\ pc[b] = "get"
  /\ mIdleConns[host[b]] # <<>>
  /\ Lend(b, Head(mIdleConns[host[b]]))
  /\ mIdleConns' = [mIdleConns EXCEPT ![host[b]] = Tail(@)]
  /\ UNCHANGED <<mTotalConn, host, freed>>

\* count < mMaxConnPerHost && mTotalConn < mMaxConn
HasRoom(h) ==
  /\ Len(mIdleConns[h]) + Cardinality(mActiveConns[h]) < mMaxConnPerHost
  /\ mTotalConn < mMaxConn

\* Nothing idle, but room: open a connection.
OpenNew(b) ==
  /\ pc[b] = "get"
  /\ mIdleConns[host[b]] = <<>>
  /\ HasRoom(host[b])
  /\ \E c \in Clients \ Live : Lend(b, c)
  /\ mTotalConn' = mTotalConn + 1
  /\ UNCHANGED <<mIdleConns, host, freed>>

\* new_client throws: the exception leaves get_connection.
OpenFails(b) ==
  /\ pc[b] = "get"
  /\ mIdleConns[host[b]] = <<>>
  /\ HasRoom(host[b])
  /\ pc' = [pc EXCEPT ![b] = "out"]
  /\ UNCHANGED <<mIdleConns, mActiveConns, mTotalConn, host, client, freed>>

\* Neither: mCond.timed_wait(lock, timeout).
Wait(b) ==
  /\ pc[b] = "get"
  /\ mIdleConns[host[b]] = <<>>
  /\ ~HasRoom(host[b])
  /\ pc' = [pc EXCEPT ![b] = "wait"]
  /\ freed' = freed \ {b}
  /\ UNCHANGED <<mIdleConns, mActiveConns, mTotalConn, host, client>>

\* Mutant of TimesOut: no break after the timeout.
TimesOutAndRetries(b) ==
  /\ pc[b] = "wait"
  /\ pc' = [pc EXCEPT ![b] = "get"]
  /\ UNCHANGED <<mIdleConns, mActiveConns, mTotalConn, host, client, freed>>

\* The time is up: get_connection throws, without testing again.
TimesOut(b) ==
  /\ pc[b] = "wait"
  /\ pc' = [pc EXCEPT ![b] = "out"]
  /\ UNCHANGED <<mIdleConns, mActiveConns, mTotalConn, host, client, freed>>

\* timed_wait returns true without a notify.
SpuriousWakeup(b) ==
  /\ pc[b] = "wait"
  /\ pc' = [pc EXCEPT ![b] = "get"]
  /\ UNCHANGED <<mIdleConns, mActiveConns, mTotalConn, host, client, freed>>

\* Mutant of NotifyAll: mCond.notify_one().
NotifyOne(p) ==
  IF Waiting = {} THEN p ELSE [p EXCEPT ![CHOOSE b \in Waiting : TRUE] = "get"]

\* mCond.notify_all()
NotifyAll(p) == [b \in Borrowers |-> IF p[b] = "wait" THEN "get" ELSE p[b]]

\* ~ThriftConnection with its client: return_connection.
Return(b) ==
  /\ pc[b] = "hold"
  /\ client[b] # NULL
  /\ mIdleConns' = [mIdleConns EXCEPT ![host[b]] = <<client[b]>> \o @]
  /\ mActiveConns' = [mActiveConns EXCEPT ![host[b]] = @ \ {client[b]}]
  /\ client' = [client EXCEPT ![b] = NULL]
  /\ pc' = NotifyAll([pc EXCEPT ![b] = "out"])
  /\ UNCHANGED <<mTotalConn, host, freed>>

\* Mutant of Destroy: the ThriftConnection keeps its client.
DestroyKeepsClient(b) ==
  /\ pc[b] = "hold"
  /\ client[b] # NULL
  /\ mActiveConns' = [mActiveConns EXCEPT ![host[b]] = @ \ {client[b]}]
  /\ mTotalConn' = mTotalConn - 1
  /\ freed' = freed \union Waiting
  /\ UNCHANGED <<mIdleConns, pc, host, client>>

\* ThriftConnection::destroy(): destroy_connection and mClient = NULL.  No
\* waiting borrower is woken.
Destroy(b) ==
  /\ pc[b] = "hold"
  /\ client[b] # NULL
  /\ mActiveConns' = [mActiveConns EXCEPT ![host[b]] = @ \ {client[b]}]
  /\ mTotalConn' = mTotalConn - 1
  /\ client' = [client EXCEPT ![b] = NULL]
  /\ freed' = freed \union Waiting
  /\ UNCHANGED <<mIdleConns, pc, host>>

\* ~ThriftConnection after destroy(): nothing to return.
Discard(b) ==
  /\ pc[b] = "hold"
  /\ client[b] = NULL
  /\ pc' = [pc EXCEPT ![b] = "out"]
  /\ UNCHANGED <<mIdleConns, mActiveConns, mTotalConn, host, client, freed>>

\* One turn of the loop in get_connection, under the lock.
Turn(b) == TakeIdle(b) \/ OpenNew(b) \/ OpenFails(b) \/ Wait(b)

Next ==
  \E b \in Borrowers :
    \/ \E h \in Hosts : Get(b, h)
    \/ Turn(b) \/ TimesOut(b) \/ SpuriousWakeup(b)
    \/ Return(b) \/ Destroy(b) \/ Discard(b)

\* A borrower inside get_connection gets the mutex, and its time runs out
\* even if notifies keep waking it, since the deadline is absolute (strong
\* fairness).  Nobody has to give a connection back.
Fairness == \A b \in Borrowers : WF_vars(Turn(b)) /\ SF_vars(TimesOut(b))

Spec == Init /\ [][Next]_vars /\ Fairness

-----------------------------------------------------------------------------
TypeOK ==
  /\ mIdleConns \in [Hosts -> Seq(Clients)]
  /\ mActiveConns \in [Hosts -> SUBSET Clients]
  /\ mTotalConn \in Nat
  /\ pc \in [Borrowers -> {"out", "get", "wait", "hold"}]
  /\ host \in [Borrowers -> Hosts]
  /\ client \in [Borrowers -> Clients \union {NULL}]
  /\ freed \subseteq Borrowers

\* The books are right whatever order the borrowers come in: mTotalConn
\* counts the connections that exist, each is at one place, the limits hold,
\* and the active ones are exactly those that a borrower has, one each.
Accounting ==
  /\ TypeOK
  /\ mTotalConn = Cardinality(Live) /\ mTotalConn <= mMaxConn
  /\ \A h \in Hosts :
       /\ Len(mIdleConns[h]) = Cardinality(Range(mIdleConns[h]))
       /\ Range(mIdleConns[h]) \intersect mActiveConns[h] = {}
       /\ Len(mIdleConns[h]) + Cardinality(mActiveConns[h]) <= mMaxConnPerHost
       /\ mActiveConns[h] = {client[b] : b \in {a \in Borrowers : host[a] = h}} \ {NULL}
       /\ \A g \in Hosts \ {h} : (Range(mIdleConns[h]) \union mActiveConns[h])
                                   \intersect (Range(mIdleConns[g]) \union mActiveConns[g]) = {}
  /\ \A a, b \in Borrowers : a # b /\ client[a] # NULL => client[a] # client[b]

\* A borrower waits only while there is nothing for it: never beside an idle
\* connection to its host, and beside room for a new one only if that room
\* came from destroy_connection, which wakes nobody.
WaitsInNeed ==
  \A b \in Waiting :
    /\ mIdleConns[host[b]] = <<>>
    /\ HasRoom(host[b]) => b \in freed

\* get_connection comes back, with a connection or an exception, although
\* one condition serves the borrowers of all hosts.
GetReturns == \A b \in Borrowers : pc[b] = "get" ~> pc[b] \in {"hold", "out"}
=============================================================================
