---------------------------- MODULE ThriftProofs ----------------------------
(***************************************************************************)
(* Three parts of the Thrift code, for any numbers of threads, hosts,      *)
(* connections, requests and calls: the connection pool's books are right  *)
(* and nobody waits in vain; the cthrift server shuts exactly the          *)
(* connections that were idle for a turn of the wheel and cuts the stream  *)
(* into the frames that were sent; a cthrift client's call gets its own    *)
(* answer, and the client keeps neither a stale entry nor a stale mark.    *)
(* The parts share nothing but the library's theorems; the invariant of    *)
(* each is the conjunction that IInv, SvrIInv and ClientIInv name.         *)
(***************************************************************************)
EXTENDS ThriftConnectionPool, CthriftSvr, CthriftClient,
        FiniteSetTheorems, SequenceTheorems, WellFoundedInduction, TLAPS

-----------------------------------------------------------------------------
(***************************************************************************)
(* The connection pool.                                                    *)
(***************************************************************************)

\* The connections to h.
Place(h) == Range(mIdleConns[h]) \union mActiveConns[h]

\* No client is twice in a deque.
DequesInv == \A h \in Hosts : IsInjective(mIdleConns[h])

\* No client is at two places.
ApartInv ==
  /\ \A h \in Hosts : Range(mIdleConns[h]) \intersect mActiveConns[h] = {}
  /\ \A h, g \in Hosts : h # g => Place(h) \intersect Place(g) = {}

\* The limit of each host holds.
LimitInv ==
  \A h \in Hosts :
    /\ IsFiniteSet(mActiveConns[h])
    /\ Len(mIdleConns[h]) + Cardinality(mActiveConns[h]) <= mMaxConnPerHost

\* mTotalConn counts the connections, and its limit holds.
TotalInv == IsFiniteSet(Live) /\ mTotalConn = Cardinality(Live) /\ mTotalConn <= mMaxConn

\* What is lent is what borrowers have, each a client of its own; only one who
\* has come back from get_connection has any.
LentInv ==
  /\ \A b \in Borrowers : client[b] # NULL => pc[b] = "hold" /\ client[b] \in mActiveConns[host[b]]
  /\ \A h \in Hosts : \A c \in mActiveConns[h] :
       \E b \in Borrowers : host[b] = h /\ client[b] = c
  /\ \A a, b \in Borrowers : a # b /\ client[a] # NULL => client[a] # client[b]

IInv ==
  /\ TypeOK /\ DequesInv /\ ApartInv /\ LimitInv /\ TotalInv /\ LentInv
  /\ WaitsInNeed

-----------------------------------------------------------------------------
(* Deques without repetition. *)

\* The length of such a deque is the number of its clients.
LEMMA DequeSize ==
  ASSUME NEW s \in Seq(Clients), IsInjective(s)
  PROVE  IsFiniteSet(Range(s)) /\ Cardinality(Range(s)) = Len(s)
<1>1. IsFiniteSet(1..Len(s)) /\ Cardinality(1..Len(s)) = Len(s)
  <2>1. Len(s) \in Nat /\ Len(s) \in Int /\ 1 \in Int
    OBVIOUS
  <2>2. /\ IsFiniteSet(1..Len(s))
        /\ Cardinality(1..Len(s)) = IF 1 > Len(s) THEN 0 ELSE Len(s) - 1 + 1
    BY <2>1, FS_Interval, Zenon
  <2> QED BY <2>1, <2>2
<1>2. s \in Bijection(1..Len(s), Range(s))
  <2>1. DOMAIN s = 1..Len(s) /\ s \in [1..Len(s) -> Range(s)]
    BY DEF Range
  <2>2. s \in Injection(1..Len(s), Range(s))
    BY <2>1 DEF Injection
  <2>3. s \in Surjection(1..Len(s), Range(s))
    BY <2>1 DEF Surjection, Range
  <2> QED BY <2>2, <2>3 DEF Bijection
<1>3. ExistsBijection(1..Len(s), Range(s))
  BY <1>2 DEF ExistsBijection
<1> QED BY <1>1, <1>3, FS_Bijection

\* pop_front takes one client out.
LEMMA DequePop ==
  ASSUME NEW s \in Seq(Clients), IsInjective(s), s # <<>>
  PROVE  /\ Head(s) \in Range(s) /\ Head(s) \in Clients
         /\ Tail(s) \in Seq(Clients) /\ IsInjective(Tail(s)) /\ Len(s) = Len(Tail(s)) + 1
         /\ Range(Tail(s)) = Range(s) \ {Head(s)}
<1>1. Head(s) \in Range(s) /\ Head(s) \in Clients
  BY DEF Range
<1>2. Tail(s) \in Seq(Clients) /\ Len(s) = Len(Tail(s)) + 1
  BY DEF Range
<1>3. \A i \in DOMAIN Tail(s) : i + 1 \in DOMAIN s /\ i + 1 # 1 /\ Tail(s)[i] = s[i + 1]
  OBVIOUS
<1>4. IsInjective(Tail(s))
  BY <1>3, <1>2 DEF IsInjective
<1>5. \A i \in DOMAIN s : i # 1 => i - 1 \in DOMAIN Tail(s) /\ Tail(s)[i - 1] = s[i]
  OBVIOUS
<1>6. Range(Tail(s)) = Range(s) \ {Head(s)}
  <2>1. 1 \in DOMAIN s /\ Head(s) = s[1]
    OBVIOUS
  <2>2. ASSUME NEW c \in Range(Tail(s)) PROVE c \in Range(s) \ {Head(s)}
    BY <1>3, <2>1 DEF Range, IsInjective
  <2>3. ASSUME NEW c \in Range(s) \ {Head(s)} PROVE c \in Range(Tail(s))
    BY <1>5, <2>1 DEF Range
  <2> QED BY <2>2, <2>3
<1> QED BY <1>1, <1>2, <1>4, <1>6

\* push_front of another client puts it in.
LEMMA DequePush ==
  ASSUME NEW s \in Seq(Clients), IsInjective(s), NEW c \in Clients, c \notin Range(s)
  PROVE  /\ <<c>> \o s \in Seq(Clients) /\ IsInjective(<<c>> \o s)
         /\ Len(<<c>> \o s) = Len(s) + 1
         /\ Range(<<c>> \o s) = Range(s) \union {c}
<1> DEFINE t == <<c>> \o s
<1>1. t \in Seq(Clients) /\ Len(t) = Len(s) + 1
  OBVIOUS
<1>2. t[1] = c /\ \A i \in DOMAIN t : i # 1 => i - 1 \in DOMAIN s /\ t[i] = s[i - 1]
  OBVIOUS
<1>3. \A i \in DOMAIN s : i + 1 \in DOMAIN t /\ t[i + 1] = s[i]
  OBVIOUS
<1>4. 1 \in DOMAIN t /\ DOMAIN t = 1..(Len(s) + 1)
  BY <1>1
<1> HIDE DEF t
<1>5. IsInjective(t)
  <2> SUFFICES ASSUME NEW i \in DOMAIN t, NEW j \in DOMAIN t, t[i] = t[j] PROVE i = j
    BY DEF IsInjective
  <2>1. CASE i = 1 \/ j = 1
    BY <1>2, <2>1 DEF Range
  <2>2. CASE i # 1 /\ j # 1
    BY <1>2, <1>4, <2>2 DEF IsInjective
  <2> QED BY <2>1, <2>2
<1>6. Range(t) = Range(s) \union {c}
  <2>1. ASSUME NEW d \in Range(t) PROVE d \in Range(s) \union {c}
    BY <1>2 DEF Range
  <2>2. ASSUME NEW d \in Range(s) \union {c} PROVE d \in Range(t)
    BY <1>2, <1>3, <1>4 DEF Range
  <2> QED BY <2>1, <2>2
<1> QED BY <1>1, <1>5, <1>6 DEF t

\* A client exists if it is at some host.
LEMMA LiveAt == \A c : c \in Live <=> \E h \in Hosts : c \in Place(h)
BY DEF Live, Place

\* The same of the next state.
LEMMA LiveAtNext == \A c : c \in Live' <=> \E h \in Hosts : c \in Place(h)'
BY DEF Live, Place

-----------------------------------------------------------------------------
\* The start satisfies the invariant.
LEMMA InitInv == Init => IInv
<1> SUFFICES ASSUME Init PROVE IInv
  OBVIOUS
<1>1. TypeOK
  <2>1. <<>> \in Seq(Clients)
    OBVIOUS
  <2>2. mIdleConns \in [Hosts -> Seq(Clients)] /\ mActiveConns \in [Hosts -> SUBSET Clients]
    BY <2>1 DEF Init
  <2> QED BY <2>2 DEF Init, TypeOK
<1>2. \A h \in Hosts : mIdleConns[h] = <<>> /\ Range(mIdleConns[h]) = {} /\ mActiveConns[h] = {}
  BY DEF Init, Range
<1>3. DequesInv /\ ApartInv
  BY <1>2 DEF DequesInv, ApartInv, IsInjective, Place
<1>4. LimitInv
  <2>1. IsFiniteSet({}) /\ Cardinality({}) = 0 /\ Len(<<>>) = 0
    BY FS_EmptySet
  <2>2. \A h \in Hosts : Len(mIdleConns[h]) = 0 /\ Cardinality(mActiveConns[h]) = 0
                          /\ IsFiniteSet(mActiveConns[h])
    BY <1>2, <2>1, Zenon
  <2> QED BY <2>2, LimitsAssumption DEF LimitInv
<1>5. TotalInv
  <2>1. Live = {}
    BY <1>2 DEF Live
  <2> QED BY <2>1, FS_EmptySet, LimitsAssumption DEF Init, TotalInv
<1>6. LentInv /\ WaitsInNeed
  BY <1>2 DEF Init, LentInv, WaitsInNeed, Waiting
<1> QED BY <1>1, <1>3, <1>4, <1>5, <1>6 DEF IInv

\* The books do not mention what these steps change.
LEMMA OtherStep ==
  ASSUME IInv, NEW b \in Borrowers,
         \/ \E h \in Hosts : Get(b, h)
         \/ OpenFails(b) \/ Wait(b) \/ TimesOut(b) \/ SpuriousWakeup(b) \/ Discard(b)
  PROVE  IInv'
<1>1. UNCHANGED <<mIdleConns, mActiveConns, mTotalConn, client>>
  BY DEF Get, OpenFails, Wait, TimesOut, SpuriousWakeup, Discard
<1>2. client[b] = NULL /\ \A a \in Borrowers \ {b} : pc'[a] = pc[a] /\ host'[a] = host[a]
  BY DEF IInv, TypeOK, LentInv, Get, OpenFails, Wait, TimesOut, SpuriousWakeup, Discard
<1>3. TypeOK'
  BY <1>1 DEF IInv, TypeOK, Get, OpenFails, Wait, TimesOut, SpuriousWakeup, Discard
<1>4. DequesInv' /\ ApartInv' /\ LimitInv' /\ TotalInv'
  BY <1>1 DEF IInv, DequesInv, ApartInv, LimitInv, TotalInv, Place, Live
<1>5. LentInv'
  <2>1. \A a \in Borrowers : client[a] # NULL => pc'[a] = pc[a] /\ host'[a] = host[a]
    BY <1>2
  <2>2. ASSUME NEW h \in Hosts, NEW c \in mActiveConns[h]
        PROVE  \E a \in Borrowers : host'[a] = h /\ client[a] = c
    <3>1. PICK a \in Borrowers : host[a] = h /\ client[a] = c
      BY DEF IInv, LentInv
    <3>2. c # NULL
      BY NullAssumption DEF IInv, TypeOK
    <3> QED BY <2>1, <3>1, <3>2
  <2> QED BY <1>1, <2>1, <2>2 DEF IInv, LentInv
<1>6. WaitsInNeed'
  <2> SUFFICES ASSUME NEW a \in Borrowers, pc'[a] = "wait"
               PROVE  mIdleConns[host'[a]] = <<>> /\ (HasRoom(host'[a]) => a \in freed')
    BY <1>1 DEF WaitsInNeed, Waiting, HasRoom
  <2>1. CASE a = b
    BY <2>1 DEF IInv, TypeOK, Get, OpenFails, Wait, TimesOut, SpuriousWakeup, Discard
  <2>2. CASE a # b
    <3>1. pc[a] = "wait" /\ host'[a] = host[a]
      BY <1>2, <2>2
    <3>2. a \in freed => a \in freed'
      BY <2>2 DEF Get, OpenFails, Wait, TimesOut, SpuriousWakeup, Discard
    <3> QED BY <3>1, <3>2 DEF IInv, WaitsInNeed, Waiting
  <2> QED BY <2>1, <2>2
<1> QED BY <1>3, <1>4, <1>5, <1>6 DEF IInv

\* Lending a client that nobody has.
LEMMA LendKeepsLent ==
  ASSUME TypeOK, LentInv, NEW b \in Borrowers, NEW c \in Clients, client[b] = NULL,
         \A a \in Borrowers : client[a] # c,
         client' = [client EXCEPT ![b] = c], pc' = [pc EXCEPT ![b] = "hold"], host' = host,
         mActiveConns'[host[b]] = mActiveConns[host[b]] \union {c},
         \A g \in Hosts \ {host[b]} : mActiveConns'[g] = mActiveConns[g]
  PROVE  LentInv'
<1>1. /\ client'[b] = c /\ pc'[b] = "hold" /\ c # NULL
      /\ \A a \in Borrowers \ {b} : client'[a] = client[a] /\ pc'[a] = pc[a]
  BY NullAssumption DEF TypeOK
<1>2. \A g \in Hosts : mActiveConns'[g] = mActiveConns[g] \/ g = host[b]
  OBVIOUS
<1>3. ASSUME NEW a \in Borrowers, client'[a] # NULL
      PROVE  pc'[a] = "hold" /\ client'[a] \in mActiveConns'[host'[a]]
  BY <1>1, <1>2, <1>3 DEF TypeOK, LentInv
<1>4. ASSUME NEW g \in Hosts, NEW d \in mActiveConns'[g]
      PROVE  \E a \in Borrowers : host'[a] = g /\ client'[a] = d
  <2>1. CASE g = host[b] /\ d = c
    BY <1>1, <2>1
  <2>2. CASE d \in mActiveConns[g]
    <3>1. PICK a \in Borrowers : host[a] = g /\ client[a] = d
      BY <2>2 DEF LentInv
    <3>2. d # NULL
      BY <2>2, NullAssumption DEF TypeOK
    <3> QED BY <1>1, <3>1, <3>2
  <2> QED BY <1>2, <1>4, <2>1, <2>2
<1>5. ASSUME NEW x \in Borrowers, NEW y \in Borrowers, x # y, client'[x] # NULL
      PROVE  client'[x] # client'[y]
  BY <1>1, <1>5 DEF LentInv
<1> QED BY <1>3, <1>4, <1>5 DEF LentInv

\* A borrower gives its client up.
LEMMA GiveUpKeepsLent ==
  ASSUME TypeOK, LentInv, NEW b \in Borrowers, client[b] # NULL,
         client' = [client EXCEPT ![b] = NULL], host' = host,
         \A a \in Borrowers \ {b} : pc[a] = "hold" => pc'[a] = "hold",
         mActiveConns'[host[b]] = mActiveConns[host[b]] \ {client[b]},
         \A g \in Hosts \ {host[b]} : mActiveConns'[g] = mActiveConns[g]
  PROVE  LentInv'
<1>1. client'[b] = NULL /\ \A a \in Borrowers \ {b} : client'[a] = client[a]
  BY DEF TypeOK
<1>2. \A g \in Hosts : \A d : d \in mActiveConns'[g] <=> d \in mActiveConns[g] /\ ~(g = host[b] /\ d = client[b])
  OBVIOUS
<1>3. ASSUME NEW a \in Borrowers, client'[a] # NULL
      PROVE  pc'[a] = "hold" /\ client'[a] \in mActiveConns'[host'[a]]
  <2>1. a # b /\ client'[a] = client[a] /\ client[a] # client[b] /\ host[a] \in Hosts
    BY <1>1, <1>3 DEF TypeOK, LentInv
  <2> QED BY <1>2, <1>3, <2>1 DEF LentInv
<1>4. ASSUME NEW g \in Hosts, NEW d \in mActiveConns'[g]
      PROVE  \E a \in Borrowers : host'[a] = g /\ client'[a] = d
  <2>1. PICK a \in Borrowers : host[a] = g /\ client[a] = d
    BY <1>2 DEF LentInv
  <2> QED BY <1>1, <1>2, <2>1
<1>5. ASSUME NEW x \in Borrowers, NEW y \in Borrowers, x # y, client'[x] # NULL
      PROVE  client'[x] # client'[y]
  BY <1>1, <1>5 DEF LentInv
<1> QED BY <1>3, <1>4, <1>5 DEF LentInv

\* An idle connection changes hands within its host.
LEMMA TakeIdleStep == ASSUME IInv, NEW b \in Borrowers, TakeIdle(b) PROVE IInv'
<1>h. PICK h \in Hosts : h = host[b]
  BY DEF IInv, TypeOK
<1>1. /\ mIdleConns[h] \in Seq(Clients) /\ mIdleConns[h] # <<>>
      /\ IsInjective(mIdleConns[h])
  BY <1>h DEF IInv, TypeOK, DequesInv, TakeIdle
<1>c. PICK c : c = Head(mIdleConns[h])
  OBVIOUS
<1>2. /\ c \in Range(mIdleConns[h]) /\ c \in Clients
      /\ Tail(mIdleConns[h]) \in Seq(Clients) /\ IsInjective(Tail(mIdleConns[h]))
      /\ Len(mIdleConns[h]) = Len(Tail(mIdleConns[h])) + 1
      /\ Range(Tail(mIdleConns[h])) = Range(mIdleConns[h]) \ {c}
  BY <1>1, <1>c, DequePop
<1>3. /\ mIdleConns' = [mIdleConns EXCEPT ![h] = Tail(mIdleConns[h])]
      /\ mActiveConns' = [mActiveConns EXCEPT ![h] = mActiveConns[h] \union {c}]
      /\ client' = [client EXCEPT ![b] = c] /\ pc' = [pc EXCEPT ![b] = "hold"]
      /\ UNCHANGED <<mTotalConn, host, freed>> /\ pc[b] = "get"
  BY <1>h, <1>c DEF TakeIdle, Lend
<1>4. TypeOK'
  BY <1>1, <1>2, <1>3 DEF IInv, TypeOK
<1>5. /\ mIdleConns'[h] = Tail(mIdleConns[h]) /\ mActiveConns'[h] = mActiveConns[h] \union {c}
      /\ \A g \in Hosts \ {h} : mIdleConns'[g] = mIdleConns[g] /\ mActiveConns'[g] = mActiveConns[g]
  BY <1>1, <1>3 DEF IInv, TypeOK
<1>6. c \notin mActiveConns[h] /\ client[b] = NULL
  BY <1>1, <1>2, <1>3 DEF IInv, ApartInv, LentInv
<1>7. \A g \in Hosts : Place(g)' = Place(g)
  <2>1. Place(h)' = Place(h)
    BY <1>2, <1>5 DEF Place
  <2> QED BY <1>5, <2>1 DEF Place
<1>8. DequesInv'
  BY <1>2, <1>5 DEF IInv, DequesInv
<1>9. ApartInv'
  BY <1>2, <1>5, <1>6, <1>7 DEF IInv, ApartInv
<1>10. LimitInv'
  <2>1. /\ IsFiniteSet(mActiveConns[h]) /\ Cardinality(mActiveConns[h]) \in Nat
        /\ IsFiniteSet(mActiveConns'[h])
        /\ Cardinality(mActiveConns'[h]) = Cardinality(mActiveConns[h]) + 1
    BY <1>1, <1>5, <1>6, FS_AddElement, FS_CardinalityType DEF IInv, LimitInv
  <2>2. Len(mIdleConns'[h]) + Cardinality(mActiveConns'[h])
          = Len(mIdleConns[h]) + Cardinality(mActiveConns[h])
    BY <1>2, <1>5, <2>1
  <2> QED BY <1>1, <1>5, <2>1, <2>2 DEF IInv, LimitInv
<1>11. TotalInv'
  <2>1. Live' = Live
    BY <1>7, LiveAt, LiveAtNext
  <2> QED BY <1>3, <2>1 DEF IInv, TotalInv
<1>12. LentInv'
  <2>1. ASSUME NEW a \in Borrowers PROVE client[a] # c
    <3>1. SUFFICES ASSUME client[a] = c PROVE FALSE
      OBVIOUS
    <3>2. c \in mActiveConns[host[a]] /\ host[a] \in Hosts
      BY <1>2, <3>1, NullAssumption DEF IInv, TypeOK, LentInv
    <3> QED BY <1>2, <1>6, <3>2 DEF IInv, ApartInv, Place
  <2> QED BY <1>h, <1>2, <1>3, <1>5, <1>6, <2>1, LendKeepsLent DEF IInv
<1>13. WaitsInNeed'
  <2> SUFFICES ASSUME NEW a \in Borrowers, pc'[a] = "wait"
               PROVE  mIdleConns'[host[a]] = <<>> /\ (HasRoom(host[a])' => a \in freed)
    BY <1>3 DEF WaitsInNeed, Waiting, HasRoom
  <2>1. pc[a] = "wait" /\ mIdleConns[host[a]] = <<>> /\ host[a] \in Hosts \ {h}
    BY <1>h, <1>1, <1>3 DEF IInv, TypeOK, WaitsInNeed, Waiting
  <2> QED BY <1>3, <1>5, <2>1 DEF IInv, WaitsInNeed, Waiting, HasRoom
<1> QED BY <1>4, <1>8, <1>9, <1>10, <1>11, <1>12, <1>13 DEF IInv

\* A new connection is one more, at one host and in all.
LEMMA OpenNewStep == ASSUME IInv, NEW b \in Borrowers, OpenNew(b) PROVE IInv'
<1>h. PICK h \in Hosts : h = host[b]
  BY DEF IInv, TypeOK
<1>1. PICK c \in Clients \ Live : Lend(b, c)
  BY DEF OpenNew
<1>2. /\ mActiveConns' = [mActiveConns EXCEPT ![h] = mActiveConns[h] \union {c}]
      /\ client' = [client EXCEPT ![b] = c] /\ pc' = [pc EXCEPT ![b] = "hold"]
      /\ mTotalConn' = mTotalConn + 1
      /\ UNCHANGED <<mIdleConns, host, freed>>
      /\ pc[b] = "get" /\ HasRoom(h)
  BY <1>h, <1>1 DEF OpenNew, Lend
<1>3. TypeOK'
  BY <1>2 DEF IInv, TypeOK
<1>4. /\ mActiveConns'[h] = mActiveConns[h] \union {c}
      /\ \A g \in Hosts \ {h} : mActiveConns'[g] = mActiveConns[g]
  BY <1>2 DEF IInv, TypeOK
<1>5. \A g \in Hosts : c \notin Place(g)
  BY LiveAt
<1>6. Place(h)' = Place(h) \union {c} /\ \A g \in Hosts \ {h} : Place(g)' = Place(g)
  BY <1>2, <1>4 DEF Place
<1>7. DequesInv'
  BY <1>2 DEF IInv, DequesInv
<1>8. ApartInv'
  BY <1>2, <1>4, <1>5, <1>6 DEF IInv, ApartInv, Place
<1>9. /\ IsFiniteSet(mActiveConns[h]) /\ Cardinality(mActiveConns[h]) \in Nat
      /\ IsFiniteSet(mActiveConns'[h])
      /\ Cardinality(mActiveConns'[h]) = Cardinality(mActiveConns[h]) + 1
  <2>1. IsFiniteSet(mActiveConns[h]) /\ Cardinality(mActiveConns[h]) \in Nat
    BY FS_CardinalityType DEF IInv, LimitInv
  <2>2. c \notin mActiveConns[h]
    BY <1>5 DEF Place
  <2> QED BY <1>4, <2>1, <2>2, FS_AddElement
<1>10. LimitInv'
  <2>1. Len(mIdleConns'[h]) + Cardinality(mActiveConns'[h]) <= mMaxConnPerHost
    BY <1>2, <1>9, LimitsAssumption DEF IInv, TypeOK, HasRoom
  <2> QED BY <1>2, <1>4, <1>9, <2>1 DEF IInv, LimitInv
<1>11. TotalInv'
  <2>1. Live' = Live \union {c}
    BY <1>6, LiveAt, LiveAtNext
  <2>2. IsFiniteSet(Live') /\ Cardinality(Live') = Cardinality(Live) + 1
    BY <2>1, FS_AddElement DEF IInv, TotalInv
  <2> QED BY <1>2, <2>2, LimitsAssumption DEF IInv, TypeOK, TotalInv, HasRoom
<1>12. LentInv'
  <2>1. client[b] = NULL
    BY <1>2 DEF IInv, LentInv
  <2>2. ASSUME NEW a \in Borrowers PROVE client[a] # c
    BY <1>5, NullAssumption DEF IInv, TypeOK, LentInv, Place
  <2> QED BY <1>h, <1>2, <1>4, <2>1, <2>2, LendKeepsLent DEF IInv
<1>13. WaitsInNeed'
  <2> SUFFICES ASSUME NEW a \in Borrowers, pc'[a] = "wait"
               PROVE  mIdleConns[host[a]] = <<>> /\ (HasRoom(host[a])' => a \in freed)
    BY <1>2 DEF WaitsInNeed, Waiting, HasRoom
  <2>1. pc[a] = "wait" /\ host[a] \in Hosts
    BY <1>2 DEF IInv, TypeOK
  <2>2. HasRoom(host[a])' => HasRoom(host[a])
    <3>1. \A g \in Hosts : Cardinality(mActiveConns[g]) \in Nat
      BY FS_CardinalityType DEF IInv, LimitInv
    <3>2. \A g \in Hosts : \/ Cardinality(mActiveConns'[g]) = Cardinality(mActiveConns[g]) + 1
                          \/ Cardinality(mActiveConns'[g]) = Cardinality(mActiveConns[g])
      BY <1>4, <1>9
    <3>3. Len(mIdleConns[host[a]]) \in Nat /\ mTotalConn \in Nat
      BY <2>1 DEF IInv, TypeOK
    <3> QED BY <1>2, <2>1, <3>1, <3>2, <3>3, LimitsAssumption DEF HasRoom
  <2> QED BY <2>1, <2>2 DEF IInv, WaitsInNeed, Waiting
<1> QED BY <1>3, <1>7, <1>8, <1>10, <1>11, <1>12, <1>13 DEF IInv

\* A connection that comes back goes from the lent to the idle ones, and
\* everybody who waits is woken.
LEMMA ReturnStep == ASSUME IInv, NEW b \in Borrowers, Return(b) PROVE IInv'
<1>h. PICK h \in Hosts : h = host[b]
  BY DEF IInv, TypeOK
<1>c. PICK c \in Clients : c = client[b] /\ client[b] # NULL
  BY DEF IInv, TypeOK, Return
<1>1. /\ mIdleConns' = [mIdleConns EXCEPT ![h] = <<c>> \o mIdleConns[h]]
      /\ mActiveConns' = [mActiveConns EXCEPT ![h] = mActiveConns[h] \ {c}]
      /\ client' = [client EXCEPT ![b] = NULL]
      /\ UNCHANGED <<mTotalConn, host, freed>>
  BY <1>h, <1>c DEF Return
<1>2. pc' \in [Borrowers -> {"out", "get", "hold"}]
      /\ \A a \in Borrowers \ {b} : pc[a] = "hold" => pc'[a] = "hold"
  BY DEF IInv, TypeOK, Return, NotifyAll
<1>3. c \in mActiveConns[h] /\ c \notin Range(mIdleConns[h])
  BY <1>h, <1>c DEF IInv, LentInv, ApartInv
<1>4. /\ <<c>> \o mIdleConns[h] \in Seq(Clients) /\ IsInjective(<<c>> \o mIdleConns[h])
      /\ Len(<<c>> \o mIdleConns[h]) = Len(mIdleConns[h]) + 1
      /\ Range(<<c>> \o mIdleConns[h]) = Range(mIdleConns[h]) \union {c}
  BY <1>3, DequePush DEF IInv, TypeOK, DequesInv
<1>5. TypeOK'
  <2>1. mIdleConns' \in [Hosts -> Seq(Clients)] /\ mActiveConns' \in [Hosts -> SUBSET Clients]
    BY <1>1, <1>4 DEF IInv, TypeOK
  <2> QED BY <1>1, <1>2, <2>1 DEF IInv, TypeOK
<1>6. /\ mIdleConns'[h] = <<c>> \o mIdleConns[h] /\ mActiveConns'[h] = mActiveConns[h] \ {c}
      /\ \A g \in Hosts \ {h} : mIdleConns'[g] = mIdleConns[g] /\ mActiveConns'[g] = mActiveConns[g]
  BY <1>1 DEF IInv, TypeOK
<1>7. \A g \in Hosts : Place(g)' = Place(g)
  <2>1. Place(h)' = Place(h)
    BY <1>3, <1>4, <1>6 DEF Place
  <2> QED BY <1>6, <2>1 DEF Place
<1>8. DequesInv'
  BY <1>4, <1>6 DEF IInv, DequesInv
<1>9. ApartInv'
  BY <1>4, <1>6, <1>7 DEF IInv, ApartInv
<1>10. LimitInv'
  <2>1. IsFiniteSet(mActiveConns[h]) /\ Cardinality(mActiveConns[h]) \in Nat
    BY FS_CardinalityType DEF IInv, LimitInv
  <2>2. /\ IsFiniteSet(mActiveConns'[h])
        /\ Cardinality(mActiveConns'[h]) = Cardinality(mActiveConns[h]) - 1
    BY <1>3, <1>6, <2>1, FS_RemoveElement
  <2>3. Len(mIdleConns[h]) \in Nat
    BY DEF IInv, TypeOK
  <2>4. Len(mIdleConns'[h]) + Cardinality(mActiveConns'[h])
          = Len(mIdleConns[h]) + Cardinality(mActiveConns[h])
    BY <1>4, <1>6, <2>1, <2>2, <2>3
  <2> QED BY <1>6, <2>2, <2>4 DEF IInv, LimitInv
<1>11. TotalInv'
  <2>1. Live' = Live
    BY <1>7, LiveAt, LiveAtNext
  <2> QED BY <1>1, <2>1 DEF IInv, TotalInv
<1>12. LentInv'
  BY <1>h, <1>c, <1>1, <1>2, <1>6, GiveUpKeepsLent DEF IInv
<1>13. WaitsInNeed'
  BY <1>2 DEF WaitsInNeed, Waiting
<1> QED BY <1>5, <1>8, <1>9, <1>10, <1>11, <1>12, <1>13 DEF IInv

\* A connection that is destroyed is one less, at its host and in all; whoever
\* waits now waits beside the place it has freed.
LEMMA DestroyStep == ASSUME IInv, NEW b \in Borrowers, Destroy(b) PROVE IInv'
<1>h. PICK h \in Hosts : h = host[b]
  BY DEF IInv, TypeOK
<1>c. PICK c \in Clients : c = client[b] /\ client[b] # NULL
  BY DEF IInv, TypeOK, Destroy
<1>1. /\ mActiveConns' = [mActiveConns EXCEPT ![h] = mActiveConns[h] \ {c}]
      /\ mTotalConn' = mTotalConn - 1
      /\ client' = [client EXCEPT ![b] = NULL]
      /\ freed' = freed \union Waiting
      /\ UNCHANGED <<mIdleConns, pc, host>>
  BY <1>h, <1>c DEF Destroy
<1>2. c \in mActiveConns[h] /\ c \in Live
  BY <1>h, <1>c, LiveAt DEF IInv, LentInv, Place
<1>3. /\ mActiveConns'[h] = mActiveConns[h] \ {c}
      /\ \A g \in Hosts \ {h} : mActiveConns'[g] = mActiveConns[g]
  BY <1>1 DEF IInv, TypeOK
<1>4. Place(h)' = Place(h) \ {c} /\ \A g \in Hosts \ {h} : Place(g)' = Place(g) /\ c \notin Place(g)
  <2>1. c \notin Range(mIdleConns[h]) /\ \A g \in Hosts \ {h} : c \notin Place(g)
    BY <1>2 DEF IInv, ApartInv, Place
  <2> QED BY <1>1, <1>3, <2>1 DEF Place
<1>5. DequesInv' /\ ApartInv'
  BY <1>1, <1>3, <1>4 DEF IInv, DequesInv, ApartInv
<1>6. LimitInv'
  <2>1. IsFiniteSet(mActiveConns[h]) /\ Cardinality(mActiveConns[h]) \in Nat
    BY FS_CardinalityType DEF IInv, LimitInv
  <2>2. /\ IsFiniteSet(mActiveConns'[h])
        /\ Cardinality(mActiveConns'[h]) = Cardinality(mActiveConns[h]) - 1
    BY <1>2, <1>3, <2>1, FS_RemoveElement
  <2>3. Len(mIdleConns[h]) \in Nat
    BY DEF IInv, TypeOK
  <2>4. Len(mIdleConns[h]) + Cardinality(mActiveConns'[h]) <= mMaxConnPerHost
    BY <2>1, <2>2, <2>3, LimitsAssumption DEF IInv, LimitInv
  <2> QED BY <1>1, <1>3, <2>2, <2>4 DEF IInv, LimitInv
<1>7. TotalInv' /\ mTotalConn' \in Nat
  <2>1. Live' = Live \ {c}
    BY <1>4, LiveAt, LiveAtNext
  <2>2. IsFiniteSet(Live) /\ Cardinality(Live) \in Nat
    BY FS_CardinalityType DEF IInv, TotalInv
  <2>3. IsFiniteSet(Live') /\ Cardinality(Live') = Cardinality(Live) - 1
    BY <1>2, <2>1, <2>2, FS_RemoveElement
  <2>4. Cardinality(Live') \in Nat
    BY <2>3, FS_CardinalityType
  <2> QED BY <1>1, <2>2, <2>3, <2>4, LimitsAssumption DEF IInv, TotalInv
<1>8. TypeOK'
  BY <1>1, <1>7 DEF IInv, TypeOK, Waiting
<1>9. LentInv'
  BY <1>h, <1>c, <1>1, <1>3, GiveUpKeepsLent DEF IInv
<1>10. WaitsInNeed'
  BY <1>1 DEF IInv, WaitsInNeed, Waiting
<1> QED BY <1>5, <1>6, <1>7, <1>8, <1>9, <1>10 DEF IInv

-----------------------------------------------------------------------------
\* The invariant is Accounting, in other words, and more.
LEMMA InvAccounting == IInv => Accounting
<1> SUFFICES ASSUME IInv PROVE Accounting
  OBVIOUS
<1>1. ASSUME NEW h \in Hosts
      PROVE  /\ Len(mIdleConns[h]) = Cardinality(Range(mIdleConns[h]))
             /\ mActiveConns[h] = {client[b] : b \in {a \in Borrowers : host[a] = h}} \ {NULL}
  <2>1. Len(mIdleConns[h]) = Cardinality(Range(mIdleConns[h]))
    BY DequeSize DEF IInv, TypeOK, DequesInv
  <2>2. ASSUME NEW c \in mActiveConns[h]
        PROVE  c # NULL /\ \E b \in {a \in Borrowers : host[a] = h} : c = client[b]
    BY NullAssumption DEF IInv, TypeOK, LentInv
  <2>3. ASSUME NEW b \in {a \in Borrowers : host[a] = h}, client[b] # NULL
        PROVE  client[b] \in mActiveConns[h]
    BY <2>3 DEF IInv, LentInv
  <2> QED BY <2>1, <2>2, <2>3
<1>2. ASSUME NEW h \in Hosts, NEW g \in Hosts \ {h}
      PROVE  (Range(mIdleConns[h]) \union mActiveConns[h])
               \intersect (Range(mIdleConns[g]) \union mActiveConns[g]) = {}
  BY DEF IInv, ApartInv, Place
<1> QED BY <1>1, <1>2 DEF IInv, TotalInv, ApartInv, LimitInv, LentInv, Accounting

\* Every step keeps the invariant.
LEMMA NextInv == IInv /\ [Next]_vars => IInv'
<1> SUFFICES ASSUME IInv, [Next]_vars PROVE IInv'
  OBVIOUS
<1>1. CASE Next
  BY <1>1, OtherStep, TakeIdleStep, OpenNewStep, ReturnStep, DestroyStep DEF Next, Turn
<1>2. CASE UNCHANGED vars
  <2>1. UNCHANGED <<mIdleConns, mActiveConns, mTotalConn, pc, host, client, freed>>
    BY <1>2 DEF vars
  <2>2. TypeOK'
    BY <2>1 DEF IInv, TypeOK
  <2>3. DequesInv' /\ ApartInv' /\ LimitInv' /\ TotalInv'
    BY <2>1 DEF IInv, DequesInv, ApartInv, LimitInv, TotalInv, Place, Live
  <2>4. LentInv'
    BY <2>1 DEF IInv, LentInv
  <2>5. WaitsInNeed'
    BY <2>1 DEF IInv, WaitsInNeed, Waiting, HasRoom
  <2> QED BY <2>2, <2>3, <2>4, <2>5 DEF IInv
<1> QED BY <1>1, <1>2

\* get_connection, return_connection and destroy_connection keep the books of
\* the pool right, in whatever order any number of borrowers of any number of
\* hosts come: mTotalConn is the number of connections that exist, every one is
\* idle or lent to exactly one borrower, and both limits hold.
THEOREM BooksAreRight == Spec => []Accounting
BY InitInv, NextInv, InvAccounting, PTL DEF Spec

\* notify_all in return_connection and the test in get_connection lose no
\* wake-up: a borrower in timed_wait has no idle connection beside it, and room
\* for a new one only where destroy_connection, which notifies nobody, made it.
THEOREM NobodyWaitsInVain == Spec => []WaitsInNeed
<1>1. IInv => WaitsInNeed
  BY DEF IInv
<1> QED BY InitInv, NextInv, <1>1, PTL DEF Spec

-----------------------------------------------------------------------------
(***************************************************************************)
(* The cthrift server.                                                     *)
(***************************************************************************)

\* Every nonempty set of naturals has a least element: what stands in for induction.
LEMMA LeastNat ==
  ASSUME NEW T \in SUBSET Nat, T # {}
  PROVE  \E m \in T : \A n \in T : m <= n
<1> DEFINE R == OpToRel(<, Nat)
<1>1. IsWellFoundedOn(R, Nat)
  BY NatLessThanWellFounded
<1>2. \A n, m \in Nat : n < m => <<n, m>> \in R
  BY DEF OpToRel
<1> HIDE DEF R
<1>3. PICK m \in T : \A n \in T : ~ (<<n, m>> \in R)
  BY <1>1, WFMin
<1>4. \A n \in T : ~ (n < m)
  BY <1>2, <1>3
<1> QED BY <1>3, <1>4

\* A token: number of its frame, and of the token in it.
Token == Nat \X Nat

\* The token at i is number h of frame k of c, and the l that follow it in s are
\* the rest of the frame; then a length word comes, or nothing.
InFrame(c, s, i, k, h, l) ==
  /\ s[i] = <<k, h>> /\ h + l = kSizeBytes + Sizes[c][k] /\ i + l <= Len(s)
  /\ \A j \in 0..l : s[i + j] = <<k, h + j>>
  /\ i + l < Len(s) => s[i + l + 1][2] = 1

\* s is made of whole frames.
Framed(c, s) ==
  /\ s # <<>> => s[1][2] = 1
  /\ \A i \in 1..Len(s) : \E k \in 1..Len(Sizes[c]), h, l \in Nat : InFrame(c, s, i, k, h, l)

\* The tokens of a frame are numbered: those of its size, then those of its body.
LEMMA FrameTokens ==
  ASSUME NEW c \in Conns, NEW k \in 1..Len(Sizes[c])
  PROVE  /\ Sizes[c][k] \in Nat
         /\ Frame(c, k) \in Seq(Token) /\ Len(Frame(c, k)) = kSizeBytes + Sizes[c][k]
         /\ \A i \in 1..(kSizeBytes + Sizes[c][k]) : Frame(c, k)[i] = <<k, i>>
         /\ Body(c, k) = [i \in 1..Sizes[c][k] |-> <<k, kSizeBytes + i>>]
<1>1. Sizes[c][k] \in Nat /\ k \in Nat
  BY SizesAssumption
<1>2. PICK n \in Nat, K \in Nat : n = Sizes[c][k] /\ K = kSizeBytes
  BY <1>1, SizeBytesAssumption
<1> DEFINE f == [i \in 1..(K + n) |-> <<k, i>>]
           b == SubSeq(f, K + 1, K + n)
<1>3. f \in Seq(Token) /\ Len(f) = K + n /\ \A i \in 1..(K + n) : f[i] = <<k, i>>
  BY <1>1 DEF Token
<1>4. Frame(c, k) = f /\ Body(c, k) = b
  BY <1>2 DEF Frame, Body
<1> HIDE DEF f
<1>5. b = [i \in 1..n |-> <<k, K + i>>]
  <2>1. b \in Seq(Token) /\ Len(b) = n
    BY <1>3
  <2>2. \A i \in 1..n : b[i] = <<k, K + i>>
    <3> SUFFICES ASSUME NEW i \in 1..n PROVE b[i] = <<k, K + i>>
      OBVIOUS
    <3>1. b[i] = f[K + i] /\ K + i \in 1..(K + n)
      BY <1>3
    <3> QED BY <3>1, <1>3
  <2> HIDE DEF b
  <2>3. b = [i \in 1..n |-> b[i]]
    BY <2>1
  <2> QED BY <2>2, <2>3
<1> QED BY <1>1, <1>2, <1>3, <1>4, <1>5

\* A frame behind whole frames makes whole frames.
LEMMA FramedAppend ==
  ASSUME NEW c \in Conns, NEW k \in 1..Len(Sizes[c]), NEW s \in Seq(Token), Framed(c, s)
  PROVE  s \o Frame(c, k) \in Seq(Token) /\ Framed(c, s \o Frame(c, k))
<1>1. PICK n \in Nat \ {0} : n = kSizeBytes + Sizes[c][k]
  <2>1. kSizeBytes + Sizes[c][k] \in Nat \ {0}
    BY FrameTokens, SizeBytesAssumption
  <2> QED BY <2>1
<1> DEFINE f == Frame(c, k)
           t == s \o f
<1>2. /\ f \in Seq(Token) /\ Len(f) = n
      /\ \A i \in 1..n : f[i] = <<k, i>>
  BY <1>1, FrameTokens
<1> HIDE DEF f
<1>3. t \in Seq(Token) /\ Len(t) = Len(s) + n /\ Len(s) \in Nat
  <2>1. f \in Seq(Token) /\ s \in Seq(Token)
    BY <1>2
  <2>2. t \in Seq(Token)
    BY <2>1
  <2>3. Len(t) = Len(s) + Len(f) /\ Len(s) \in Nat
    BY <2>1
  <2> QED BY <2>2, <2>3, <1>2
<1>4. \A i \in 1..Len(s) : t[i] = s[i]
  BY <1>2
<1>5. \A i \in 1..n : t[Len(s) + i] = <<k, i>>
  <2> SUFFICES ASSUME NEW i \in 1..n PROVE t[Len(s) + i] = <<k, i>>
    OBVIOUS
  <2>1. t[Len(s) + i] = f[i]
    BY <1>2, <1>3
  <2> QED BY <2>1, <1>2
<1> HIDE DEF t
<1>6. t # <<>> => t[1][2] = 1
  <2>1. CASE s = <<>>
    <3>0. 1 \in 1..n
      OBVIOUS
    <3>1. t[Len(s) + 1] = <<k, 1>>
      BY <3>0, <1>5
    <3>2. Len(s) + 1 = 1
      BY <2>1
    <3>3. t[1] = <<k, 1>>
      BY <3>1, <3>2
    <3> QED BY <3>3
  <2>2. CASE s # <<>>
    <3>1. 1 \in 1..Len(s)
      BY <2>2, <1>3
    <3>2. t[1] = s[1]
      BY <3>1, <1>4
    <3> QED BY <3>2, <2>2 DEF Framed
  <2> QED BY <2>1, <2>2
<1>7. ASSUME NEW i \in 1..Len(s)
      PROVE  \E q \in 1..Len(Sizes[c]), h, l \in Nat : InFrame(c, t, i, q, h, l)
  <2>1. PICK q \in 1..Len(Sizes[c]), h \in Nat, l \in Nat : InFrame(c, s, i, q, h, l)
    BY DEF Framed
  <2>2. /\ s[i] = <<q, h>> /\ h + l = kSizeBytes + Sizes[c][q] /\ i + l <= Len(s)
        /\ \A j \in 0..l : s[i + j] = <<q, h + j>>
        /\ i + l < Len(s) => s[i + l + 1][2] = 1
    BY <2>1 DEF InFrame
  <2>3. t[i] = <<q, h>>
    BY <2>2, <1>4
  <2>4. \A j \in 0..l : t[i + j] = <<q, h + j>>
    <3> SUFFICES ASSUME NEW j \in 0..l PROVE t[i + j] = <<q, h + j>>
      OBVIOUS
    <3>1. i + j \in 1..Len(s)
      BY <2>2, <1>3
    <3>2. s[i + j] = <<q, h + j>>
      BY <2>2
    <3> QED BY <3>1, <3>2, <1>4
  <2>5. t[i + l + 1][2] = 1
    <3>1. CASE i + l < Len(s)
      <4>1. i + l + 1 \in 1..Len(s)
        BY <3>1, <1>3
      <4> QED BY <4>1, <3>1, <2>2, <1>4
    <3>2. CASE i + l = Len(s)
      <4>1. i + l + 1 = Len(s) + 1
        BY <3>2
      <4>2. t[Len(s) + 1] = <<k, 1>>
        BY <1>5
      <4> QED BY <4>1, <4>2
    <3> QED BY <3>1, <3>2, <2>2, <1>3
  <2>6. i + l <= Len(t)
    BY <2>2, <1>3
  <2>7. InFrame(c, t, i, q, h, l)
    BY <2>2, <2>3, <2>4, <2>5, <2>6 DEF InFrame
  <2> QED BY <2>7
<1>8. ASSUME NEW i \in (Len(s) + 1)..Len(t)
      PROVE  \E q \in 1..Len(Sizes[c]), h, l \in Nat : InFrame(c, t, i, q, h, l)
  <2>1. PICK h \in Nat \ {0}, l \in Nat : h + l = n /\ i = Len(s) + h
    <3>1. /\ i - Len(s) \in Nat \ {0} /\ n - (i - Len(s)) \in Nat
          /\ (i - Len(s)) + (n - (i - Len(s))) = n
          /\ i = Len(s) + (i - Len(s))
      BY <1>3
    <3> QED BY <3>1
  <2>2. \A j \in 0..l : t[i + j] = <<k, h + j>>
    <3> SUFFICES ASSUME NEW j \in 0..l PROVE t[i + j] = <<k, h + j>>
      OBVIOUS
    <3>1. h + j \in 1..n /\ i + j = Len(s) + (h + j)
      BY <2>1, <1>3
    <3> QED BY <3>1, <1>5
  <2>3. t[i] = <<k, h>>
    <3>1. 0 \in 0..l /\ i + 0 = i /\ h + 0 = h
      BY <1>3
    <3> QED BY <3>1, <2>2
  <2>4. i + l = Len(t)
    BY <2>1, <1>3
  <2>5. InFrame(c, t, i, k, h, l)
    <3>1. i + l <= Len(t) /\ ~(i + l < Len(t)) /\ h + l = kSizeBytes + Sizes[c][k]
      BY <2>1, <2>4, <1>1, <1>3
    <3> QED BY <3>1, <2>2, <2>3, Zenon DEF InFrame
  <2> QED BY <2>5
<1>9. Framed(c, t)
  <2>1. \A i \in 1..Len(t) : i \in 1..Len(s) \/ i \in (Len(s) + 1)..Len(t)
    BY <1>3
  <2> QED BY <2>1, <1>6, <1>7, <1>8 DEF Framed
<1> QED BY <1>3, <1>9 DEF t, f

-----------------------------------------------------------------------------
(* The stream, by its recursion. *)

\* g is the function of the recursion, up to n: the first k frames, one after the other.
IsUpTo(c, g, n) ==
  g = [k \in 0..n |-> IF k = 0 THEN <<>> ELSE g[k - 1] \o Frame(c, k)]

\* The recursion that Stream(c) is defined by has a solution: the least n without
\* one would follow one that has it.
LEMMA UpToExists ==
  ASSUME NEW c \in Conns, NEW n \in Nat
  PROVE  \E g : IsUpTo(c, g, n)
<1> DEFINE T == {i \in Nat : ~ \E g : IsUpTo(c, g, i)}
<1>1. SUFFICES ASSUME T # {} PROVE FALSE
  OBVIOUS
<1>2. PICK m \in T : \A i \in T : m <= i
  BY <1>1, LeastNat
<1>3. m \in Nat /\ ~ \E g : IsUpTo(c, g, m)
  OBVIOUS
<1>4. CASE m = 0
  <2>1. IsUpTo(c, [k \in 0..0 |-> <<>>], 0)
    BY DEF IsUpTo
  <2> QED BY <2>1, <1>3, <1>4
<1>5. CASE m # 0
  <2>1. m - 1 \in Nat /\ m - 1 \notin T
    BY <1>2, <1>3, <1>5
  <2>2. PICK g : IsUpTo(c, g, m - 1)
    BY <2>1
  <2> DEFINE h == [k \in 0..m |-> IF k = m THEN g[m - 1] \o Frame(c, m) ELSE g[k]]
  <2>3. ASSUME NEW k \in 0..m
        PROVE  h[k] = IF k = 0 THEN <<>> ELSE h[k - 1] \o Frame(c, k)
    <3>1. \A j \in 0..(m - 1) : g[j] = IF j = 0 THEN <<>> ELSE g[j - 1] \o Frame(c, j)
      BY <2>2 DEF IsUpTo
    <3> QED BY <3>1, <1>3, <1>5
  <2>4. IsUpTo(c, h, m)
    <3>1. h = [k \in 0..m |-> h[k]]
      OBVIOUS
    <3> HIDE DEF h
    <3> QED BY <3>1, <2>3 DEF IsUpTo
  <2> QED BY <2>4, <1>3
<1> QED BY <1>4, <1>5

\* What it computes at every step is made of whole frames: the least step that is
\* not would follow one that is.
LEMMA UpToFramed ==
  ASSUME NEW c \in Conns, NEW g, IsUpTo(c, g, Len(Sizes[c]))
  PROVE  \A k \in 0..Len(Sizes[c]) : g[k] \in Seq(Token) /\ Framed(c, g[k])
<1>1. PICK n \in Nat : n = Len(Sizes[c])
  BY SizesAssumption
<1> DEFINE T == {k \in 0..n : ~(g[k] \in Seq(Token) /\ Framed(c, g[k]))}
<1>2. SUFFICES ASSUME T # {} PROVE FALSE
  BY <1>1
<1>3. PICK m \in T : \A i \in T : m <= i
  <2>1. T \in SUBSET Nat
    OBVIOUS
  <2> QED BY <2>1, <1>2, LeastNat
<1>4. m \in 0..n /\ ~(g[m] \in Seq(Token) /\ Framed(c, g[m]))
  OBVIOUS
<1>5. \A k \in 0..n : g[k] = IF k = 0 THEN <<>> ELSE g[k - 1] \o Frame(c, k)
  BY <1>1 DEF IsUpTo
<1>6. CASE m = 0
  <2>1. g[0] = <<>>
    BY <1>4, <1>5, <1>6
  <2>2. <<>> \in Seq(Token)
    OBVIOUS
  <2>3. Framed(c, <<>>)
    BY DEF Framed
  <2> QED BY <1>4, <1>6, <2>1, <2>2, <2>3
<1>7. CASE m # 0
  <2>1. m - 1 \in 0..n /\ m - 1 \notin T /\ m \in 1..Len(Sizes[c])
    BY <1>1, <1>3, <1>4, <1>7
  <2>2. g[m - 1] \in Seq(Token) /\ Framed(c, g[m - 1])
    BY <2>1
  <2>3. g[m] = g[m - 1] \o Frame(c, m)
    BY <1>4, <1>5, <1>7
  <2> QED BY <1>4, <2>1, <2>2, <2>3, FramedAppend
<1> QED BY <1>6, <1>7

\* A client's stream is made of whole frames.
LEMMA StreamFramed ==
  ASSUME NEW c \in Conns
  PROVE  Stream(c) \in Seq(Token) /\ Framed(c, Stream(c))
<1> DEFINE L == Len(Sizes[c])
           G == CHOOSE g : g = [k \in 0..L |-> IF k = 0 THEN <<>> ELSE g[k - 1] \o Frame(c, k)]
<1>1. L \in Nat
  BY SizesAssumption
<1>2. \E g : g = [k \in 0..L |-> IF k = 0 THEN <<>> ELSE g[k - 1] \o Frame(c, k)]
  BY <1>1, UpToExists DEF IsUpTo
<1>3. G = [k \in 0..L |-> IF k = 0 THEN <<>> ELSE G[k - 1] \o Frame(c, k)]
  BY <1>2, Zenon
<1>4. Stream(c) = G[L]
  BY Zenon DEF Stream
<1> HIDE DEF G
<1>5. IsUpTo(c, G, Len(Sizes[c]))
  BY <1>3 DEF IsUpTo
<1>6. L \in 0..Len(Sizes[c])
  BY <1>1
<1> QED BY <1>4, <1>5, <1>6, UpToFramed

-----------------------------------------------------------------------------
(* The time wheel. *)

\* The newest bucket with an entry of c is as old as c has been silent.
Watched(c, st, id, wh) ==
  /\ st = "new" => \A i \in 1..kI8TimeWheelGridNum : c \notin wh[i]
  /\ st = "up" => id < kI8TimeWheelGridNum
  /\ st = "shut" => id = kI8TimeWheelGridNum
  /\ st # "new" =>
       /\ id < kI8TimeWheelGridNum => c \in wh[kI8TimeWheelGridNum - id]
       /\ \A i \in 1..kI8TimeWheelGridNum : i > kI8TimeWheelGridNum - id => c \notin wh[i]

\* The wheel keeps its promise about every connection.
WheelInv == \A c \in Conns : Watched(c, state[c], idle[c], wheel)

\* The Entry of a connection lives just as long as one of the wheel's buckets has it,
\* the newest being the one its idle time names.
LEMMA AliveWhileNotIdle ==
  ASSUME SvrTypeOK, WheelInv, NEW c \in Conns
  PROVE  EntryAlive(c) <=> state[c] # "new" /\ idle[c] < kI8TimeWheelGridNum
<1>1. Watched(c, state[c], idle[c], wheel)
  BY DEF WheelInv
<1>2. DOMAIN wheel = 1..kI8TimeWheelGridNum /\ idle[c] \in 0..kI8TimeWheelGridNum
  BY DEF SvrTypeOK
<1>3. kI8TimeWheelGridNum \in Nat \ {0}
  BY WheelAssumption
<1>4. ASSUME EntryAlive(c) PROVE state[c] # "new" /\ idle[c] < kI8TimeWheelGridNum
  BY <1>1, <1>2, <1>3, <1>4 DEF EntryAlive, Watched
<1>5. ASSUME state[c] # "new", idle[c] < kI8TimeWheelGridNum PROVE EntryAlive(c)
  <2>1. kI8TimeWheelGridNum - idle[c] \in 1..kI8TimeWheelGridNum
    BY <1>2, <1>3, <1>5
  <2> QED BY <1>1, <1>2, <1>5, <2>1 DEF EntryAlive, Watched
<1> QED BY <1>4, <1>5

\* OnMsg and OnConn put the Entry into the newest bucket.
LEMMA InsertWheel ==
  ASSUME SvrTypeOK, WheelInv, NEW c \in Conns, Insert(c),
         state' \in [Conns -> {"new", "up", "shut", "down"}],
         state'[c] \in {"up", "down"}, \A d \in Conns \ {c} : state'[d] = state[d]
  PROVE  /\ WheelInv'
         /\ wheel' \in [1..kI8TimeWheelGridNum -> SUBSET Conns]
         /\ idle' \in [Conns -> 0..kI8TimeWheelGridNum]
<1>1. PICK N \in Nat \ {0} : N = kI8TimeWheelGridNum
  BY WheelAssumption
<1>2. /\ wheel \in [1..N -> SUBSET Conns] /\ idle \in [Conns -> 0..N]
      /\ wheel' = [wheel EXCEPT ![N] = @ \union {c}] /\ idle' = [idle EXCEPT ![c] = 0]
  BY <1>1 DEF SvrTypeOK, Insert
<1>3. wheel' \in [1..N -> SUBSET Conns] /\ idle' \in [Conns -> 0..N]
  BY <1>2
<1>4. \A i \in 1..N : \A d \in Conns : d \in wheel'[i] <=> d \in wheel[i] \/ (d = c /\ i = N)
  BY <1>2
<1>5. ASSUME NEW d \in Conns PROVE Watched(d, state'[d], idle'[d], wheel')
  <2>1. CASE d = c
    <3>1. idle'[d] = 0 /\ state'[d] # "new" /\ state'[d] # "shut" /\ d \in wheel'[N]
      BY <1>2, <1>4, <2>1
    <3>2. N - 0 = N /\ 0 < N /\ \A i \in 1..N : ~(i > N)
      OBVIOUS
    <3> QED BY <3>1, <3>2, <1>1 DEF Watched
  <2>2. CASE d # c
    <3>1. /\ idle'[d] = idle[d] /\ idle[d] \in 0..N /\ state'[d] = state[d]
          /\ \A i \in 1..N : d \in wheel'[i] <=> d \in wheel[i]
      BY <1>2, <1>4, <2>2
    <3>2. Watched(d, state[d], idle[d], wheel)
      BY DEF WheelInv
    <3>3. idle[d] < N => N - idle[d] \in 1..N
      BY <3>1
    <3> QED BY <3>1, <3>2, <3>3, <1>1 DEF Watched
  <2> QED BY <2>1, <2>2
<1>6. WheelInv'
  BY <1>5 DEF WheelInv
<1> QED BY <1>1, <1>3, <1>6

\* The wheel turns by one bucket, and the connections only in the oldest are shut.
LEMMA KickWheel ==
  ASSUME SvrTypeOK, WheelInv, TimewheelKick
  PROVE  /\ WheelInv'
         /\ wheel' \in [1..kI8TimeWheelGridNum -> SUBSET Conns]
         /\ idle' \in [Conns -> 0..kI8TimeWheelGridNum]
         /\ state' \in [Conns -> {"new", "up", "shut", "down"}]
<1>1. PICK N \in Nat \ {0} : N = kI8TimeWheelGridNum
  BY WheelAssumption
<1>2. /\ wheel \in [1..N -> SUBSET Conns] /\ idle \in [Conns -> 0..N]
      /\ state \in [Conns -> {"new", "up", "shut", "down"}]
  BY <1>1 DEF SvrTypeOK
<1>3. wheel \in Seq(SUBSET Conns) /\ Len(wheel) = N /\ wheel # <<>>
  BY <1>2
<1>4. /\ Tail(wheel) \in Seq(SUBSET Conns) /\ Len(Tail(wheel)) = N - 1
      /\ \A i \in 1..(N - 1) : Tail(wheel)[i] = wheel[i + 1]
      /\ {} \in SUBSET Conns
  BY <1>3
<1>5. /\ wheel' \in Seq(SUBSET Conns) /\ Len(wheel') = N
      /\ \A i \in 1..(N - 1) : wheel'[i] = wheel[i + 1]
      /\ wheel'[N] = {}
  <2>1. wheel' = Append(Tail(wheel), {})
    BY DEF TimewheelKick
  <2>2. /\ wheel' \in Seq(SUBSET Conns) /\ Len(wheel') = (N - 1) + 1
        /\ wheel'[(N - 1) + 1] = {}
    BY <2>1, <1>4
  <2>3. (N - 1) + 1 = N
    OBVIOUS
  <2>4. \A i \in 1..(N - 1) : wheel'[i] = Tail(wheel)[i]
    BY <2>1, <1>4
  <2> QED BY <2>2, <2>3, <2>4, <1>4
<1>6. wheel' \in [1..N -> SUBSET Conns]
  BY <1>5
<1>7. /\ \A c \in Conns : idle'[c] = IF idle[c] < N THEN idle[c] + 1 ELSE idle[c]
      /\ \A c \in Conns :
           state'[c] = IF c \in Dying /\ state[c] = "up" THEN "shut" ELSE state[c]
      /\ idle' \in [Conns -> 0..N] /\ state' \in [Conns -> {"new", "up", "shut", "down"}]
  BY <1>1, <1>2 DEF TimewheelKick
<1>8. \A c \in Conns : c \in Dying <=> c \in wheel[1] /\ \A i \in 2..N : c \notin wheel[i]
  <2>1. Head(wheel) = wheel[1]
    BY <1>3
  <2> QED BY <2>1, <1>1 DEF Dying
<1>9. ASSUME NEW c \in Conns PROVE Watched(c, state'[c], idle'[c], wheel')
  <2>1. Watched(c, state[c], idle[c], wheel) /\ idle[c] \in 0..N
    BY <1>2 DEF WheelInv
  <2>2. CASE state[c] = "new"
    <3>1. \A i \in 1..N : c \notin wheel[i]
      BY <2>1, <2>2, <1>1 DEF Watched
    <3>2. \A i \in 1..N : c \notin wheel'[i]
      <4> SUFFICES ASSUME NEW i \in 1..N PROVE c \notin wheel'[i]
        OBVIOUS
      <4>1. CASE i = N
        BY <4>1, <1>5
      <4>2. CASE i # N
        <5>1. i \in 1..(N - 1) /\ i + 1 \in 1..N
          BY <4>2
        <5> QED BY <5>1, <3>1, <1>5
      <4> QED BY <4>1, <4>2
    <3>3. state'[c] = "new"
      BY <2>2, <1>7
    <3> QED BY <3>2, <3>3, <1>1 DEF Watched
  <2>3. CASE state[c] # "new" /\ idle[c] = N
    <3>1. \A i \in 1..N : c \notin wheel[i]
      BY <2>1, <2>3, <1>1 DEF Watched
    <3>2. \A i \in 1..N : c \notin wheel'[i]
      <4> SUFFICES ASSUME NEW i \in 1..N PROVE c \notin wheel'[i]
        OBVIOUS
      <4>1. CASE i = N
        BY <4>1, <1>5
      <4>2. CASE i # N
        <5>1. i \in 1..(N - 1) /\ i + 1 \in 1..N
          BY <4>2
        <5> QED BY <5>1, <3>1, <1>5
      <4> QED BY <4>1, <4>2
    <3>3. state[c] # "up"
      BY <2>1, <2>3, <1>1 DEF Watched
    <3>4. state'[c] = state[c] /\ idle'[c] = N
      BY <3>3, <2>3, <1>7
    <3> QED BY <3>2, <3>3, <3>4, <2>3, <1>1 DEF Watched
  <2>4. CASE state[c] # "new" /\ idle[c] < N
    <3>1. PICK k \in 1..N : k = N - idle[c]
      BY <2>1, <2>4
    <3>2. c \in wheel[k] /\ \A i \in 1..N : i > k => c \notin wheel[i]
      BY <2>1, <2>4, <3>1, <1>1 DEF Watched
    <3>3. idle'[c] = idle[c] + 1 /\ N - idle'[c] = k - 1
      BY <2>1, <2>4, <3>1, <1>7
    <3>4. \A i \in 1..N : i > k - 1 => c \notin wheel'[i]
      <4> SUFFICES ASSUME NEW i \in 1..N, i > k - 1 PROVE c \notin wheel'[i]
        OBVIOUS
      <4>1. CASE i = N
        BY <4>1, <1>5
      <4>2. CASE i # N
        <5>1. i \in 1..(N - 1) /\ i + 1 \in 1..N /\ i + 1 > k
          BY <4>2
        <5> QED BY <5>1, <3>2, <1>5
      <4> QED BY <4>1, <4>2
    <3>5. state[c] # "shut"
      BY <2>1, <2>4, <1>1 DEF Watched
    <3>6. CASE k = 1
      <4>1. idle'[c] = N
        BY <3>1, <3>3, <3>6, <2>1
      <4>2. c \in Dying
        BY <3>2, <3>6, <1>8
      <4>3. state'[c] # "up" /\ state'[c] # "new"
        BY <4>2, <2>4, <1>7
      <4>4. \A i \in 1..N : c \notin wheel'[i]
        BY <3>4, <3>6
      <4> QED BY <4>1, <4>3, <4>4, <1>1 DEF Watched
    <3>7. CASE k # 1
      <4>1. k \in 2..N /\ k - 1 \in 1..(N - 1) /\ (k - 1) + 1 = k
        BY <3>7
      <4>2. c \notin Dying
        BY <4>1, <3>2, <1>8
      <4>3. state'[c] = state[c]
        BY <4>2, <1>7
      <4>4. c \in wheel'[k - 1]
        BY <4>1, <3>2, <1>5
      <4>5. idle'[c] < N
        BY <3>1, <3>3, <4>1, <2>1
      <4> QED BY <4>3, <4>4, <4>5, <3>3, <3>4, <3>5, <2>4, <1>1 DEF Watched
    <3> QED BY <3>6, <3>7
  <2> QED BY <2>1, <2>2, <2>3, <2>4
<1>10. WheelInv'
  BY <1>9 DEF WheelInv
<1> QED BY <1>1, <1>6, <1>7, <1>10

-----------------------------------------------------------------------------
(* Where a connection is in its stream. *)

\* b and then u are what is left of s.
CutOf(s, b, u) ==
  /\ Len(b) + Len(u) <= Len(s)
  /\ \A i \in 1..Len(b) : b[i] = s[Len(s) - Len(u) - Len(b) + i]
  /\ \A i \in 1..Len(u) : u[i] = s[Len(s) - Len(u) + i]

\* How much of s has been used.
Used(s, b, u) == Len(s) - Len(u) - Len(b)

\* The token that comes after p others is one that the framing state expects.
AtPlace(c, s, e, want, p) ==
  p < Len(s) => IF e = "kExpectFrameSize" \/ want = 0
                THEN s[p + 1][2] = 1
                ELSE s[p + 1][2] = kSizeBytes + 1 /\ Sizes[c][s[p + 1][1]] = want

\* A request in a worker's queue is empty or the whole body of a frame.
WholeBody(m) ==
  m.body # <<>> => /\ m.body[1][1] \in 1..Len(Sizes[m.conn])
                   /\ m.body = Body(m.conn, m.body[1][1])

\* Bytes that arrive go from the rest of the stream to the buffer.
LEMMA CutReceive ==
  ASSUME NEW s \in Seq(Token), NEW b \in Seq(Token), NEW u \in Seq(Token), CutOf(s, b, u),
         NEW n \in 1..Len(u)
  PROVE  /\ b \o SubSeq(u, 1, n) \in Seq(Token) /\ SubSeq(u, n + 1, Len(u)) \in Seq(Token)
         /\ CutOf(s, b \o SubSeq(u, 1, n), SubSeq(u, n + 1, Len(u)))
         /\ Used(s, b \o SubSeq(u, 1, n), SubSeq(u, n + 1, Len(u))) = Used(s, b, u)
<1> DEFINE f == SubSeq(u, 1, n)
           v == SubSeq(u, n + 1, Len(u))
           d == b \o f
<1>1. Len(u) \in Nat /\ Len(b) \in Nat /\ Len(s) \in Nat
  OBVIOUS
<1>2. f \in Seq(Token) /\ Len(f) = n /\ \A i \in 1..n : f[i] = u[i]
  BY <1>1
<1>3. /\ v \in Seq(Token) /\ Len(v) = Len(u) - n
      /\ \A i \in 1..(Len(u) - n) : v[i] = u[n + i]
  BY <1>1
<1> HIDE DEF f, v
<1>4. d \in Seq(Token) /\ Len(d) = Len(b) + n
  BY <1>2
<1>5. \A i \in 1..Len(b) : d[i] = b[i]
  BY <1>2
<1>6. \A i \in 1..n : d[Len(b) + i] = u[i]
  BY <1>1, <1>2
<1> HIDE DEF d
<1>7. \A i \in 1..Len(d) : d[i] = s[Len(s) - Len(v) - Len(d) + i]
  <2> SUFFICES ASSUME NEW i \in 1..Len(d) PROVE d[i] = s[Len(s) - Len(v) - Len(d) + i]
    OBVIOUS
  <2>0. Len(s) - Len(v) - Len(d) + i = Len(s) - Len(u) - Len(b) + i
    BY <1>1, <1>3, <1>4
  <2>1. CASE i <= Len(b)
    <3>1. i \in 1..Len(b)
      BY <2>1, <1>1, <1>4
    <3> QED BY <3>1, <2>0, <1>5 DEF CutOf
  <2>2. CASE i > Len(b)
    <3>1. PICK j \in 1..n : i = Len(b) + j
      <4>1. i - Len(b) \in 1..n /\ i = Len(b) + (i - Len(b))
        BY <2>2, <1>1, <1>4
      <4> QED BY <4>1
    <3>2. d[i] = u[j] /\ j \in 1..Len(u)
      BY <3>1, <1>6
    <3>3. u[j] = s[Len(s) - Len(u) + j]
      BY <3>2 DEF CutOf
    <3>4. Len(s) - Len(u) + j = Len(s) - Len(u) - Len(b) + i
      BY <3>1, <1>1
    <3> QED BY <3>2, <3>3, <3>4, <2>0
  <2> QED BY <2>1, <2>2, <1>1, <1>4
<1>8. \A i \in 1..Len(v) : v[i] = s[Len(s) - Len(v) + i]
  <2> SUFFICES ASSUME NEW i \in 1..Len(v) PROVE v[i] = s[Len(s) - Len(v) + i]
    OBVIOUS
  <2>1. n + i \in 1..Len(u) /\ Len(s) - Len(u) + (n + i) = Len(s) - Len(v) + i
    BY <1>1, <1>3
  <2>2. v[i] = u[n + i]
    BY <1>3
  <2> QED BY <2>1, <2>2 DEF CutOf
<1>9. Len(d) + Len(v) <= Len(s)
  BY <1>1, <1>3, <1>4 DEF CutOf
<1>10. CutOf(s, d, v)
  BY <1>7, <1>8, <1>9 DEF CutOf
<1>11. Used(s, d, v) = Used(s, b, u)
  BY <1>1, <1>3, <1>4 DEF Used
<1> QED BY <1>3, <1>4, <1>10, <1>11 DEF d, f, v

\* Bytes that are retrieved are the buffer's first.
LEMMA CutRetrieve ==
  ASSUME NEW s \in Seq(Token), NEW b \in Seq(Token), NEW u \in Seq(Token), CutOf(s, b, u),
         NEW n \in 0..Len(b)
  PROVE  /\ SubSeq(b, n + 1, Len(b)) \in Seq(Token)
         /\ CutOf(s, SubSeq(b, n + 1, Len(b)), u)
         /\ Used(s, SubSeq(b, n + 1, Len(b)), u) = Used(s, b, u) + n
<1> DEFINE d == SubSeq(b, n + 1, Len(b))
<1>1. Len(u) \in Nat /\ Len(b) \in Nat /\ Len(s) \in Nat
  OBVIOUS
<1>2. /\ d \in Seq(Token) /\ Len(d) = Len(b) - n
      /\ \A i \in 1..(Len(b) - n) : d[i] = b[n + i]
  BY <1>1
<1> HIDE DEF d
<1>3. \A i \in 1..Len(d) : d[i] = s[Len(s) - Len(u) - Len(d) + i]
  <2> SUFFICES ASSUME NEW i \in 1..Len(d) PROVE d[i] = s[Len(s) - Len(u) - Len(d) + i]
    OBVIOUS
  <2>1. /\ n + i \in 1..Len(b)
        /\ Len(s) - Len(u) - Len(b) + (n + i) = Len(s) - Len(u) - Len(d) + i
    BY <1>1, <1>2
  <2>2. d[i] = b[n + i]
    BY <1>2
  <2> QED BY <2>1, <2>2 DEF CutOf
<1>4. Len(d) + Len(u) <= Len(s)
  BY <1>1, <1>2 DEF CutOf
<1>5. CutOf(s, d, u)
  BY <1>3, <1>4 DEF CutOf
<1>6. Used(s, d, u) = Used(s, b, u) + n
  BY <1>1, <1>2 DEF Used
<1> QED BY <1>2, <1>5, <1>6 DEF d

\* At the start of a frame, the size read is that of the frame whose body follows.
LEMMA PlaceReadSize ==
  ASSUME NEW c \in Conns, NEW s \in Seq(Token), Framed(c, s),
         NEW b \in Seq(Token), NEW u \in Seq(Token), CutOf(s, b, u), Len(b) >= kSizeBytes,
         NEW want, AtPlace(c, s, "kExpectFrameSize", want, Used(s, b, u))
  PROVE  /\ Head(b)[1] \in 1..Len(Sizes[c])
         /\ AtPlace(c, s, "kExpectFrame", Sizes[c][Head(b)[1]], Used(s, b, u) + kSizeBytes)
<1>0. PICK K \in Nat \ {0} : K = kSizeBytes
  BY SizeBytesAssumption
<1>1. Len(u) \in Nat /\ Len(b) \in Nat \ {0} /\ Len(s) \in Nat
  BY <1>0
<1>2. PICK p \in Nat : p = Used(s, b, u) /\ p + 1 \in 1..Len(s)
  <2>1. Used(s, b, u) \in Nat /\ Used(s, b, u) + 1 \in 1..Len(s)
    BY <1>1 DEF CutOf, Used
  <2> QED BY <2>1
<1>3. Head(b) = s[p + 1]
  <2>1. Head(b) = b[1] /\ 1 \in 1..Len(b)
    BY <1>1
  <2> QED BY <2>1, <1>2 DEF CutOf, Used
<1>4. PICK k \in 1..Len(Sizes[c]), h \in Nat, l \in Nat : InFrame(c, s, p + 1, k, h, l)
  BY <1>2 DEF Framed
<1>5. s[p + 1] = <<k, h>> /\ h = 1 /\ l = K + Sizes[c][k] - 1
  <2>1. s[p + 1] = <<k, h>> /\ h + l = K + Sizes[c][k]
    BY <1>0, <1>4 DEF InFrame
  <2>2. s[p + 1][2] = 1
    BY <1>1, <1>2 DEF AtPlace
  <2>3. Sizes[c][k] \in Nat
    BY FrameTokens
  <2> QED BY <2>1, <2>2, <2>3
<1>6. ASSUME p + K < Len(s)
      PROVE  IF Sizes[c][k] = 0
             THEN s[p + K + 1][2] = 1
             ELSE s[p + K + 1][2] = K + 1 /\ Sizes[c][s[p + K + 1][1]] = Sizes[c][k]
  <2>0. PICK n \in Nat : n = Sizes[c][k] /\ l = K + n - 1
    BY <1>5, FrameTokens
  <2>1. CASE n = 0
    <3>1. (p + 1) + l + 1 = p + K + 1 /\ (p + 1) + l < Len(s)
      <4>1. l = K - 1
        BY <2>0, <2>1
      <4> QED BY <4>1, <1>6, <1>1
    <3>2. s[(p + 1) + l + 1][2] = 1
      BY <3>1, <1>4 DEF InFrame
    <3> QED BY <3>1, <3>2, <2>0, <2>1
  <2>2. CASE n # 0
    <3>1. K \in 0..l /\ (p + 1) + K = p + K + 1 /\ h + K = K + 1
      <4>1. K \in 0..l
        BY <2>0, <2>2
      <4>2. h = 1
        BY <1>5
      <4> QED BY <4>1, <4>2
    <3>2. s[(p + 1) + K] = <<k, h + K>>
      BY <3>1, <1>4 DEF InFrame
    <3>3. s[p + K + 1] = <<k, K + 1>>
      BY <3>1, <3>2
    <3> QED BY <3>3, <2>0, <2>2
  <2> QED BY <2>1, <2>2
<1>7. Head(b)[1] = k
  BY <1>3, <1>5
<1>8. AtPlace(c, s, "kExpectFrame", Sizes[c][Head(b)[1]], Used(s, b, u) + kSizeBytes)
  BY <1>0, <1>2, <1>6, <1>7 DEF AtPlace
<1> QED BY <1>3, <1>5, <1>8

\* At the start of a body, the bytes of its size are that body, and a frame starts behind.
LEMMA PlaceDispatch ==
  ASSUME NEW c \in Conns, NEW s \in Seq(Token), Framed(c, s),
         NEW b \in Seq(Token), NEW u \in Seq(Token), CutOf(s, b, u),
         NEW want \in 0..Len(b), AtPlace(c, s, "kExpectFrame", want, Used(s, b, u))
  PROVE  /\ SubSeq(b, 1, want) \in Seq(Token)
         /\ WholeBody([conn |-> c, body |-> SubSeq(b, 1, want)])
         /\ AtPlace(c, s, "kExpectFrameSize", want, Used(s, b, u) + want)
<1>0. PICK K \in Nat \ {0} : K = kSizeBytes
  BY SizeBytesAssumption
<1>1. Len(u) \in Nat /\ Len(b) \in Nat /\ Len(s) \in Nat /\ want \in Nat
  OBVIOUS
<1>2. PICK p \in Nat : p = Used(s, b, u) /\ p + Len(b) <= Len(s)
  <2>1. Used(s, b, u) \in Nat /\ Used(s, b, u) + Len(b) <= Len(s)
    BY <1>1 DEF CutOf, Used
  <2> QED BY <2>1
<1> DEFINE d == SubSeq(b, 1, want)
<1>3. d \in Seq(Token) /\ Len(d) = want /\ \A i \in 1..want : d[i] = b[i]
  BY <1>1
<1> HIDE DEF d
<1>4. CASE want = 0
  <2>1. d = <<>>
    BY <1>3, <1>4
  <2>2. WholeBody([conn |-> c, body |-> d])
    BY <2>1 DEF WholeBody
  <2>3. Used(s, b, u) + want = Used(s, b, u)
    BY <1>2, <1>4
  <2>4. AtPlace(c, s, "kExpectFrameSize", want, Used(s, b, u) + want)
    BY <2>3, <1>4 DEF AtPlace
  <2> QED BY <2>2, <2>4, <1>3 DEF d
<1>5. CASE want # 0
  <2>1. p + 1 \in 1..Len(s) /\ p < Len(s)
    BY <1>1, <1>2, <1>5
  <2>2. s[p + 1][2] = K + 1 /\ Sizes[c][s[p + 1][1]] = want
    BY <1>0, <2>1, <1>2, <1>5 DEF AtPlace
  <2>3. PICK k \in 1..Len(Sizes[c]), h \in Nat, l \in Nat : InFrame(c, s, p + 1, k, h, l)
    BY <2>1 DEF Framed
  <2>4. s[p + 1] = <<k, h>> /\ h = K + 1 /\ Sizes[c][k] = want /\ l = want - 1
    <3>1. s[p + 1] = <<k, h>> /\ h + l = K + Sizes[c][k]
      BY <1>0, <2>3 DEF InFrame
    <3>2. h = K + 1 /\ Sizes[c][k] = want
      BY <3>1, <2>2
    <3> QED BY <3>1, <3>2, <1>1
  <2>5. \A i \in 1..want : d[i] = <<k, K + i>>
    <3> SUFFICES ASSUME NEW i \in 1..want PROVE d[i] = <<k, K + i>>
      OBVIOUS
    <3>1. i - 1 \in 0..l /\ (p + 1) + (i - 1) = p + i /\ h + (i - 1) = K + i
      BY <2>4, <1>1, <1>2
    <3>2. s[(p + 1) + (i - 1)] = <<k, h + (i - 1)>>
      BY <3>1, <2>3 DEF InFrame
    <3>3. i \in 1..Len(b) /\ Len(s) - Len(u) - Len(b) + i = p + i
      BY <1>1, <1>2 DEF Used
    <3>4. d[i] = s[p + i]
      BY <3>3, <1>3 DEF CutOf
    <3> QED BY <3>1, <3>2, <3>4
  <2>6. d = Body(c, k)
    <3>1. Body(c, k) = [i \in 1..want |-> <<k, K + i>>]
      BY <1>0, <2>4, FrameTokens
    <3>2. d = [i \in 1..want |-> d[i]]
      BY <1>3
    <3> QED BY <3>1, <3>2, <2>5
  <2>7. d[1] = <<k, K + 1>>
    <3>1. 1 \in 1..want
      BY <1>1, <1>5
    <3> QED BY <3>1, <2>5
  <2>8. WholeBody([conn |-> c, body |-> d])
    BY <2>6, <2>7 DEF WholeBody
  <2>9. AtPlace(c, s, "kExpectFrameSize", want, Used(s, b, u) + want)
    <3>1. SUFFICES ASSUME p + want < Len(s) PROVE s[p + want + 1][2] = 1
      BY <1>2 DEF AtPlace
    <3>2. (p + 1) + l < Len(s) /\ (p + 1) + l + 1 = p + want + 1
      BY <3>1, <2>4, <1>1, <1>2
    <3> QED BY <3>2, <2>3 DEF InFrame
  <2> QED BY <2>8, <2>9, <1>3 DEF d
<1> QED BY <1>4, <1>5

-----------------------------------------------------------------------------
(* The inductive invariant of the server. *)

\* What DispatchFrame puts into a worker's queue.
Message == [conn : Conns, body : Seq(Token)]

\* Every connection is at its place in its stream.
StreamInv ==
  /\ input \in [Conns -> Seq(Token)] /\ buffer \in [Conns -> Seq(Token)]
  /\ \A c \in Conns :
       /\ CutOf(Stream(c), buffer[c], input[c])
       /\ state[c] = "down" => buffer[c] = <<>>
       /\ state[c] # "down" => AtPlace(c, Stream(c), enum_state[c], i32_want_size[c],
                                       Used(Stream(c), buffer[c], input[c]))

\* Every request that is queued is whole.
QueueInv ==
  /\ queue \in [Workers -> Seq(Message)]
  /\ \A w \in Workers : \A i \in 1..Len(queue[w]) : WholeBody(queue[w][i])

\* The inductive invariant of the server.
SvrIInv == SvrTypeOK /\ WheelInv /\ StreamInv /\ QueueInv

\* The invariant holds at first: nothing is read, and the stream starts with a frame.
LEMMA SvrInitInv == SvrInit => SvrIInv
<1> SUFFICES ASSUME SvrInit PROVE SvrIInv
  OBVIOUS
<1>1. kI8TimeWheelGridNum \in Nat \ {0} /\ WorkerNum \in Nat \ {0}
  BY WheelAssumption, WorkerAssumption
<1>2. SvrTypeOK
  <2>1. stopping \in BOOLEAN
    BY Zenon DEF SvrInit
  <2>2. pos \in 0..WorkerNum /\ 0 \in 0..kI8TimeWheelGridNum
    BY <1>1 DEF SvrInit
  <2>3. /\ wheel \in [1..kI8TimeWheelGridNum -> SUBSET Conns]
        /\ idle \in [Conns -> 0..kI8TimeWheelGridNum]
    BY <2>2 DEF SvrInit
  <2>4. /\ state \in [Conns -> {"new", "up", "shut", "down"}]
        /\ enum_state \in [Conns -> {"kExpectFrameSize", "kExpectFrame"}]
        /\ i32_want_size \in [Conns -> Nat]
        /\ fate \in [Requests -> {"none", "queued", "answered", "unanswered"}]
    BY DEF SvrInit
  <2>5. io \in Conns \union {None} /\ busy \in [Workers -> Requests \union {None}]
    BY DEF SvrInit
  <2> QED BY <2>1, <2>2, <2>3, <2>4, <2>5 DEF SvrTypeOK
<1>3. WheelInv
  BY <1>1 DEF SvrInit, WheelInv, Watched
<1>4. StreamInv
  <2>1. \A c \in Conns : Stream(c) \in Seq(Token) /\ Framed(c, Stream(c))
    BY StreamFramed
  <2>2. input \in [Conns -> Seq(Token)] /\ buffer \in [Conns -> Seq(Token)]
    BY <2>1 DEF SvrInit
  <2>3. ASSUME NEW c \in Conns
        PROVE  /\ CutOf(Stream(c), buffer[c], input[c])
               /\ AtPlace(c, Stream(c), enum_state[c], i32_want_size[c],
                          Used(Stream(c), buffer[c], input[c]))
    <3>1. /\ input[c] = Stream(c) /\ buffer[c] = <<>> /\ enum_state[c] = "kExpectFrameSize"
      BY DEF SvrInit
    <3> DEFINE s == Stream(c)
    <3>2. s \in Seq(Token) /\ Framed(c, s) /\ Len(s) \in Nat /\ Len(<<>>) = 0
      BY <2>1
    <3> HIDE DEF s
    <3>3. Len(s) - Len(s) - 0 = 0 /\ \A i \in 1..Len(s) : Len(s) - Len(s) + i = i
      BY <3>2
    <3>4. CutOf(s, <<>>, s)
      BY <3>2, <3>3 DEF CutOf
    <3>5. AtPlace(c, s, "kExpectFrameSize", i32_want_size[c], Used(s, <<>>, s))
      BY <3>2, <3>3 DEF AtPlace, Used, Framed
    <3> QED BY <3>1, <3>4, <3>5 DEF s
  <2>4. \A c \in Conns : buffer[c] = <<>>
    BY DEF SvrInit
  <2> QED BY <2>2, <2>3, <2>4 DEF StreamInv
<1>5. QueueInv
  <2>1. <<>> \in Seq(Message) /\ Len(<<>>) = 0
    OBVIOUS
  <2> QED BY <2>1 DEF SvrInit, QueueInv
<1> QED BY <1>2, <1>3, <1>4, <1>5 DEF SvrIInv

\* What does not touch the buffers keeps the place in the stream.
LEMMA StreamKept ==
  ASSUME StreamInv, UNCHANGED <<input, buffer, enum_state, i32_want_size>>,
         \A c \in Conns : state'[c] = "down" <=> state[c] = "down"
  PROVE  StreamInv'
BY DEF StreamInv

\* What does not touch the wheel keeps its promise.
LEMMA WheelKept ==
  ASSUME WheelInv, UNCHANGED wheelVars, \A c \in Conns : state'[c] = state[c]
  PROVE  WheelInv'
BY DEF WheelInv, wheelVars

\* A worker takes a message.
LEMMA QueueTaken ==
  ASSUME QueueInv, NEW v \in Workers, queue[v] # <<>>, queue' = [queue EXCEPT ![v] = Tail(@)]
  PROVE  QueueInv'
<1>1. queue \in [Workers -> Seq(Message)]
  BY DEF QueueInv
<1>2. queue[v] \in Seq(Message) /\ Tail(queue[v]) \in Seq(Message)
  BY <1>1
<1>3. queue' \in [Workers -> Seq(Message)]
  BY <1>1, <1>2
<1>4. ASSUME NEW w \in Workers, NEW i \in 1..Len(queue'[w]) PROVE WholeBody(queue'[w][i])
  <2>1. CASE w = v
    <3>1. queue'[w] = Tail(queue[w])
      BY <1>1, <2>1
    <3>2. /\ Len(Tail(queue[w])) = Len(queue[w]) - 1
          /\ \A j \in 1..(Len(queue[w]) - 1) : Tail(queue[w])[j] = queue[w][j + 1]
          /\ Len(queue[w]) \in Nat
      BY <1>2, <2>1
    <3>3. i \in 1..(Len(queue[w]) - 1) /\ i + 1 \in 1..Len(queue[w])
      <4>1. Len(queue'[w]) = Len(queue[w]) - 1 /\ Len(queue[w]) \in Nat
        BY <3>1, <3>2, Zenon
      <4>2. i \in 1..(Len(queue[w]) - 1)
        BY <4>1, Zenon
      <4> QED BY <4>1, <4>2
    <3>4. queue'[w][i] = queue[w][i + 1]
      BY <3>1, <3>2, <3>3
    <3> QED BY <3>3, <3>4 DEF QueueInv
  <2>2. CASE w # v
    <3>1. queue'[w] = queue[w]
      BY <1>1, <2>2
    <3> QED BY <3>1 DEF QueueInv
  <2> QED BY <2>1, <2>2
<1> QED BY <1>3, <1>4 DEF QueueInv

\* A whole message is put into a worker's queue.
LEMMA QueuePut ==
  ASSUME QueueInv, NEW v, NEW m \in Message, WholeBody(m),
         queue' = [queue EXCEPT ![v] = Append(@, m)]
  PROVE  QueueInv'
<1>1. queue \in [Workers -> Seq(Message)]
  BY DEF QueueInv
<1>2. \A w \in Workers : queue'[w] = IF w = v THEN Append(queue[w], m) ELSE queue[w]
  BY <1>1
<1>3. queue' \in [Workers -> Seq(Message)]
  <2>1. \A w \in Workers : queue'[w] \in Seq(Message)
    BY <1>1, <1>2
  <2>2. queue' = [w \in Workers |-> queue'[w]]
    BY <1>1
  <2> QED BY <2>1, <2>2
<1>4. ASSUME NEW w \in Workers, NEW i \in 1..Len(queue'[w]) PROVE WholeBody(queue'[w][i])
  <2>1. CASE queue'[w] = Append(queue[w], m)
    <3>1. /\ queue[w] \in Seq(Message) /\ Len(queue[w]) \in Nat
          /\ Len(Append(queue[w], m)) = Len(queue[w]) + 1
      BY <1>1
    <3>2. CASE i = Len(queue[w]) + 1
      <4>1. queue'[w][i] = m
        BY <2>1, <3>1, <3>2
      <4> QED BY <4>1
    <3>3. CASE i # Len(queue[w]) + 1
      <4>1. i \in 1..Len(queue[w])
        BY <2>1, <3>1, <3>3
      <4>2. queue'[w][i] = queue[w][i]
        BY <2>1, <3>1, <4>1
      <4> QED BY <4>1, <4>2 DEF QueueInv
    <3> QED BY <3>2, <3>3
  <2>2. CASE queue'[w] = queue[w]
    BY <2>2 DEF QueueInv
  <2> QED BY <1>2, <2>1, <2>2
<1> QED BY <1>3, <1>4 DEF QueueInv

\* The request that a worker takes is one of Requests.
LEMMA HeadRequest ==
  ASSUME QueueInv, NEW w \in Workers, queue[w] # <<>>, Head(queue[w]).body # <<>>
  PROVE  Req(Head(queue[w])) \in Requests
<1>1. queue[w] \in Seq(Message) /\ 1 \in 1..Len(queue[w]) /\ Head(queue[w]) = queue[w][1]
  BY DEF QueueInv
<1>2. PICK m \in Message : m = Head(queue[w])
  BY <1>1
<1>3. WholeBody(m)
  BY <1>1, <1>2 DEF QueueInv
<1>4. m.conn \in Conns /\ m.body[1][1] \in 1..Len(Sizes[m.conn])
  BY <1>2, <1>3 DEF WholeBody, Message
<1>5. DOMAIN Sizes[m.conn] = 1..Len(Sizes[m.conn])
  BY <1>4, SizesAssumption
<1>6. <<m.conn, m.body[1][1]>> \in {m.conn} \X DOMAIN Sizes[m.conn]
  BY <1>4, <1>5
<1>7. <<m.conn, m.body[1][1]>> \in Requests
  BY <1>4, <1>6 DEF Requests
<1> QED BY <1>2, <1>7 DEF Req

-----------------------------------------------------------------------------
(* Every step keeps it. *)

\* TimewheelKick keeps the invariant.
LEMMA KickInv ==
  ASSUME SvrIInv, TimewheelKick
  PROVE  SvrIInv'
<1>1. /\ WheelInv'
      /\ wheel' \in [1..kI8TimeWheelGridNum -> SUBSET Conns]
      /\ idle' \in [Conns -> 0..kI8TimeWheelGridNum]
      /\ state' \in [Conns -> {"new", "up", "shut", "down"}]
  BY KickWheel DEF SvrIInv
<1>2. /\ UNCHANGED <<input, buffer, enum_state, i32_want_size>>
      /\ UNCHANGED <<io, pos, queue, busy, fate, stopping>>
  BY DEF TimewheelKick, workerVars
<1>3. SvrTypeOK'
  BY <1>1, <1>2 DEF SvrIInv, SvrTypeOK
<1>4. \A c \in Conns : state'[c] = "down" <=> state[c] = "down"
  BY DEF TimewheelKick
<1>5. StreamInv'
  BY <1>2, <1>4, StreamKept DEF SvrIInv
<1>6. QueueInv'
  BY <1>2 DEF SvrIInv, QueueInv
<1> QED BY <1>1, <1>3, <1>5, <1>6 DEF SvrIInv

\* OnConn of a new connection keeps the invariant.
LEMMA OnConnUpInv ==
  ASSUME SvrIInv, NEW c \in Conns, OnConnUp(c)
  PROVE  SvrIInv'
<1>1. /\ state' = [state EXCEPT ![c] = "up"] /\ state[c] = "new"
      /\ UNCHANGED <<input, buffer, enum_state, i32_want_size>>
      /\ UNCHANGED <<io, pos, queue, busy, fate, stopping>>
  BY DEF OnConnUp, workerVars
<1>2. state \in [Conns -> {"new", "up", "shut", "down"}]
  BY DEF SvrIInv, SvrTypeOK
<1>3. /\ state' \in [Conns -> {"new", "up", "shut", "down"}]
      /\ state'[c] = "up" /\ \A d \in Conns \ {c} : state'[d] = state[d]
  BY <1>1, <1>2
<1>4. /\ WheelInv'
      /\ wheel' \in [1..kI8TimeWheelGridNum -> SUBSET Conns]
      /\ idle' \in [Conns -> 0..kI8TimeWheelGridNum]
  BY <1>3, InsertWheel DEF SvrIInv, OnConnUp
<1>5. SvrTypeOK'
  BY <1>1, <1>3, <1>4 DEF SvrIInv, SvrTypeOK
<1>6. \A d \in Conns : state'[d] = "down" <=> state[d] = "down"
  BY <1>1, <1>3
<1>7. StreamInv'
  BY <1>1, <1>6, StreamKept DEF SvrIInv
<1>8. QueueInv'
  BY <1>1 DEF SvrIInv, QueueInv
<1> QED BY <1>4, <1>5, <1>7, <1>8 DEF SvrIInv

\* OnConn of a connection that is gone keeps the invariant; its buffer goes with it.
LEMMA OnConnDownInv ==
  ASSUME SvrIInv, NEW c \in Conns, OnConnDown(c)
  PROVE  SvrIInv'
<1>1. /\ state' = [state EXCEPT ![c] = "down"] /\ state[c] \in {"up", "shut"}
      /\ buffer' = [buffer EXCEPT ![c] = <<>>]
      /\ UNCHANGED <<input, enum_state, i32_want_size>> /\ UNCHANGED <<wheel, idle>>
      /\ UNCHANGED <<io, pos, queue, busy, fate, stopping>>
  BY DEF OnConnDown, workerVars, wheelVars
<1>2. state \in [Conns -> {"new", "up", "shut", "down"}] /\ buffer \in [Conns -> Seq(Token)]
  BY DEF SvrIInv, SvrTypeOK, StreamInv
<1>3. state' \in [Conns -> {"new", "up", "shut", "down"}]
  BY <1>1, <1>2
<1>4. SvrTypeOK'
  BY <1>1, <1>3 DEF SvrIInv, SvrTypeOK
<1>5. WheelInv'
  <2> SUFFICES ASSUME NEW d \in Conns PROVE Watched(d, state'[d], idle[d], wheel)
    BY <1>1 DEF WheelInv
  <2>1. Watched(d, state[d], idle[d], wheel)
    BY DEF SvrIInv, WheelInv
  <2>2. CASE d = c
    <3>1. state'[d] = "down" /\ state[d] # "new"
      BY <1>1, <1>2, <2>2
    <3> QED BY <3>1, <2>1 DEF Watched
  <2>3. CASE d # c
    <3>1. state'[d] = state[d]
      BY <1>1, <1>2, <2>3
    <3> QED BY <3>1, <2>1
  <2> QED BY <2>2, <2>3
<1>6. StreamInv'
  <2>1. input' \in [Conns -> Seq(Token)] /\ buffer' \in [Conns -> Seq(Token)]
    <3>1. <<>> \in Seq(Token)
      OBVIOUS
    <3> QED BY <3>1, <1>1, <1>2 DEF SvrIInv, StreamInv
  <2>2. CutOf(Stream(c), <<>>, input[c])
    <3>1. PICK s \in Seq(Token) : s = Stream(c)
      BY StreamFramed
    <3>2. PICK b \in Seq(Token), u \in Seq(Token) :
            b = buffer[c] /\ u = input[c] /\ CutOf(s, b, u)
      BY <3>1 DEF SvrIInv, StreamInv
    <3>3. Len(b) \in Nat /\ Len(u) \in Nat /\ Len(s) \in Nat /\ Len(<<>>) = 0
      OBVIOUS
    <3>4. Len(b) + Len(u) <= Len(s) /\ \A i \in 1..Len(u) : u[i] = s[Len(s) - Len(u) + i]
      BY <3>2 DEF CutOf
    <3>5. Len(<<>>) + Len(u) <= Len(s) /\ 1..Len(<<>>) = {}
      BY <3>3, <3>4
    <3>6. CutOf(s, <<>>, u)
      BY <3>4, <3>5, Zenon DEF CutOf
    <3> QED BY <3>1, <3>2, <3>6
  <2>3. ASSUME NEW d \in Conns
        PROVE  /\ CutOf(Stream(d), buffer'[d], input'[d])
               /\ state'[d] = "down" => buffer'[d] = <<>>
               /\ state'[d] # "down" => AtPlace(d, Stream(d), enum_state'[d], i32_want_size'[d],
                                                Used(Stream(d), buffer'[d], input'[d]))
    <3>1. CASE d = c
      <4>1. buffer'[d] = <<>> /\ input'[d] = input[c] /\ state'[d] = "down"
        BY <1>1, <1>2, <3>1
      <4> QED BY <4>1, <3>1, <2>2
    <3>2. CASE d # c
      <4>1. /\ buffer'[d] = buffer[d] /\ input'[d] = input[d] /\ state'[d] = state[d]
            /\ enum_state'[d] = enum_state[d] /\ i32_want_size'[d] = i32_want_size[d]
        BY <1>1, <1>2, <3>2
      <4> QED BY <4>1 DEF SvrIInv, StreamInv
    <3> QED BY <3>1, <3>2
  <2> QED BY <2>1, <2>3 DEF StreamInv
<1>7. QueueInv'
  BY <1>1 DEF SvrIInv, QueueInv
<1> QED BY <1>4, <1>5, <1>6, <1>7 DEF SvrIInv

\* One connection's place in its stream moves and the others' stay.
LEMMA StreamMoved ==
  ASSUME StreamInv, NEW c \in Conns,
         input' \in [Conns -> Seq(Token)], buffer' \in [Conns -> Seq(Token)],
         \A d \in Conns \ {c} :
           /\ state'[d] = state[d] /\ input'[d] = input[d] /\ buffer'[d] = buffer[d]
           /\ enum_state'[d] = enum_state[d] /\ i32_want_size'[d] = i32_want_size[d],
         CutOf(Stream(c), buffer'[c], input'[c]),
         state'[c] = "down" => buffer'[c] = <<>>,
         state'[c] # "down" => AtPlace(c, Stream(c), enum_state'[c], i32_want_size'[c],
                                       Used(Stream(c), buffer'[c], input'[c]))
  PROVE  StreamInv'
<1>1. ASSUME NEW d \in Conns
      PROVE  /\ CutOf(Stream(d), buffer'[d], input'[d])
             /\ state'[d] = "down" => buffer'[d] = <<>>
             /\ state'[d] # "down" => AtPlace(d, Stream(d), enum_state'[d], i32_want_size'[d],
                                              Used(Stream(d), buffer'[d], input'[d]))
  <2>1. CASE d = c
    BY <2>1
  <2>2. CASE d # c
    <3>1. d \in Conns \ {c}
      BY <2>2
    <3>2. /\ CutOf(Stream(d), buffer[d], input[d])
          /\ state[d] = "down" => buffer[d] = <<>>
          /\ state[d] # "down" => AtPlace(d, Stream(d), enum_state[d], i32_want_size[d],
                                          Used(Stream(d), buffer[d], input[d]))
      BY DEF StreamInv
    <3> QED BY <3>1, <3>2
  <2> QED BY <2>1, <2>2
<1> QED BY <1>1 DEF StreamInv

\* Bytes that arrive keep the invariant.
LEMMA OnMsgInv ==
  ASSUME SvrIInv, NEW c \in Conns, NEW n \in 1..Len(input[c]), OnMsg(c, n)
  PROVE  SvrIInv'
<1>1. /\ state[c] \in {"up", "shut"}
      /\ buffer' = [buffer EXCEPT ![c] = @ \o SubSeq(input[c], 1, n)]
      /\ input' = [input EXCEPT ![c] = SubSeq(@, n + 1, Len(@))]
      /\ UNCHANGED <<state, enum_state, i32_want_size>>
      /\ UNCHANGED <<pos, queue, busy, fate, stopping>>
  BY DEF OnMsg, workerVars
<1>2. /\ input \in [Conns -> Seq(Token)] /\ buffer \in [Conns -> Seq(Token)]
      /\ state \in [Conns -> {"new", "up", "shut", "down"}]
  BY DEF SvrIInv, StreamInv, SvrTypeOK
<1>3. StreamInv'
  <2>1. PICK s \in Seq(Token), b \in Seq(Token), u \in Seq(Token) :
          /\ s = Stream(c) /\ b = buffer[c] /\ u = input[c] /\ CutOf(s, b, u)
          /\ AtPlace(c, s, enum_state[c], i32_want_size[c], Used(s, b, u))
    <3>1. Stream(c) \in Seq(Token) /\ buffer[c] \in Seq(Token) /\ input[c] \in Seq(Token)
      BY <1>2, StreamFramed
    <3>2. /\ CutOf(Stream(c), buffer[c], input[c])
          /\ AtPlace(c, Stream(c), enum_state[c], i32_want_size[c],
                     Used(Stream(c), buffer[c], input[c]))
      BY <1>1 DEF SvrIInv, StreamInv
    <3> QED BY <3>1, <3>2
  <2> DEFINE d == b \o SubSeq(u, 1, n)
             v == SubSeq(u, n + 1, Len(u))
  <2>2. /\ d \in Seq(Token) /\ v \in Seq(Token) /\ CutOf(s, d, v)
        /\ Used(s, d, v) = Used(s, b, u)
    BY <2>1, CutReceive
  <2>3. buffer' = [buffer EXCEPT ![c] = d] /\ input' = [input EXCEPT ![c] = v]
    BY <1>1, <2>1
  <2> HIDE DEF d, v
  <2>4. /\ buffer'[c] = d /\ input'[c] = v
        /\ buffer' \in [Conns -> Seq(Token)] /\ input' \in [Conns -> Seq(Token)]
        /\ \A e \in Conns \ {c} : buffer'[e] = buffer[e] /\ input'[e] = input[e]
    BY <1>2, <2>2, <2>3
  <2>5. CutOf(Stream(c), buffer'[c], input'[c])
    BY <2>1, <2>2, <2>4
  <2>6. AtPlace(c, Stream(c), enum_state'[c], i32_want_size'[c],
                Used(Stream(c), buffer'[c], input'[c]))
    <3>1. Used(Stream(c), buffer'[c], input'[c]) = Used(s, b, u)
      BY <2>1, <2>2, <2>4
    <3> QED BY <3>1, <2>1, <1>1
  <2>7. state'[c] # "down"
    BY <1>1
  <2> QED BY <1>1, <2>4, <2>5, <2>6, <2>7, StreamMoved DEF SvrIInv
<1>4. /\ WheelInv' /\ io' \in Conns \union {None}
      /\ wheel' \in [1..kI8TimeWheelGridNum -> SUBSET Conns]
      /\ idle' \in [Conns -> 0..kI8TimeWheelGridNum]
  <2>1. CASE EntryAlive(c)
    <3>1. Insert(c) /\ io' = c
      BY <2>1 DEF OnMsg
    <3>2. idle[c] < kI8TimeWheelGridNum
      BY <2>1, AliveWhileNotIdle DEF SvrIInv
    <3>3. state[c] = "up"
      <4>1. state[c] = "shut" => idle[c] = kI8TimeWheelGridNum
        BY DEF SvrIInv, WheelInv, Watched
      <4>2. idle[c] # kI8TimeWheelGridNum
        BY <3>2, WheelAssumption DEF SvrIInv, SvrTypeOK
      <4> QED BY <4>1, <4>2, <1>1
    <3> QED BY <3>1, <3>3, <1>1, <1>2, InsertWheel DEF SvrIInv
  <2>2. CASE ~EntryAlive(c)
    <3>1. UNCHANGED <<wheel, idle>> /\ UNCHANGED io
      BY <2>2 DEF OnMsg, wheelVars
    <3>2. WheelInv'
      BY <3>1, <1>1, WheelKept DEF SvrIInv, wheelVars
    <3> QED BY <3>1, <3>2 DEF SvrIInv, SvrTypeOK
  <2> QED BY <2>1, <2>2
<1>5. SvrTypeOK'
  BY <1>1, <1>4 DEF SvrIInv, SvrTypeOK
<1>6. QueueInv'
  BY <1>1 DEF SvrIInv, QueueInv
<1> QED BY <1>3, <1>4, <1>5, <1>6 DEF SvrIInv

\* Reading the size of a frame keeps the invariant.
LEMMA ReadFrameSizeInv ==
  ASSUME SvrIInv, NEW c \in Conns, ReadFrameSize(c)
  PROVE  SvrIInv'
<1>1. /\ enum_state[c] = "kExpectFrameSize" /\ Len(buffer[c]) >= kSizeBytes
      /\ i32_want_size' = [i32_want_size EXCEPT ![c] = Sizes[c][Head(buffer[c])[1]]]
      /\ buffer' = [buffer EXCEPT ![c] = SubSeq(@, kSizeBytes + 1, Len(@))]
      /\ enum_state' = [enum_state EXCEPT ![c] = "kExpectFrame"]
      /\ UNCHANGED <<state, input>> /\ UNCHANGED <<wheel, idle>>
      /\ UNCHANGED <<io, pos, queue, busy, fate, stopping>>
  BY DEF ReadFrameSize, SizeIsThere, wheelVars, workerVars
<1>2. /\ input \in [Conns -> Seq(Token)] /\ buffer \in [Conns -> Seq(Token)]
      /\ enum_state \in [Conns -> {"kExpectFrameSize", "kExpectFrame"}]
      /\ i32_want_size \in [Conns -> Nat]
  BY DEF SvrIInv, StreamInv, SvrTypeOK
<1>3. state[c] # "down"
  <2>1. Len(buffer[c]) # 0
    BY <1>1, SizeBytesAssumption
  <2>2. state[c] = "down" => buffer[c] = <<>>
    BY DEF SvrIInv, StreamInv
  <2> QED BY <2>1, <2>2
<1>4. PICK s \in Seq(Token), b \in Seq(Token), u \in Seq(Token) :
        /\ s = Stream(c) /\ b = buffer[c] /\ u = input[c] /\ CutOf(s, b, u) /\ Framed(c, s)
        /\ AtPlace(c, s, "kExpectFrameSize", i32_want_size[c], Used(s, b, u))
        /\ Len(b) >= kSizeBytes
  <2>1. /\ Stream(c) \in Seq(Token) /\ buffer[c] \in Seq(Token) /\ input[c] \in Seq(Token)
        /\ Framed(c, Stream(c))
    BY <1>2, StreamFramed
  <2>2. /\ CutOf(Stream(c), buffer[c], input[c])
        /\ AtPlace(c, Stream(c), enum_state[c], i32_want_size[c],
                   Used(Stream(c), buffer[c], input[c]))
    BY <1>3 DEF SvrIInv, StreamInv
  <2> QED BY <2>1, <2>2, <1>1
<1>5. /\ Head(b)[1] \in 1..Len(Sizes[c])
      /\ AtPlace(c, s, "kExpectFrame", Sizes[c][Head(b)[1]], Used(s, b, u) + kSizeBytes)
  BY <1>4, PlaceReadSize
<1>6. Sizes[c][Head(b)[1]] \in Nat
  BY <1>5, FrameTokens
<1> DEFINE e == SubSeq(b, kSizeBytes + 1, Len(b))
<1>7. e \in Seq(Token) /\ CutOf(s, e, u) /\ Used(s, e, u) = Used(s, b, u) + kSizeBytes
  <2>1. kSizeBytes \in 0..Len(b)
    BY <1>4, SizeBytesAssumption
  <2> QED BY <2>1, <1>4, CutRetrieve
<1>8. buffer' = [buffer EXCEPT ![c] = e]
  BY <1>1, <1>4
<1> HIDE DEF e
<1>9. /\ buffer' \in [Conns -> Seq(Token)] /\ buffer'[c] = e
      /\ enum_state'[c] = "kExpectFrame" /\ i32_want_size'[c] = Sizes[c][Head(b)[1]]
      /\ enum_state' \in [Conns -> {"kExpectFrameSize", "kExpectFrame"}]
      /\ i32_want_size' \in [Conns -> Nat]
      /\ \A d \in Conns \ {c} : /\ buffer'[d] = buffer[d] /\ enum_state'[d] = enum_state[d]
                                /\ i32_want_size'[d] = i32_want_size[d]
  BY <1>1, <1>2, <1>4, <1>6, <1>7, <1>8
<1>10. StreamInv'
  <2>1. CutOf(Stream(c), buffer'[c], input'[c])
    BY <1>1, <1>4, <1>7, <1>9
  <2>2. AtPlace(c, Stream(c), enum_state'[c], i32_want_size'[c],
                Used(Stream(c), buffer'[c], input'[c]))
    BY <1>1, <1>4, <1>5, <1>7, <1>9
  <2>3. state'[c] # "down"
    BY <1>1, <1>3
  <2> QED BY <1>1, <1>2, <1>9, <2>1, <2>2, <2>3, StreamMoved DEF SvrIInv
<1>11. WheelInv'
  BY <1>1, WheelKept DEF SvrIInv, wheelVars
<1>12. SvrTypeOK'
  BY <1>1, <1>9 DEF SvrIInv, SvrTypeOK
<1>13. QueueInv'
  BY <1>1 DEF SvrIInv, QueueInv
<1> QED BY <1>10, <1>11, <1>12, <1>13 DEF SvrIInv

\* Handing a frame to a worker keeps the invariant.
LEMMA DispatchFrameInv ==
  ASSUME SvrIInv, NEW c \in Conns, DispatchFrame(c)
  PROVE  SvrIInv'
<1>1. PICK want \in Nat, s \in Seq(Token), b \in Seq(Token), u \in Seq(Token) :
        /\ want = i32_want_size[c] /\ s = Stream(c) /\ b = buffer[c] /\ u = input[c]
        /\ CutOf(s, b, u) /\ Framed(c, s) /\ want \in 0..Len(b)
        /\ state[c] # "down" => AtPlace(c, s, "kExpectFrame", want, Used(s, b, u))
        /\ state[c] = "down" => b = <<>>
  <2>1. /\ Stream(c) \in Seq(Token) /\ buffer[c] \in Seq(Token) /\ input[c] \in Seq(Token)
        /\ Framed(c, Stream(c)) /\ i32_want_size[c] \in Nat
    BY StreamFramed DEF SvrIInv, StreamInv, SvrTypeOK
  <2>2. enum_state[c] = "kExpectFrame" /\ i32_want_size[c] \in 0..Len(buffer[c])
    BY <2>1 DEF DispatchFrame
  <2>3. /\ CutOf(Stream(c), buffer[c], input[c])
        /\ state[c] = "down" => buffer[c] = <<>>
        /\ state[c] # "down" => AtPlace(c, Stream(c), enum_state[c], i32_want_size[c],
                                        Used(Stream(c), buffer[c], input[c]))
    BY DEF SvrIInv, StreamInv
  <2> QED BY <2>1, <2>2, <2>3
<1> DEFINE body == SubSeq(b, 1, want)
           m == [conn |-> c, body |-> body]
<1>2. /\ queue' = [queue EXCEPT ![NextWorker] = Append(@, m)]
      /\ fate' = IF body = <<>> THEN fate ELSE [fate EXCEPT ![<<c, body[1][1]>>] = "queued"]
      /\ pos' = IF WorkerNum = 1 THEN pos ELSE (pos + 1) % WorkerNum
      /\ buffer' = [buffer EXCEPT ![c] = SubSeq(b, want + 1, Len(b))]
      /\ enum_state' = [enum_state EXCEPT ![c] = "kExpectFrameSize"]
      /\ UNCHANGED <<state, input, i32_want_size, busy, stopping>>
  BY <1>1 DEF DispatchFrame, Retrieved
<1>3. m \in Message /\ WholeBody(m)
  <2>1. CASE state[c] # "down"
    BY <2>1, <1>1, PlaceDispatch DEF Message
  <2>2. CASE state[c] = "down"
    <3>1. want = 0 /\ body = <<>>
      BY <2>2, <1>1
    <3>2. <<>> \in Seq(Token)
      OBVIOUS
    <3> QED BY <3>1, <3>2 DEF Message, WholeBody
  <2> QED BY <2>1, <2>2
<1>4. QueueInv'
  <2> HIDE DEF m
  <2> QED BY <1>2, <1>3, QueuePut DEF SvrIInv
<1> HIDE DEF body, m
<1>5. /\ buffer \in [Conns -> Seq(Token)] /\ input \in [Conns -> Seq(Token)]
      /\ enum_state \in [Conns -> {"kExpectFrameSize", "kExpectFrame"}]
  BY DEF SvrIInv, StreamInv, SvrTypeOK
<1> DEFINE d == SubSeq(b, want + 1, Len(b))
<1>6. d \in Seq(Token) /\ CutOf(s, d, u) /\ Used(s, d, u) = Used(s, b, u) + want
  BY <1>1, CutRetrieve
<1>7. state[c] = "down" => d = <<>>
  <2> SUFFICES ASSUME state[c] = "down" PROVE d = <<>>
    OBVIOUS
  <2>1. b = <<>> /\ want = 0 /\ Len(b) = 0
    BY <1>1
  <2> QED BY <2>1
<1>8. buffer' = [buffer EXCEPT ![c] = d]
  BY <1>2
<1> HIDE DEF d
<1>9. /\ buffer' \in [Conns -> Seq(Token)] /\ buffer'[c] = d
      /\ enum_state'[c] = "kExpectFrameSize"
      /\ enum_state' \in [Conns -> {"kExpectFrameSize", "kExpectFrame"}]
      /\ \A e \in Conns \ {c} : buffer'[e] = buffer[e] /\ enum_state'[e] = enum_state[e]
  BY <1>2, <1>5, <1>6, <1>8
<1>10. StreamInv'
  <2>1. CutOf(Stream(c), buffer'[c], input'[c])
    BY <1>1, <1>2, <1>6, <1>9
  <2>2. ASSUME state'[c] # "down"
        PROVE  AtPlace(c, Stream(c), enum_state'[c], i32_want_size'[c],
                       Used(Stream(c), buffer'[c], input'[c]))
    <3>1. AtPlace(c, s, "kExpectFrameSize", want, Used(s, b, u) + want)
      BY <2>2, <1>1, <1>2, PlaceDispatch
    <3> QED BY <3>1, <1>1, <1>2, <1>6, <1>9
  <2>3. state'[c] = "down" => buffer'[c] = <<>>
    BY <1>2, <1>7, <1>9
  <2> QED BY <1>2, <1>5, <1>9, <2>1, <2>2, <2>3, StreamMoved DEF SvrIInv
<1>11. /\ WheelInv' /\ io' \in Conns \union {None}
       /\ wheel' \in [1..kI8TimeWheelGridNum -> SUBSET Conns]
       /\ idle' \in [Conns -> 0..kI8TimeWheelGridNum]
  <2>1. CASE EntryAlive(c)
    <3>1. Insert(c) /\ io' = io
      BY <2>1 DEF DispatchFrame, NextTurn
    <3>2. state[c] # "new" /\ idle[c] < kI8TimeWheelGridNum
      BY <2>1, AliveWhileNotIdle DEF SvrIInv
    <3>3. state[c] \in {"up", "down"} /\ state \in [Conns -> {"new", "up", "shut", "down"}]
      <4>1. state[c] = "shut" => idle[c] = kI8TimeWheelGridNum
        BY DEF SvrIInv, WheelInv, Watched
      <4>2. idle[c] # kI8TimeWheelGridNum
        BY <3>2, WheelAssumption DEF SvrIInv, SvrTypeOK
      <4> QED BY <4>1, <4>2, <3>2 DEF SvrIInv, SvrTypeOK
    <3>4. io' \in Conns \union {None}
      BY <3>1 DEF SvrIInv, SvrTypeOK
    <3> QED BY <3>1, <3>3, <3>4, <1>2, InsertWheel DEF SvrIInv
  <2>2. CASE ~EntryAlive(c)
    <3>1. UNCHANGED <<wheel, idle>> /\ io' = None
      BY <2>2 DEF DispatchFrame, NextTurn, wheelVars
    <3>2. WheelInv'
      BY <3>1, <1>2, WheelKept DEF SvrIInv, wheelVars
    <3> QED BY <3>1, <3>2 DEF SvrIInv, SvrTypeOK
  <2> QED BY <2>1, <2>2
<1>12. pos' \in 0..WorkerNum
  <2>1. pos \in 0..WorkerNum
    BY DEF SvrIInv, SvrTypeOK
  <2>2. WorkerNum \in Nat \ {0}
    BY WorkerAssumption
  <2>3. (pos + 1) % WorkerNum \in 0..(WorkerNum - 1)
    BY <2>1, <2>2
  <2> QED BY <2>1, <2>2, <2>3, <1>2
<1>13. fate' \in [Requests -> {"none", "queued", "answered", "unanswered"}]
  BY <1>2 DEF SvrIInv, SvrTypeOK
<1>14. SvrTypeOK'
  BY <1>2, <1>9, <1>11, <1>12, <1>13 DEF SvrIInv, SvrTypeOK
<1> QED BY <1>4, <1>10, <1>11, <1>14 DEF SvrIInv

\* A step of the workers or of the main loop: requests change hands, nothing else.
LEMMA WorkersKeep ==
  ASSUME SvrIInv, UNCHANGED connVars, UNCHANGED wheelVars, UNCHANGED io,
         QueueInv', pos' \in 0..WorkerNum, stopping' \in BOOLEAN,
         busy' \in [Workers -> Requests \union {None}],
         fate' \in [Requests -> {"none", "queued", "answered", "unanswered"}]
  PROVE  SvrIInv'
<1>1. /\ UNCHANGED <<state, input, buffer, enum_state, i32_want_size>>
      /\ UNCHANGED <<wheel, idle, io>>
  BY DEF connVars, wheelVars
<1>2. SvrTypeOK'
  BY <1>1 DEF SvrIInv, SvrTypeOK
<1>3. WheelInv'
  BY <1>1, WheelKept DEF SvrIInv, wheelVars
<1>4. StreamInv'
  BY <1>1, StreamKept DEF SvrIInv
<1> QED BY <1>2, <1>3, <1>4 DEF SvrIInv

\* A request is answered or given up.
LEMMA SettleType ==
  ASSUME SvrTypeOK, NEW r, NEW f \in {"answered", "unanswered"}, Settle(r, f)
  PROVE  fate' \in [Requests -> {"none", "queued", "answered", "unanswered"}]
BY DEF SvrTypeOK, Settle

\* Whatever a worker does keeps the invariant.
LEMMA WorkerStepInv ==
  ASSUME SvrIInv, NEW w \in Workers, WorkerStep(w)
  PROVE  SvrIInv'
<1>1. /\ SvrTypeOK /\ pos \in 0..WorkerNum /\ stopping \in BOOLEAN
      /\ busy \in [Workers -> Requests \union {None}]
      /\ fate \in [Requests -> {"none", "queued", "answered", "unanswered"}]
      /\ QueueInv
  BY DEF SvrIInv, SvrTypeOK
<1>2. CASE DiscardRequest(w)
  <2>1. /\ UNCHANGED connVars /\ UNCHANGED wheelVars /\ UNCHANGED <<io, pos, busy, stopping>>
        /\ queue[w] # <<>> /\ queue' = [queue EXCEPT ![w] = Tail(@)]
        /\ Settle(Req(Head(queue[w])), "unanswered")
    BY <1>2 DEF DiscardRequest
  <2>2. QueueInv'
    BY <2>1, <1>1, QueueTaken
  <2>3. fate' \in [Requests -> {"none", "queued", "answered", "unanswered"}]
    BY <2>1, <1>1, SettleType
  <2> QED BY <2>1, <2>2, <2>3, <1>1, WorkersKeep
<1>3. CASE Begin(w)
  <2>1. /\ UNCHANGED connVars /\ UNCHANGED wheelVars /\ UNCHANGED <<io, pos, fate, stopping>>
        /\ queue[w] # <<>> /\ queue' = [queue EXCEPT ![w] = Tail(@)]
        /\ Head(queue[w]).body # <<>> /\ busy' = [busy EXCEPT ![w] = Req(Head(queue[w]))]
    BY <1>3 DEF Begin
  <2>2. QueueInv'
    BY <2>1, <1>1, QueueTaken
  <2>3. busy' \in [Workers -> Requests \union {None}]
    <3>1. Req(Head(queue[w])) \in Requests
      BY <2>1, <1>1, HeadRequest
    <3> QED BY <3>1, <2>1, <1>1
  <2> QED BY <2>1, <2>2, <2>3, <1>1, WorkersKeep
<1>4. CASE Throws(w) \/ Answer(w)
  <2>1. /\ UNCHANGED connVars /\ UNCHANGED wheelVars /\ UNCHANGED <<io, pos, queue, stopping>>
        /\ busy' = [busy EXCEPT ![w] = None]
        /\ \E f \in {"answered", "unanswered"} : Settle(busy[w], f)
    BY <1>4 DEF Throws, Answer
  <2>2. QueueInv'
    BY <2>1, <1>1 DEF QueueInv
  <2>3. fate' \in [Requests -> {"none", "queued", "answered", "unanswered"}]
    BY <2>1, <1>1, SettleType
  <2>4. busy' \in [Workers -> Requests \union {None}]
    BY <2>1, <1>1
  <2> QED BY <2>1, <2>2, <2>3, <2>4, <1>1, WorkersKeep
<1> QED BY <1>2, <1>3, <1>4 DEF WorkerStep

\* Every step keeps the invariant.
LEMMA SvrStepInv == SvrIInv /\ [SvrNext]_svrVars => SvrIInv'
<1> SUFFICES ASSUME SvrIInv, [SvrNext]_svrVars PROVE SvrIInv'
  OBVIOUS
<1>1. /\ pos \in 0..WorkerNum /\ stopping \in BOOLEAN
      /\ busy \in [Workers -> Requests \union {None}]
      /\ fate \in [Requests -> {"none", "queued", "answered", "unanswered"}]
  BY DEF SvrIInv, SvrTypeOK
<1>2. ASSUME UNCHANGED connVars, UNCHANGED wheelVars, UNCHANGED <<queue, busy, fate>>,
             io' \in {io, None}, pos' \in {pos, 0}, stopping' \in {stopping, TRUE}
      PROVE  SvrIInv'
  <2>1. /\ UNCHANGED <<state, input, buffer, enum_state, i32_want_size>>
        /\ UNCHANGED <<wheel, idle, queue, busy, fate>>
    BY <1>2 DEF connVars, wheelVars
  <2>2. pos' \in 0..WorkerNum
    BY <1>1, <1>2, WorkerAssumption
  <2>3. stopping' \in BOOLEAN
    BY <1>1, <1>2, Zenon
  <2>4. SvrTypeOK'
    BY <1>2, <2>1, <2>2, <2>3 DEF SvrIInv, SvrTypeOK
  <2>5. WheelInv' /\ StreamInv'
    BY <2>1, WheelKept, StreamKept DEF SvrIInv, wheelVars
  <2>6. QueueInv'
    BY <2>1 DEF SvrIInv, QueueInv
  <2> QED BY <2>4, <2>5, <2>6 DEF SvrIInv
<1>3. CASE TimewheelKick
  BY <1>3, KickInv
<1>4. ASSUME NEW c \in Conns, ReadFrameSize(c) \/ LeaveOnMsg(c) \/ DispatchFrame(c)
      PROVE  SvrIInv'
  <2>1. CASE LeaveOnMsg(c)
    BY <2>1, <1>2 DEF LeaveOnMsg, workerVars
  <2> QED BY <1>4, <2>1, ReadFrameSizeInv, DispatchFrameInv
<1>5. ASSUME NEW c \in Conns,
             OnConnUp(c) \/ OnConnDown(c) \/ \E n \in 1..Len(input[c]) : OnMsg(c, n)
      PROVE  SvrIInv'
  BY <1>5, OnConnUpInv, OnConnDownInv, OnMsgInv
<1>6. ASSUME NEW w \in Workers, WorkerStep(w) PROVE SvrIInv'
  BY <1>6, WorkerStepInv
<1>7. CASE InitWorkerThreadPos
  BY <1>7, <1>2 DEF InitWorkerThreadPos
<1>8. CASE Stop
  BY <1>8, <1>2 DEF Stop
<1>9. CASE UNCHANGED svrVars
  BY <1>9, <1>2 DEF svrVars, workerVars
<1> QED BY <1>3, <1>4, <1>5, <1>6, <1>7, <1>8, <1>9 DEF SvrNext, OnMsgTurn, Spin

\* The invariant of the server holds in every reachable state.
LEMMA SvrAlwaysIInv == SvrSpec => []SvrIInv
BY SvrInitInv, SvrStepInv, PTL DEF SvrSpec

\* Timewheel: a connection is shut when nothing came from it during a whole turn of
\* the wheel, and no other is, however messages and ticks interleave.
THEOREM SvrIdleIsKicked == SvrSpec => []IdleIsKicked
<1>1. ASSUME SvrIInv PROVE IdleIsKicked
  <2> SUFFICES ASSUME NEW c \in Conns
               PROVE  /\ state[c] = "up" => EntryAlive(c) /\ idle[c] < kI8TimeWheelGridNum
                      /\ state[c] = "shut" => ~EntryAlive(c) /\ idle[c] = kI8TimeWheelGridNum
    BY DEF IdleIsKicked
  <2>1. EntryAlive(c) <=> state[c] # "new" /\ idle[c] < kI8TimeWheelGridNum
    BY <1>1, AliveWhileNotIdle DEF SvrIInv
  <2>2. /\ state[c] = "up" => idle[c] < kI8TimeWheelGridNum
        /\ state[c] = "shut" => idle[c] = kI8TimeWheelGridNum
    BY <1>1 DEF SvrIInv, WheelInv, Watched
  <2>3. ~(kI8TimeWheelGridNum < kI8TimeWheelGridNum)
    BY WheelAssumption
  <2> QED BY <2>1, <2>2, <2>3
<1> QED BY <1>1, SvrAlwaysIInv, PTL

\* OnMsg: however the bytes arrive, those of a length word included, workers get
\* the bodies of the frames that were sent, whole, and reading goes on at the start
\* of a frame or of the body it waits for.
THEOREM SvrFramesAreWhole == SvrSpec => []FramesAreWhole
<1>1. ASSUME SvrIInv PROVE FramesAreWhole
  <2>1. ASSUME NEW w \in Workers, NEW i \in DOMAIN queue[w], queue[w][i].body # <<>>
        PROVE  queue[w][i].body = Body(queue[w][i].conn, queue[w][i].body[1][1])
    <3>1. queue[w] \in Seq(Message)
      BY <1>1 DEF SvrIInv, QueueInv
    <3>2. i \in 1..Len(queue[w])
      BY <3>1
    <3> QED BY <1>1, <2>1, <3>2 DEF SvrIInv, QueueInv, WholeBody
  <2>2. ASSUME NEW c \in Conns, buffer[c] # <<>>
        PROVE  Head(buffer[c])[2] = IF enum_state[c] = "kExpectFrameSize" \/ i32_want_size[c] = 0
                                    THEN 1 ELSE kSizeBytes + 1
    <3>1. PICK s \in Seq(Token), b \in Seq(Token), u \in Seq(Token) :
            /\ s = Stream(c) /\ b = buffer[c] /\ u = input[c] /\ CutOf(s, b, u)
            /\ AtPlace(c, s, enum_state[c], i32_want_size[c], Used(s, b, u))
      <4>1. Stream(c) \in Seq(Token) /\ buffer[c] \in Seq(Token) /\ input[c] \in Seq(Token)
        BY <1>1, StreamFramed DEF SvrIInv, StreamInv
      <4>2. /\ CutOf(Stream(c), buffer[c], input[c])
            /\ AtPlace(c, Stream(c), enum_state[c], i32_want_size[c],
                       Used(Stream(c), buffer[c], input[c]))
        BY <1>1, <2>2 DEF SvrIInv, StreamInv
      <4> QED BY <4>1, <4>2
    <3>2. Len(b) \in Nat \ {0} /\ Len(u) \in Nat /\ Len(s) \in Nat
      BY <2>2, <3>1
    <3>3. PICK p \in Nat : p = Used(s, b, u) /\ p < Len(s)
      <4>1. Len(b) + Len(u) <= Len(s)
        BY <3>1 DEF CutOf
      <4>2. Used(s, b, u) \in Nat /\ Used(s, b, u) < Len(s)
        BY <4>1, <3>2 DEF Used
      <4> QED BY <4>2
    <3>4. Head(b) = s[p + 1]
      <4>1. Head(b) = b[1] /\ 1 \in 1..Len(b)
        BY <3>2
      <4> QED BY <4>1, <3>1, <3>3 DEF CutOf, Used
    <3>5. s[p + 1][2] = IF enum_state[c] = "kExpectFrameSize" \/ i32_want_size[c] = 0
                        THEN 1 ELSE kSizeBytes + 1
      BY <3>1, <3>3 DEF AtPlace
    <3> QED BY <3>1, <3>4, <3>5
  <2>3. SvrTypeOK
    BY <1>1 DEF SvrIInv
  <2> QED BY <2>1, <2>2, <2>3 DEF FramesAreWhole
<1> QED BY <1>1, SvrAlwaysIInv, PTL

-----------------------------------------------------------------------------
(***************************************************************************)
(* The cthrift client.                                                     *)
(***************************************************************************)

\* Requests and entries; functors of the worker's loop.
Request == [id : Int, caller : Callers, call : Nat]
Functor ==
  [type : {"send"}, id : Int, caller : Callers, call : Nat]
    \union [type : {"writeComplete", "highWater"}, epoch : Nat]

\* The types that ClientTypeOK leaves out.
DataInv ==
  /\ seqId \in Int /\ strId \in [Callers -> Int] /\ calls \in [Callers -> Nat]
  /\ DOMAIN readBuf = Callers
  /\ functors \in Seq(Functor) /\ output \in Seq(Request)
  /\ requestMap \subseteq Request /\ served \subseteq Request

-----------------------------------------------------------------------------
(* The loop's queue. *)

\* g is f without its first d functors, with those of t behind.
Shifted(f, d, t, g) ==
  /\ Len(g) = Len(f) - d + Len(t)
  /\ \A i \in 1..(Len(f) - d) : g[i] = f[i + d]
  /\ \A i \in 1..Len(t) : g[Len(f) - d + i] = t[i]

\* The head of the queue goes and t is queued.
LEMMA FunctorsTail ==
  ASSUME NEW f \in Seq(Functor), f # <<>>, NEW t \in Seq(Functor)
  PROVE  Tail(f) \o t \in Seq(Functor) /\ Shifted(f, 1, t, Tail(f) \o t)
<1> DEFINE q == Tail(f)
           g == q \o t
<1>1. /\ q \in Seq(Functor) /\ Len(q) = Len(f) - 1 /\ Len(f) \in Nat \ {0} /\ Len(t) \in Nat
      /\ \A i \in 1..(Len(f) - 1) : q[i] = f[i + 1]
  <2>1. Len(f) \in Nat \ {0} /\ Len(t) \in Nat
    OBVIOUS
  <2>2. q \in Seq(Functor) /\ Len(q) = Len(f) - 1
    OBVIOUS
  <2>3. \A i \in 1..(Len(f) - 1) : q[i] = f[i + 1]
    OBVIOUS
  <2> QED BY <2>1, <2>2, <2>3
<1> HIDE DEF q
<1>2. g \in Seq(Functor) /\ Len(g) = Len(f) - 1 + Len(t)
  <2>1. q \in Seq(Functor) /\ Len(q) = Len(f) - 1
    BY <1>1
  <2>2. g \in Seq(Functor) /\ Len(g) = Len(q) + Len(t)
    BY <2>1
  <2> QED BY <2>1, <2>2
<1>3. \A i \in 1..(Len(f) - 1) : g[i] = q[i]
  BY <1>1
<1>4. \A i \in 1..Len(t) : g[Len(f) - 1 + i] = t[i]
  BY <1>1
<1> QED BY <1>1, <1>2, <1>3, <1>4 DEF Shifted, q

\* t is queued.
LEMMA FunctorsAppend ==
  ASSUME NEW f \in Seq(Functor), NEW t \in Seq(Functor)
  PROVE  f \o t \in Seq(Functor) /\ Shifted(f, 0, t, f \o t)
<1> DEFINE g == f \o t
<1>1. Len(f) \in Nat /\ Len(t) \in Nat /\ Len(f) - 0 = Len(f)
  OBVIOUS
<1>2. g \in Seq(Functor) /\ Len(g) = Len(f) + Len(t)
  OBVIOUS
<1>3. \A i \in 1..Len(f) : i + 0 = i /\ g[i] = f[i]
  BY <1>1
<1>4. \A i \in 1..Len(t) : g[Len(f) + i] = t[i]
  BY <1>1
<1> HIDE DEF g
<1>5. Shifted(f, 0, t, g)
  BY <1>1, <1>2, <1>3, <1>4 DEF Shifted
<1> QED BY <1>2, <1>5 DEF g

-----------------------------------------------------------------------------
(* Sequence numbers. *)

\* The calls made so far.
Made == UNION {{c} \X (1..calls[c]) : c \in Callers}

\* Numbers from before the counter wraps, if it started near its maximum.
High(n) == n >= kInt32Max - 2

\* Calls in progress have different numbers, none ahead of the counter.
IdInv ==
  /\ \A c \in Callers : calls[c] <= MaxCalls[c] /\ (stage[c] # "idle" => calls[c] > 0)
  /\ \A c, d \in Callers : stage[c] # "idle" /\ stage[d] # "idle" /\ strId[c] = strId[d] => c = d
  /\ \A c \in Callers : stage[c] = "reset" => strId[c] = kInt32Max /\ (High(seqId) \/ seqId < 0)
  /\ \A c \in Callers : stage[c] # "idle" =>
       IF High(seqId) THEN High(strId[c]) /\ strId[c] <= seqId
                      ELSE High(strId[c]) \/ strId[c] <= seqId
  /\ seqId <= kInt32Max
  /\ seqId >= 0 /\ ~High(seqId) => seqId <= Cardinality(Made)
  /\ seqId < 0 => seqId >= -kInt32Max - 1 /\ seqId <= Cardinality(Made) - kInt32Max - 2

\* The counter cannot lap: fewer calls are made than there are numbers.
LEMMA CallsMade ==
  ASSUME DataInv, \A c \in Callers : calls[c] <= MaxCalls[c]
  PROVE  /\ IsFiniteSet(Made) /\ Cardinality(Made) \in Nat
         /\ Cardinality(AllCalls) \in Nat /\ kInt32Max \in Nat
         /\ Cardinality(Made) + 3 < kInt32Max
<1>1. IsFiniteSet(AllCalls) /\ kInt32Max \in Nat /\ kInt32Max > 3 + Cardinality(AllCalls)
  BY Int32Assumption
<1>2. Made \subseteq AllCalls
  <2> SUFFICES ASSUME NEW c \in Callers, NEW k \in 1..calls[c] PROVE k \in 1..MaxCalls[c]
    BY DEF Made, AllCalls
  <2>1. calls[c] \in Nat /\ MaxCalls[c] \in Nat /\ calls[c] <= MaxCalls[c]
    BY BoundsAssumption DEF DataInv
  <2> QED BY <2>1
<1>3. /\ IsFiniteSet(Made) /\ Cardinality(Made) <= Cardinality(AllCalls)
      /\ Cardinality(Made) \in Nat /\ Cardinality(AllCalls) \in Nat
  BY <1>1, <1>2, FS_Subset, FS_CardinalityType
<1> QED BY <1>1, <1>3

\* A call in progress is one of those made.
LEMMA NotMadeYet ==
  ASSUME DataInv, NEW c \in Callers, calls[c] > 0, IsFiniteSet(Made)
  PROVE  Cardinality(Made) >= 1
<1>1. 1 \in 1..calls[c]
  BY DEF DataInv
<1>2. <<c, 1>> \in Made
  BY <1>1 DEF Made
<1>3. Cardinality(Made) \in Nat /\ Cardinality(Made) # 0
  BY <1>2, FS_CardinalityType, FS_EmptySet
<1> QED BY <1>3

\* One more call is made.
LEMMA CallMade ==
  ASSUME DataInv, \A c \in Callers : calls[c] <= MaxCalls[c],
         NEW c \in Callers, calls[c] < MaxCalls[c], calls' = [calls EXCEPT ![c] = @ + 1]
  PROVE  /\ \A d \in Callers : calls'[d] <= MaxCalls[d]
         /\ calls' \in [Callers -> Nat] /\ calls'[c] > 0
         /\ \A d \in Callers \ {c} : calls'[d] = calls[d]
         /\ Cardinality(Made)' = Cardinality(Made) + 1
<1>1. calls \in [Callers -> Nat] /\ MaxCalls \in [Callers -> Nat]
  BY BoundsAssumption DEF DataInv
<1>2. /\ calls' \in [Callers -> Nat] /\ calls'[c] = calls[c] + 1
      /\ \A d \in Callers \ {c} : calls'[d] = calls[d]
  BY <1>1
<1>3. \A d \in Callers : calls'[d] <= MaxCalls[d]
  BY <1>1, <1>2
<1>4. Made' = Made \union {<<c, calls[c] + 1>>}
  <2>1. ASSUME NEW d \in Callers, d # c PROVE 1..calls'[d] = 1..calls[d]
    BY <2>1, <1>2
  <2>2. 1..calls'[c] = (1..calls[c]) \union {calls[c] + 1}
    BY <1>1, <1>2
  <2>3. Made' \subseteq Made \union {<<c, calls[c] + 1>>}
    <3> SUFFICES ASSUME NEW d \in Callers, NEW k \in 1..calls'[d]
                 PROVE  <<d, k>> \in Made \union {<<c, calls[c] + 1>>}
      BY DEF Made
    <3> QED BY <2>1, <2>2 DEF Made
  <2>4. Made \union {<<c, calls[c] + 1>>} \subseteq Made'
    <3>1. ASSUME NEW d \in Callers, NEW k \in 1..calls[d] PROVE <<d, k>> \in Made'
      <4>1. k \in 1..calls'[d]
        BY <2>1, <2>2
      <4> QED BY <4>1 DEF Made
    <3>2. <<c, calls[c] + 1>> \in Made'
      BY <2>2 DEF Made
    <3> QED BY <3>1, <3>2 DEF Made
  <2> QED BY <2>3, <2>4
<1>5. <<c, calls[c] + 1>> \notin Made
  <2>1. calls[c] + 1 \notin 1..calls[c]
    BY <1>1
  <2> QED BY <2>1 DEF Made
<1>6. IsFiniteSet(Made)
  BY CallsMade
<1>7. Cardinality(Made \union {<<c, calls[c] + 1>>}) = Cardinality(Made) + 1
  BY <1>5, <1>6, FS_AddElement
<1>8. calls'[c] > 0
  BY <1>1, <1>2
<1> QED BY <1>2, <1>3, <1>4, <1>7, <1>8

\* writeMessageBegin gives out a number that no call in progress has.
LEMMA IdBegin ==
  ASSUME DataInv, IdInv, stage \in [Callers -> {"idle", "reset", "flush", "read"}],
         NEW c \in Callers, WriteMessageBegin(c)
  PROVE  IdInv'
<1>1. /\ stage[c] = "idle" /\ calls[c] < MaxCalls[c] /\ calls' = [calls EXCEPT ![c] = @ + 1]
      /\ seqId' = Incremented(seqId) /\ strId' = [strId EXCEPT ![c] = seqId']
      /\ stage' = [stage EXCEPT ![c] = IF seqId' = kInt32Max THEN "reset" ELSE "flush"]
  BY DEF WriteMessageBegin
<1>2. \A d \in Callers : calls[d] <= MaxCalls[d]
  BY DEF IdInv
<1>3. /\ \A d \in Callers : calls'[d] <= MaxCalls[d]
      /\ calls' \in [Callers -> Nat] /\ calls'[c] > 0
      /\ \A d \in Callers \ {c} : calls'[d] = calls[d]
      /\ Cardinality(Made)' = Cardinality(Made) + 1
  BY <1>1, <1>2, CallMade
<1>4. PICK n \in Nat, M \in Nat : n = Cardinality(Made) /\ M = kInt32Max /\ (n + 1) + 3 < M
  <2>1. Cardinality(Made) \in Nat /\ kInt32Max \in Nat
    BY <1>2, CallsMade
  <2>2. Cardinality(Made)' + 3 < kInt32Max
    <3>1. /\ IsFiniteSet(AllCalls) /\ kInt32Max > 3 + Cardinality(AllCalls)
          /\ Cardinality(AllCalls) \in Nat
      BY Int32Assumption, FS_CardinalityType
    <3>2. Made' \subseteq AllCalls
      <4> SUFFICES ASSUME NEW d \in Callers, NEW k \in 1..calls'[d] PROVE k \in 1..MaxCalls[d]
        BY DEF Made, AllCalls
      <4>1. calls'[d] \in Nat /\ MaxCalls[d] \in Nat /\ calls'[d] <= MaxCalls[d]
        BY <1>3, BoundsAssumption
      <4> QED BY <4>1
    <3>3. Cardinality(Made') <= Cardinality(AllCalls) /\ Cardinality(Made') \in Nat
      BY <3>1, <3>2, FS_Subset, FS_CardinalityType
    <3> QED BY <3>1, <3>3, <2>1
  <2> QED BY <2>1, <2>2, <1>3
<1>5. /\ strId \in [Callers -> Int] /\ seqId \in Int
  BY DEF DataInv
<1>6. /\ seqId' \in Int /\ seqId' <= M
      /\ seqId' >= 0 /\ ~(seqId' >= M - 2) => seqId' <= n + 1
      /\ seqId' < 0 => seqId' >= -M - 1 /\ seqId' <= (n + 1) - M - 2
      /\ seqId >= M - 2 \/ seqId < 0 => seqId' >= M - 2 \/ seqId' < 0
      /\ seqId' = M => seqId >= M - 2
      /\ seqId' >= M - 2 => seqId >= M - 2 /\ seqId' = seqId + 1
      /\ seqId' = seqId + 1 \/ (seqId = M /\ seqId' = -M - 1)
  BY <1>1, <1>4, <1>5 DEF IdInv, High, Incremented
<1>7. /\ strId'[c] = seqId' /\ \A d \in Callers \ {c} : strId'[d] = strId[d]
      /\ stage'[c] = IF seqId' = M THEN "reset" ELSE "flush"
      /\ \A d \in Callers \ {c} : stage'[d] = stage[d]
  BY <1>1, <1>4, <1>5
<1>8. \A d \in Callers \ {c} : stage[d] # "idle" =>
        /\ strId[d] # seqId'
        /\ IF seqId' >= M - 2 THEN strId[d] >= M - 2 /\ strId[d] <= seqId'
                              ELSE strId[d] >= M - 2 \/ strId[d] <= seqId'
  <2> SUFFICES ASSUME NEW d \in Callers \ {c}, stage[d] # "idle"
               PROVE  /\ strId[d] # seqId'
                      /\ IF seqId' >= M - 2 THEN strId[d] >= M - 2 /\ strId[d] <= seqId'
                                            ELSE strId[d] >= M - 2 \/ strId[d] <= seqId'
    OBVIOUS
  <2>1. /\ strId[d] \in Int
        /\ IF seqId >= M - 2 THEN strId[d] >= M - 2 /\ strId[d] <= seqId
                             ELSE strId[d] >= M - 2 \/ strId[d] <= seqId
    BY <1>4, <1>5 DEF IdInv, High
  <2> QED BY <2>1, <1>4, <1>5, <1>6
<1>9. \A d, e \in Callers :
        stage'[d] # "idle" /\ stage'[e] # "idle" /\ strId'[d] = strId'[e] => d = e
  <2> SUFFICES ASSUME NEW d \in Callers, NEW e \in Callers, stage'[d] # "idle",
                      stage'[e] # "idle", strId'[d] = strId'[e], d # e
               PROVE  FALSE
    OBVIOUS
  <2>1. CASE d = c
    BY <2>1, <1>7, <1>8
  <2>2. CASE e = c
    BY <2>2, <1>7, <1>8
  <2>3. CASE d # c /\ e # c
    BY <2>3, <1>7 DEF IdInv
  <2> QED BY <2>1, <2>2, <2>3
<1>10. \A d \in Callers : stage'[d] = "reset" => strId'[d] = M /\ (seqId' >= M - 2 \/ seqId' < 0)
  <2> SUFFICES ASSUME NEW d \in Callers, stage'[d] = "reset"
               PROVE  strId'[d] = M /\ (seqId' >= M - 2 \/ seqId' < 0)
    OBVIOUS
  <2>1. CASE d = c
    BY <2>1, <1>4, <1>7
  <2>2. CASE d # c
    <3>1. strId[d] = M /\ (seqId >= M - 2 \/ seqId < 0)
      BY <2>2, <1>4, <1>7 DEF IdInv, High
    <3> QED BY <3>1, <2>2, <1>6, <1>7
  <2> QED BY <2>1, <2>2
<1>11. \A d \in Callers : stage'[d] # "idle" =>
         IF seqId' >= M - 2 THEN strId'[d] >= M - 2 /\ strId'[d] <= seqId'
                            ELSE strId'[d] >= M - 2 \/ strId'[d] <= seqId'
  BY <1>5, <1>6, <1>7, <1>8
<1>12. \A d \in Callers : calls'[d] <= MaxCalls[d] /\ (stage'[d] # "idle" => calls'[d] > 0)
  BY <1>3, <1>7 DEF IdInv
<1> QED BY <1>3, <1>4, <1>6, <1>9, <1>10, <1>11, <1>12 DEF IdInv, High

\* getAndSet(1), also when it comes late, leaves number 1 to its caller alone.
LEMMA IdReset ==
  ASSUME DataInv, IdInv, stage \in [Callers -> {"idle", "reset", "flush", "read"}],
         NEW c \in Callers, ResetSeqId(c)
  PROVE  IdInv'
<1>1. /\ stage[c] = "reset" /\ seqId' = 1 /\ strId' = [strId EXCEPT ![c] = 1]
      /\ stage' = [stage EXCEPT ![c] = "flush"] /\ UNCHANGED calls
  BY DEF ResetSeqId
<1>2. \A d \in Callers : calls[d] <= MaxCalls[d] /\ (stage[d] # "idle" => calls[d] > 0)
  BY DEF IdInv
<1>3. PICK n \in Nat, M \in Nat : n = Cardinality(Made) /\ M = kInt32Max /\ n + 3 < M /\ n >= 1
  BY <1>1, <1>2, CallsMade, NotMadeYet
<1>4. strId \in [Callers -> Int] /\ seqId \in Int
  BY DEF DataInv
<1>5. Cardinality(Made)' = n
  BY <1>1, <1>3 DEF Made
<1>6. /\ strId'[c] = 1 /\ \A d \in Callers \ {c} : strId'[d] = strId[d] /\ strId[d] \in Int
      /\ stage'[c] = "flush" /\ \A d \in Callers \ {c} : stage'[d] = stage[d]
  BY <1>1, <1>4
<1>7. \A d \in Callers \ {c} : stage[d] # "idle" =>
        strId[d] # 1 /\ (strId[d] >= M - 2 \/ strId[d] <= 1)
  <2>1. seqId >= M - 2 \/ seqId < 0
    BY <1>1, <1>3 DEF IdInv, High
  <2> SUFFICES ASSUME NEW d \in Callers \ {c}, stage[d] # "idle"
               PROVE  strId[d] # 1 /\ (strId[d] >= M - 2 \/ strId[d] <= 1)
    OBVIOUS
  <2>2. /\ strId[d] \in Int
        /\ IF seqId >= M - 2 THEN strId[d] >= M - 2 /\ strId[d] <= seqId
                             ELSE strId[d] >= M - 2 \/ strId[d] <= seqId
    BY <1>3, <1>4 DEF IdInv, High
  <2> QED BY <2>1, <2>2, <1>3, <1>4
<1>8. \A d, e \in Callers :
        stage'[d] # "idle" /\ stage'[e] # "idle" /\ strId'[d] = strId'[e] => d = e
  <2> SUFFICES ASSUME NEW d \in Callers, NEW e \in Callers, stage'[d] # "idle",
                      stage'[e] # "idle", strId'[d] = strId'[e], d # e
               PROVE  FALSE
    OBVIOUS
  <2>1. CASE d = c
    BY <2>1, <1>6, <1>7
  <2>2. CASE e = c
    BY <2>2, <1>6, <1>7
  <2>3. CASE d # c /\ e # c
    BY <2>3, <1>6 DEF IdInv
  <2> QED BY <2>1, <2>2, <2>3
<1>9. \A d \in Callers : stage'[d] # "reset"
  <2> SUFFICES ASSUME NEW d \in Callers, stage'[d] = "reset" PROVE FALSE
    OBVIOUS
  <2>1. d # c /\ stage[d] = "reset"
    BY <1>6
  <2>2. strId[d] = strId[c]
    BY <2>1, <1>1 DEF IdInv
  <2> QED BY <2>1, <2>2, <1>1 DEF IdInv
<1>10. \A d \in Callers : stage'[d] # "idle" => strId'[d] >= M - 2 \/ strId'[d] <= 1
  BY <1>6, <1>7
<1>11. /\ ~(seqId' >= M - 2) /\ seqId' >= 0 /\ seqId' <= M /\ seqId' <= n
  BY <1>1, <1>3
<1>12. \A d \in Callers : calls'[d] <= MaxCalls[d] /\ (stage'[d] # "idle" => calls'[d] > 0)
  BY <1>1, <1>2, <1>6
<1>13. \A d \in Callers : stage'[d] # "idle" =>
         IF High(seqId') THEN High(strId'[d]) /\ strId'[d] <= seqId'
                         ELSE High(strId'[d]) \/ strId'[d] <= seqId'
  BY <1>1, <1>3, <1>10, <1>11 DEF High
<1>14. /\ ~High(seqId') /\ ~(seqId' < 0)
       /\ seqId' <= kInt32Max /\ seqId' <= Cardinality(Made)'
  BY <1>1, <1>3, <1>5 DEF High
<1> QED BY <1>8, <1>9, <1>12, <1>13, <1>14, Zenon DEF IdInv

\* Calls that go on or end keep the numbers apart.
LEMMA IdKept ==
  ASSUME IdInv, UNCHANGED <<seqId, strId, calls>>,
         \A c \in Callers : /\ stage'[c] # "idle" => stage[c] # "idle"
                            /\ stage'[c] = "reset" => stage[c] = "reset"
  PROVE  IdInv'
BY DEF IdInv, Made

-----------------------------------------------------------------------------
(* Where the request of a call is. *)

\* r is of the call that its caller waits for, and has no answer yet.
Awaited(r) ==
  /\ r.caller \in Callers /\ stage[r.caller] = "read" /\ readBuf[r.caller] = {}
  /\ r.id = strId[r.caller] /\ r.call = calls[r.caller]

\* Nothing of c has left the loop's queue.
Unsent(c) ==
  /\ \A r \in served \union requestMap : r.caller # c
  /\ \A j \in 1..Len(output) : output[j].caller # c

\* A caller has at most one send functor, for the call it waits for, and nothing else.
SendInv ==
  \A i \in 1..Len(functors) : functors[i].type = "send" =>
    /\ Awaited(functors[i]) /\ Unsent(functors[i].caller)
    /\ \A j \in 1..Len(functors) :
         functors[j].type = "send" /\ functors[j].caller = functors[i].caller => i = j

\* A caller has at most one request on the wire or buffered, and entries only for it.
WireInv ==
  /\ \A r \in served \union requestMap : Awaited(r)
  /\ \A j \in 1..Len(output) :
       /\ Awaited(output[j])
       /\ \A r \in served : r.caller # output[j].caller
       /\ \A i \in 1..Len(output) : output[i].caller = output[j].caller => i = j

\* A caller that waits for nothing goes on.
LEMMA CallerMoves ==
  ASSUME SendInv, WireInv, NEW c \in Callers, stage[c] # "read" \/ readBuf[c] # {},
         \A d \in Callers \ {c} : /\ stage'[d] = stage[d] /\ readBuf'[d] = readBuf[d]
                                  /\ strId'[d] = strId[d] /\ calls'[d] = calls[d],
         UNCHANGED <<functors, output, served, requestMap>>
  PROVE  SendInv' /\ WireInv'
<1>1. ASSUME NEW r, Awaited(r) PROVE Awaited(r)'
  <2>1. r.caller \in Callers \ {c}
    BY <1>1 DEF Awaited
  <2> QED BY <1>1, <2>1 DEF Awaited
<1>2. SendInv'
  BY <1>1 DEF SendInv, Unsent
<1>3. WireInv'
  BY <1>1 DEF WireInv
<1> QED BY <1>2, <1>3

\* The send functors that are left are among those that were there.
LEMMA SendsKept ==
  ASSUME NEW f \in Seq(Functor), NEW d \in 0..Len(f),
         NEW t \in Seq(Functor), NEW g \in Seq(Functor),
         Shifted(f, d, t, g), \A i \in 1..Len(t) : t[i].type # "send"
  PROVE  \A i \in 1..Len(g) : g[i].type = "send" => i + d \in 1..Len(f) /\ g[i] = f[i + d]
<1> SUFFICES ASSUME NEW i \in 1..Len(g), g[i].type = "send"
             PROVE  i + d \in 1..Len(f) /\ g[i] = f[i + d]
  OBVIOUS
<1>1. Len(f) \in Nat /\ Len(t) \in Nat /\ d \in Nat /\ Len(g) = Len(f) - d + Len(t)
  BY DEF Shifted
<1>2. CASE i \in 1..(Len(f) - d)
  <2>1. g[i] = f[i + d]
    BY <1>2 DEF Shifted
  <2> QED BY <2>1, <1>1, <1>2
<1>3. CASE i \notin 1..(Len(f) - d)
  <2>1. i - (Len(f) - d) \in 1..Len(t) /\ Len(f) - d + (i - (Len(f) - d)) = i
    BY <1>1, <1>3
  <2>2. g[i] = t[i - (Len(f) - d)]
    BY <2>1 DEF Shifted
  <2> QED BY <2>1, <2>2
<1> QED BY <1>2, <1>3

\* No send functor is new, and those left keep their order, d places nearer the head.
SendsShift(d) ==
  /\ Len(functors') \in Nat
  /\ \A i \in 1..Len(functors') : functors'[i].type = "send" =>
       i + d \in 1..Len(functors) /\ functors'[i] = functors[i + d]

\* The loop goes on to its next functor, notices are queued, and requests, answers
\* and entries may be given up.
LEMMA LoopMoves ==
  ASSUME SendInv, WireInv, UNCHANGED callerVars,
         NEW d \in Nat, SendsShift(d),
         served' \subseteq served, requestMap' \subseteq requestMap,
         output' = output \/ output' = <<>>
  PROVE  SendInv' /\ WireInv'
<1>1. \A r : Awaited(r)' <=> Awaited(r)
  BY DEF Awaited, callerVars
<1>2. \A j \in 1..Len(output') : j \in 1..Len(output) /\ output'[j] = output[j] /\ output' = output
  <2>1. CASE output' = <<>>
    <3>1. 1..Len(output') = {}
      BY <2>1
    <3> QED BY <3>1
  <2>2. CASE output' = output
    BY <2>2
  <2> QED BY <2>1, <2>2
<1>3. \A c : Unsent(c) => Unsent(c)'
  BY <1>2 DEF Unsent
<1>4. ASSUME NEW i \in 1..Len(functors'), functors'[i].type = "send"
      PROVE  /\ Awaited(functors[i])' /\ Unsent(functors[i].caller)'
             /\ \A j \in 1..Len(functors') :
                  functors'[j].type = "send" /\ functors'[j].caller = functors'[i].caller => i = j
  <2>1. i + d \in 1..Len(functors) /\ functors'[i] = functors[i + d]
    BY <1>4 DEF SendsShift
  <2>2. /\ Awaited(functors[i + d]) /\ Unsent(functors[i + d].caller)
        /\ \A j \in 1..Len(functors) :
             functors[j].type = "send" /\ functors[j].caller = functors[i + d].caller => i + d = j
    BY <2>1, <1>4 DEF SendInv
  <2>3. ASSUME NEW j \in 1..Len(functors'), functors'[j].type = "send",
               functors'[j].caller = functors'[i].caller
        PROVE  i = j
    <3>1. j + d \in 1..Len(functors) /\ functors'[j] = functors[j + d]
      BY <2>3 DEF SendsShift
    <3>2. i + d = j + d
      BY <2>1, <2>2, <2>3, <3>1
    <3>3. i \in Int /\ j \in Int
      BY DEF SendsShift
    <3> QED BY <3>2, <3>3
  <2>4. Awaited(functors[i])'
    <3>1. PICK r : r = functors'[i]
      OBVIOUS
    <3>2. Awaited(r)'
      BY <3>1, <2>1, <2>2, <1>1
    <3> QED BY <3>1, <3>2 DEF Awaited
  <2>5. Unsent(functors[i].caller)'
    <3>1. PICK c : c = functors'[i].caller
      OBVIOUS
    <3>2. Unsent(c)'
      BY <3>1, <2>1, <2>2, <1>3
    <3> QED BY <3>1, <3>2 DEF Unsent
  <2> QED BY <2>3, <2>4, <2>5
<1>5. SendInv'
  BY <1>4 DEF SendInv
<1>6. WireInv'
  <2>1. \A r \in served' \union requestMap' : Awaited(r)'
    BY <1>1 DEF WireInv
  <2>2. ASSUME NEW j \in 1..Len(output')
        PROVE  /\ Awaited(output[j])'
               /\ \A r \in served' : r.caller # output'[j].caller
               /\ \A i \in 1..Len(output') : output'[i].caller = output'[j].caller => i = j
    <3>1. j \in 1..Len(output) /\ output' = output
      BY <1>2
    <3>2. PICK r : r = output[j]
      OBVIOUS
    <3>3. Awaited(r)'
      BY <3>1, <3>2, <1>1 DEF WireInv
    <3>4. Awaited(output[j])'
      BY <3>1, <3>2, <3>3 DEF Awaited
    <3> QED BY <3>1, <3>4 DEF WireInv
  <2> QED BY <2>1, <2>2 DEF WireInv
<1> QED BY <1>5, <1>6

-----------------------------------------------------------------------------
(* Types. *)

\* What Notice makes is a queue of one functor.
LEMMA NoticeType ==
  ASSUME epoch \in Nat, NEW type \in {"writeComplete", "highWater"}
  PROVE  /\ Notice(type) \in Seq(Functor) /\ Len(Notice(type)) = 1
         /\ Notice(type)[1] = [type |-> type, epoch |-> epoch]
<1>1. [type |-> type, epoch |-> epoch] \in Functor
  BY DEF Functor
<1> QED BY <1>1 DEF Notice

\* The send functor at the head of the queue, and the request it writes.
LEMMA HeadSend ==
  ASSUME DataInv, Running("send")
  PROVE  /\ functors # <<>> /\ Head(functors) = functors[1] /\ 1 \in 1..Len(functors)
         /\ functors[1].type = "send" /\ functors[1] \in Functor
         /\ functors[1].caller \in Callers /\ functors[1].id \in Int /\ functors[1].call \in Nat
         /\ GetWriteBuf(functors[1].caller) \in Request
         /\ [id |-> functors[1].id, caller |-> functors[1].caller, call |-> functors[1].call]
              \in Request
<1>1. functors \in Seq(Functor) /\ functors # <<>> /\ Head(functors).type = "send"
  BY DEF DataInv, Running
<1>2. 1 \in 1..Len(functors) /\ Head(functors) = functors[1] /\ functors[1] \in Functor
  BY <1>1
<1>3. PICK f \in Functor : f = functors[1] /\ f.type = "send"
  BY <1>1, <1>2
<1>4. f.caller \in Callers /\ f.id \in Int /\ f.call \in Nat
  BY <1>3 DEF Functor
<1>5. GetWriteBuf(f.caller) \in Request
  BY <1>4 DEF GetWriteBuf, DataInv, Request
<1>6. [id |-> f.id, caller |-> f.caller, call |-> f.call] \in Request
  BY <1>4 DEF Request
<1> QED BY <1>1, <1>2, <1>3, <1>4, <1>5, <1>6

\* Every step keeps the types of the variables that ClientTypeOK lists.
LEMMA TypeKept ==
  ASSUME ClientTypeOK, DataInv, ClientNext
  PROVE  ClientTypeOK'
<1> USE DEF ClientTypeOK
<1>1. CASE SendDropped
  <2>1. Head(functors).caller \in Callers
    BY <1>1, HeadSend DEF SendDropped
  <2> QED BY <1>1, <2>1 DEF SendDropped, callerVars, clientConnVars
<1>2. CASE SendDirect
  BY <1>2 DEF SendDirect, callerVars, clientConnVars
<1>3. CASE SendBuffered
  BY <1>3 DEF SendBuffered, callerVars, clientConnVars
<1>4. CASE OnWriteComplete
  <2>1. highwater' \in BOOLEAN
    BY <1>4, Zenon DEF OnWriteComplete
  <2> QED BY <1>4, <2>1 DEF OnWriteComplete, callerVars
<1>5. CASE OnHighWaterMark
  <2>1. highwater' \in BOOLEAN
    BY <1>5, Zenon DEF OnHighWaterMark
  <2> QED BY <1>5, <2>1 DEF OnHighWaterMark, callerVars, Decremented
<1>6. CASE Write
  BY <1>6 DEF Write, HandleWrite, callerVars, clientConnVars
<1>7. CASE ClientConnUp
  BY <1>7, BoundsAssumption DEF ClientConnUp, callerVars
<1>8. CASE ClientConnDown
  <2>1. lost' \subseteq Callers
    <3>1. \A r \in served : r.caller \in Callers
      BY DEF DataInv, Request
    <3>2. \A i \in DOMAIN output : output[i].caller \in Callers
      <4>1. \A i \in DOMAIN output : output[i] \in Request
        BY DEF DataInv
      <4> QED BY <4>1 DEF Request
    <3>3. lost' = lost \union {r.caller : r \in served} \union {output[i].caller : i \in DOMAIN output}
      BY <1>8 DEF ClientConnDown
    <3>4. {r.caller : r \in served} \subseteq Callers
      BY <3>1
    <3>5. {output[i].caller : i \in DOMAIN output} \subseteq Callers
      BY <3>2
    <3> QED BY <3>3, <3>4, <3>5
  <2>2. available' \in Nat
    BY <1>8 DEF ClientConnDown, Decremented
  <2>3. conn' = "down" /\ highwater' = FALSE /\ stage' = stage /\ epoch' = epoch
    BY <1>8 DEF ClientConnDown, callerVars
  <2> QED BY <2>1, <2>2, <2>3
<1>9. ASSUME NEW c \in Callers, WriteMessageBegin(c) PROVE ClientTypeOK'
  BY <1>9 DEF WriteMessageBegin, clientConnVars
<1>10. ASSUME NEW c \in Callers, Proceed(c) PROVE ClientTypeOK'
  BY <1>10 DEF Proceed, ResetSeqId, Flush, ReadVirt, clientConnVars
<1>11. ASSUME NEW r \in served, ServerAnswers(r) PROVE ClientTypeOK'
  <2>1. r.caller \in Callers
    BY DEF DataInv, Request
  <2> QED BY <1>11, <2>1 DEF ServerAnswers, ClientOnMsg, OnBadMsg, callerVars, clientConnVars
<1> QED BY <1>1, <1>2, <1>3, <1>4, <1>5, <1>6, <1>7, <1>8, <1>9, <1>10, <1>11
        DEF ClientNext, RunFunctor

\* Every step keeps the types of numbers, functors, requests and entries.
LEMMA DataKept ==
  ASSUME ClientTypeOK, DataInv, ClientNext
  PROVE  DataInv'
<1>1. CASE SendDropped
  <2>1. Tail(functors) \in Seq(Functor)
    BY <1>1 DEF DataInv, SendDropped, Running
  <2> QED BY <1>1, <2>1 DEF SendDropped, DataInv, callerVars, netVars
<1>2. ASSUME SendDirect \/ SendBuffered PROVE DataInv'
  <2>0. epoch \in Nat /\ functors \in Seq(Functor) /\ functors # <<>> /\ Running("send")
    <3>1. Running("send")
      BY <1>2 DEF SendDirect, SendBuffered
    <3>2. epoch \in Nat
      BY BoundsAssumption DEF ClientTypeOK
    <3>3. functors \in Seq(Functor) /\ functors # <<>>
      BY <3>1 DEF DataInv, Running
    <3> QED BY <3>1, <3>2, <3>3
  <2>1. requestMap' \subseteq Request
    <3>1. requestMap' = Registered(Head(functors)) /\ Head(functors) = functors[1]
      BY <1>2, <2>0, HeadSend DEF SendDirect, SendBuffered
    <3>2. [id |-> functors[1].id, caller |-> functors[1].caller, call |-> functors[1].call]
             \in Request
      BY <2>0, HeadSend
    <3> QED BY <3>1, <3>2 DEF Registered, DataInv
  <2>2. functors' \in Seq(Functor)
    <3>1. Tail(functors) \o Notice("writeComplete") \in Seq(Functor)
      BY <2>0, NoticeType, FunctorsTail
    <3>2. Tail(functors) \o (IF Len(output) + 1 = kHighWaterSize THEN Notice("highWater") ELSE <<>>)
            \in Seq(Functor)
      BY <2>0, NoticeType, FunctorsTail
    <3> QED BY <1>2, <3>1, <3>2 DEF SendDirect, SendBuffered
  <2>3. GetWriteBuf(Head(functors).caller) \in Request
    BY <2>0, HeadSend
  <2>4. output' \in Seq(Request) /\ served' \subseteq Request
    <3>1. PICK g \in Request : g = GetWriteBuf(Head(functors).caller)
      BY <2>3
    <3>2. CASE output' = output /\ served' = served \union {g}
      BY <3>2 DEF DataInv
    <3>3. CASE output' = Append(output, g) /\ served' = served
      BY <3>3 DEF DataInv
    <3> QED BY <1>2, <3>1, <3>2, <3>3 DEF SendDirect, SendBuffered
  <2> QED BY <1>2, <2>1, <2>2, <2>4 DEF SendDirect, SendBuffered, DataInv, callerVars
<1>3. ASSUME OnWriteComplete \/ OnHighWaterMark PROVE DataInv'
  <2>1. Tail(functors) \in Seq(Functor)
    BY <1>3 DEF DataInv, OnWriteComplete, OnHighWaterMark, Running
  <2> QED BY <1>3, <2>1 DEF OnWriteComplete, OnHighWaterMark, DataInv, callerVars, netVars
<1>4. ASSUME NEW n \in 1..Len(output), HandleWrite(n) PROVE DataInv'
  <2>0. epoch \in Nat /\ functors \in Seq(Functor) /\ output \in Seq(Request) /\ Len(output) \in Nat
    BY BoundsAssumption DEF ClientTypeOK, DataInv
  <2>1. functors' \in Seq(Functor)
    BY <1>4, <2>0, NoticeType, FunctorsAppend DEF HandleWrite
  <2>2. output' \in Seq(Request)
    <3>1. output' = SubSeq(output, n + 1, Len(output))
      BY <1>4 DEF HandleWrite
    <3> QED BY <3>1, <2>0, SubSeqProperties
  <2>3. served' \subseteq Request
    <3>1. \A i \in 1..n : output[i] \in Request
      BY <2>0
    <3> QED BY <1>4, <3>1 DEF HandleWrite, DataInv
  <2> QED BY <1>4, <2>1, <2>2, <2>3 DEF HandleWrite, DataInv, callerVars
<1>5. CASE ClientConnUp
  BY <1>5 DEF ClientConnUp, DataInv, callerVars, netVars
<1>6. CASE ClientConnDown
  BY <1>6 DEF ClientConnDown, DataInv, callerVars
<1>7. ASSUME NEW c \in Callers, WriteMessageBegin(c) PROVE DataInv'
  <2>1. kInt32Max \in Nat
    BY Int32Assumption
  <2> QED BY <1>7, <2>1 DEF WriteMessageBegin, Incremented, DataInv, netVars
<1>8. ASSUME NEW c \in Callers, ResetSeqId(c) \/ ReadVirt(c) PROVE DataInv'
  BY <1>8 DEF ResetSeqId, ReadVirt, DataInv, netVars
<1>9. ASSUME NEW c \in Callers, Flush(c) PROVE DataInv'
  <2>1. [type |-> "send", id |-> strId[c], caller |-> c, call |-> calls[c]] \in Functor
    BY DEF DataInv, Functor
  <2>2. functors' \in Seq(Functor)
    BY <1>9, <2>1 DEF Flush, DataInv
  <2> QED BY <1>9, <2>2 DEF Flush, DataInv, netVars
<1>10. ASSUME NEW r \in served, ServerAnswers(r) PROVE DataInv'
  BY <1>10 DEF ServerAnswers, ClientOnMsg, OnBadMsg, Erased, DataInv, callerVars
<1> QED BY <1>1, <1>2, <1>3, <1>4, <1>5, <1>6, <1>7, <1>8, <1>9, <1>10
        DEF ClientNext, RunFunctor, Write, Proceed
-----------------------------------------------------------------------------
(* Requests on their way. *)

\* The loop takes the head and queues t, which sends nothing.
LEMMA SendsTail ==
  ASSUME DataInv, functors # <<>>, NEW t \in Seq(Functor), \A i \in 1..Len(t) : t[i].type # "send",
         functors' = Tail(functors) \o t
  PROVE  SendsShift(1)
<1>1. functors \in Seq(Functor) /\ 1 \in 0..Len(functors)
  BY DEF DataInv
<1>2. functors' \in Seq(Functor) /\ Shifted(functors, 1, t, functors')
  BY <1>1, FunctorsTail
<1>3. Len(functors') \in Nat
  BY <1>2
<1> QED BY <1>1, <1>2, <1>3, SendsKept DEF SendsShift

\* The loop queues t, which sends nothing.
LEMMA SendsAppend ==
  ASSUME DataInv, NEW t \in Seq(Functor), \A i \in 1..Len(t) : t[i].type # "send",
         functors' = functors \o t
  PROVE  SendsShift(0)
<1>1. functors \in Seq(Functor) /\ 0 \in 0..Len(functors)
  BY DEF DataInv
<1>2. functors' \in Seq(Functor) /\ Shifted(functors, 0, t, functors')
  BY <1>1, FunctorsAppend
<1>3. Len(functors') \in Nat
  BY <1>2
<1> QED BY <1>1, <1>2, <1>3, SendsKept DEF SendsShift

\* The loop takes the head.
LEMMA SendsPopped ==
  ASSUME DataInv, functors # <<>>, functors' = Tail(functors)
  PROVE  SendsShift(1)
<1>1. Tail(functors) \o <<>> = Tail(functors)
  BY DEF DataInv
<1>2. <<>> \in Seq(Functor) /\ \A i \in 1..Len(<<>>) : <<>>[i].type # "send"
  OBVIOUS
<1> QED BY <1>1, <1>2, SendsTail

\* The queue stays.
LEMMA SendsStay ==
  ASSUME DataInv, UNCHANGED functors
  PROVE  SendsShift(0)
<1>1. Len(functors) \in Nat
  BY DEF DataInv
<1> QED BY <1>1 DEF SendsShift

\* flush() posts the one request of its caller.
LEMMA FlushKept ==
  ASSUME ClientTypeOK, DataInv, SendInv, WireInv, NEW c \in Callers, Flush(c)
  PROVE  SendInv' /\ WireInv'
<1>0. PICK s : s = [type |-> "send", id |-> strId[c], caller |-> c, call |-> calls[c]]
  OBVIOUS
<1>1. /\ stage[c] = "flush" /\ stage'[c] = "read" /\ readBuf'[c] = {}
      /\ \A d \in Callers \ {c} : stage'[d] = stage[d] /\ readBuf'[d] = readBuf[d]
      /\ strId' = strId /\ calls' = calls /\ requestMap' = requestMap
      /\ output' = output /\ served' = served
  BY DEF Flush, ClientTypeOK, DataInv, netVars
<1>2. ASSUME NEW r, Awaited(r) PROVE r.caller # c /\ Awaited(r)'
  <2>1. r.caller \in Callers \ {c}
    BY <1>1, <1>2 DEF Awaited
  <2> QED BY <1>1, <1>2, <2>1 DEF Awaited
<1>3. WireInv'
  BY <1>1, <1>2 DEF WireInv
<1>4. Unsent(c)'
  BY <1>1, <1>2 DEF WireInv, Unsent
<1>5. ASSUME NEW d, Unsent(d) PROVE Unsent(d)'
  BY <1>1, <1>5 DEF Unsent
<1>6. PICK n \in Nat : /\ n = Len(functors) /\ Len(functors') = n + 1
                       /\ \A i \in 1..n : functors'[i] = functors[i]
                       /\ functors'[n + 1] = s
  <2>1. functors \in Seq(Functor) /\ functors' = Append(functors, s)
    BY <1>0 DEF DataInv, Flush
  <2> QED BY <2>1
<1>7. s.type = "send" /\ s.caller = c /\ Awaited(s)'
  BY <1>0, <1>1 DEF Awaited
<1>8. ASSUME NEW i \in 1..n, functors'[i].type = "send"
      PROVE  /\ Awaited(functors[i])' /\ Unsent(functors[i].caller)'
             /\ functors'[i].caller # c
             /\ \A j \in 1..n :
                  functors'[j].type = "send" /\ functors'[j].caller = functors'[i].caller => i = j
  <2>1. PICK f : f = functors[i] /\ f = functors'[i]
    BY <1>6
  <2>2. /\ Awaited(f) /\ Unsent(f.caller)
        /\ \A j \in 1..n : functors[j].type = "send" /\ functors[j].caller = f.caller => i = j
    BY <1>6, <1>8, <2>1 DEF SendInv
  <2>3. Awaited(f)' /\ Unsent(f.caller)' /\ f.caller # c
    BY <2>2, <1>2, <1>5
  <2>4. Awaited(functors[i])' /\ Unsent(functors[i].caller)'
    BY <2>1, <2>3 DEF Awaited, Unsent
  <2> QED BY <1>6, <2>1, <2>2, <2>3, <2>4
<1>9. Awaited(functors[n + 1])' /\ Unsent(functors[n + 1].caller)'
  <2>1. functors'[n + 1] = s
    BY <1>6
  <2>2. Awaited(functors[n + 1])'
    BY <2>1, <1>7 DEF Awaited
  <2>3. functors'[n + 1].caller = c
    BY <2>1, <1>7
  <2>4. Unsent(functors[n + 1].caller)'
    BY <2>3, <1>4 DEF Unsent
  <2> QED BY <2>2, <2>4
<1>10. SendInv'
  <2> SUFFICES ASSUME NEW i \in 1..(n + 1), functors'[i].type = "send"
               PROVE  /\ Awaited(functors[i])' /\ Unsent(functors[i].caller)'
                      /\ \A j \in 1..(n + 1) : functors'[j].type = "send"
                           /\ functors'[j].caller = functors'[i].caller => i = j
    BY <1>6 DEF SendInv
  <2>1. CASE i \in 1..n
    BY <2>1, <1>6, <1>7, <1>8
  <2>2. CASE i = n + 1
    BY <2>2, <1>6, <1>7, <1>8, <1>9
  <2> QED BY <2>1, <2>2
<1> QED BY <1>3, <1>10
\* SendTransportReq: the request goes to the wire or into the output buffer, and
\* the loop to its next functor.
LEMMA RequestSent ==
  ASSUME ClientTypeOK, DataInv, SendInv, WireInv, Running("send"), UNCHANGED callerVars,
         SendsShift(1), requestMap' = Registered(Head(functors)),
         NEW g, g = GetWriteBuf(Head(functors).caller),
         \/ served' = served \union {g} /\ output' = output
         \/ served' = served /\ output' = Append(output, g)
  PROVE  SendInv' /\ WireInv'
<1>1. PICK s : s = functors[1] /\ s = Head(functors) /\ 1 \in 1..Len(functors) /\ s.type = "send"
  BY HeadSend
<1>2. PICK c \in Callers : c = s.caller
  BY <1>1, HeadSend
<1>3. /\ Awaited(s) /\ Unsent(c)
      /\ \A j \in 1..Len(functors) :
           functors[j].type = "send" /\ functors[j].caller = c => 1 = j
  BY <1>1, <1>2 DEF SendInv
<1>4. \A r : Awaited(r) <=> Awaited(r)'
  BY DEF Awaited, callerVars
<1>5. g.caller = c /\ Awaited(g)
  BY <1>1, <1>2, <1>3 DEF GetWriteBuf, Awaited
<1>6. \A r \in requestMap' : r \in requestMap \/ (r.caller = c /\ Awaited(r))
  BY <1>1, <1>2, <1>3 DEF Registered, Awaited
<1>7. \A r \in served' : r \in served \/ r = g
  OBVIOUS
<1>8. \A j \in 1..Len(output') :
        (j \in 1..Len(output) /\ output'[j] = output[j])
          \/ (output'[j] = g /\ served' = served /\ j = Len(output) + 1)
  <2>1. CASE output' = output
    BY <2>1
  <2>2. CASE served' = served /\ output' = Append(output, g)
    <3>1. output \in Seq(Request) /\ Len(output) \in Nat
      BY DEF DataInv
    <3>2. /\ Len(output') = Len(output) + 1 /\ output'[Len(output) + 1] = g
          /\ \A j \in 1..Len(output) : output'[j] = output[j]
      BY <2>2, <3>1
    <3> QED BY <2>2, <3>1, <3>2
  <2> QED BY <2>1, <2>2
<1>9. ASSUME NEW d, d # c, Unsent(d) PROVE Unsent(d)'
  BY <1>5, <1>6, <1>7, <1>8, <1>9 DEF Unsent
<1>10. ASSUME NEW i \in 1..Len(functors'), functors'[i].type = "send"
       PROVE  /\ Awaited(functors[i])' /\ Unsent(functors[i].caller)'
              /\ \A j \in 1..Len(functors') :
                   functors'[j].type = "send" /\ functors'[j].caller = functors'[i].caller => i = j
  <2>1. i + 1 \in 1..Len(functors) /\ functors'[i] = functors[i + 1] /\ i + 1 # 1
    BY <1>10 DEF SendsShift
  <2>2. PICK f : f = functors'[i] /\ f = functors[i + 1] /\ f.type = "send"
    BY <2>1, <1>10
  <2>3. /\ Awaited(f) /\ Unsent(f.caller)
        /\ \A j \in 1..Len(functors) :
             functors[j].type = "send" /\ functors[j].caller = f.caller => i + 1 = j
    BY <2>1, <2>2 DEF SendInv
  <2>4. f.caller # c
    BY <1>3, <2>1, <2>2
  <2>5. Awaited(f)' /\ Unsent(f.caller)'
    BY <1>4, <1>9, <2>3, <2>4
  <2>6. Awaited(functors[i])' /\ Unsent(functors[i].caller)'
    BY <2>2, <2>5 DEF Awaited, Unsent
  <2>7. ASSUME NEW j \in 1..Len(functors'), functors'[j].type = "send",
               functors'[j].caller = functors'[i].caller
        PROVE  i = j
    <3>1. j + 1 \in 1..Len(functors) /\ functors'[j] = functors[j + 1]
      BY <2>7 DEF SendsShift
    <3>2. i + 1 = j + 1
      BY <2>2, <2>3, <2>7, <3>1
    <3>3. i \in Int /\ j \in Int
      BY DEF SendsShift
    <3> QED BY <3>2, <3>3
  <2> QED BY <2>6, <2>7
<1>11. SendInv'
  BY <1>10 DEF SendInv
<1>12. \A r \in served' \union requestMap' : Awaited(r)'
  BY <1>4, <1>5, <1>6, <1>7 DEF WireInv
<1>13. ASSUME NEW j \in 1..Len(output')
       PROVE  /\ Awaited(output[j])'
              /\ \A r \in served' : r.caller # output'[j].caller
              /\ \A i \in 1..Len(output') : output'[i].caller = output'[j].caller => i = j
  <2>1. PICK o : o = output'[j]
    OBVIOUS
  <2>2. Awaited(o)
    BY <2>1, <1>5, <1>8 DEF WireInv
  <2>3. Awaited(output[j])'
    <3>1. Awaited(o)'
      BY <2>2, <1>4
    <3> QED BY <3>1, <2>1 DEF Awaited
  <2>4. \A k \in 1..Len(output) : output[k].caller # c
    BY <1>3 DEF Unsent
  <2>5. \A r \in served : r.caller # c
    BY <1>3 DEF Unsent
  <2>6. \A r \in served' : r.caller # output'[j].caller
    BY <2>4, <2>5, <1>5, <1>7, <1>8 DEF WireInv
  <2>7. \A i \in 1..Len(output') : output'[i].caller = output'[j].caller => i = j
    BY <2>4, <1>5, <1>8 DEF WireInv
  <2> QED BY <2>3, <2>6, <2>7
<1>14. WireInv'
  BY <1>12, <1>13 DEF WireInv
<1> QED BY <1>11, <1>14

\* TcpConnection::handleWrite: the first n buffered requests go to the wire.
LEMMA WriteKept ==
  ASSUME ClientTypeOK, DataInv, SendInv, WireInv, NEW n \in 1..Len(output), HandleWrite(n),
         SendsShift(0)
  PROVE  SendInv' /\ WireInv'
<1>1. /\ output \in Seq(Request) /\ Len(output) \in Nat
      /\ UNCHANGED callerVars /\ requestMap' = requestMap
      /\ served' = served \union {output[i] : i \in 1..n}
      /\ output' = SubSeq(output, n + 1, Len(output))
  BY DEF DataInv, HandleWrite
<1>2. Len(output') = Len(output) - n /\ \A j \in 1..Len(output') : output'[j] = output[j + n]
  <2>1. PICK m \in Nat : m = Len(output) /\ n \in 1..m
    BY <1>1
  <2>2. \A i \in (n + 1)..m : output[i] \in Request
    BY <1>1, <2>1
  <2>3. /\ Len(output') = IF n + 1 <= m THEN m - (n + 1) + 1 ELSE 0
        /\ \A j \in 1..(m - (n + 1) + 1) : output'[j] = output[(n + 1) + j - 1]
    BY <1>1, <2>1, <2>2, SubSeqProperties
  <2>4. Len(output') = m - n
    BY <2>1, <2>3
  <2>5. ASSUME NEW j \in 1..(m - n) PROVE output'[j] = output[j + n]
    <3>1. j \in 1..(m - (n + 1) + 1) /\ (n + 1) + j - 1 = j + n
      BY <2>1
    <3> QED BY <2>3, <3>1
  <2> QED BY <2>1, <2>4, <2>5
<1>3. ASSUME NEW j \in 1..Len(output')
      PROVE  j + n \in 1..Len(output) /\ j + n \notin 1..n /\ output'[j] = output[j + n]
  BY <1>1, <1>2, <1>3
<1>4. \A r : Awaited(r) <=> Awaited(r)'
  BY <1>1 DEF Awaited, callerVars
<1>5. \A r \in served' : r \in served \/ \E k \in 1..n : k \in 1..Len(output) /\ r = output[k]
  BY <1>1
<1>6. ASSUME NEW d, Unsent(d) PROVE Unsent(d)'
  BY <1>1, <1>3, <1>5, <1>6 DEF Unsent
<1>7. ASSUME NEW i \in 1..Len(functors'), functors'[i].type = "send"
      PROVE  /\ Awaited(functors[i])' /\ Unsent(functors[i].caller)'
             /\ \A j \in 1..Len(functors') :
                  functors'[j].type = "send" /\ functors'[j].caller = functors'[i].caller => i = j
  <2>1. \A k \in 1..Len(functors') : k + 0 = k
    BY DEF SendsShift
  <2>2. \A k \in 1..Len(functors') : functors'[k].type = "send" =>
          k \in 1..Len(functors) /\ functors'[k] = functors[k]
    BY <2>1 DEF SendsShift
  <2>3. PICK f : f = functors'[i] /\ f = functors[i] /\ i \in 1..Len(functors) /\ f.type = "send"
    BY <2>2, <1>7
  <2>4. /\ Awaited(f) /\ Unsent(f.caller)
        /\ \A j \in 1..Len(functors) :
             functors[j].type = "send" /\ functors[j].caller = f.caller => i = j
    BY <2>3 DEF SendInv
  <2>5. Awaited(f)' /\ Unsent(f.caller)'
    BY <1>4, <1>6, <2>4
  <2>6. Awaited(functors[i])' /\ Unsent(functors[i].caller)'
    BY <2>3, <2>5 DEF Awaited, Unsent
  <2> QED BY <2>2, <2>3, <2>4, <2>6
<1>8. SendInv'
  BY <1>7 DEF SendInv
<1>9. \A r \in served' \union requestMap' : Awaited(r)'
  BY <1>1, <1>4, <1>5 DEF WireInv
<1>10. ASSUME NEW j \in 1..Len(output')
       PROVE  /\ Awaited(output[j])'
              /\ \A r \in served' : r.caller # output'[j].caller
              /\ \A i \in 1..Len(output') : output'[i].caller = output'[j].caller => i = j
  <2>1. PICK o : o = output'[j] /\ o = output[j + n]
    BY <1>3
  <2>2. /\ Awaited(o) /\ (\A r \in served : r.caller # o.caller)
        /\ \A i \in 1..Len(output) : output[i].caller = o.caller => i = j + n
    BY <2>1, <1>3 DEF WireInv
  <2>3. Awaited(output[j])'
    <3>1. Awaited(o)'
      BY <2>2, <1>4
    <3> QED BY <3>1, <2>1 DEF Awaited
  <2>4. \A r \in served' : r.caller # o.caller
    BY <2>2, <1>3, <1>5
  <2>5. ASSUME NEW i \in 1..Len(output'), output'[i].caller = o.caller PROVE i = j
    <3>1. i + n = j + n
      BY <2>2, <2>5, <1>3
    <3>2. i \in Int /\ j \in Int /\ n \in Int
      BY <1>1, <1>2
    <3> QED BY <3>1, <3>2
  <2> QED BY <2>1, <2>3, <2>4, <2>5
<1>11. WireInv'
  BY <1>9, <1>10 DEF WireInv
<1> QED BY <1>8, <1>11

\* The answer to r: it is for r's caller alone, the only one with r's number, and
\* nothing of that caller's is left.
LEMMA AnswerGiven ==
  ASSUME ClientTypeOK, DataInv, IdInv, SendInv, WireInv, NEW r \in served, ClientOnMsg(r)
  PROVE  /\ SendInv' /\ WireInv'
         /\ r = GetWriteBuf(r.caller) /\ r.caller \in Callers
         /\ readBuf'[r.caller] \in {{}, {r}}
         /\ \A d \in Callers \ {r.caller} : readBuf'[d] = readBuf[d]
<1>1. PICK c \in Callers : c = r.caller /\ Awaited(r) /\ r \in Request
  BY DEF WireInv, Awaited, DataInv
<1>2. stage[c] = "read" /\ readBuf[c] = {} /\ r.id = strId[c] /\ r.call = calls[c]
  BY <1>1 DEF Awaited
<1>3. \A x \in Request : Awaited(x) /\ x.caller = c => x = r
  <2> SUFFICES ASSUME NEW x \in Request, Awaited(x), x.caller = c PROVE x = r
    OBVIOUS
  <2>1. x.id = r.id /\ x.call = r.call
    BY <1>2 DEF Awaited
  <2> QED BY <2>1, <1>1 DEF Request
<1>4. /\ served' = served \ {r} /\ requestMap' = Erased(r.id)
      /\ stage' = stage /\ strId' = strId /\ calls' = calls
      /\ functors' = functors /\ output' = output
      /\ readBuf' = [d \in Callers |->
           IF \E e \in requestMap : e.id = r.id /\ e.caller = d /\ ~IsTimeout(e)
           THEN {r} ELSE readBuf[d]]
  BY DEF ClientOnMsg
<1>5. ASSUME NEW d \in Callers \ {c} PROVE readBuf'[d] = readBuf[d]
  <2>1. ASSUME NEW e \in requestMap, e.id = r.id, e.caller = d PROVE FALSE
    <3>1. stage[d] = "read" /\ strId[d] = strId[c]
      BY <2>1, <1>2 DEF WireInv, Awaited
    <3> QED BY <3>1, <1>2 DEF IdInv
  <2> QED BY <2>1, <1>4
<1>6. readBuf'[c] \in {{}, {r}}
  BY <1>2, <1>4
<1>7. r = GetWriteBuf(c)
  BY <1>1, <1>2 DEF GetWriteBuf, Request
<1>8. ASSUME NEW x, Awaited(x), x.caller # c PROVE Awaited(x)'
  BY <1>4, <1>5, <1>8 DEF Awaited
<1>9. \A x \in served' \union requestMap' : x \in served \union requestMap /\ x.caller # c
  <2>1. \A x \in served' : x \in served /\ x.caller # c
    BY <1>3, <1>4 DEF WireInv, DataInv
  <2>2. \A x \in requestMap' : x \in requestMap /\ x.caller # c
    BY <1>2, <1>4 DEF Erased, WireInv, Awaited
  <2> QED BY <2>1, <2>2
<1>10. \A j \in 1..Len(output) : output[j].caller # c
  BY <1>1 DEF WireInv
<1>11. ASSUME NEW d, Unsent(d) PROVE Unsent(d)'
  BY <1>4, <1>9, <1>11 DEF Unsent
<1>12. ASSUME NEW i \in 1..Len(functors), functors[i].type = "send"
       PROVE  Awaited(functors[i])' /\ Unsent(functors[i].caller)'
  <2>1. PICK f : f = functors[i] /\ f = functors'[i]
    BY <1>4
  <2>2. Awaited(f) /\ Unsent(f.caller) /\ f.caller # c
    <3>1. Awaited(f) /\ Unsent(f.caller)
      BY <1>12, <2>1 DEF SendInv
    <3> QED BY <3>1, <1>1 DEF Unsent
  <2>3. Awaited(f)' /\ Unsent(f.caller)'
    BY <2>2, <1>8, <1>11
  <2> QED BY <2>1, <2>3 DEF Awaited, Unsent
<1>13. SendInv'
  BY <1>4, <1>12 DEF SendInv
<1>14. WireInv'
  <2>1. \A x \in served' \union requestMap' : Awaited(x)'
    BY <1>8, <1>9 DEF WireInv
  <2>2. ASSUME NEW j \in 1..Len(output) PROVE Awaited(output[j])'
    <3>1. PICK o : o = output[j] /\ o = output'[j]
      BY <1>4
    <3>2. Awaited(o)'
      BY <3>1, <1>8, <1>10 DEF WireInv
    <3> QED BY <3>1, <3>2 DEF Awaited
  <2> QED BY <1>4, <1>9, <2>1, <2>2 DEF WireInv
<1> QED BY <1>1, <1>5, <1>6, <1>7, <1>13, <1>14

-----------------------------------------------------------------------------
(* Notices. *)

\* A notice behind place i of the queue f that unmarks connection e.
Unmarks(f, i, e) ==
  \E j \in 1..Len(f) : j > i /\ f[j].type = "writeComplete" /\ f[j].epoch = e

\* Where connection e is marked, or is to be, it is unmarked after that.
Marked(f, e, marked) ==
  /\ marked => Unmarks(f, 0, e)
  /\ \A i \in 1..Len(f) : f[i].type = "highWater" /\ f[i].epoch = e => Unmarks(f, i, e)

\* No notice is of a connection that is still to come.
Dated(f, e) == \A i \in 1..Len(f) : f[i].type # "send" => f[i].epoch <= e

\* A connection that is down has nothing to send, to answer or to unmark.
EpochInv ==
  /\ Dated(functors, epoch)
  /\ conn = "down" => output = <<>> /\ served = {} /\ ~highwater
\* With nothing left to write, a mark is followed by the notice that takes it away.
MarkInv == conn # "down" /\ output = <<>> => Marked(functors, epoch, highwater)

\* Where the functors of the new queue were, and where those of the old one are.
LEMMA ShiftedPlace ==
  ASSUME NEW f \in Seq(Functor), NEW d \in 0..Len(f),
         NEW t \in Seq(Functor), NEW g \in Seq(Functor),
         Shifted(f, d, t, g)
  PROVE  /\ \A i \in 1..Len(g) : \/ i + d \in 1..Len(f) /\ g[i] = f[i + d]
                                 \/ \E k \in 1..Len(t) : g[i] = t[k]
         /\ \A j \in 1..Len(f) : j > d => j - d \in 1..Len(g) /\ g[j - d] = f[j]
<1>1. Len(f) \in Nat /\ Len(t) \in Nat /\ d \in Nat /\ Len(g) = Len(f) - d + Len(t) /\ d <= Len(f)
  BY DEF Shifted
<1>2. ASSUME NEW i \in 1..Len(g)
      PROVE  \/ i + d \in 1..Len(f) /\ g[i] = f[i + d]
             \/ \E k \in 1..Len(t) : g[i] = t[k]
  <2>1. CASE i \in 1..(Len(f) - d)
    <3>1. g[i] = f[i + d]
      BY <2>1 DEF Shifted
    <3> QED BY <3>1, <1>1, <2>1
  <2>2. CASE i \notin 1..(Len(f) - d)
    <3>1. i - (Len(f) - d) \in 1..Len(t) /\ Len(f) - d + (i - (Len(f) - d)) = i
      BY <1>1, <2>2
    <3>2. g[i] = t[i - (Len(f) - d)]
      BY <3>1 DEF Shifted
    <3> QED BY <3>1, <3>2
  <2> QED BY <2>1, <2>2
<1>3. ASSUME NEW j \in 1..Len(f), j > d PROVE j - d \in 1..Len(g) /\ g[j - d] = f[j]
  <2>1. j - d \in 1..(Len(f) - d) /\ (j - d) + d = j /\ j - d \in 1..Len(g)
    BY <1>1, <1>3
  <2>2. g[j - d] = f[(j - d) + d]
    BY <2>1 DEF Shifted
  <2> QED BY <2>1, <2>2
<1> QED BY <1>2, <1>3

\* Notices of the past and the present stay so.
LEMMA DatedKept ==
  ASSUME NEW f \in Seq(Functor), NEW d \in 0..Len(f),
         NEW t \in Seq(Functor), NEW g \in Seq(Functor),
         Shifted(f, d, t, g), NEW e \in Nat, Dated(f, e), Dated(t, e)
  PROVE  Dated(g, e)
<1>1. \A i \in 1..Len(g) : \/ i + d \in 1..Len(f) /\ g[i] = f[i + d]
                           \/ \E k \in 1..Len(t) : g[i] = t[k]
  BY ShiftedPlace
<1> QED BY <1>1 DEF Dated

\* The head of the queue is done with.  The connection is then marked if it was
\* and is not unmarked, or if it is marked now.
LEMMA MarkedTail ==
  ASSUME NEW f \in Seq(Functor), f # <<>>, NEW t \in Seq(Functor), NEW g \in Seq(Functor),
         Shifted(f, 1, t, g), NEW e \in Nat, NEW marked, NEW remarked, Marked(f, e, marked),
         \A k \in 1..Len(t) : ~(t[k].type = "highWater" /\ t[k].epoch = e),
         remarked => \/ marked /\ ~(f[1].type = "writeComplete" /\ f[1].epoch = e)
                     \/ f[1].type = "highWater" /\ f[1].epoch = e
  PROVE  Marked(g, e, remarked)
<1>1. Len(f) \in Nat /\ 1 \in 1..Len(f) /\ 1 \in 0..Len(f)
  OBVIOUS
<1>2. /\ \A i \in 1..Len(g) : \/ i + 1 \in 1..Len(f) /\ g[i] = f[i + 1]
                              \/ \E k \in 1..Len(t) : g[i] = t[k]
      /\ \A j \in 1..Len(f) : j > 1 => j - 1 \in 1..Len(g) /\ g[j - 1] = f[j]
  BY <1>1, ShiftedPlace
<1>3. ASSUME NEW i \in Nat, NEW j \in 1..Len(f), j > i + 1,
             f[j].type = "writeComplete", f[j].epoch = e
      PROVE  Unmarks(g, i, e)
  <2>1. j > 1 /\ j - 1 > i
    BY <1>1, <1>3
  <2>2. j - 1 \in 1..Len(g) /\ g[j - 1] = f[j]
    BY <1>2, <2>1
  <2> QED BY <1>3, <2>1, <2>2 DEF Unmarks
<1>4. ASSUME remarked PROVE Unmarks(g, 0, e)
  <2>1. PICK j \in 1..Len(f) : j > 0 + 1 /\ f[j].type = "writeComplete" /\ f[j].epoch = e
    <3>1. CASE marked /\ ~(f[1].type = "writeComplete" /\ f[1].epoch = e)
      <4>1. PICK j \in 1..Len(f) : f[j].type = "writeComplete" /\ f[j].epoch = e
        BY <3>1 DEF Marked, Unmarks
      <4>2. j # 1
        BY <3>1, <4>1
      <4>3. j > 0 + 1
        BY <4>2, <1>1
      <4> QED BY <4>1, <4>3
    <3>2. CASE f[1].type = "highWater" /\ f[1].epoch = e
      <4>1. Unmarks(f, 1, e)
        BY <3>2, <1>1 DEF Marked
      <4> QED BY <4>1 DEF Unmarks
    <3> QED BY <1>4, <3>1, <3>2
  <2> QED BY <2>1, <1>3
<1>5. ASSUME NEW i \in 1..Len(g), g[i].type = "highWater", g[i].epoch = e PROVE Unmarks(g, i, e)
  <2>1. i + 1 \in 1..Len(f) /\ g[i] = f[i + 1]
    BY <1>2, <1>5
  <2>2. Unmarks(f, i + 1, e)
    BY <2>1, <1>5 DEF Marked
  <2>3. PICK j \in 1..Len(f) : j > i + 1 /\ f[j].type = "writeComplete" /\ f[j].epoch = e
    BY <2>2 DEF Unmarks
  <2>4. i \in Nat
    OBVIOUS
  <2> QED BY <2>3, <2>4, <1>3
<1> QED BY <1>4, <1>5 DEF Marked

\* Functors that mark nothing are queued.
LEMMA MarkedAppend ==
  ASSUME NEW f \in Seq(Functor), NEW t \in Seq(Functor), NEW g \in Seq(Functor),
         Shifted(f, 0, t, g), NEW e \in Nat, NEW marked, Marked(f, e, marked),
         \A k \in 1..Len(t) : t[k].type # "highWater"
  PROVE  Marked(g, e, marked)
<1>1. Len(f) \in Nat /\ 0 \in 0..Len(f)
  OBVIOUS
<1>2. /\ \A i \in 1..Len(g) : \/ i + 0 \in 1..Len(f) /\ g[i] = f[i + 0]
                              \/ \E k \in 1..Len(t) : g[i] = t[k]
      /\ \A j \in 1..Len(f) : j > 0 => j - 0 \in 1..Len(g) /\ g[j - 0] = f[j]
  BY <1>1, ShiftedPlace
<1>3. \A j \in 1..Len(f) : j - 0 = j /\ j > 0
  BY <1>1
<1>4. \A i \in 1..Len(g) : i + 0 = i
  BY DEF Shifted
<1>5. \A i : Unmarks(f, i, e) => Unmarks(g, i, e)
  BY <1>2, <1>3 DEF Unmarks
<1> QED BY <1>2, <1>4, <1>5 DEF Marked

\* The last functor unmarks the connection.
LEMMA MarkedLast ==
  ASSUME NEW g \in Seq(Functor), Len(g) > 0, NEW e \in Nat, NEW marked,
         g[Len(g)].type = "writeComplete", g[Len(g)].epoch = e
  PROVE  Marked(g, e, marked)
<1>1. Len(g) \in Nat /\ Len(g) \in 1..Len(g)
  OBVIOUS
<1>2. ASSUME NEW i, i < Len(g) PROVE Unmarks(g, i, e)
  BY <1>1, <1>2 DEF Unmarks
<1>3. \A i \in 1..Len(g) : g[i].type = "highWater" => i < Len(g)
  BY <1>1
<1> QED BY <1>1, <1>2, <1>3 DEF Marked

\* SendTransportReq sends the request: the notices.
LEMMA SendNotices ==
  ASSUME ClientTypeOK, DataInv, EpochInv, MarkInv, SendDirect \/ SendBuffered
  PROVE  EpochInv' /\ MarkInv'
<1>1. /\ Running("send") /\ conn = "up" /\ conn' = conn /\ epoch' = epoch /\ highwater' = highwater
  BY DEF SendDirect, SendBuffered, CheckConnHealthy, clientConnVars
<1>2. functors \in Seq(Functor) /\ functors # <<>> /\ Len(functors) \in Nat /\ 1 \in 0..Len(functors)
  BY <1>1 DEF DataInv, Running
<1>3. epoch \in Nat
  BY BoundsAssumption DEF ClientTypeOK
<1>4. ASSUME NEW t \in Seq(Functor), Dated(t, epoch), functors' = Tail(functors) \o t
      PROVE  Dated(functors', epoch)
  BY <1>2, <1>3, <1>4, FunctorsTail, DatedKept DEF EpochInv
<1>5. CASE SendDirect
  <2>1. functors' = Tail(functors) \o Notice("writeComplete")
    BY <1>5 DEF SendDirect
  <2>2. PICK t \in Seq(Functor) : /\ t = Notice("writeComplete") /\ Len(t) = 1
                                  /\ t[1] = [type |-> "writeComplete", epoch |-> epoch]
    BY <1>3, NoticeType
  <2>3. Dated(t, epoch)
    BY <1>3, <2>2 DEF Dated
  <2>4. functors' \in Seq(Functor) /\ Shifted(functors, 1, t, functors')
    BY <1>2, <2>1, <2>2, FunctorsTail
  <2>5. Len(functors') = Len(functors) /\ functors'[Len(functors')] = t[1]
    <3>1. Len(functors') = Len(functors) - 1 + 1
      BY <2>2, <2>4 DEF Shifted
    <3>2. 1 \in 1..Len(t)
      BY <2>2
    <3>3. functors'[Len(functors) - 1 + 1] = t[1]
      BY <3>2, <2>4 DEF Shifted
    <3> QED BY <1>2, <3>1, <3>3
  <2>6. Marked(functors', epoch, highwater)
    <3>1. Len(functors') > 0
      BY <1>2, <2>5
    <3>2. functors'[Len(functors')].type = "writeComplete" /\ functors'[Len(functors')].epoch = epoch
      BY <2>2, <2>5
    <3> QED BY <1>3, <2>4, <3>1, <3>2, MarkedLast
  <2>7. Dated(functors', epoch)
    BY <1>4, <2>1, <2>2, <2>3
  <2> QED BY <1>1, <2>6, <2>7 DEF EpochInv, MarkInv
<1>6. CASE SendBuffered
  <2>1. PICK t \in Seq(Functor) : functors' = Tail(functors) \o t /\ Dated(t, epoch)
    <3>1. Dated(Notice("highWater"), epoch) /\ Notice("highWater") \in Seq(Functor)
      BY <1>3, NoticeType DEF Dated
    <3>2. Dated(<<>>, epoch) /\ <<>> \in Seq(Functor)
      BY DEF Dated
    <3> QED BY <1>6, <3>1, <3>2 DEF SendBuffered
  <2>2. output' # <<>>
    <3>1. output \in Seq(Request) /\ GetWriteBuf(Head(functors).caller) \in Request
      BY <1>1, HeadSend DEF DataInv
    <3>2. output' = Append(output, GetWriteBuf(Head(functors).caller))
      BY <1>6 DEF SendBuffered
    <3> QED BY <3>1, <3>2
  <2>3. Dated(functors', epoch)
    BY <1>4, <2>1
  <2> QED BY <1>1, <2>2, <2>3 DEF EpochInv, MarkInv
<1> QED BY <1>5, <1>6

\* A functor that sends nothing runs.
LEMMA PoppedNotices ==
  ASSUME ClientTypeOK, DataInv, EpochInv, MarkInv,
         SendDropped \/ OnWriteComplete \/ OnHighWaterMark
  PROVE  EpochInv' /\ MarkInv'
<1>1. functors # <<>> /\ functors' = Tail(functors) /\ conn' = conn /\ epoch' = epoch
      /\ output' = output /\ served' = served /\ Head(functors) = functors[1]
  BY DEF SendDropped, OnWriteComplete, OnHighWaterMark, Running, clientConnVars, netVars, DataInv
<1>2. functors \in Seq(Functor) /\ Len(functors) \in Nat /\ 1 \in 0..Len(functors) /\ epoch \in Nat
  BY <1>1, BoundsAssumption DEF ClientTypeOK, DataInv
<1>3. functors' \in Seq(Functor) /\ Shifted(functors, 1, <<>>, functors') /\ <<>> \in Seq(Functor)
  <2>1. Tail(functors) \o <<>> = Tail(functors) /\ <<>> \in Seq(Functor)
    BY <1>1, <1>2
  <2> QED BY <1>1, <1>2, <2>1, FunctorsTail
<1>4. Dated(functors', epoch)
  <2>1. Dated(<<>>, epoch)
    BY DEF Dated
  <2> QED BY <1>2, <1>3, <2>1, DatedKept DEF EpochInv
<1>5. conn = "down" => ~highwater'
  <2>1. ASSUME conn = "down" PROVE ~highwater
    BY <2>1 DEF EpochInv
  <2>2. CASE SendDropped
    BY <2>1, <2>2, Zenon DEF SendDropped, clientConnVars
  <2>3. CASE OnWriteComplete
    BY <2>1, <2>3, Zenon DEF OnWriteComplete
  <2>4. CASE OnHighWaterMark
    BY <2>1, <2>4, Zenon DEF OnHighWaterMark, IsCurrent
  <2> QED BY <2>2, <2>3, <2>4
<1>6. ASSUME conn # "down", output = <<>> PROVE Marked(functors', epoch, highwater')
  <2>1. Marked(functors, epoch, highwater)
    BY <1>6 DEF MarkInv
  <2>2. highwater' => \/ /\ highwater
                         /\ ~(functors[1].type = "writeComplete" /\ functors[1].epoch = epoch)
                      \/ functors[1].type = "highWater" /\ functors[1].epoch = epoch
    <3>1. CASE SendDropped
      <4>1. functors[1].type = "send" /\ highwater' = highwater
        BY <3>1, <1>1, Zenon DEF SendDropped, Running, clientConnVars
      <4>2. functors[1].type # "writeComplete"
        BY <4>1
      <4> QED BY <4>1, <4>2
    <3>2. CASE OnWriteComplete
      BY <3>2, <1>1, <1>6, Zenon DEF OnWriteComplete, IsCurrent
    <3>3. CASE OnHighWaterMark
      <4>1. functors[1].type = "highWater" /\ highwater' = (highwater \/ functors[1].epoch = epoch)
        BY <3>3, <1>1, <1>6, Zenon DEF OnHighWaterMark, Running, IsCurrent
      <4>2. functors[1].type # "writeComplete"
        BY <4>1
      <4> QED BY <4>1, <4>2
    <3> QED BY <3>1, <3>2, <3>3
  <2>3. \A k \in 1..Len(<<>>) : ~(<<>>[k].type = "highWater" /\ <<>>[k].epoch = epoch)
    OBVIOUS
  <2> QED BY <1>1, <1>2, <1>3, <2>1, <2>2, <2>3, MarkedTail
<1> QED BY <1>1, <1>4, <1>5, <1>6 DEF EpochInv, MarkInv

\* TcpConnection::handleWrite tells the loop when nothing is left to send.
LEMMA WriteNotices ==
  ASSUME ClientTypeOK, DataInv, EpochInv, MarkInv, NEW n \in 1..Len(output), HandleWrite(n)
  PROVE  EpochInv' /\ MarkInv'
<1>1. /\ conn' = conn /\ epoch' = epoch /\ highwater' = highwater
      /\ functors' = IF output' = <<>> THEN functors \o Notice("writeComplete") ELSE functors
  BY DEF HandleWrite, clientConnVars
<1>2. functors \in Seq(Functor) /\ Len(functors) \in Nat /\ 0 \in 0..Len(functors) /\ epoch \in Nat
  BY BoundsAssumption DEF ClientTypeOK, DataInv
<1>3. conn # "down"
  <2>1. output # <<>>
    OBVIOUS
  <2> QED BY <2>1 DEF EpochInv
<1>4. CASE output' # <<>>
  BY <1>1, <1>3, <1>4 DEF EpochInv, MarkInv
<1>5. CASE output' = <<>>
  <2>1. PICK t \in Seq(Functor) : /\ t = Notice("writeComplete") /\ Len(t) = 1
                                  /\ t[1] = [type |-> "writeComplete", epoch |-> epoch]
    BY <1>2, NoticeType
  <2>2. Dated(t, epoch)
    BY <1>2, <2>1 DEF Dated
  <2>3. functors' \in Seq(Functor) /\ Shifted(functors, 0, t, functors')
    BY <1>1, <1>2, <1>5, <2>1, FunctorsAppend
  <2>4. Dated(functors', epoch)
    BY <1>2, <2>2, <2>3, DatedKept DEF EpochInv
  <2>5. Len(functors') = Len(functors) + 1 /\ functors'[Len(functors')] = t[1]
    <3>1. Len(functors') = Len(functors) - 0 + 1
      BY <2>1, <2>3 DEF Shifted
    <3>2. 1 \in 1..Len(t)
      BY <2>1
    <3>3. functors'[Len(functors) - 0 + 1] = t[1]
      BY <3>2, <2>3 DEF Shifted
    <3> QED BY <1>2, <3>1, <3>3
  <2>6. Marked(functors', epoch, highwater)
    <3>1. Len(functors') > 0
      BY <1>2, <2>5
    <3>2. functors'[Len(functors')].type = "writeComplete" /\ functors'[Len(functors')].epoch = epoch
      BY <2>1, <2>5
    <3> QED BY <1>2, <2>3, <3>1, <3>2, MarkedLast
  <2> QED BY <1>1, <1>3, <2>4, <2>6 DEF EpochInv, MarkInv
<1> QED BY <1>4, <1>5

\* A new connection is marked by no notice of an old one.
LEMMA UpNotices ==
  ASSUME ClientTypeOK, DataInv, EpochInv, ClientConnUp
  PROVE  EpochInv' /\ MarkInv'
<1>1. /\ functors' = functors /\ epoch' = epoch + 1 /\ epoch \in Nat /\ conn' = "up"
      /\ ~highwater /\ highwater' = highwater
  BY BoundsAssumption DEF ClientTypeOK, ClientConnUp, EpochInv
<1>2. \A i \in 1..Len(functors) : functors[i] \in Functor
  BY DEF DataInv
<1>3. ASSUME NEW i \in 1..Len(functors), functors[i].type # "send"
      PROVE  functors[i].epoch <= epoch + 1 /\ functors[i].epoch # epoch + 1
  <2>1. functors[i].epoch \in Nat
    BY <1>2, <1>3 DEF Functor
  <2>2. functors[i].epoch <= epoch
    BY <1>3 DEF EpochInv, Dated
  <2> QED BY <1>1, <2>1, <2>2
<1>4. Dated(functors', epoch')
  BY <1>1, <1>3 DEF Dated
<1>5. Marked(functors', epoch', highwater')
  BY <1>1, <1>3 DEF Marked
<1> QED BY <1>1, <1>4, <1>5 DEF EpochInv, MarkInv

\* Every step keeps the order of notices that HighWaterClears rests on.
LEMMA NoticesKept ==
  ASSUME ClientTypeOK, DataInv, EpochInv, MarkInv, ClientNext
  PROVE  EpochInv' /\ MarkInv'
<1>1. CASE RunFunctor
  BY <1>1, SendNotices, PoppedNotices DEF RunFunctor
<1>2. CASE Write
  BY <1>2, WriteNotices DEF Write
<1>3. CASE ClientConnUp
  BY <1>3, UpNotices
<1>4. CASE ClientConnDown
  BY <1>4 DEF ClientConnDown, EpochInv, MarkInv
<1>5. ASSUME NEW c \in Callers, WriteMessageBegin(c) \/ ResetSeqId(c) \/ ReadVirt(c)
      PROVE  EpochInv' /\ MarkInv'
  BY <1>5 DEF WriteMessageBegin, ResetSeqId, ReadVirt, EpochInv, MarkInv, clientConnVars, netVars
<1>6. ASSUME NEW c \in Callers, Flush(c) PROVE EpochInv' /\ MarkInv'
  <2>1. functors \in Seq(Functor) /\ 0 \in 0..Len(functors) /\ epoch \in Nat
    BY BoundsAssumption DEF ClientTypeOK, DataInv
  <2>2. PICK s \in Functor : /\ s.type = "send" /\ functors' = Append(functors, s)
                             /\ s = [type |-> "send", id |-> strId[c], caller |-> c, call |-> calls[c]]
    BY <1>6 DEF Flush, DataInv, Functor
  <2>3. /\ <<s>> \in Seq(Functor) /\ Len(<<s>>) = 1 /\ <<s>>[1] = s
        /\ functors' = functors \o <<s>>
    BY <2>1, <2>2
  <2>4. functors' \in Seq(Functor) /\ Shifted(functors, 0, <<s>>, functors')
    BY <2>1, <2>3, FunctorsAppend
  <2>5. \A k \in 1..Len(<<s>>) : <<s>>[k].type = "send"
    BY <2>2, <2>3
  <2>6. Dated(<<s>>, epoch)
    BY <2>5 DEF Dated
  <2>7. Dated(functors', epoch)
    BY <2>1, <2>3, <2>4, <2>6, DatedKept DEF EpochInv
  <2>8. ASSUME Marked(functors, epoch, highwater) PROVE Marked(functors', epoch, highwater)
    <3>1. \A k \in 1..Len(<<s>>) : <<s>>[k].type # "highWater"
      BY <2>5
    <3> QED BY <2>1, <2>3, <2>4, <2>8, <3>1, MarkedAppend
  <2>9. /\ conn' = conn /\ epoch' = epoch /\ highwater' = highwater
        /\ output' = output /\ served' = served
    BY <1>6 DEF Flush, clientConnVars, netVars
  <2> QED BY <2>7, <2>8, <2>9 DEF EpochInv, MarkInv
<1>7. ASSUME NEW r \in served, ClientOnMsg(r) PROVE EpochInv' /\ MarkInv'
  BY <1>7 DEF ClientOnMsg, EpochInv, MarkInv, clientConnVars
<1>8. ASSUME NEW r \in served, OnBadMsg(r) PROVE EpochInv' /\ MarkInv'
  <2>1. conn # "down"
    BY DEF EpochInv
  <2> QED BY <1>8, <2>1 DEF OnBadMsg, EpochInv, MarkInv
<1> QED BY <1>1, <1>2, <1>3, <1>4, <1>5, <1>6, <1>7, <1>8 DEF ClientNext, Proceed, ServerAnswers

-----------------------------------------------------------------------------
(* The inductive invariant. *)

\* The inductive invariant of the client.
ClientIInv ==
  /\ ClientTypeOK /\ DataInv /\ IdInv /\ SendInv /\ WireInv
  /\ EpochInv /\ MarkInv /\ AnswersMatch

\* Every step keeps the numbers of calls in progress apart.
LEMMA NumbersKept ==
  ASSUME ClientTypeOK, DataInv, IdInv, ClientNext
  PROVE  IdInv'
<1>0. stage \in [Callers -> {"idle", "reset", "flush", "read"}]
  BY DEF ClientTypeOK
<1>1. ASSUME NEW c \in Callers, WriteMessageBegin(c) PROVE IdInv'
  BY <1>0, <1>1, IdBegin
<1>2. ASSUME NEW c \in Callers, ResetSeqId(c) PROVE IdInv'
  BY <1>0, <1>2, IdReset
<1>3. ASSUME NEW c \in Callers, Flush(c) \/ ReadVirt(c) PROVE IdInv'
  <2>1. /\ UNCHANGED <<seqId, strId, calls>>
        /\ \A d \in Callers : /\ stage'[d] # "idle" => stage[d] # "idle"
                              /\ stage'[d] = "reset" => stage[d] = "reset"
    BY <1>0, <1>3 DEF Flush, ReadVirt
  <2> QED BY <2>1, IdKept
<1>4. ASSUME UNCHANGED <<seqId, stage, strId, calls>> PROVE IdInv'
  BY <1>4, IdKept
<1>5. ASSUME NEW r \in served, ServerAnswers(r) PROVE UNCHANGED <<seqId, stage, strId, calls>>
  BY <1>5 DEF ServerAnswers, ClientOnMsg, OnBadMsg, callerVars
<1>6. ASSUME RunFunctor \/ Write \/ ClientConnUp \/ ClientConnDown
      PROVE  UNCHANGED <<seqId, stage, strId, calls>>
  BY <1>6 DEF RunFunctor, SendDropped, SendDirect, SendBuffered, OnWriteComplete, OnHighWaterMark,
              Write, HandleWrite, ClientConnUp, ClientConnDown, callerVars
<1> QED BY <1>1, <1>2, <1>3, <1>4, <1>5, <1>6 DEF ClientNext, Proceed

\* Every step keeps requests, entries and send functors those of calls waited for.
LEMMA CallsKept ==
  ASSUME ClientTypeOK, DataInv, IdInv, SendInv, WireInv, ClientNext
  PROVE  SendInv' /\ WireInv'
<1>1. CASE SendDropped
  <2>1. functors # <<>> /\ functors' = Tail(functors)
    BY <1>1 DEF SendDropped, Running
  <2>2. /\ UNCHANGED callerVars /\ served' \subseteq served /\ requestMap' \subseteq requestMap
        /\ output' = output
    BY <1>1 DEF SendDropped, netVars
  <2> QED BY <2>1, <2>2, SendsPopped, LoopMoves
<1>2. ASSUME SendDirect \/ SendBuffered PROVE SendInv' /\ WireInv'
  <2>1. Running("send") /\ functors # <<>> /\ epoch \in Nat
    <3>1. Running("send") /\ functors # <<>>
      BY <1>2 DEF SendDirect, SendBuffered, Running
    <3> QED BY <3>1, BoundsAssumption DEF ClientTypeOK
  <2>2. PICK t \in Seq(Functor) : /\ functors' = Tail(functors) \o t
                                  /\ \A i \in 1..Len(t) : t[i].type # "send"
    <3>1. /\ Notice("writeComplete") \in Seq(Functor)
          /\ \A i \in 1..Len(Notice("writeComplete")) : Notice("writeComplete")[i].type # "send"
      BY <2>1, NoticeType
    <3>2. /\ Notice("highWater") \in Seq(Functor)
          /\ \A i \in 1..Len(Notice("highWater")) : Notice("highWater")[i].type # "send"
      BY <2>1, NoticeType
    <3>3. <<>> \in Seq(Functor) /\ \A i \in 1..Len(<<>>) : <<>>[i].type # "send"
      OBVIOUS
    <3> QED BY <1>2, <3>1, <3>2, <3>3 DEF SendDirect, SendBuffered
  <2>3. SendsShift(1)
    BY <2>1, <2>2, SendsTail
  <2>4. PICK g : g = GetWriteBuf(Head(functors).caller)
    OBVIOUS
  <2>5. /\ UNCHANGED callerVars /\ requestMap' = Registered(Head(functors))
        /\ \/ served' = served \union {g} /\ output' = output
           \/ served' = served /\ output' = Append(output, g)
    BY <1>2, <2>4 DEF SendDirect, SendBuffered
  <2> QED BY <2>1, <2>3, <2>4, <2>5, RequestSent
<1>3. ASSUME OnWriteComplete \/ OnHighWaterMark PROVE SendInv' /\ WireInv'
  <2>1. functors # <<>> /\ functors' = Tail(functors)
    BY <1>3 DEF OnWriteComplete, OnHighWaterMark, Running
  <2>2. /\ UNCHANGED callerVars /\ served' \subseteq served /\ requestMap' \subseteq requestMap
        /\ output' = output
    BY <1>3 DEF OnWriteComplete, OnHighWaterMark, netVars
  <2> QED BY <2>1, <2>2, SendsPopped, LoopMoves
<1>4. ASSUME NEW n \in 1..Len(output), HandleWrite(n) PROVE SendInv' /\ WireInv'
  <2>1. epoch \in Nat
    BY BoundsAssumption DEF ClientTypeOK
  <2>2. /\ Notice("writeComplete") \in Seq(Functor)
        /\ \A i \in 1..Len(Notice("writeComplete")) : Notice("writeComplete")[i].type # "send"
    BY <2>1, NoticeType
  <2>3. functors' = functors \o Notice("writeComplete") \/ functors' = functors
    BY <1>4 DEF HandleWrite
  <2>4. SendsShift(0)
    BY <2>2, <2>3, SendsAppend, SendsStay
  <2> QED BY <1>4, <2>4, WriteKept
<1>5. ASSUME ClientConnUp \/ ClientConnDown \/ \E r \in served : OnBadMsg(r)
      PROVE  SendInv' /\ WireInv'
  <2>1. /\ UNCHANGED callerVars /\ served' \subseteq served /\ requestMap' \subseteq requestMap
        /\ (output' = output \/ output' = <<>>) /\ functors' = functors
    BY <1>5 DEF ClientConnUp, ClientConnDown, OnBadMsg, netVars
  <2> QED BY <2>1, SendsStay, LoopMoves
<1>6. ASSUME NEW c \in Callers, WriteMessageBegin(c) \/ ResetSeqId(c) \/ ReadVirt(c)
      PROVE  SendInv' /\ WireInv'
  <2>1. /\ stage[c] # "read" \/ readBuf[c] # {}
        /\ \A d \in Callers \ {c} : /\ stage'[d] = stage[d] /\ readBuf'[d] = readBuf[d]
                                    /\ strId'[d] = strId[d] /\ calls'[d] = calls[d]
        /\ UNCHANGED <<functors, output, served, requestMap>>
    BY <1>6 DEF WriteMessageBegin, ResetSeqId, ReadVirt, ClientTypeOK, DataInv, netVars
  <2> QED BY <2>1, CallerMoves
<1>7. ASSUME NEW c \in Callers, Flush(c) PROVE SendInv' /\ WireInv'
  BY <1>7, FlushKept
<1>8. ASSUME NEW r \in served, ClientOnMsg(r) PROVE SendInv' /\ WireInv'
  BY <1>8, AnswerGiven
<1> QED BY <1>1, <1>2, <1>3, <1>4, <1>5, <1>6, <1>7, <1>8
        DEF ClientNext, RunFunctor, Write, Proceed, ServerAnswers

\* Every step keeps the answers in read buffers those of the right call.
LEMMA AnswersKept ==
  ASSUME ClientTypeOK, DataInv, IdInv, SendInv, WireInv, AnswersMatch, ClientNext
  PROVE  AnswersMatch'
<1>1. ASSUME NEW c \in Callers, WriteMessageBegin(c) \/ ResetSeqId(c) \/ Flush(c) \/ ReadVirt(c)
      PROVE  AnswersMatch'
  <2>1. /\ stage'[c] # "read" \/ readBuf'[c] = {}
        /\ \A d \in Callers \ {c} : /\ stage'[d] = stage[d] /\ readBuf'[d] = readBuf[d]
                                    /\ strId'[d] = strId[d] /\ calls'[d] = calls[d]
    BY <1>1 DEF WriteMessageBegin, ResetSeqId, Flush, ReadVirt, ClientTypeOK, DataInv
  <2> QED BY <2>1 DEF AnswersMatch, GetWriteBuf
<1>2. ASSUME UNCHANGED callerVars PROVE AnswersMatch'
  BY <1>2 DEF AnswersMatch, GetWriteBuf, callerVars
<1>3. ASSUME NEW r \in served, ClientOnMsg(r) PROVE AnswersMatch'
  <2>1. /\ r = GetWriteBuf(r.caller) /\ r.caller \in Callers
        /\ readBuf'[r.caller] \in {{}, {r}}
        /\ \A d \in Callers \ {r.caller} : readBuf'[d] = readBuf[d]
    BY <1>3, AnswerGiven
  <2>2. UNCHANGED <<stage, strId, calls>>
    BY <1>3 DEF ClientOnMsg
  <2> QED BY <2>1, <2>2 DEF AnswersMatch, GetWriteBuf
<1>4. ASSUME RunFunctor \/ Write \/ ClientConnUp \/ ClientConnDown \/ \E r \in served : OnBadMsg(r)
      PROVE  UNCHANGED callerVars
  BY <1>4 DEF RunFunctor, SendDropped, SendDirect, SendBuffered, OnWriteComplete, OnHighWaterMark,
              Write, HandleWrite, ClientConnUp, ClientConnDown, OnBadMsg
<1> QED BY <1>1, <1>2, <1>3, <1>4 DEF ClientNext, Proceed, ServerAnswers

\* The invariant holds at first.
LEMMA ClientInitInv == ClientInit => ClientIInv
<1> SUFFICES ASSUME ClientInit PROVE ClientIInv
  OBVIOUS
<1> USE DEF ClientInit
<1>0. kInt32Max \in Nat /\ kInt32Max > 3
  BY Int32Assumption, FS_CardinalityType
<1>1. ClientTypeOK
  <2>1. epoch \in 0..MaxConns
    BY BoundsAssumption
  <2>2. highwater \in BOOLEAN /\ available \in Nat /\ lost \subseteq Callers
    OBVIOUS
  <2>3. stage \in [Callers -> {"idle", "reset", "flush", "read"}] /\ conn \in {"down", "up", "shut"}
    OBVIOUS
  <2> QED BY <2>1, <2>2, <2>3 DEF ClientTypeOK
<1>2. DataInv
  <2>1. seqId \in Int
    BY <1>0
  <2> QED BY <2>1 DEF DataInv
<1>3. IdInv
  <2>1. Cardinality(Made) = 0
    <3>1. Made = {}
      <4>1. \A c \in Callers : calls[c] = 0 /\ 1..calls[c] = {}
        OBVIOUS
      <4> QED BY <4>1 DEF Made
    <3> QED BY <3>1, FS_EmptySet
  <2>2. \A c \in Callers : calls[c] = 0 /\ stage[c] = "idle" /\ MaxCalls[c] \in Nat
    BY BoundsAssumption
  <2>3. /\ seqId <= kInt32Max /\ ~(seqId < 0)
        /\ seqId >= 0 /\ ~High(seqId) => seqId <= 0
    BY <1>0 DEF High
  <2> QED BY <2>1, <2>2, <2>3 DEF IdInv
<1>4. SendInv /\ WireInv
  BY DEF SendInv, WireInv
<1>5. EpochInv /\ MarkInv
  BY DEF EpochInv, MarkInv, Dated
<1>6. AnswersMatch
  BY DEF AnswersMatch
<1> QED BY <1>1, <1>2, <1>3, <1>4, <1>5, <1>6 DEF ClientIInv

\* Every step keeps the invariant.
LEMMA ClientStepInv == ClientIInv /\ [ClientNext]_clientVars => ClientIInv'
<1>1. ASSUME ClientIInv, ClientNext PROVE ClientIInv'
  BY <1>1, TypeKept, DataKept, NumbersKept, CallsKept, NoticesKept, AnswersKept DEF ClientIInv
<1>2. ASSUME ClientIInv, UNCHANGED clientVars PROVE ClientIInv'
  <2>1. UNCHANGED <<seqId, stage, strId, calls, readBuf, functors, requestMap, conn, epoch,
                    highwater, available, output, served, lost>>
    BY <1>2 DEF clientVars, callerVars, clientConnVars, netVars
  <2>2. ClientTypeOK' /\ DataInv' /\ IdInv'
    BY <1>2, <2>1 DEF ClientIInv, ClientTypeOK, DataInv, IdInv, Made
  <2>3. SendInv' /\ WireInv'
    BY <1>2, <2>1 DEF ClientIInv, SendInv, WireInv, Awaited, Unsent
  <2>4. EpochInv' /\ MarkInv' /\ AnswersMatch'
    BY <1>2, <2>1 DEF ClientIInv, EpochInv, MarkInv, AnswersMatch, GetWriteBuf
  <2> QED BY <2>2, <2>3, <2>4 DEF ClientIInv
<1> QED BY <1>1, <1>2

\* The invariant of the client holds in every reachable state.
LEMMA ClientAlwaysIInv == ClientSpec => []ClientIInv
BY ClientInitInv, ClientStepInv, PTL DEF ClientSpec

\* read_virt returns to a call the answer to that call and to no other.
THEOREM ClientAnswersMatch == ClientSpec => []AnswersMatch
<1>1. ClientIInv => AnswersMatch
  BY DEF ClientIInv
<1> QED BY <1>1, ClientAlwaysIInv, PTL

\* No entry of map_id_sharedcontextsp_ is of a call that is over.
THEOREM ClientEntriesAreAwaited == ClientSpec => []EntriesAreAwaited
<1>1. ClientIInv => EntriesAreAwaited
  BY DEF ClientIInv, EntriesAreAwaited, WireInv, Awaited, IsTimeout
<1> QED BY <1>1, ClientAlwaysIInv, PTL

\* A connection marked as above its high-water mark is bound to be unmarked.
THEOREM ClientHighWaterClears == ClientSpec => []HighWaterClears
<1>1. ClientIInv => HighWaterClears
  <2> SUFFICES ASSUME ClientIInv, highwater, output = <<>>
               PROVE  \E i \in DOMAIN functors :
                        functors[i].type = "writeComplete" /\ functors[i].epoch = epoch
    BY DEF HighWaterClears
  <2>1. conn # "down"
    BY DEF ClientIInv, EpochInv
  <2>2. Unmarks(functors, 0, epoch)
    BY <2>1 DEF ClientIInv, MarkInv, Marked
  <2>3. DOMAIN functors = 1..Len(functors)
    BY DEF ClientIInv, DataInv
  <2> QED BY <2>2, <2>3 DEF Unmarks
<1> QED BY <1>1, ClientAlwaysIInv, PTL
=============================================================================
