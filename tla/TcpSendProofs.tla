--------------------------- MODULE TcpSendProofs ---------------------------
(***************************************************************************)
(* The sending side of a TcpConnection keeps the order of the bytes of     *)
(* every thread, watches for writability exactly while it has to, and      *)
(* implements the byte stream of module ByteStream, for any threads,       *)
(* messages and bounds.                                                    *)
(***************************************************************************)
EXTENDS TcpSend, SequenceTheorems, TLAPS

\* Bytes of A come before bytes of B of the same source.
Before(A, B) == \A x \in A, y \in B : x[1] = y[1] => x[2] < y[2]

\* The bytes that the loop has taken in.
Accepted == Range(sent) \union Range(outputBuffer_)

\* Bytes are in order on their whole way: in a call underway, then among the
\* posted calls, then in the stream.
PostedInv ==
  \A i \in DOMAIN posted :
    /\ InOrder(posted[i].data)
    /\ \A x \in Range(posted[i].data) : x[1] \in Threads
    /\ Before(Accepted, Range(posted[i].data))
    /\ \A j \in DOMAIN posted : i < j => Before(Range(posted[i].data), Range(posted[j].data))
UnderwayInv ==
  \A t \in Threads :
    /\ InOrder(underway[t].data)
    /\ \A x \in Range(underway[t].data) : x[1] = t
    /\ Before(Accepted, Range(underway[t].data))
    /\ \A i \in DOMAIN posted : Before(Range(posted[i].data), Range(underway[t].data))

\* No source has given more bytes to send() than are counted.
Counted(A) == \A x \in A : x[2] <= called[x[1]]
CountInv ==
  /\ Counted(Accepted)
  /\ \A i \in DOMAIN posted : Counted(Range(posted[i].data))
  /\ \A t \in Threads : Counted(Range(underway[t].data))

OrderInv == OrderedPerSource /\ PostedInv /\ UnderwayInv /\ CountInv

\* What is buffered, what is watched, and the end of the stream.
WriteInv ==
  /\ WritingWhileBuffered
  /\ writing => state_ # "kDisconnected"
  /\ state_ = "kDisconnected" => closed
  /\ halfClosed /\ ~closed => outputBuffer_ = <<>>

IInv == TypeOK /\ OrderInv /\ WriteInv

-----------------------------------------------------------------------------
(* Sequences of bytes. *)

\* The order of a concatenation.
LEMMA OrderConcat ==
  ASSUME NEW a \in Seq(ByteSet), NEW b \in Seq(ByteSet)
  PROVE  InOrder(a \o b) <=> InOrder(a) /\ InOrder(b) /\ Before(Range(a), Range(b))
<1> DEFINE c == a \o b
<1>1. c \in Seq(ByteSet) /\ Len(c) = Len(a) + Len(b) /\ DOMAIN c = 1..(Len(a) + Len(b))
  OBVIOUS
<1>2. /\ DOMAIN a = 1..Len(a) /\ DOMAIN b = 1..Len(b) /\ Len(a) \in Nat /\ Len(b) \in Nat
      /\ \A i \in DOMAIN a : i \in DOMAIN c /\ c[i] = a[i]
      /\ \A i \in DOMAIN b : i + Len(a) \in DOMAIN c /\ c[i + Len(a)] = b[i]
      /\ \A i \in DOMAIN c : \/ i \in DOMAIN a /\ c[i] = a[i]
                             \/ i - Len(a) \in DOMAIN b /\ c[i] = b[i - Len(a)]
  OBVIOUS
<1> HIDE DEF c
<1>3. ASSUME InOrder(c) PROVE InOrder(a) /\ InOrder(b) /\ Before(Range(a), Range(b))
  <2>1. InOrder(a)
    BY <1>2, <1>3 DEF InOrder
  <2>2. InOrder(b)
    <3> SUFFICES ASSUME NEW i \in DOMAIN b, NEW j \in DOMAIN b, i < j, b[i][1] = b[j][1]
                 PROVE  b[i][2] < b[j][2]
      BY DEF InOrder
    <3>1. i + Len(a) < j + Len(a)
      BY <1>2
    <3>2. /\ i + Len(a) \in DOMAIN c /\ j + Len(a) \in DOMAIN c
          /\ c[i + Len(a)] = b[i] /\ c[j + Len(a)] = b[j]
      BY <1>2
    <3> QED BY <1>3, <3>1, <3>2, Zenon DEF InOrder
  <2>3. Before(Range(a), Range(b))
    <3> SUFFICES ASSUME NEW i \in DOMAIN a, NEW j \in DOMAIN b, a[i][1] = b[j][1]
                 PROVE  a[i][2] < b[j][2]
      BY DEF Before, Range
    <3>1. i < j + Len(a)
      BY <1>2
    <3> QED BY <1>2, <1>3, <3>1 DEF InOrder
  <2> QED BY <2>1, <2>2, <2>3
<1>4. ASSUME InOrder(a), InOrder(b), Before(Range(a), Range(b)) PROVE InOrder(c)
  <2> SUFFICES ASSUME NEW i \in DOMAIN c, NEW j \in DOMAIN c, i < j, c[i][1] = c[j][1]
               PROVE  c[i][2] < c[j][2]
    BY DEF InOrder
  <2>1. CASE i \in DOMAIN a /\ j \in DOMAIN a
    BY <1>2, <1>4, <2>1 DEF InOrder
  <2>2. CASE i \in DOMAIN a /\ j \notin DOMAIN a
    <3>1. c[i] \in Range(a) /\ c[j] \in Range(b)
      BY <1>2, <2>2 DEF Range
    <3> QED BY <1>4, <3>1 DEF Before
  <2>3. CASE i \notin DOMAIN a /\ j \notin DOMAIN a
    <3>1. /\ i - Len(a) \in DOMAIN b /\ j - Len(a) \in DOMAIN b
          /\ c[i] = b[i - Len(a)] /\ c[j] = b[j - Len(a)]
      BY <1>2, <2>3
    <3>2. i - Len(a) < j - Len(a)
      BY <1>1, <1>2
    <3> QED BY <1>4, <3>1, <3>2 DEF InOrder
  <2>4. CASE i \notin DOMAIN a /\ j \in DOMAIN a
    BY <1>1, <1>2, <2>4
  <2> QED BY <2>1, <2>2, <2>3, <2>4
<1> QED BY <1>3, <1>4 DEF c

\* A message is what write() takes of it and what remains.
LEMMA Cut ==
  ASSUME NEW d \in Seq(ByteSet), NEW k \in 0..Len(d)
  PROVE  /\ SubSeq(d, 1, k) \in Seq(ByteSet) /\ SubSeq(d, k + 1, Len(d)) \in Seq(ByteSet)
         /\ SubSeq(d, 1, k) \o SubSeq(d, k + 1, Len(d)) = d
         /\ Len(SubSeq(d, 1, k)) = k /\ Len(SubSeq(d, k + 1, Len(d))) = Len(d) - k
<1>1. SubSeq(d, 1, k) \in Seq(ByteSet) /\ SubSeq(d, k + 1, Len(d)) \in Seq(ByteSet)
  OBVIOUS
<1>2. Len(SubSeq(d, 1, k)) = k /\ Len(SubSeq(d, k + 1, Len(d))) = Len(d) - k
  OBVIOUS
<1>3. SubSeq(d, 1, k) \o SubSeq(d, k + 1, Len(d)) = SubSeq(d, 1, Len(d))
  <2>1. 1 \in 1..(Len(d) + 1) /\ k \in (1 - 1)..Len(d) /\ Len(d) \in k..Len(d)
    OBVIOUS
  <2> QED BY <2>1, ConcatAdjacentSubSeq
<1>4. SubSeq(d, 1, Len(d)) = d
  BY SubSeqFull
<1> QED BY <1>1, <1>2, <1>3, <1>4

\* Concatenation is associative.
LEMMA Associates == \A a, b, c \in Seq(ByteSet) : (a \o b) \o c = a \o (b \o c)
BY ConcatAssociative

\* The bytes of a concatenation.
LEMMA ConcatBytes == \A a, b \in Seq(ByteSet) : Range(a \o b) = Range(a) \union Range(b)
BY RangeConcatenation

\* A sequence is a prefix of what it is the beginning of.
LEMMA PrefixConcat ==
  ASSUME NEW a \in Seq(ByteSet), NEW b \in Seq(ByteSet)
  PROVE  Stream!IsPrefix(a, a \o b)
BY DEF Stream!IsPrefix

\* The empty sequence has no bytes.
LEMMA EmptyBytes == Range(<<>>) = {} /\ InOrder(<<>>) /\ <<>> \in Seq(ByteSet)
BY DEF Range, InOrder

-----------------------------------------------------------------------------
\* sendInLoop: what it takes in, a beginning of the message or nothing, goes to
\* the end of the stream; nothing once the stream has ended, and nothing is
\* written once the write side is shut down.
LEMMA SendInLoopEffect ==
  ASSUME TypeOK, WriteInv, NEW data \in Seq(ByteSet), SendInLoop(data)
  PROVE  /\ sent' \in Seq(ByteSet) /\ outputBuffer_' \in Seq(ByteSet)
         /\ writing' \in BOOLEAN /\ notice' \in {"none", "writeComplete", "highWaterMark"}
         /\ \E d \in Seq(ByteSet) : sent' = sent \o d
         /\ \E d \in Seq(ByteSet), e \in Seq(ByteSet) :
              /\ d \o e = data \/ d = <<>>
              /\ sent' \o outputBuffer_' = (sent \o outputBuffer_) \o d
         /\ writing' => outputBuffer_' # <<>> /\ state_ # "kDisconnected"
         /\ (outputBuffer_' # <<>> /\ ~closed) => writing'
         /\ (halfClosed /\ ~closed) \/ state_ = "kDisconnected" => UNCHANGED <<sent, outputBuffer_>>
         /\ halfClosed => sent' = sent
<1> DEFINE Goal == /\ sent' \in Seq(ByteSet) /\ outputBuffer_' \in Seq(ByteSet)
                   /\ writing' \in BOOLEAN /\ notice' \in {"none", "writeComplete", "highWaterMark"}
           Grows == \E d \in Seq(ByteSet) : sent' = sent \o d
           Takes == \E d \in Seq(ByteSet), e \in Seq(ByteSet) :
                      /\ d \o e = data \/ d = <<>>
                      /\ sent' \o outputBuffer_' = (sent \o outputBuffer_) \o d
           Watches == /\ writing' => outputBuffer_' # <<>> /\ state_ # "kDisconnected"
                      /\ (outputBuffer_' # <<>> /\ ~closed) => writing'
           Ends == /\ (halfClosed /\ ~closed) \/ state_ = "kDisconnected" => UNCHANGED <<sent, outputBuffer_>>
                   /\ halfClosed => sent' = sent
<1> SUFFICES Goal /\ Grows /\ Takes /\ Watches /\ Ends
  OBVIOUS
<1> HIDE DEF Goal, Grows, Takes, Watches, Ends
<1>t. /\ sent \in Seq(ByteSet) /\ outputBuffer_ \in Seq(ByteSet) /\ <<>> \in Seq(ByteSet)
      /\ writing \in BOOLEAN /\ sent \o outputBuffer_ \in Seq(ByteSet)
  BY DEF TypeOK
<1>e. \A s \in Seq(ByteSet) : s \o <<>> = s /\ <<>> \o s = s
  OBVIOUS
<1>0. ASSUME UNCHANGED <<sent, outputBuffer_, writing>>,
             notice' \in {"none", "writeComplete", "highWaterMark"}
      PROVE  Goal /\ Grows /\ Takes /\ Watches /\ Ends
  <2>1. Goal
    BY <1>0, <1>t DEF Goal
  <2>2. Grows
    BY <1>0, <1>t, <1>e DEF Grows
  <2>3. Takes
    <3>1. sent' \o outputBuffer_' = (sent \o outputBuffer_) \o <<>>
      BY <1>0, <1>t, <1>e
    <3> QED BY <1>t, <3>1 DEF Takes
  <2>4. Watches /\ Ends
    BY <1>0 DEF Watches, Ends, WriteInv, WritingWhileBuffered
  <2> QED BY <2>1, <2>2, <2>3, <2>4
<1>1. CASE state_ = "kDisconnected"
  BY <1>0, <1>1 DEF SendInLoop
<1>2. CASE state_ # "kDisconnected"
  <2> DEFINE faultError == CanWriteNow /\ (broken \/ halfClosed)
  <2>1. PICK k \in (IF CanWriteNow THEN Taken(data) ELSE {0}) :
          /\ sent' = sent \o SubSeq(data, 1, k)
          /\ IF ~faultError /\ SubSeq(data, k + 1, Len(data)) # <<>>
               THEN /\ outputBuffer_' = outputBuffer_ \o SubSeq(data, k + 1, Len(data))
                    /\ writing' = TRUE
                    /\ notice' \in {"highWaterMark", "none"}
               ELSE /\ notice' \in {"writeComplete", "none"}
                    /\ UNCHANGED <<outputBuffer_, writing>>
    BY <1>2 DEF SendInLoop
  <2>2. k \in 0..Len(data) /\ (~CanWriteNow \/ faultError => k = 0)
    BY <2>1 DEF Taken
  <2> DEFINE taken == SubSeq(data, 1, k)
             rest == SubSeq(data, k + 1, Len(data))
  <2>3. /\ taken \in Seq(ByteSet) /\ rest \in Seq(ByteSet) /\ taken \o rest = data
        /\ Len(taken) = k /\ Len(rest) = Len(data) - k
    BY <2>2, Cut
  <2>4. k = 0 => taken = <<>> /\ rest = data
    BY <2>2, <2>3
  <2>5. halfClosed /\ ~closed => outputBuffer_ = <<>> /\ ~writing
    BY <1>2 DEF WriteInv, WritingWhileBuffered
  <2> HIDE DEF taken, rest, faultError
  <2>6. CASE ~faultError /\ rest # <<>>
    <3>1. sent' = sent \o taken /\ outputBuffer_' = outputBuffer_ \o rest /\ writing' = TRUE
          /\ notice' \in {"highWaterMark", "none"}
      BY <2>1, <2>6 DEF taken, rest
    <3>2. sent \o taken \in Seq(ByteSet) /\ outputBuffer_ \o rest \in Seq(ByteSet)
      BY <1>t, <2>3
    <3>3. Goal
      BY <3>1, <3>2 DEF Goal
    <3>4. Grows
      BY <3>1, <2>3 DEF Grows
    <3>5. outputBuffer_' # <<>>
      <4>1. outputBuffer_ \o rest = <<>> => rest = <<>>
        BY <1>t, <2>3
      <4> QED BY <3>1, <4>1, <2>6
    <3>6. (halfClosed => closed) /\ (halfClosed => sent' = sent)
      <4>1. halfClosed => closed
        BY <2>5, <2>6 DEF faultError, CanWriteNow
      <4>2. halfClosed => taken = <<>>
        BY <2>2, <2>4, <2>6 DEF faultError
      <4> QED BY <1>t, <1>e, <3>1, <4>1, <4>2
    <3>7. sent' \o outputBuffer_' = (sent \o outputBuffer_) \o data
      <4>1. CASE CanWriteNow
        <5>1. outputBuffer_ = <<>>
          BY <4>1 DEF CanWriteNow
        <5>2. (sent \o taken) \o rest = sent \o (taken \o rest)
          <6>1. sent \in Seq(ByteSet) /\ taken \in Seq(ByteSet) /\ rest \in Seq(ByteSet)
            BY <1>t, <2>3
          <6> QED BY <6>1, Associates
        <5>3. sent' \o outputBuffer_' = (sent \o taken) \o rest
          BY <1>e, <2>3, <3>1, <5>1
        <5> QED BY <1>t, <1>e, <2>3, <5>1, <5>2, <5>3
      <4>2. CASE ~CanWriteNow
        <5>1. taken = <<>> /\ rest = data
          BY <4>2, <2>2, <2>4
        <5>2. sent \o (outputBuffer_ \o data) = (sent \o outputBuffer_) \o data
          BY <1>t, Associates
        <5> QED BY <1>t, <1>e, <3>1, <5>1, <5>2
      <4> QED BY <4>1, <4>2
    <3>8. Takes
      <4>1. data \o <<>> = data
        BY <1>e
      <4> QED BY <1>t, <3>7, <4>1 DEF Takes
    <3>9. Watches /\ Ends
      BY <1>2, <3>1, <3>5, <3>6 DEF Watches, Ends
    <3> QED BY <3>3, <3>4, <3>8, <3>9
  <2>7. CASE faultError
    <3>1. sent' = sent /\ UNCHANGED <<outputBuffer_, writing>> /\ notice' \in {"writeComplete", "none"}
      BY <2>1, <2>2, <2>4, <2>7, <1>t, <1>e DEF taken
    <3> QED BY <3>1, <1>0
  <2>8. CASE ~faultError /\ rest = <<>>
    <3>1. sent' = sent \o taken /\ UNCHANGED <<outputBuffer_, writing>>
          /\ notice' \in {"writeComplete", "none"}
      BY <2>1, <2>8 DEF taken, rest
    <3>2. taken = data
      BY <2>3, <2>8, <1>e
    <3>3. CASE CanWriteNow
      <4>1. outputBuffer_ = <<>> /\ ~halfClosed
        BY <3>3, <2>8 DEF CanWriteNow, faultError
      <4>2. Goal
        BY <3>1, <1>t, <2>3 DEF Goal
      <4>3. Grows
        BY <3>1, <2>3 DEF Grows
      <4>4. sent' \o outputBuffer_' = (sent \o outputBuffer_) \o data
        BY <1>t, <1>e, <3>1, <3>2, <4>1
      <4>5. Takes
        <5>1. data \o <<>> = data
          BY <1>e
        <5> QED BY <1>t, <4>4, <5>1 DEF Takes
      <4>6. Watches /\ Ends
        BY <1>2, <3>1, <4>1 DEF Watches, Ends, WriteInv, WritingWhileBuffered
      <4> QED BY <4>2, <4>3, <4>5, <4>6
    <3>4. CASE ~CanWriteNow
      <4>1. taken = <<>>
        BY <3>4, <2>2, <2>4
      <4> QED BY <3>1, <4>1, <1>t, <1>e, <1>0
    <3> QED BY <3>3, <3>4
  <2> QED BY <2>6, <2>7, <2>8
<1> QED BY <1>1, <1>2

\* A part of a message that is in order is in order.
LEMMA PartOf ==
  ASSUME NEW data \in Seq(ByteSet), NEW d \in Seq(ByteSet), NEW e \in Seq(ByteSet),
         d \o e = data \/ d = <<>>, InOrder(data)
  PROVE  InOrder(d) /\ Range(d) \subseteq Range(data)
<1>1. CASE d = <<>>
  BY <1>1, EmptyBytes
<1>2. CASE d \o e = data
  BY <1>2, OrderConcat, ConcatBytes
<1> QED BY <1>1, <1>2

\* The stream grows at its end.
LEMMA StreamGrows ==
  ASSUME TypeOK, OrderedPerSource, NEW d \in Seq(ByteSet),
         sent' \in Seq(ByteSet), outputBuffer_' \in Seq(ByteSet),
         sent' \o outputBuffer_' = (sent \o outputBuffer_) \o d,
         InOrder(d), Before(Accepted, Range(d))
  PROVE  OrderedPerSource' /\ Accepted' = Accepted \union Range(d)
<1>1. sent \in Seq(ByteSet) /\ outputBuffer_ \in Seq(ByteSet) /\ sent \o outputBuffer_ \in Seq(ByteSet)
  BY DEF TypeOK
<1>2. Accepted = Range(sent \o outputBuffer_) /\ Accepted' = Range(sent' \o outputBuffer_')
  BY <1>1, ConcatBytes DEF Accepted
<1>3. Accepted' = Accepted \union Range(d)
  BY <1>1, <1>2, ConcatBytes
<1>4. InOrder(sent' \o outputBuffer_')
  BY <1>1, <1>2, OrderConcat DEF OrderedPerSource
<1> QED BY <1>3, <1>4 DEF OrderedPerSource, InOrder

\* sendInLoop keeps the order and takes in bytes of its message only.
LEMMA SendInLoopOrder ==
  ASSUME TypeOK, WriteInv, OrderedPerSource, NEW data \in Seq(ByteSet), SendInLoop(data),
         InOrder(data), Before(Accepted, Range(data))
  PROVE  OrderedPerSource' /\ \E D \in SUBSET Range(data) : Accepted' = Accepted \union D
<1>1. PICK d \in Seq(ByteSet), e \in Seq(ByteSet) :
        /\ d \o e = data \/ d = <<>>
        /\ sent' \o outputBuffer_' = (sent \o outputBuffer_) \o d
  BY SendInLoopEffect
<1>2. InOrder(d) /\ Range(d) \subseteq Range(data)
  BY <1>1, PartOf
<1>3. Before(Accepted, Range(d))
  BY <1>2 DEF Before
<1>4. sent' \in Seq(ByteSet) /\ outputBuffer_' \in Seq(ByteSet)
  BY SendInLoopEffect
<1> QED BY <1>1, <1>2, <1>3, <1>4, StreamGrows

\* The next bytes of a source.
LEMMA NextBytes ==
  ASSUME TypeOK, NEW s \in Sources, NEW len \in Nat, called[s] + len <= MaxBytes
  PROVE  /\ Bytes(s, len) \in Seq(ByteSet) /\ InOrder(Bytes(s, len))
         /\ \A x \in Range(Bytes(s, len)) : x[1] = s /\ x[2] > called[s] /\ x[2] <= called[s] + len
         /\ \A A \in SUBSET ByteSet : Counted(A) => Before(A, Range(Bytes(s, len)))
<1> DEFINE B == Bytes(s, len)
<1>1. called[s] \in Nat /\ MaxBytes \in Nat
  BY SendAssumption DEF TypeOK
<1>2. DOMAIN B = 1..len /\ \A i \in 1..len : B[i] = <<s, called[s] + i>>
  BY DEF Bytes
<1>3. \A i \in 1..len : <<s, called[s] + i>> \in ByteSet
  BY <1>1 DEF ByteSet
<1>4. B \in Seq(ByteSet)
  <2>1. B \in [1..len -> ByteSet]
    BY <1>3 DEF Bytes
  <2> QED BY <2>1
<1>5. InOrder(B)
  BY <1>1, <1>2 DEF InOrder
<1>6. \A x \in Range(B) : x[1] = s /\ x[2] > called[s] /\ x[2] <= called[s] + len
  BY <1>1, <1>2 DEF Range
<1> HIDE DEF B
<1>7. ASSUME NEW A \in SUBSET ByteSet, Counted(A) PROVE Before(A, Range(B))
  <2> SUFFICES ASSUME NEW x \in A, NEW y \in Range(B), x[1] = y[1] PROVE x[2] < y[2]
    BY DEF Before
  <2>1. x[1] = s /\ x[2] <= called[s] /\ y[2] > called[s]
    BY <1>6, <1>7 DEF Counted
  <2>2. x[2] \in Nat /\ y[2] \in Nat
    BY <1>4 DEF ByteSet, Range
  <2> QED BY <1>1, <2>1, <2>2
<1> QED BY <1>4, <1>5, <1>6, <1>7 DEF B

\* A source that goes on counts no less.
LEMMA CountGrows ==
  ASSUME TypeOK, NEW s \in Sources, NEW len \in Nat, called'[s] = called[s] + len,
         \A r \in Sources \ {s} : called'[r] = called[r]
  PROVE  \A A \in SUBSET ByteSet : Counted(A) => \A x \in A : x[2] <= called'[x[1]]
<1> SUFFICES ASSUME NEW A \in SUBSET ByteSet, NEW x \in A, x[2] <= called[x[1]]
             PROVE  x[2] <= called'[x[1]]
  BY DEF Counted
<1>1. x[1] \in Sources /\ x[2] \in Nat
  BY DEF ByteSet
<1>2. called[x[1]] \in Nat
  BY <1>1, SendAssumption DEF TypeOK
<1> QED BY <1>1, <1>2

\* Everything in the state is a byte.
LEMMA AllBytes ==
  ASSUME TypeOK
  PROVE  /\ Accepted \subseteq ByteSet
         /\ \A i \in DOMAIN posted : posted[i].data \in Seq(ByteSet) /\ Range(posted[i].data) \subseteq ByteSet
         /\ \A t \in Threads : underway[t].data \in Seq(ByteSet) /\ Range(underway[t].data) \subseteq ByteSet
<1>1. \A q \in Seq(ByteSet) : Range(q) \subseteq ByteSet
  BY RangeOfSeq
<1>2. Accepted \subseteq ByteSet
  BY <1>1 DEF TypeOK, Accepted
<1>3. ASSUME NEW i \in DOMAIN posted PROVE posted[i].data \in Seq(ByteSet)
  <2> DEFINE M == [step : {"send"} \union Closing, data : Seq(ByteSet)]
  <2>1. posted \in Seq(M)
    BY DEF TypeOK
  <2>2. posted[i] \in M
    <3> HIDE DEF M
    <3> QED BY <2>1
  <2> QED BY <2>2
<1>4. ASSUME NEW t \in Threads PROVE underway[t].data \in Seq(ByteSet)
  BY DEF TypeOK
<1> QED BY <1>1, <1>2, <1>3, <1>4

-----------------------------------------------------------------------------
\* The start satisfies the invariant.
LEMMA InitInv == Init => IInv
<1> SUFFICES ASSUME Init PROVE IInv
  OBVIOUS
<1>1. TypeOK
  <2>1. /\ outputBuffer_ \in Seq(ByteSet) /\ sent \in Seq(ByteSet)
        /\ posted \in Seq([step : {"send"} \union Closing, data : Seq(ByteSet)])
    BY DEF Init
  <2>2. underway \in [Threads -> [step : {"none", "send"} \union Closing, data : Seq(ByteSet)]]
    BY EmptyBytes DEF Init, Returned
  <2>3. called \in [Sources -> 0..MaxBytes]
    BY SendAssumption DEF Init
  <2> QED BY <2>1, <2>2, <2>3 DEF Init, TypeOK
<1>2. Accepted = {} /\ DOMAIN posted = {} /\ \A t \in Threads : underway[t].data = <<>>
  BY EmptyBytes DEF Init, Accepted, Returned
<1>3. OrderedPerSource
  <2>1. <<>> \o <<>> = <<>>
    OBVIOUS
  <2> QED BY <2>1, EmptyBytes DEF Init, OrderedPerSource
<1>4. PostedInv /\ UnderwayInv /\ CountInv
  BY <1>2, EmptyBytes DEF PostedInv, UnderwayInv, CountInv, Counted, Before
<1>5. WriteInv
  BY DEF Init, WriteInv, WritingWhileBuffered
<1> QED BY <1>1, <1>3, <1>4, <1>5 DEF IInv, OrderInv

\* Nothing of the order changes.
LEMMA OrderUnchanged ==
  ASSUME OrderInv, UNCHANGED <<sent, outputBuffer_, posted, called>>,
         \A t \in Threads : underway'[t].data = underway[t].data
  PROVE  OrderInv'
<1>1. OrderedPerSource' /\ Accepted' = Accepted
  BY DEF OrderInv, OrderedPerSource, InOrder, Accepted
<1>2. PostedInv'
  BY <1>1 DEF OrderInv, PostedInv, InOrder, Before
<1>3. UnderwayInv'
  BY <1>1 DEF OrderInv, UnderwayInv, InOrder, Before
<1>4. CountInv'
  BY <1>1 DEF OrderInv, CountInv, Counted
<1> QED BY <1>1, <1>2, <1>3, <1>4 DEF OrderInv

\* send() in the loop.
LEMMA SendStep == ASSUME IInv, NEW len \in Lengths, Send(len) PROVE IInv'
<1>1. len \in Nat /\ Loop \in Sources /\ Loop \notin Threads /\ called[Loop] \in Nat
      /\ called[Loop] + len <= MaxBytes /\ MaxBytes \in Nat
  BY SendAssumption DEF IInv, TypeOK, Send, Sources
<1>2. PICK data \in Seq(ByteSet) :
        /\ data = Bytes(Loop, len) /\ InOrder(data)
        /\ \A x \in Range(data) : x[1] = Loop /\ x[2] <= called[Loop] + len
        /\ Before(Accepted, Range(data))
  BY <1>1, NextBytes, AllBytes DEF IInv, OrderInv, CountInv
<1>3. SendInLoop(data) /\ called' = [called EXCEPT ![Loop] = @ + len]
      /\ UNCHANGED <<state_, halfClosed, broken, posted, timer, closed, underway, tested, promised>>
  BY <1>2 DEF Send
<1>4. TypeOK'
  <2>1. called' \in [Sources -> 0..MaxBytes]
    BY <1>1, <1>3 DEF IInv, TypeOK
  <2> QED BY <1>2, <1>3, <2>1, SendInLoopEffect DEF IInv, TypeOK
<1>5. WriteInv'
  BY <1>2, <1>3, SendInLoopEffect DEF IInv, WriteInv, WritingWhileBuffered
<1>6. OrderedPerSource' /\ \E D \in SUBSET Range(data) : Accepted' = Accepted \union D
  BY <1>2, <1>3, SendInLoopOrder DEF IInv, OrderInv
<1>7. PICK D \in SUBSET Range(data) : Accepted' = Accepted \union D
  BY <1>6
<1>8. \A x \in D : x[1] = Loop /\ x[2] <= called[Loop] + len
  BY <1>2, <1>7
<1>9. PostedInv'
  <2>1. \A i \in DOMAIN posted : Before(Accepted', Range(posted[i].data))
    BY <1>1, <1>7, <1>8 DEF IInv, OrderInv, PostedInv, Before
  <2> QED BY <1>3, <2>1 DEF IInv, OrderInv, PostedInv, InOrder, Before
<1>10. UnderwayInv'
  <2>1. \A t \in Threads : Before(Accepted', Range(underway[t].data))
    BY <1>1, <1>7, <1>8 DEF IInv, OrderInv, UnderwayInv, Before
  <2> QED BY <1>3, <2>1 DEF IInv, OrderInv, UnderwayInv, InOrder, Before
<1>11. CountInv'
  <2>1. called'[Loop] = called[Loop] + len /\ \A s \in Sources \ {Loop} : called'[s] = called[s]
    BY <1>1, <1>3 DEF IInv, TypeOK
  <2>2. \A A \in SUBSET ByteSet : Counted(A) => \A x \in A : x[2] <= called'[x[1]]
    BY <2>1, <1>1, CountGrows DEF IInv
  <2>3. Counted(Accepted)'
    BY <1>7, <1>8, <2>1, <2>2, AllBytes DEF IInv, OrderInv, CountInv, Counted
  <2> QED BY <1>3, <2>2, <2>3, AllBytes DEF IInv, OrderInv, CountInv, Counted
<1> QED BY <1>4, <1>5, <1>6, <1>9, <1>10, <1>11 DEF IInv, OrderInv

\* handleWrite moves bytes from the front of the buffer to the end of what was
\* sent: the stream stays as it is.
LEMMA HandleWriteEffect ==
  ASSUME TypeOK, HandleWrite
  PROVE  /\ sent' \in Seq(ByteSet) /\ outputBuffer_' \in Seq(ByteSet)
         /\ \E d \in Seq(ByteSet) : sent' = sent \o d
         /\ sent' \o outputBuffer_' = sent \o outputBuffer_
<1>1. PICK k \in 1..Len(outputBuffer_) :
        /\ sent' = sent \o SubSeq(outputBuffer_, 1, k)
        /\ outputBuffer_' = SubSeq(outputBuffer_, k + 1, Len(outputBuffer_))
  BY DEF HandleWrite
<1>2. outputBuffer_ \in Seq(ByteSet) /\ sent \in Seq(ByteSet) /\ k \in 0..Len(outputBuffer_)
  BY DEF TypeOK
<1>3. PICK d, e \in Seq(ByteSet) : /\ d = SubSeq(outputBuffer_, 1, k)
                                  /\ e = SubSeq(outputBuffer_, k + 1, Len(outputBuffer_))
                                  /\ d \o e = outputBuffer_
  BY <1>2, Cut
<1>4. (sent \o d) \o e = sent \o (d \o e)
  BY <1>2, <1>3, Associates
<1>5. sent \o d \in Seq(ByteSet)
  BY <1>2, <1>3
<1> QED BY <1>1, <1>3, <1>4, <1>5

\* handleWrite.
LEMMA HandleWriteStep == ASSUME IInv, HandleWrite PROVE IInv'
<1>1. UNCHANGED <<state_, broken, posted, timer, closed, underway, tested, called, promised>>
      /\ writing /\ ~halfClosed
  BY DEF HandleWrite, userVars
<1>2. /\ sent' \in Seq(ByteSet) /\ outputBuffer_' \in Seq(ByteSet)
      /\ sent' \o outputBuffer_' = sent \o outputBuffer_
  BY HandleWriteEffect DEF IInv
<1>3. TypeOK'
  <2>1. writing' \in BOOLEAN /\ halfClosed' \in BOOLEAN
        /\ notice' \in {"none", "writeComplete", "highWaterMark"}
    BY DEF IInv, TypeOK, HandleWrite, Drained
  <2> QED BY <1>1, <1>2, <2>1 DEF IInv, TypeOK
<1>4. WriteInv'
  BY <1>1 DEF IInv, WriteInv, WritingWhileBuffered, HandleWrite, Drained
<1>5. OrderedPerSource' /\ Accepted' = Accepted
  <2>1. (sent \o outputBuffer_) \o <<>> = sent \o outputBuffer_
    BY DEF IInv, TypeOK
  <2>2. Before(Accepted, Range(<<>>))
    BY EmptyBytes DEF Before
  <2> QED BY <1>2, <2>1, <2>2, EmptyBytes, StreamGrows DEF IInv, OrderInv
<1>6. PostedInv' /\ UnderwayInv'
  BY <1>1, <1>5 DEF IInv, OrderInv, PostedInv, UnderwayInv, InOrder, Before
<1>7. CountInv'
  BY <1>1, <1>5 DEF IInv, OrderInv, CountInv, Counted
<1> QED BY <1>3, <1>4, <1>5, <1>6, <1>7 DEF IInv, OrderInv

\* The calls and events that move no byte and post nothing.
LEMMA QuietStep == ASSUME IInv, Shutdown \/ ForceCloseWithDelay \/ PeerCloses \/ Reset PROVE IInv'
<1>1. UNCHANGED <<sent, outputBuffer_, notice, posted, underway, tested, called>>
  BY DEF Shutdown, ForceCloseWithDelay, PeerCloses, HandleClose, Reset, userVars, kernelVars, loopVars
<1>2. TypeOK'
  <2>1. promised' \in SUBSET ByteSet
    <3>1. Loop \in Closers => Loop \in Sources
      BY DEF Sources
    <3>2. ASSUME Loop \in Sources, NEW n \in 1..called[Loop] PROVE <<Loop, n>> \in ByteSet
      BY <3>2, SendAssumption DEF IInv, TypeOK, ByteSet
    <3> QED BY <3>1, <3>2 DEF IInv, TypeOK, Shutdown, ForceCloseWithDelay, PeerCloses, Reset, userVars
  <2>2. CASE Shutdown
    BY <1>1, <2>1, <2>2 DEF IInv, TypeOK, Shutdown, ShutdownInLoop, loopVars
  <2>3. CASE ForceCloseWithDelay
    BY <1>1, <2>1, <2>3 DEF IInv, TypeOK, ForceCloseWithDelay, kernelVars
  <2>4. CASE PeerCloses
    <3>1. state_' = "kDisconnected" /\ writing' = FALSE /\ closed' = TRUE
          /\ UNCHANGED <<halfClosed, broken, timer>>
      BY <2>4 DEF PeerCloses, HandleClose, kernelVars
    <3> QED BY <1>1, <2>1, <3>1 DEF IInv, TypeOK
  <2>5. CASE Reset
    BY <1>1, <2>1, <2>5 DEF IInv, TypeOK, Reset, loopVars
  <2> QED BY <2>2, <2>3, <2>4, <2>5
<1>3. WriteInv'
  <2>1. CASE Shutdown
    BY <2>1 DEF IInv, TypeOK, WriteInv, WritingWhileBuffered, Shutdown, ShutdownInLoop, loopVars
  <2>2. CASE ForceCloseWithDelay
    BY <2>2 DEF IInv, WriteInv, WritingWhileBuffered, ForceCloseWithDelay, kernelVars
  <2>3. CASE PeerCloses
    BY <2>3 DEF IInv, WriteInv, WritingWhileBuffered, PeerCloses, HandleClose, kernelVars
  <2>4. CASE Reset
    BY <2>4 DEF IInv, WriteInv, WritingWhileBuffered, Reset, loopVars
  <2> QED BY <2>1, <2>2, <2>3, <2>4
<1> QED BY <1>1, <1>2, <1>3, OrderUnchanged DEF IInv

\* A call that carries no byte is posted.
LEMMA PostsEmpty ==
  ASSUME TypeOK, OrderInv, NEW step \in Closing, posted' = Append(posted, Call(step, <<>>)),
         UNCHANGED <<sent, outputBuffer_, underway, called>>
  PROVE  /\ OrderInv'
         /\ posted' \in Seq([step : {"send"} \union Closing, data : Seq(ByteSet)])
<1> DEFINE M == [step : {"send"} \union Closing, data : Seq(ByteSet)]
<1>1. PICK m \in M : m = Call(step, <<>>) /\ m.data = <<>>
  <2>1. Call(step, <<>>) \in M /\ Call(step, <<>>).data = <<>>
    BY EmptyBytes DEF Call
  <2> QED BY <2>1
<1>2. posted \in Seq(M) /\ posted' = Append(posted, m)
  BY <1>1 DEF TypeOK
<1>3. /\ posted' \in Seq(M)
      /\ \A i \in DOMAIN posted' : \/ i \in DOMAIN posted /\ posted'[i] = posted[i]
                                  \/ posted'[i] = m
  <2> HIDE DEF M
  <2> QED BY <1>2
<1>4. OrderedPerSource' /\ Accepted' = Accepted
  BY DEF OrderInv, OrderedPerSource, InOrder, Accepted
<1>5. PostedInv'
  <2>1. ASSUME NEW i \in DOMAIN posted'
        PROVE  /\ InOrder(posted'[i].data) /\ \A x \in Range(posted'[i].data) : x[1] \in Threads
               /\ Before(Accepted, Range(posted'[i].data))
    BY <1>1, <1>3, EmptyBytes DEF OrderInv, PostedInv, Before
  <2>2. ASSUME NEW i \in DOMAIN posted', NEW j \in DOMAIN posted', i < j
        PROVE  Before(Range(posted'[i].data), Range(posted'[j].data))
    <3>1. CASE posted'[i] = m \/ posted'[j] = m
      BY <1>1, <3>1, EmptyBytes DEF Before
    <3>2. CASE posted'[i] # m /\ posted'[j] # m
      BY <1>3, <2>2, <3>2 DEF OrderInv, PostedInv
    <3> QED BY <3>1, <3>2
  <2> QED BY <1>4, <2>1, <2>2 DEF PostedInv, InOrder, Before
<1>6. UnderwayInv'
  <2>1. ASSUME NEW t \in Threads, NEW i \in DOMAIN posted'
        PROVE  Before(Range(posted'[i].data), Range(underway[t].data))
    BY <1>1, <1>3, EmptyBytes DEF OrderInv, UnderwayInv, Before
  <2> QED BY <1>4, <2>1 DEF OrderInv, UnderwayInv, InOrder, Before
<1>7. CountInv'
  <2>1. \A i \in DOMAIN posted' : \A x \in Range(posted'[i].data) : x[2] <= called[x[1]]
    BY <1>1, <1>3, EmptyBytes DEF OrderInv, CountInv, Counted
  <2> QED BY <1>4, <2>1 DEF OrderInv, CountInv, Counted
<1> QED BY <1>3, <1>4, <1>5, <1>6, <1>7 DEF OrderInv

\* forceClose in the loop thread, called there or by the timer.
LEMMA ForceCloseStep == ASSUME IInv, ForceClose \/ TimerFires PROVE IInv'
<1>1. /\ UNCHANGED <<sent, outputBuffer_, writing, notice, closed, halfClosed, broken,
                     underway, tested, called, promised>>
      /\ timer' \in {timer, FALSE}
      /\ \/ state_ # "kDisconnected" /\ state_' = "kDisconnecting"
            /\ posted' = Append(posted, Call("forceClose", <<>>))
         \/ UNCHANGED <<state_, posted>>
  BY DEF ForceClose, TimerFires, loopVars, kernelVars, userVars
<1>2. OrderInv' /\ posted' \in Seq([step : {"send"} \union Closing, data : Seq(ByteSet)])
  <2>1. CASE posted' = Append(posted, Call("forceClose", <<>>))
    BY <1>1, <2>1, PostsEmpty DEF IInv, Closing
  <2>2. CASE UNCHANGED posted
    BY <1>1, <2>2, OrderUnchanged DEF IInv, TypeOK
  <2> QED BY <1>1, <2>1, <2>2
<1>3. TypeOK'
  BY <1>1, <1>2 DEF IInv, TypeOK
<1>4. WriteInv'
  BY <1>1 DEF IInv, WriteInv, WritingWhileBuffered
<1> QED BY <1>2, <1>3, <1>4 DEF IInv

\* The loop calls a posted functor.
LEMMA RunPostedStep == ASSUME IInv, RunPosted PROVE IInv'
<1> DEFINE M == [step : {"send"} \union Closing, data : Seq(ByteSet)]
<1>1. posted \in Seq(M) /\ posted # <<>> /\ posted' = Tail(posted)
      /\ UNCHANGED <<broken, underway, tested, called, promised>>
  BY DEF IInv, TypeOK, RunPosted, userVars
<1>2. /\ Tail(posted) \in Seq(M) /\ 1 \in DOMAIN posted /\ Head(posted) = posted[1]
      /\ \A i \in DOMAIN posted' : i + 1 \in DOMAIN posted /\ i + 1 > 1 /\ posted'[i] = posted[i + 1]
  <2> HIDE DEF M
  <2> QED BY <1>1
<1>3. \A i, j \in DOMAIN posted' : i < j => i + 1 < j + 1
  <2> HIDE DEF M
  <2> QED BY <1>1, <1>2
<1>4. PICK data \in Seq(ByteSet) : data = posted[1].data
  BY <1>2, AllBytes DEF IInv
<1>5. /\ InOrder(data) /\ Before(Accepted, Range(data))
      /\ \A i \in DOMAIN posted' : Before(Range(data), Range(posted'[i].data))
      /\ \A t \in Threads : Before(Range(data), Range(underway[t].data))
      /\ Counted(Range(data))
  BY <1>2, <1>4 DEF IInv, OrderInv, PostedInv, UnderwayInv, CountInv
<1>6. /\ TypeOK' /\ WriteInv' /\ OrderedPerSource'
      /\ \E D \in SUBSET Range(data) : Accepted' = Accepted \union D
  <2>1. CASE SendInLoop(data) /\ UNCHANGED <<state_, halfClosed, timer, closed>>
    <3>1. TypeOK'
      BY <1>1, <1>2, <2>1, SendInLoopEffect DEF IInv, TypeOK
    <3>2. WriteInv'
      BY <1>1, <2>1, SendInLoopEffect DEF IInv, WriteInv, WritingWhileBuffered
    <3> QED BY <1>5, <2>1, <3>1, <3>2, SendInLoopOrder DEF IInv, OrderInv
  <2>2. ASSUME UNCHANGED <<outputBuffer_, sent>>, TypeOK', WriteInv'
        PROVE  /\ TypeOK' /\ WriteInv' /\ OrderedPerSource'
               /\ \E D \in SUBSET Range(data) : Accepted' = Accepted \union D
    <3>1. OrderedPerSource' /\ Accepted' = Accepted \union {}
      BY <2>2 DEF IInv, OrderInv, OrderedPerSource, InOrder, Accepted
    <3> QED BY <2>2, <3>1
  <2>3. CASE ShutdownInLoop /\ UNCHANGED <<state_, loopVars, sent>>
    <3>1. TypeOK'
      BY <1>1, <1>2, <2>3 DEF IInv, TypeOK, ShutdownInLoop, loopVars
    <3>2. WriteInv'
      BY <1>1, <2>3 DEF IInv, TypeOK, WriteInv, WritingWhileBuffered, ShutdownInLoop, loopVars
    <3> QED BY <2>2, <2>3, <3>1, <3>2 DEF loopVars
  <2>4. CASE /\ IF state_ # "kDisconnected" THEN HandleClose ELSE UNCHANGED <<state_, writing, closed>>
             /\ UNCHANGED <<outputBuffer_, notice, halfClosed, timer, sent>>
    <3>1. TypeOK'
      BY <1>1, <1>2, <2>4 DEF IInv, TypeOK, HandleClose
    <3>2. WriteInv'
      BY <1>1, <2>4 DEF IInv, WriteInv, WritingWhileBuffered, HandleClose
    <3> QED BY <2>2, <2>4, <3>1, <3>2
  <2>5. CASE /\ timer' = TRUE
             /\ UNCHANGED <<state_, outputBuffer_, writing, notice, halfClosed, closed, sent>>
    <3>1. TypeOK'
      BY <1>1, <1>2, <2>5 DEF IInv, TypeOK
    <3>2. WriteInv'
      BY <1>1, <2>5 DEF IInv, WriteInv, WritingWhileBuffered
    <3> QED BY <2>2, <2>5, <3>1, <3>2
  <2> QED BY <1>2, <1>4, <2>1, <2>3, <2>4, <2>5 DEF RunPosted
<1>7. PICK D \in SUBSET Range(data) : Accepted' = Accepted \union D
  BY <1>6
<1>8. PostedInv'
  <2>1. ASSUME NEW i \in DOMAIN posted'
        PROVE  /\ InOrder(posted'[i].data) /\ \A x \in Range(posted'[i].data) : x[1] \in Threads
               /\ Before(Accepted', Range(posted'[i].data))
               /\ \A j \in DOMAIN posted' : i < j => Before(Range(posted'[i].data), Range(posted'[j].data))
    <3>1. InOrder(posted'[i].data) /\ \A x \in Range(posted'[i].data) : x[1] \in Threads
      BY <1>2 DEF IInv, OrderInv, PostedInv
    <3>2. Before(Accepted, Range(posted'[i].data))
      BY <1>2 DEF IInv, OrderInv, PostedInv
    <3>3. Before(Accepted', Range(posted'[i].data))
      BY <1>5, <1>7, <3>2 DEF Before
    <3>4. ASSUME NEW j \in DOMAIN posted', i < j PROVE Before(Range(posted'[i].data), Range(posted'[j].data))
      BY <1>2, <1>3, <3>4 DEF IInv, OrderInv, PostedInv
    <3> QED BY <3>1, <3>3, <3>4
  <2> QED BY <2>1 DEF PostedInv, InOrder, Before
<1>9. UnderwayInv'
  <2>1. ASSUME NEW t \in Threads
        PROVE  /\ Before(Accepted', Range(underway[t].data))
               /\ \A i \in DOMAIN posted' : Before(Range(posted'[i].data), Range(underway[t].data))
    <3>1. Before(Accepted, Range(underway[t].data)) /\ Before(Range(data), Range(underway[t].data))
      BY <1>5 DEF IInv, OrderInv, UnderwayInv
    <3>2. Before(Accepted', Range(underway[t].data))
      BY <1>7, <3>1 DEF Before
    <3> QED BY <1>2, <3>2 DEF IInv, OrderInv, UnderwayInv
  <2> QED BY <1>1, <2>1 DEF IInv, OrderInv, UnderwayInv, InOrder, Before
<1>10. CountInv'
  <2>1. \A x \in Accepted' : x[2] <= called[x[1]]
    BY <1>5, <1>7 DEF IInv, OrderInv, CountInv, Counted
  <2>2. \A i \in DOMAIN posted' : \A x \in Range(posted'[i].data) : x[2] <= called[x[1]]
    BY <1>2 DEF IInv, OrderInv, CountInv, Counted
  <2> QED BY <1>1, <2>1, <2>2 DEF IInv, OrderInv, CountInv, Counted
<1> QED BY <1>6, <1>8, <1>9, <1>10 DEF IInv, OrderInv

\* Thread t has handed over the bytes of its call; the other calls stay.
UnderwayEmptied(t) ==
  underway'[t].data = <<>> /\ \A u \in Threads \ {t} : underway'[u] = underway[u]

\* shutdown(), forceClose() and forceCloseWithDelay() of another thread, up to
\* the post, move no byte either.
LEMMA CloseTestsStep ==
  ASSUME IInv, NEW t \in Threads, NEW call \in Closing, CloseTests(t, call) PROVE IInv'
<1>1. /\ UNCHANGED <<state_, sent, outputBuffer_, writing, notice, timer, closed, halfClosed, broken,
                     posted, called>>
      /\ underway' = [underway EXCEPT ![t] = [step |-> call, data |-> <<>>]]
      /\ tested' = tested \union {t}
  BY DEF CloseTests, Call, kernelVars, loopVars
<1>2. TypeOK'
  <2>1. promised' \in SUBSET ByteSet
    <3>1. \A n \in 1..called[t] : <<t, n>> \in ByteSet
      BY SendAssumption DEF IInv, TypeOK, ByteSet, Sources
    <3> QED BY <3>1 DEF IInv, TypeOK, CloseTests
  <2>2. underway' \in [Threads -> [step : {"none", "send"} \union Closing, data : Seq(ByteSet)]]
    <3> DEFINE M == [step : {"none", "send"} \union Closing, data : Seq(ByteSet)]
    <3>1. [step |-> call, data |-> <<>>] \in M
      BY EmptyBytes
    <3>2. underway \in [Threads -> M]
      BY DEF IInv, TypeOK
    <3> HIDE DEF M
    <3>3. underway' \in [Threads -> M]
      BY <1>1, <3>1, <3>2
    <3> QED BY <3>3 DEF M
  <2> QED BY <1>1, <2>1, <2>2 DEF IInv, TypeOK
<1>3. WriteInv'
  BY <1>1 DEF IInv, WriteInv, WritingWhileBuffered
<1>4. UnderwayEmptied(t)
  BY <1>1 DEF IInv, TypeOK, UnderwayEmptied
<1>5. OrderedPerSource' /\ Accepted' = Accepted
  BY <1>1 DEF IInv, OrderInv, OrderedPerSource, InOrder, Accepted
<1>6. PostedInv'
  BY <1>1, <1>5 DEF IInv, OrderInv, PostedInv, InOrder, Before
<1>7. UnderwayInv'
  BY <1>1, <1>4, <1>5, EmptyBytes DEF IInv, OrderInv, UnderwayInv, UnderwayEmptied, InOrder, Before
<1>8. CountInv'
  BY <1>1, <1>4, <1>5, EmptyBytes DEF IInv, OrderInv, CountInv, UnderwayEmptied, Counted
<1> QED BY <1>2, <1>3, <1>5, <1>6, <1>7, <1>8 DEF IInv, OrderInv

\* The assignment of kDisconnecting, also to a closed connection.
LEMMA CloseSetsStep == ASSUME IInv, NEW t \in Threads, CloseSets(t) PROVE IInv'
<1>1. /\ UNCHANGED <<sent, outputBuffer_, writing, notice, timer, closed, halfClosed, broken,
                     posted, underway, called, promised>>
      /\ state_' = "kDisconnecting" /\ tested' = tested \ {t}
  BY DEF CloseSets, kernelVars, loopVars
<1>2. TypeOK'
  BY <1>1 DEF IInv, TypeOK
<1>3. WriteInv'
  BY <1>1 DEF IInv, WriteInv, WritingWhileBuffered
<1> QED BY <1>1, <1>2, <1>3, OrderUnchanged DEF IInv

\* send() in another thread, up to the post.
LEMMA SendTestsStep == ASSUME IInv, NEW t \in Threads, NEW len \in Lengths, SendTests(t, len) PROVE IInv'
<1>1. len \in Nat /\ t \in Sources /\ called[t] \in Nat /\ called[t] + len <= MaxBytes /\ MaxBytes \in Nat
  BY SendAssumption DEF IInv, TypeOK, SendTests, Sources
<1>2. PICK data \in Seq(ByteSet) :
        /\ data = Bytes(t, len) /\ InOrder(data)
        /\ \A x \in Range(data) : x[1] = t /\ x[2] <= called[t] + len
        /\ \A A \in SUBSET ByteSet : Counted(A) => Before(A, Range(data))
  BY <1>1, NextBytes DEF IInv
<1>3. /\ underway' = [underway EXCEPT ![t] = [step |-> "send", data |-> data]]
      /\ called' = [called EXCEPT ![t] = @ + len]
      /\ UNCHANGED <<state_, outputBuffer_, writing, halfClosed, broken, sent, notice, timer, closed,
                     posted, tested, promised>>
  BY <1>2 DEF SendTests, Call, kernelVars, loopVars
<1>4. underway'[t].data = data /\ \A u \in Threads \ {t} : underway'[u].data = underway[u].data
  BY <1>3 DEF IInv, TypeOK
<1>5. called'[t] = called[t] + len /\ \A s \in Sources \ {t} : called'[s] = called[s]
  BY <1>1, <1>3 DEF IInv, TypeOK
<1>6. TypeOK'
  <2>1. underway' \in [Threads -> [step : {"none", "send"} \union Closing, data : Seq(ByteSet)]]
    BY <1>3 DEF IInv, TypeOK
  <2>2. called' \in [Sources -> 0..MaxBytes]
    BY <1>1, <1>3 DEF IInv, TypeOK
  <2> QED BY <1>3, <2>1, <2>2 DEF IInv, TypeOK
<1>7. WriteInv'
  BY <1>3 DEF IInv, WriteInv, WritingWhileBuffered
<1>8. OrderedPerSource' /\ Accepted' = Accepted
  BY <1>3 DEF IInv, OrderInv, OrderedPerSource, InOrder, Accepted
<1>9. PostedInv'
  BY <1>3, <1>8 DEF IInv, OrderInv, PostedInv, InOrder, Before
<1>10. UnderwayInv'
  <2>1. Before(Accepted, Range(data)) /\ \A i \in DOMAIN posted : Before(Range(posted[i].data), Range(data))
    BY <1>2, AllBytes DEF IInv, OrderInv, CountInv
  <2> QED BY <1>2, <1>3, <1>4, <1>8, <2>1 DEF IInv, OrderInv, UnderwayInv, InOrder, Before
<1>11. CountInv'
  <2>1. \A A \in SUBSET ByteSet : Counted(A) => \A x \in A : x[2] <= called'[x[1]]
    BY <1>1, <1>5, CountGrows DEF IInv
  <2>2. \A x \in Range(data) : x[2] <= called'[x[1]]
    BY <1>2, <1>5
  <2>3. Counted(Accepted)'
    BY <1>8, <2>1, AllBytes DEF IInv, OrderInv, CountInv, Counted
  <2>4. \A i \in DOMAIN posted : \A x \in Range(posted[i].data) : x[2] <= called'[x[1]]
    BY <2>1, AllBytes DEF IInv, OrderInv, CountInv
  <2>5. \A u \in Threads : \A x \in Range(underway'[u].data) : x[2] <= called'[x[1]]
    BY <1>4, <2>1, <2>2, AllBytes DEF IInv, OrderInv, CountInv
  <2> QED BY <1>3, <2>3, <2>4, <2>5 DEF CountInv, Counted
<1> QED BY <1>6, <1>7, <1>8, <1>9, <1>10, <1>11 DEF IInv, OrderInv

\* The post: the call goes behind the posted ones.
LEMMA PostStep == ASSUME IInv, NEW t \in Threads, Post(t) PROVE IInv'
<1> DEFINE M == [step : {"send"} \union Closing, data : Seq(ByteSet)]
<1>1. PICK m \in M : m = underway[t]
  BY DEF IInv, TypeOK, Post
<1>2. /\ posted' = Append(posted, m) /\ underway' = [underway EXCEPT ![t] = [step |-> "none", data |-> <<>>]]
      /\ UNCHANGED <<state_, outputBuffer_, writing, halfClosed, broken, sent, notice, timer, closed,
                     tested, called, promised>>
  BY <1>1 DEF Post, Returned, kernelVars, loopVars
<1>3. posted \in Seq(M)
  BY DEF IInv, TypeOK
<1>4. /\ posted' \in Seq(M)
      /\ \A i \in DOMAIN posted : i \in DOMAIN posted' /\ posted'[i] = posted[i]
      /\ \A i \in DOMAIN posted' : i \in DOMAIN posted \/ posted'[i] = m
      /\ \A i, j \in DOMAIN posted' : i < j => i \in DOMAIN posted
  <2> HIDE DEF M
  <2> QED BY <1>2, <1>3
<1>5. UnderwayEmptied(t)
  BY <1>2 DEF IInv, TypeOK, UnderwayEmptied
<1>6. TypeOK'
  <2>1. underway' \in [Threads -> [step : {"none", "send"} \union Closing, data : Seq(ByteSet)]]
    BY <1>2, EmptyBytes DEF IInv, TypeOK
  <2> QED BY <1>2, <1>4, <2>1 DEF IInv, TypeOK
<1>7. WriteInv'
  BY <1>2 DEF IInv, WriteInv, WritingWhileBuffered
<1>8. OrderedPerSource' /\ Accepted' = Accepted
  BY <1>2 DEF IInv, OrderInv, OrderedPerSource, InOrder, Accepted
<1>9. /\ InOrder(m.data) /\ \A x \in Range(m.data) : x[1] = t
      /\ Before(Accepted, Range(m.data)) /\ Counted(Range(m.data))
      /\ \A i \in DOMAIN posted : Before(Range(posted[i].data), Range(m.data))
  BY <1>1 DEF IInv, OrderInv, UnderwayInv, CountInv
<1> HIDE DEF M
<1>10. PostedInv'
  <2>1. ASSUME NEW i \in DOMAIN posted'
        PROVE  /\ InOrder(posted'[i].data) /\ \A x \in Range(posted'[i].data) : x[1] \in Threads
               /\ Before(Accepted, Range(posted'[i].data))
               /\ \A j \in DOMAIN posted' : i < j => Before(Range(posted'[i].data), Range(posted'[j].data))
    <3>1. CASE posted'[i] = m /\ i \notin DOMAIN posted
      BY <1>4, <1>9, <3>1
    <3>2. CASE i \in DOMAIN posted
      <4>1. ASSUME NEW j \in DOMAIN posted', i < j PROVE Before(Range(posted'[i].data), Range(posted'[j].data))
        <5>1. CASE j \in DOMAIN posted
          BY <1>4, <3>2, <4>1, <5>1 DEF IInv, OrderInv, PostedInv
        <5>2. CASE posted'[j] = m
          BY <1>4, <1>9, <3>2, <5>2
        <5> QED BY <1>4, <5>1, <5>2
      <4> QED BY <1>4, <3>2, <4>1 DEF IInv, OrderInv, PostedInv
    <3> QED BY <1>4, <3>1, <3>2
  <2> QED BY <1>8, <2>1 DEF PostedInv, InOrder, Before
<1>11. UnderwayInv'
  <2>1. ASSUME NEW u \in Threads, u # t, NEW i \in DOMAIN posted'
        PROVE  Before(Range(posted'[i].data), Range(underway[u].data))
    <3>1. CASE i \in DOMAIN posted
      BY <1>4, <3>1 DEF IInv, OrderInv, UnderwayInv
    <3>2. CASE posted'[i] = m
      BY <1>9, <2>1, <3>2 DEF IInv, OrderInv, UnderwayInv, Before
    <3> QED BY <1>4, <3>1, <3>2
  <2>2. ASSUME NEW u \in Threads, u # t
        PROVE  /\ InOrder(underway'[u].data) /\ \A x \in Range(underway'[u].data) : x[1] = u
               /\ Before(Accepted', Range(underway'[u].data))
               /\ \A i \in DOMAIN posted' : Before(Range(posted'[i].data), Range(underway'[u].data))
    BY <1>5, <1>8, <2>1, <2>2 DEF IInv, OrderInv, UnderwayInv, UnderwayEmptied
  <2>3. underway'[t].data = <<>>
    BY <1>5 DEF UnderwayEmptied
  <2> QED BY <2>2, <2>3, EmptyBytes DEF UnderwayInv, InOrder, Before
<1>12. CountInv'
  <2>1. ASSUME NEW i \in DOMAIN posted' PROVE \A x \in Range(posted'[i].data) : x[2] <= called[x[1]]
    BY <1>4, <1>9 DEF IInv, OrderInv, CountInv, Counted
  <2>2. ASSUME NEW u \in Threads PROVE \A x \in Range(underway'[u].data) : x[2] <= called[x[1]]
    BY <1>5, EmptyBytes DEF IInv, OrderInv, CountInv, Counted, UnderwayEmptied
  <2> QED BY <1>2, <1>8, <2>1, <2>2 DEF IInv, OrderInv, CountInv, Counted
<1> QED BY <1>6, <1>7, <1>8, <1>10, <1>11, <1>12 DEF IInv, OrderInv

\* Every step keeps the invariant.
LEMMA NextInv == IInv /\ [Next]_vars => IInv'
<1> SUFFICES ASSUME IInv, [Next]_vars PROVE IInv'
  OBVIOUS
<1>1. CASE Next
  BY <1>1, SendStep, QuietStep, ForceCloseStep, RunPostedStep, HandleWriteStep, SendTestsStep,
     CloseTestsStep, CloseSetsStep, PostStep DEF Next, ThreadStep
<1>2. CASE UNCHANGED vars
  <2>1. UNCHANGED <<state_, outputBuffer_, writing, halfClosed, broken, sent, notice, posted,
                    timer, closed, underway, tested, called, promised>>
    BY <1>2 DEF vars, loopVars, kernelVars, userVars
  <2>2. TypeOK'
    BY <2>1 DEF IInv, TypeOK
  <2>3. WriteInv'
    BY <2>1 DEF IInv, WriteInv, WritingWhileBuffered
  <2> QED BY <2>1, <2>2, <2>3, OrderUnchanged DEF IInv
<1> QED BY <1>1, <1>2

\* sendInLoop and handleWrite keep the order of every thread's bytes, whichever
\* way a byte takes (written at once, or through the output buffer, by the loop
\* or posted by another thread), also when a closed connection is made
\* kDisconnecting again; and until handleClose the channel is enabled for
\* writing exactly while bytes are buffered.
THEOREM OrderIsKept == Spec => []BytesInOrder
<1>1. IInv => BytesInOrder
  BY DEF IInv, OrderInv, WriteInv, BytesInOrder
<1> QED BY InitInv, NextInv, <1>1, PTL DEF Spec, SafetySpec

-----------------------------------------------------------------------------
(* Refinement of ByteStream. *)

\* A step that only adds to the stream's end, or moves within it, is a Move.
LEMMA Moves ==
  ASSUME TypeOK, TypeOK', NEW d \in Seq(ByteSet), NEW e \in Seq(ByteSet),
         sent' = sent \o d, sent' \o outputBuffer_' = (sent \o outputBuffer_) \o e,
         halfClosed => halfClosed' /\ sent' = sent /\ (closed \/ outputBuffer_' = outputBuffer_),
         halfClosed' => closed \/ outputBuffer_' = <<>>,
         ~Over, ~Over', UNCHANGED closed
  PROVE  Stream!Move
<1>1. sent \in Seq(ByteSet) /\ sent \o outputBuffer_ \in Seq(ByteSet) /\ halfClosed' \in BOOLEAN
  BY DEF TypeOK
<1>2. Stream!IsPrefix(sent, sent') /\ Stream!IsPrefix(sent \o outputBuffer_, sent' \o outputBuffer_')
  BY <1>1, PrefixConcat
<1>3. Over = FALSE /\ Over' = FALSE
  BY DEF Over
<1> QED BY <1>1, <1>2, <1>3 DEF Stream!Move

\* Each step of the sending side is a step of the stream, or none.
LEMMA StepRefines == IInv /\ IInv' /\ [Next]_vars => [Stream!Move \/ Stream!End]_(Stream!svars)
<1> SUFFICES ASSUME IInv, IInv', [Next]_vars PROVE Stream!Move \/ Stream!End \/ UNCHANGED Stream!svars
  OBVIOUS
<1>t. /\ TypeOK /\ TypeOK' /\ WriteInv /\ <<>> \in Seq(ByteSet)
      /\ sent \o <<>> = sent /\ (sent \o outputBuffer_) \o <<>> = sent \o outputBuffer_
      /\ halfClosed \in BOOLEAN /\ halfClosed' \in BOOLEAN /\ closed \in BOOLEAN
  BY DEF IInv, TypeOK
<1>0. ASSUME UNCHANGED <<sent, outputBuffer_, halfClosed, closed, Over>> PROVE UNCHANGED Stream!svars
  BY <1>0 DEF Stream!svars
<1>o. Over => closed /\ state_ = "kDisconnected"
  BY <1>t DEF Over, WriteInv
<1>1. ASSUME NEW data \in Seq(ByteSet), SendInLoop(data), UNCHANGED <<halfClosed, state_, closed, tested>>
      PROVE  Stream!Move \/ UNCHANGED Stream!svars
  <2>0. UNCHANGED Over
    BY <1>1 DEF Over
  <2>1. CASE Over
    BY <1>0, <1>1, <1>o, <1>t, <2>0, <2>1, SendInLoopEffect
  <2>2. CASE ~Over
    <3>1. PICK d \in Seq(ByteSet) : sent' = sent \o d
      BY <1>1, <1>t, SendInLoopEffect
    <3>2. PICK e \in Seq(ByteSet) : sent' \o outputBuffer_' = (sent \o outputBuffer_) \o e
      BY <1>1, <1>t, SendInLoopEffect
    <3>3. halfClosed => sent' = sent /\ (closed \/ outputBuffer_' = outputBuffer_)
      BY <1>1, <1>t, SendInLoopEffect
    <3>4. halfClosed' => closed \/ outputBuffer_' = <<>>
      BY <1>1, <1>t, <3>3 DEF WriteInv
    <3> QED BY <1>1, <1>t, <2>0, <2>2, <3>1, <3>2, <3>3, <3>4, Moves
  <2> QED BY <2>1, <2>2
<1>2. ASSUME ShutdownInLoop, UNCHANGED <<sent, outputBuffer_, closed, Over>>
      PROVE  Stream!Move \/ Stream!End \/ UNCHANGED Stream!svars
  <2>1. CASE Over
    BY <1>2, <1>o, <2>1 DEF Stream!End, Over
  <2>2. CASE ~Over
    <3>1. halfClosed' => closed \/ outputBuffer_' = <<>>
      BY <1>2, <1>t DEF ShutdownInLoop, WriteInv, WritingWhileBuffered
    <3>2. halfClosed => halfClosed'
      BY <1>2 DEF ShutdownInLoop
    <3> QED BY <1>2, <1>t, <2>2, <3>1, <3>2, Moves
  <2> QED BY <2>1, <2>2
<1>c. ASSUME HandleClose, state_ # "kDisconnected", UNCHANGED <<sent, outputBuffer_, halfClosed>>
      PROVE  Stream!End
  BY <1>c, <1>t DEF HandleClose, Stream!End, Over
<1>3. ASSUME NEW len \in Lengths, Send(len) PROVE Stream!Move \/ UNCHANGED Stream!svars
  <2>1. Bytes(Loop, len) \in Seq(ByteSet)
    BY <1>3, <1>t, NextBytes, SendAssumption DEF Send, Sources
  <2> QED BY <1>1, <1>3, <2>1 DEF Send
<1>4. CASE Shutdown
  <2>1. UNCHANGED Over
    BY <1>4 DEF Shutdown, Over
  <2> QED BY <1>2, <1>4, <2>1 DEF Shutdown, loopVars
<1>5. CASE RunPosted
  <2> DEFINE M == [step : {"send"} \union Closing, data : Seq(ByteSet)]
  <2>0. posted \in Seq(M) /\ posted # <<>> /\ UNCHANGED tested
    BY <1>5, <1>t DEF RunPosted, TypeOK, userVars
  <2>1. Head(posted) \in M
    <3> HIDE DEF M
    <3> QED BY <2>0
  <2>2. CASE Head(posted).step = "send"
    BY <1>1, <1>5, <2>0, <2>1, <2>2 DEF RunPosted
  <2>3. CASE Head(posted).step = "shutdown"
    <3>1. UNCHANGED Over
      BY <1>5, <2>0, <2>3 DEF RunPosted, Over
    <3> QED BY <1>2, <1>5, <2>3, <3>1 DEF RunPosted, loopVars
  <2>4. CASE Head(posted).step = "forceClose" /\ state_ # "kDisconnected"
    BY <1>5, <1>c, <2>4 DEF RunPosted
  <2>5. CASE Head(posted).step = "forceClose" /\ state_ = "kDisconnected"
    BY <1>0, <1>5, <2>0, <2>5 DEF RunPosted, Over
  <2>6. CASE Head(posted).step = "forceCloseWithDelay"
    BY <1>0, <1>5, <2>0, <2>6 DEF RunPosted, Over
  <2> QED BY <2>1, <2>2, <2>3, <2>4, <2>5, <2>6 DEF Closing
<1>6. CASE HandleWrite
  <2>1. PICK d \in Seq(ByteSet) : sent' = sent \o d
    BY <1>6, <1>t, HandleWriteEffect
  <2>2. sent' \o outputBuffer_' = (sent \o outputBuffer_) \o <<>>
    BY <1>6, <1>t, HandleWriteEffect
  <2>3. state_ # "kDisconnected" /\ state_' # "kDisconnected" /\ ~halfClosed /\ UNCHANGED closed
    BY <1>6, <1>t DEF WriteInv, HandleWrite
  <2>4. halfClosed' => outputBuffer_' = <<>>
    BY <1>6, <2>3 DEF HandleWrite
  <2>5. ~Over /\ ~Over'
    BY <2>3 DEF Over
  <2> QED BY <1>t, <2>1, <2>2, <2>3, <2>4, <2>5, Moves
<1>7. CASE PeerCloses
  BY <1>7, <1>c DEF PeerCloses, kernelVars
<1>8. CASE Reset
  BY <1>0, <1>8 DEF Reset, Over, loopVars, userVars
<1>9. ASSUME NEW t \in Threads, ThreadStep(t) PROVE UNCHANGED Stream!svars
  <2>1. UNCHANGED <<sent, outputBuffer_, halfClosed, closed>>
    BY <1>9 DEF ThreadStep, SendTests, CloseTests, CloseSets, Post, kernelVars, loopVars
  <2>2. UNCHANGED Over
    <3>1. CASE \E call \in Closing : CloseTests(t, call)
      BY <3>1 DEF CloseTests, MayClose, Over
    <3>2. CASE CloseSets(t)
      BY <3>2 DEF CloseSets, Over
    <3>3. CASE Post(t) \/ \E len \in Lengths : SendTests(t, len)
      BY <3>3 DEF Post, SendTests, Over
    <3> QED BY <1>9, <3>1, <3>2, <3>3 DEF ThreadStep
  <2> QED BY <1>0, <2>1, <2>2
<1>10. CASE UNCHANGED vars
  BY <1>0, <1>10 DEF vars, kernelVars, loopVars, userVars, Over
<1>11. CASE ForceClose \/ ForceCloseWithDelay \/ TimerFires
  BY <1>0, <1>11 DEF ForceClose, ForceCloseWithDelay, TimerFires, Over, kernelVars, loopVars, userVars
<1> QED BY <1>3, <1>4, <1>5, <1>6, <1>7, <1>8, <1>9, <1>10, <1>11 DEF Next

\* sendInLoop, handleWrite, shutdownInLoop and handleClose together implement a
\* byte stream: nothing overtakes, nothing is lost from the middle; until
\* handleClose the write side is shut down only when nothing is buffered, and
\* nothing is written after it; what a late assignment of kDisconnecting lets
\* through after handleClose still goes to the end of the stream.
THEOREM SendingImplementsStream == Spec => ImplementsStream
<1>1. Init => Stream!StreamInit
  BY DEF Init, Stream!StreamInit, Over
<1> QED BY <1>1, InitInv, NextInv, StepRefines, PTL
        DEF Spec, SafetySpec, ImplementsStream, Stream!StreamSpec
=============================================================================
