------------------------- MODULE AsyncLoggingProofs -------------------------
(***************************************************************************)
(* Proofs about module AsyncLogging, whatever the size of the buffers, the *)
(* limit for dropping and the number of lines: the assertions of           *)
(* threadFunc never fail, and no line is lost, doubled or overtaken.       *)
(***************************************************************************)
EXTENDS AsyncLogging, TLAPS

\* Outside the writing of a round the back end has its two spare buffers,
\* empty; inside it, the first went to the front end, and the second did only
\* if there are two buffers to write.
SparesInv ==
  /\ thread # "write" => newBuffer1 = <<>> /\ newBuffer2 = <<>> /\ buffersToWrite = <<>>
  /\ thread = "write" => /\ newBuffer1 = NULL
                         /\ newBuffer2 \in {NULL, <<>>}
                         /\ Len(buffersToWrite) >= IF newBuffer2 = NULL THEN 2 ELSE 1

\* The front end's spare buffer is empty, and is used up only if a full
\* buffer was queued since the back end looked.
FrontInv ==
  /\ nextBuffer_ \in {NULL, <<>>}
  /\ nextBuffer_ = NULL => Len(buffers_) >= 1

Buffers == {b \in Seq(1..MaxLines) : Len(b) <= Capacity}

Types ==
  /\ running_ \in BOOLEAN
  /\ currentBuffer_ \in Buffers
  /\ buffers_ \in Seq(Buffers) /\ buffersToWrite \in Seq(Buffers)
  /\ thread \in {"unstarted", "begin", "test", "lock", "wait", "swap", "write", "ended"}
  /\ owner \in {"new", "latch", "started", "notifying", "joining", "joined"}
  /\ lines \in 0..MaxLines /\ dropped \subseteq 1..lines

\* The lines in the buffers are lines that were appended, hence so are the
\* dropped ones.
Appended(b) == \A k \in DOMAIN b : b[k] \in 1..lines
LinesInv ==
  /\ Appended(currentBuffer_)
  /\ \A i \in DOMAIN buffers_ : Appended(buffers_[i])
  /\ \A i \in DOMAIN buffersToWrite : Appended(buffersToWrite[i])

\* The thread runs only after start().
StartInv == owner = "new" => thread = "unstarted"

IInv == Types /\ SparesInv /\ FrontInv /\ LinesInv /\ StartInv

-----------------------------------------------------------------------------
\* The program's start satisfies the invariant.
LEMMA InitInv == Init => IInv
<1> SUFFICES ASSUME Init PROVE IInv
  OBVIOUS
<1>1. <<>> \in Buffers
  BY CapacityAssumption DEF Buffers
<1>2. Types
  <2>1. <<>> \in Seq(Buffers)
    OBVIOUS
  <2>2. lines \in 0..MaxLines /\ dropped \subseteq 1..lines
    BY LinesAssumption DEF Init
  <2>3. /\ currentBuffer_ \in Buffers
        /\ buffers_ \in Seq(Buffers) /\ buffersToWrite \in Seq(Buffers)
    BY <1>1, <2>1 DEF Init
  <2>4. running_ \in BOOLEAN
    BY DEF Init
  <2> QED BY <2>2, <2>3, <2>4 DEF Init, Types
<1>3. SparesInv /\ FrontInv /\ StartInv
  BY NullAssumption DEF Init, SparesInv, FrontInv, StartInv
<1>4. LinesInv
  BY DEF Init, LinesInv, Appended
<1> QED BY <1>2, <1>3, <1>4 DEF IInv

\* What is written is a beginning of what was taken, and two buffers of it are
\* left wherever two were taken.
LEMMA WrittenBuffers ==
  ASSUME Types, Len(buffersToWrite) >= 1
  PROVE  /\ Written \in Seq(Buffers)
         /\ Len(Written) \in 1..Len(buffersToWrite)
         /\ Len(buffersToWrite) >= 2 => Len(Written) >= 2
BY DropAssumption DEF Types, Written, TooMany, Kept

\* The steps of append().
LEMMA AppendStep == IInv /\ (AppendFits \/ AppendFull) => IInv'
<1> SUFFICES ASSUME IInv, AppendFits \/ AppendFull PROVE IInv'
  OBVIOUS
<1> USE LinesAssumption, CapacityAssumption, NullAssumption
<1>1. CASE AppendFits
  <2>1. Types'
    BY <1>1 DEF IInv, Types, AppendFits, Buffers, back
  <2>2. SparesInv' /\ FrontInv'
    BY <1>1 DEF IInv, SparesInv, FrontInv, AppendFits, back
  <2>3. LinesInv'
    BY <1>1 DEF IInv, Types, LinesInv, Appended, AppendFits, Buffers, back
  <2>4. StartInv'
    BY <1>1 DEF IInv, StartInv, AppendFits
  <2> QED BY <2>1, <2>2, <2>3, <2>4 DEF IInv
<1>2. CASE AppendFull
  <2>1. /\ buffers_' = Append(buffers_, currentBuffer_)
        /\ lines' = lines + 1 /\ lines + 1 \in 1..MaxLines
        /\ currentBuffer_' \in Buffers
        /\ \A k \in DOMAIN currentBuffer_' : currentBuffer_'[k] = lines + 1
    <3>1. lines' = lines + 1 /\ lines + 1 \in 1..MaxLines
      BY <1>2 DEF IInv, Types, AppendFull
    <3>2. currentBuffer_' = Append(<<>>, lines + 1)
      BY <1>2 DEF IInv, FrontInv, AppendFull
    <3>3. Append(<<>>, lines + 1) \in Seq(1..MaxLines) /\ Len(Append(<<>>, lines + 1)) = 1
      BY <3>1
    <3>4. \A k \in DOMAIN Append(<<>>, lines + 1) : Append(<<>>, lines + 1)[k] = lines + 1
      BY <3>1
    <3>5. currentBuffer_' \in Buffers
      BY <3>2, <3>3, CapacityAssumption DEF Buffers
    <3>6. \A k \in DOMAIN currentBuffer_' : currentBuffer_'[k] = lines + 1
      BY <3>2, <3>4, Zenon
    <3> QED BY <1>2, <3>1, <3>5, <3>6 DEF AppendFull
  <2>2. Types'
    <3>1. buffers_' \in Seq(Buffers)
      BY <2>1 DEF IInv, Types
    <3> QED BY <1>2, <2>1, <3>1 DEF IInv, Types, AppendFull, back, Notified
  <2>3. SparesInv'
    BY <1>2 DEF IInv, SparesInv, AppendFull, back, Notified
  <2>4. FrontInv'
    BY <1>2, <2>1 DEF IInv, Types, FrontInv, AppendFull
  <2>5. LinesInv'
    <3>1. Appended(currentBuffer_)'
      BY <2>1 DEF IInv, Types, Appended
    <3>2. ASSUME NEW b, Appended(b) PROVE \A k \in DOMAIN b : b[k] \in 1..lines'
      BY <2>1, <3>2 DEF IInv, Types, Appended
    <3>3. ASSUME NEW i \in DOMAIN buffers_' PROVE Appended(buffers_[i])'
      <4>1. Appended(buffers_'[i])
        BY <2>1, <3>3 DEF IInv, Types, LinesInv
      <4> QED BY <4>1, <3>2 DEF Appended
    <3>4. ASSUME NEW i \in DOMAIN buffersToWrite' PROVE Appended(buffersToWrite[i])'
      BY <1>2, <3>2, <3>4 DEF IInv, LinesInv, AppendFull, back, Appended
    <3> QED BY <3>1, <3>3, <3>4 DEF LinesInv
  <2>6. StartInv'
    BY <1>2 DEF IInv, StartInv, AppendFull, Notified
  <2> QED BY <2>2, <2>3, <2>4, <2>5, <2>6 DEF IInv
<1> QED BY <1>1, <1>2

\* Swap takes the queued buffers and the current one; if the spare buffer of
\* the front end was used, at least one was queued, so that two are taken.
LEMMA SwapStep == IInv /\ Swap => IInv'
<1> SUFFICES ASSUME IInv, Swap PROVE IInv'
  OBVIOUS
<1> USE LinesAssumption, CapacityAssumption, NullAssumption
<1>1. /\ newBuffer1 = <<>> /\ newBuffer2 = <<>> /\ buffersToWrite = <<>>
      /\ buffersToWrite' = Append(buffers_, currentBuffer_)
      /\ buffers_' = <<>> /\ currentBuffer_' = <<>>
  BY DEF IInv, SparesInv, Swap
<1>2. Types'
  BY <1>1 DEF IInv, Types, Swap, Buffers
<1>3. SparesInv'
  BY <1>1 DEF IInv, Types, SparesInv, FrontInv, Swap
<1>4. FrontInv'
  BY <1>1 DEF IInv, FrontInv, Swap
<1>5. LinesInv'
  BY <1>1 DEF IInv, Types, LinesInv, Appended, Swap
<1>6. StartInv'
  BY DEF IInv, StartInv, Swap
<1> QED BY <1>2, <1>3, <1>4, <1>5, <1>6 DEF IInv

\* Write gives the back end its two empty spare buffers again.
LEMMA WriteStep == IInv /\ Write => IInv'
<1> SUFFICES ASSUME IInv, Write PROVE IInv'
  OBVIOUS
<1>1. SparesInv'
  BY NullAssumption DEF IInv, SparesInv, Write, reset
<1>2. FrontInv'
  BY DEF IInv, FrontInv, Write, front
<1>3. LinesInv'
  BY DEF IInv, LinesInv, Appended, Write, front
<1>4. dropped' \subseteq 1..lines
  <2>1. LinesIn(buffersToWrite) \subseteq 1..lines
    <3> SUFFICES ASSUME NEW x \in LinesIn(buffersToWrite) PROVE x \in 1..lines
      OBVIOUS
    <3>1. PICK i \in DOMAIN buffersToWrite :
            x \in {buffersToWrite[i][j] : j \in DOMAIN buffersToWrite[i]}
      BY Zenon DEF LinesIn
    <3> QED BY <3>1 DEF IInv, LinesInv, Appended
  <2> QED BY <2>1 DEF IInv, Types, Write
<1>5. Types'
  BY <1>4 DEF IInv, Types, Write, front
<1>6. StartInv'
  BY DEF IInv, StartInv, Write
<1> QED BY <1>1, <1>2, <1>3, <1>5, <1>6 DEF IInv

\* The steps that move no buffer.
LEMMA OtherStep ==
  IInv /\ (Start \/ Stop \/ StopNotify \/ Join \/ Begin \/ TestRunning \/ Lock \/ WaitEnds
           \/ UNCHANGED vars) => IInv'
<1> SUFFICES ASSUME IInv, Start \/ Stop \/ StopNotify \/ Join \/ Begin \/ TestRunning \/ Lock
                          \/ WaitEnds \/ UNCHANGED vars
             PROVE IInv'
  OBVIOUS
<1>1. UNCHANGED <<front, back, lines, dropped>>
  BY DEF Start, Stop, StopNotify, Join, Begin, TestRunning, Lock, WaitEnds, vars
<1>2. Types'
  BY <1>1 DEF IInv, Types, Start, Stop, StopNotify, Join, Begin, TestRunning, Lock, WaitEnds,
              vars, front, back, Notified
<1>3. thread' = "write" <=> thread = "write"
  BY DEF IInv, StartInv, Start, Stop, StopNotify, Join, Begin, TestRunning, Lock, WaitEnds,
         vars, Notified
<1>4. SparesInv' /\ FrontInv'
  BY <1>1, <1>3 DEF IInv, SparesInv, FrontInv, front, back
<1>5. LinesInv'
  BY <1>1 DEF IInv, LinesInv, Appended, front, back
<1>6. StartInv'
  BY DEF IInv, StartInv, Start, Stop, StopNotify, Join, Begin, TestRunning, Lock, WaitEnds,
         vars, Notified
<1> QED BY <1>2, <1>4, <1>5, <1>6 DEF IInv

\* The invariant says what the assertions say.
LEMMA InvAsserts == IInv => NoAssertFails
<1> SUFFICES ASSUME IInv PROVE NoAssertFails
  OBVIOUS
<1>1. TypeOK
  <2>1. IsBuffer(<<>>)
    BY CapacityAssumption DEF IsBuffer
  <2>2. \A b \in {nextBuffer_, newBuffer1, newBuffer2} : b = NULL \/ IsBuffer(b)
    BY <2>1 DEF IInv, SparesInv, FrontInv
  <2>3. \A bs \in {buffers_, buffersToWrite} : \A i \in DOMAIN bs : IsBuffer(bs[i])
    BY DEF IInv, Types, IsBuffer, Buffers
  <2> QED BY <2>2, <2>3 DEF IInv, Types, TypeOK, IsBuffer, Buffers
<1>2. ASSUME thread = "write" PROVE Left >= IF newBuffer2 = NULL THEN 2 ELSE 1
  BY <1>2, WrittenBuffers DEF IInv, SparesInv, Left, Kept
<1> QED BY <1>1, <1>2 DEF IInv, SparesInv, NoAssertFails

\* The assertions of threadFunc hold in every state: the two spare buffers come
\* back empty in every round, however full the front end was and whatever was
\* dropped, and resize() leaves enough buffers to recycle.
THEOREM AssertsHold == Spec => []NoAssertFails
<1>1. IInv /\ [Next]_vars => IInv'
  BY AppendStep, SwapStep, WriteStep, OtherStep DEF Next, ThreadFunc
<1> QED BY InitInv, <1>1, InvAsserts, PTL DEF Spec

-----------------------------------------------------------------------------
(* The order of the log.  The invariant is about its parts: the file, the  *)
(* buffers that are being written, the queued ones, the current one.       *)

Texts == [i \in DOMAIN file |-> file[i].text]

Entry == [notice : Nat, text : Buffers]

\* The order that LogIsInOrder asks of the log, for any sequence of buffers.
Ordered(s) ==
  \A i, j \in DOMAIN s : \A k \in DOMAIN s[i], l \in DOMAIN s[j] :
    i < j \/ (i = j /\ k < l) => s[i][k] < s[j][l]

Below(S, T) == \A x \in S, y \in T : x < y

\* Each part is in order ...
PartsInv ==
  /\ Ordered(Texts) /\ Ordered(buffersToWrite) /\ Ordered(buffers_) /\ Ordered(<<currentBuffer_>>)

\* ... every line of a part is older than the lines of the next ...
PlaceInv ==
  /\ Below(LinesIn(Texts), LinesIn(buffersToWrite))
  /\ Below(LinesIn(Texts), LinesIn(buffers_))
  /\ Below(LinesIn(Texts), LinesIn(<<currentBuffer_>>))
  /\ Below(LinesIn(buffersToWrite), LinesIn(buffers_))
  /\ Below(LinesIn(buffersToWrite), LinesIn(<<currentBuffer_>>))
  /\ Below(LinesIn(buffers_), LinesIn(<<currentBuffer_>>))

\* ... and together they hold all lines but the dropped ones.
InLog == LinesIn(Texts) \cup LinesIn(buffersToWrite) \cup LinesIn(buffers_)
           \cup LinesIn(<<currentBuffer_>>)
TotalInv == InLog = (1..lines) \ dropped

\* A buffer without lines can only be the last that was taken.
FilledInv ==
  /\ \A i \in DOMAIN buffers_ : buffers_[i] # <<>>
  /\ \A i \in DOMAIN buffersToWrite : i < Len(buffersToWrite) => buffersToWrite[i] # <<>>

\* Notice n stands for line d: the two buffers behind it have been written, all
\* lines up to them are older than d and all others younger.
StandsFor(n, d) ==
  /\ file[n].notice > 0
  /\ n + Kept <= Len(file)
  /\ \A i \in DOMAIN file : \A k \in DOMAIN file[i].text : file[i].text[k] < d <=> i <= n + Kept
  /\ Below({d}, LinesIn(buffersToWrite) \cup LinesIn(buffers_) \cup LinesIn(<<currentBuffer_>>))

NoticeInv == \A d \in dropped : \E n \in DOMAIN file : StandsFor(n, d)

OrderInv ==
  file \in Seq(Entry) /\ PartsInv /\ PlaceInv /\ TotalInv /\ FilledInv /\ NoticeInv

-----------------------------------------------------------------------------
\* The lines of a sequence of buffers, one by one.
LEMMA LinesMember ==
  \A s, x : x \in LinesIn(s) <=> \E i \in DOMAIN s : \E k \in DOMAIN s[i] : x = s[i][k]
<1> TAKE s, x
<1> DEFINE P == {{s[i][j] : j \in DOMAIN s[i]} : i \in DOMAIN s}
<1>1. x \in LinesIn(s) <=> \E S \in P : x \in S
  BY DEF LinesIn
<1>2. ASSUME NEW S \in P, x \in S PROVE \E i \in DOMAIN s : \E k \in DOMAIN s[i] : x = s[i][k]
  BY <1>2, Zenon
<1>3. ASSUME NEW i \in DOMAIN s, NEW k \in DOMAIN s[i], x = s[i][k] PROVE \E S \in P : x \in S
  <2>1. {s[i][j] : j \in DOMAIN s[i]} \in P
    OBVIOUS
  <2>2. x \in {s[i][j] : j \in DOMAIN s[i]}
    BY <1>3
  <2> QED BY <2>1, <2>2
<1> QED BY <1>1, <1>2, <1>3, Zenon

\* Lines are numbers.
LEMMA LinesAreNat == ASSUME NEW s \in Seq(Buffers) PROVE LinesIn(s) \subseteq Nat
<1> SUFFICES ASSUME NEW x \in LinesIn(s) PROVE x \in Nat
  OBVIOUS
<1>1. PICK i \in DOMAIN s : \E k \in DOMAIN s[i] : x = s[i][k]
  BY LinesMember
<1>2. PICK k \in DOMAIN s[i] : x = s[i][k]
  BY <1>1
<1>3. s[i] \in Seq(1..MaxLines)
  BY DEF Buffers
<1> QED BY <1>2, <1>3, LinesAssumption

\* Putting sequences of buffers behind one another.
LEMMA Joining ==
  ASSUME NEW s \in Seq(Buffers), NEW t \in Seq(Buffers)
  PROVE  /\ s \o t \in Seq(Buffers)
         /\ LinesIn(s \o t) = LinesIn(s) \cup LinesIn(t)
         /\ Ordered(s) /\ Ordered(t) /\ Below(LinesIn(s), LinesIn(t)) => Ordered(s \o t)
<1> DEFINE r == s \o t
<1>1. /\ r \in Seq(Buffers)
      /\ \A i \in DOMAIN s : i \in DOMAIN r /\ r[i] = s[i] /\ i \in 1..Len(s)
      /\ \A i \in DOMAIN t : Len(s) + i \in DOMAIN r /\ r[Len(s) + i] = t[i]
      /\ Len(s) \in Nat /\ DOMAIN s = 1..Len(s) /\ DOMAIN t = 1..Len(t) /\ Len(t) \in Nat
      /\ DOMAIN r = 1..(Len(s) + Len(t))
  OBVIOUS
<1> HIDE DEF r
<1>2. ASSUME NEW i \in DOMAIN r
      PROVE  \/ i \in DOMAIN s /\ r[i] = s[i]
             \/ i \notin DOMAIN s /\ i - Len(s) \in DOMAIN t /\ r[i] = t[i - Len(s)]
  <2>1. CASE i \in DOMAIN s
    BY <1>1, <2>1
  <2>2. CASE i \notin DOMAIN s
    <3>1. i - Len(s) \in DOMAIN t /\ Len(s) + (i - Len(s)) = i
      BY <1>1, <2>2
    <3> QED BY <1>1, <2>2, <3>1
  <2> QED BY <2>1, <2>2
<1>3. ASSUME NEW x PROVE x \in LinesIn(r) <=> x \in LinesIn(s) \/ x \in LinesIn(t)
  <2>1. ASSUME x \in LinesIn(r) PROVE x \in LinesIn(s) \/ x \in LinesIn(t)
    <3>1. PICK i \in DOMAIN r : \E k \in DOMAIN r[i] : x = r[i][k]
      BY <2>1, LinesMember
    <3>2. \/ i \in DOMAIN s /\ r[i] = s[i]
          \/ i - Len(s) \in DOMAIN t /\ r[i] = t[i - Len(s)]
      BY <1>2
    <3> QED BY <3>1, <3>2, LinesMember
  <2>2. ASSUME x \in LinesIn(s) PROVE x \in LinesIn(r)
    <3>1. PICK i \in DOMAIN s : \E k \in DOMAIN s[i] : x = s[i][k]
      BY <2>2, LinesMember
    <3>2. i \in DOMAIN r /\ r[i] = s[i]
      BY <1>1
    <3> QED BY <3>1, <3>2, LinesMember, Zenon
  <2>3. ASSUME x \in LinesIn(t) PROVE x \in LinesIn(r)
    <3>1. PICK i \in DOMAIN t : \E k \in DOMAIN t[i] : x = t[i][k]
      BY <2>3, LinesMember
    <3>2. Len(s) + i \in DOMAIN r /\ r[Len(s) + i] = t[i]
      BY <1>1
    <3>3. \E k \in DOMAIN r[Len(s) + i] : x = r[Len(s) + i][k]
      BY <3>1, <3>2, Zenon
    <3> QED BY <3>2, <3>3, LinesMember, Zenon
  <2> QED BY <2>1, <2>2, <2>3
<1>4. ASSUME Ordered(s), Ordered(t), Below(LinesIn(s), LinesIn(t)) PROVE Ordered(r)
  <2> SUFFICES ASSUME NEW i \in DOMAIN r, NEW j \in DOMAIN r,
                      NEW k \in DOMAIN r[i], NEW l \in DOMAIN r[j], i < j \/ (i = j /\ k < l)
               PROVE  r[i][k] < r[j][l]
    BY DEF Ordered
  <2>1. CASE i \in DOMAIN s /\ j \in DOMAIN s
    BY <1>1, <1>4, <2>1 DEF Ordered
  <2>2. CASE i \notin DOMAIN s /\ j \notin DOMAIN s
    <3> DEFINE p == i - Len(s)
               q == j - Len(s)
    <3>1. p \in DOMAIN t /\ q \in DOMAIN t /\ r[i] = t[p] /\ r[j] = t[q]
      BY <1>2, <2>2
    <3>2. p < q \/ (p = q /\ k < l)
      BY <1>1
    <3> HIDE DEF p, q
    <3> QED BY <1>4, <3>1, <3>2 DEF Ordered
  <2>3. CASE i \in DOMAIN s /\ j \notin DOMAIN s
    <3>1. r[i] = s[i] /\ j - Len(s) \in DOMAIN t /\ r[j] = t[j - Len(s)]
      BY <1>2, <2>3
    <3>2. r[i][k] \in LinesIn(s)
      BY <2>3, <3>1, LinesMember
    <3>3. r[j][l] \in LinesIn(t)
      BY <3>1, LinesMember
    <3> QED BY <1>4, <3>2, <3>3 DEF Below
  <2>4. i \notin DOMAIN s => j \notin DOMAIN s
    BY <1>1
  <2> QED BY <2>1, <2>2, <2>3, <2>4
<1> QED BY <1>1, <1>3, <1>4 DEF r

\* The lines of one buffer.
LEMMA OneBuffer ==
  ASSUME NEW b \in Buffers
  PROVE  /\ <<b>> \in Seq(Buffers)
         /\ \A x : x \in LinesIn(<<b>>) <=> \E k \in DOMAIN b : x = b[k]
         /\ Ordered(<<b>>) <=> \A k, l \in DOMAIN b : k < l => b[k] < b[l]
<1>1. <<b>> \in Seq(Buffers) /\ DOMAIN <<b>> = {1} /\ <<b>>[1] = b
  OBVIOUS
<1>2. \A x : x \in LinesIn(<<b>>) <=> \E k \in DOMAIN b : x = b[k]
  BY <1>1, LinesMember
<1>3. Ordered(<<b>>) <=> \A k, l \in DOMAIN b : k < l => b[k] < b[l]
  BY <1>1 DEF Ordered
<1> QED BY <1>1, <1>2, <1>3

\* No lines in no buffers, and none in an empty one.
LEMMA NoLines ==
  /\ <<>> \in Buffers /\ <<>> \in Seq(Buffers)
  /\ LinesIn(<<>>) = {} /\ LinesIn(<< <<>> >>) = {}
  /\ Ordered(<<>>) /\ Ordered(<< <<>> >>)
<1>1. <<>> \in Buffers /\ <<>> \in Seq(Buffers) /\ DOMAIN <<>> = {}
  BY CapacityAssumption DEF Buffers
<1>2. LinesIn(<<>>) = {} /\ Ordered(<<>>)
  <2>1. \A x : x \notin LinesIn(<<>>)
    BY <1>1, LinesMember
  <2> QED BY <1>1, <2>1 DEF Ordered
<1>3. LinesIn(<< <<>> >>) = {} /\ Ordered(<< <<>> >>)
  <2>1. \A x : x \notin LinesIn(<< <<>> >>)
    BY <1>1, OneBuffer
  <2> QED BY <1>1, <2>1, OneBuffer
<1> QED BY <1>1, <1>2, <1>3

\* push_back().
LEMMA AppendIsJoin ==
  ASSUME NEW s \in Seq(Buffers), NEW b \in Buffers PROVE Append(s, b) = s \o <<b>>
OBVIOUS

\* The parts of the log are sequences of buffers.
LEMMA PartTypes ==
  ASSUME Types, file \in Seq(Entry)
  PROVE  /\ Texts \in Seq(Buffers) /\ <<currentBuffer_>> \in Seq(Buffers)
         /\ Len(Texts) = Len(file) /\ DOMAIN Texts = DOMAIN file
         /\ \A i \in DOMAIN file : Texts[i] = file[i].text
<1>1. /\ Len(file) \in Nat /\ DOMAIN file = 1..Len(file)
      /\ \A i \in 1..Len(file) : file[i].text \in Buffers
  <2>1. Len(file) \in Nat /\ DOMAIN file = 1..Len(file) /\ \A i \in 1..Len(file) : file[i] \in Entry
    OBVIOUS
  <2>2. \A e \in Entry : e.text \in Buffers
    BY DEF Entry
  <2> QED BY <2>1, <2>2
<1>2. Texts = [i \in 1..Len(file) |-> file[i].text]
  BY <1>1 DEF Texts
<1>3. Texts \in Seq(Buffers) /\ Len(Texts) = Len(file)
  BY <1>1, <1>2
<1>4. <<currentBuffer_>> \in Seq(Buffers)
  BY OneBuffer DEF Types
<1> QED BY <1>1, <1>2, <1>3, <1>4

-----------------------------------------------------------------------------
\* Nothing is in the log, and nothing dropped.
LEMMA InitOrder == Init => OrderInv
<1> SUFFICES ASSUME Init PROVE OrderInv
  OBVIOUS
<1>1. /\ file = <<>> /\ buffersToWrite = <<>> /\ buffers_ = <<>> /\ currentBuffer_ = <<>>
      /\ lines = 0 /\ dropped = {}
  BY DEF Init
<1>2. Texts = <<>> /\ file \in Seq(Entry)
  BY <1>1 DEF Texts
<1>3. PartsInv /\ PlaceInv
  BY <1>1, <1>2, NoLines DEF PartsInv, PlaceInv, Below
<1>4. TotalInv
  BY <1>1, <1>2, NoLines DEF TotalInv, InLog
<1>5. FilledInv /\ NoticeInv
  BY <1>1 DEF FilledInv, NoticeInv
<1> QED BY <1>2, <1>3, <1>4, <1>5 DEF OrderInv

\* The steps that move no line.
LEMMA OtherOrder ==
  ASSUME OrderInv, UNCHANGED <<front, back, lines, file, dropped>> PROVE OrderInv'
<1>1. UNCHANGED <<currentBuffer_, buffers_, buffersToWrite, lines, file, dropped, Texts>>
  BY DEF front, back, Texts
<1>2. file' \in Seq(Entry) /\ PartsInv' /\ PlaceInv' /\ TotalInv'
  BY <1>1 DEF OrderInv, PartsInv, PlaceInv, TotalInv, InLog
<1>3. FilledInv' /\ NoticeInv'
  BY <1>1 DEF OrderInv, FilledInv, NoticeInv, StandsFor
<1> QED BY <1>2, <1>3 DEF OrderInv

\* A line behind all others, in the current buffer or a new one.
LEMMA AppendFitsOrder == ASSUME IInv, OrderInv, AppendFits PROVE OrderInv'
<1>1. /\ currentBuffer_' = Append(currentBuffer_, lines + 1) /\ lines' = lines + 1
      /\ UNCHANGED <<buffers_, buffersToWrite, file, dropped, Texts>>
  BY DEF AppendFits, back, Texts
<1>2. currentBuffer_ \in Buffers /\ currentBuffer_' \in Buffers /\ lines \in Nat
  <2>1. currentBuffer_' \in Buffers
    BY CapacityAssumption, LinesAssumption DEF IInv, Types, Buffers, AppendFits
  <2> QED BY <2>1, LinesAssumption DEF IInv, Types
<1>3. /\ DOMAIN currentBuffer_' = DOMAIN currentBuffer_ \cup {Len(currentBuffer_) + 1}
      /\ \A k \in DOMAIN currentBuffer_ :
           k < Len(currentBuffer_) + 1 /\ currentBuffer_'[k] = currentBuffer_[k]
      /\ currentBuffer_'[Len(currentBuffer_) + 1] = lines + 1
      /\ Len(currentBuffer_) \in Nat /\ DOMAIN currentBuffer_ \subseteq Nat
  BY <1>1, <1>2 DEF Buffers
<1>4. LinesIn(<<currentBuffer_'>>) = LinesIn(<<currentBuffer_>>) \cup {lines + 1}
  <2>1. ASSUME NEW x
        PROVE  x \in LinesIn(<<currentBuffer_'>>)
                 <=> x \in LinesIn(<<currentBuffer_>>) \/ x = lines + 1
    <3>1. x \in LinesIn(<<currentBuffer_'>>) <=> \E k \in DOMAIN currentBuffer_' : x = currentBuffer_'[k]
      BY <1>2, OneBuffer
    <3>2. x \in LinesIn(<<currentBuffer_>>) <=> \E k \in DOMAIN currentBuffer_ : x = currentBuffer_[k]
      BY <1>2, OneBuffer
    <3> QED BY <1>3, <3>1, <3>2
  <2> QED BY <2>1
<1>5. Below(InLog, {lines + 1})
  BY <1>2 DEF OrderInv, TotalInv, Below
<1>6. PartsInv'
  <2>1. \A k \in DOMAIN currentBuffer_ : currentBuffer_[k] \in InLog
    BY <1>2, OneBuffer DEF InLog
  <2>2. \A k, l \in DOMAIN currentBuffer_ : k < l => currentBuffer_[k] < currentBuffer_[l]
    BY <1>2, OneBuffer DEF OrderInv, PartsInv
  <2>3. ASSUME NEW k \in DOMAIN currentBuffer_', NEW l \in DOMAIN currentBuffer_', k < l
        PROVE  currentBuffer_'[k] < currentBuffer_'[l]
    <3>1. k \in DOMAIN currentBuffer_
      BY <1>3, <2>3
    <3>2. CASE l \in DOMAIN currentBuffer_
      BY <1>3, <2>2, <2>3, <3>1, <3>2
    <3>3. CASE l = Len(currentBuffer_) + 1
      BY <1>3, <1>5, <2>1, <3>1, <3>3 DEF Below
    <3> QED BY <1>3, <3>2, <3>3
  <2>4. Ordered(<<currentBuffer_'>>)
    BY <1>2, <2>3, OneBuffer
  <2> QED BY <1>1, <2>4 DEF OrderInv, PartsInv
<1>7. PlaceInv'
  BY <1>1, <1>4, <1>5 DEF OrderInv, PlaceInv, Below, InLog
<1>8. TotalInv'
  <2>1. InLog' = InLog \cup {lines + 1}
    BY <1>1, <1>4 DEF InLog
  <2>2. dropped \subseteq 1..lines
    BY DEF IInv, Types
  <2> QED BY <1>1, <1>2, <2>1, <2>2 DEF OrderInv, TotalInv
<1>9. FilledInv'
  BY <1>1 DEF OrderInv, FilledInv
<1>10. NoticeInv'
  <2>1. \A d \in dropped : d < lines + 1
    BY <1>2 DEF IInv, Types
  <2>2. ASSUME NEW n \in DOMAIN file, NEW d \in dropped, StandsFor(n, d) PROVE StandsFor(n, d)'
    BY <1>1, <1>4, <2>1, <2>2 DEF StandsFor, Below
  <2> QED BY <1>1, <2>2 DEF OrderInv, NoticeInv
<1> QED BY <1>1, <1>6, <1>7, <1>8, <1>9, <1>10 DEF OrderInv

\* append() with the current buffer full.
LEMMA AppendFullOrder == ASSUME IInv, OrderInv, AppendFull PROVE OrderInv'
<1>1. /\ buffers_' = Append(buffers_, currentBuffer_) /\ lines' = lines + 1
      /\ currentBuffer_' = <<lines + 1>> /\ currentBuffer_ # <<>>
      /\ UNCHANGED <<buffersToWrite, file, dropped, Texts>>
  <2>1. currentBuffer_' = Append(<<>>, lines + 1)
    BY DEF IInv, FrontInv, AppendFull
  <2>2. Append(<<>>, lines + 1) = <<lines + 1>>
    OBVIOUS
  <2>3. currentBuffer_ # <<>>
    BY CapacityAssumption DEF AppendFull
  <2> QED BY <2>1, <2>2, <2>3 DEF AppendFull, back, Texts
<1>2. /\ currentBuffer_ \in Buffers /\ currentBuffer_' \in Buffers /\ lines \in Nat
      /\ buffers_ \in Seq(Buffers)
  <2>1. lines + 1 \in 1..MaxLines
    BY LinesAssumption DEF IInv, Types, AppendFull
  <2>2. currentBuffer_' \in Buffers
    BY <1>1, <2>1, CapacityAssumption DEF Buffers
  <2> QED BY <2>2, LinesAssumption DEF IInv, Types
<1>3. /\ \A x : x \in LinesIn(<<currentBuffer_'>>) <=> x = lines + 1
      /\ Ordered(<<currentBuffer_'>>)
  <2>1. DOMAIN currentBuffer_' = {1} /\ currentBuffer_'[1] = lines + 1
    BY <1>1
  <2> QED BY <1>2, <2>1, OneBuffer
<1>4. /\ LinesIn(buffers_') = LinesIn(buffers_) \cup LinesIn(<<currentBuffer_>>)
      /\ Ordered(buffers_')
  <2>1. buffers_' = buffers_ \o <<currentBuffer_>> /\ <<currentBuffer_>> \in Seq(Buffers)
    BY <1>1, <1>2, AppendIsJoin, OneBuffer
  <2> QED BY <1>2, <2>1, Joining DEF OrderInv, PartsInv, PlaceInv
<1>5. Below(InLog, {lines + 1})
  BY <1>2 DEF OrderInv, TotalInv, Below
<1>6. PartsInv'
  BY <1>1, <1>3, <1>4 DEF OrderInv, PartsInv
<1>7. PlaceInv'
  BY <1>1, <1>3, <1>4, <1>5 DEF OrderInv, PlaceInv, Below, InLog
<1>8. TotalInv'
  <2>1. InLog' = InLog \cup {lines + 1}
    BY <1>1, <1>3, <1>4 DEF InLog
  <2>2. dropped \subseteq 1..lines
    BY DEF IInv, Types
  <2> QED BY <1>1, <1>2, <2>1, <2>2 DEF OrderInv, TotalInv
<1>9. FilledInv'
  <2>1. ASSUME NEW i \in DOMAIN buffers_' PROVE buffers_'[i] # <<>>
    BY <1>1, <1>2, <2>1 DEF OrderInv, FilledInv
  <2> QED BY <1>1, <2>1 DEF OrderInv, FilledInv
<1>10. NoticeInv'
  <2>1. \A d \in dropped : d < lines + 1
    BY <1>2 DEF IInv, Types
  <2>2. ASSUME NEW n \in DOMAIN file, NEW d \in dropped, StandsFor(n, d) PROVE StandsFor(n, d)'
    BY <1>1, <1>3, <1>4, <2>1, <2>2 DEF StandsFor, Below
  <2> QED BY <1>1, <2>2 DEF OrderInv, NoticeInv
<1> QED BY <1>1, <1>6, <1>7, <1>8, <1>9, <1>10 DEF OrderInv

\* Swap: what was queued, and the current buffer behind it, is to be written.
LEMMA SwapOrder == ASSUME IInv, OrderInv, Swap PROVE OrderInv'
<1>1. /\ buffersToWrite = <<>> /\ buffersToWrite' = Append(buffers_, currentBuffer_)
      /\ buffers_' = <<>> /\ currentBuffer_' = <<>>
      /\ UNCHANGED <<lines, file, dropped, Texts>>
  BY DEF IInv, SparesInv, Swap, Texts
<1>2. currentBuffer_ \in Buffers /\ buffers_ \in Seq(Buffers)
  BY DEF IInv, Types
<1>3. /\ LinesIn(buffersToWrite') = LinesIn(buffers_) \cup LinesIn(<<currentBuffer_>>)
      /\ Ordered(buffersToWrite')
  <2>1. /\ buffersToWrite' = buffers_ \o <<currentBuffer_>>
        /\ <<currentBuffer_>> \in Seq(Buffers)
    BY <1>1, <1>2, AppendIsJoin, OneBuffer
  <2> QED BY <1>2, <2>1, Joining DEF OrderInv, PartsInv, PlaceInv
<1>4. /\ LinesIn(buffersToWrite) = {} /\ LinesIn(buffers_') = {} /\ LinesIn(<<currentBuffer_'>>) = {}
      /\ Ordered(buffers_') /\ Ordered(<<currentBuffer_'>>)
  BY <1>1, NoLines
<1>5. PartsInv'
  BY <1>1, <1>3, <1>4 DEF OrderInv, PartsInv
<1>6. PlaceInv'
  BY <1>1, <1>3, <1>4 DEF OrderInv, PlaceInv, Below
<1>7. TotalInv'
  BY <1>1, <1>3, <1>4 DEF OrderInv, TotalInv, InLog
<1>8. FilledInv'
  <2>1. ASSUME NEW i \in DOMAIN buffersToWrite', i < Len(buffersToWrite')
        PROVE  buffersToWrite'[i] # <<>>
    BY <1>1, <1>2, <2>1 DEF OrderInv, FilledInv
  <2>2. \A i \in DOMAIN buffers_' : buffers_'[i] # <<>>
    BY <1>1
  <2> QED BY <2>1, <2>2 DEF FilledInv
<1>9. NoticeInv'
  <2>2. ASSUME NEW n \in DOMAIN file, NEW d \in dropped, StandsFor(n, d) PROVE StandsFor(n, d)'
    BY <1>1, <1>3, <1>4, <2>2 DEF StandsFor, Below
  <2> QED BY <1>1, <2>2 DEF OrderInv, NoticeInv
<1> QED BY <1>1, <1>5, <1>6, <1>7, <1>8, <1>9 DEF OrderInv

\* What is written, in order: a beginning of what was taken, all lines of which are
\* older than those left out.
LEMMA WrittenOrder ==
  ASSUME Types, Ordered(buffersToWrite), Len(buffersToWrite) >= 1
  PROVE  /\ Ordered(Written) /\ LinesIn(Written) \subseteq LinesIn(buffersToWrite)
         /\ Below(LinesIn(Written), LinesIn(buffersToWrite) \ LinesIn(Written))
         /\ ~TooMany => Written = buffersToWrite
         /\ TooMany => /\ Len(Written) = Kept /\ Len(buffersToWrite) > Kept
                       /\ \A i \in DOMAIN Written : Written[i] = buffersToWrite[i]
<1>1. /\ buffersToWrite \in Seq(Buffers) /\ Written \in Seq(Buffers)
      /\ Len(buffersToWrite) \in Nat /\ DOMAIN buffersToWrite = 1..Len(buffersToWrite)
  BY WrittenBuffers DEF Types
<1>2. ~TooMany => Written = buffersToWrite
  BY DEF Written
<1>3. ASSUME TooMany
      PROVE  /\ Len(Written) = Kept /\ DOMAIN Written = 1..Kept /\ Len(buffersToWrite) > Kept
             /\ \A i \in 1..Kept : Written[i] = buffersToWrite[i]
  BY <1>1, <1>3, DropAssumption DEF Written, TooMany, Kept
<1>4. /\ DOMAIN Written \subseteq DOMAIN buffersToWrite
      /\ \A i \in DOMAIN Written : Written[i] = buffersToWrite[i]
      /\ \A i \in DOMAIN Written, j \in DOMAIN buffersToWrite \ DOMAIN Written : i < j
  <2>1. CASE TooMany
    BY <1>1, <1>3, <2>1 DEF Kept
  <2>2. CASE ~TooMany
    BY <1>2, <2>2
  <2> QED BY <2>1, <2>2
<1>5. Ordered(Written)
  BY <1>4 DEF Ordered
<1>6. LinesIn(Written) \subseteq LinesIn(buffersToWrite)
  <2>1. ASSUME NEW x \in LinesIn(Written) PROVE x \in LinesIn(buffersToWrite)
    <3>1. PICK i \in DOMAIN Written : \E k \in DOMAIN Written[i] : x = Written[i][k]
      BY LinesMember
    <3>2. i \in DOMAIN buffersToWrite /\ Written[i] = buffersToWrite[i]
      BY <1>4
    <3> QED BY <3>1, <3>2, LinesMember
  <2> QED BY <2>1
<1>7. ASSUME NEW x \in LinesIn(Written), NEW y \in LinesIn(buffersToWrite), y \notin LinesIn(Written)
      PROVE  x < y
  <2>1. PICK i \in DOMAIN Written : \E k \in DOMAIN Written[i] : x = Written[i][k]
    BY LinesMember
  <2>2. PICK j \in DOMAIN buffersToWrite :
          \E l \in DOMAIN buffersToWrite[j] : y = buffersToWrite[j][l]
    BY LinesMember
  <2>3. j \notin DOMAIN Written
    <3>1. SUFFICES ASSUME j \in DOMAIN Written PROVE FALSE
      OBVIOUS
    <3>2. Written[j] = buffersToWrite[j]
      BY <1>4, <3>1
    <3> QED BY <1>7, <2>2, <3>1, <3>2, LinesMember
  <2>4. i < j /\ i \in DOMAIN buffersToWrite /\ Written[i] = buffersToWrite[i]
    BY <1>4, <2>3
  <2> QED BY <2>1, <2>2, <2>4 DEF Ordered
<1>8. Below(LinesIn(Written), LinesIn(buffersToWrite) \ LinesIn(Written))
  BY <1>7 DEF Below
<1> QED BY <1>2, <1>3, <1>5, <1>6, <1>8

\* r is s with t behind it, or with e and t behind it.
Joined(r, s, t) ==
  /\ Len(s) \in Nat /\ Len(t) \in Nat /\ DOMAIN s = 1..Len(s) /\ DOMAIN t = 1..Len(t)
  /\ Len(r) = Len(s) + Len(t) /\ DOMAIN r = 1..(Len(s) + Len(t))
  /\ \A i \in 1..Len(s) : i \in DOMAIN r /\ r[i] = s[i]
  /\ \A i \in 1..Len(t) : r[Len(s) + i] = t[i]
JoinedBy(r, s, e, t) ==
  /\ Len(s) \in Nat /\ Len(t) \in Nat /\ DOMAIN s = 1..Len(s) /\ DOMAIN t = 1..Len(t)
  /\ Len(r) = Len(s) + 1 + Len(t) /\ DOMAIN r = 1..(Len(s) + 1 + Len(t))
  /\ \A i \in 1..Len(s) : i \in DOMAIN r /\ r[i] = s[i]
  /\ r[Len(s) + 1] = e
  /\ \A i \in 1..Len(t) : r[Len(s) + 1 + i] = t[i]

\* What \o does.
LEMMA Concatenation ==
  ASSUME NEW S, NEW s \in Seq(S), NEW t \in Seq(S)
  PROVE  s \o t \in Seq(S) /\ Joined(s \o t, s, t)
BY DEF Joined

\* The same with one element between.
LEMMA Concatenation3 ==
  ASSUME NEW S, NEW s \in Seq(S), NEW e \in S, NEW t \in Seq(S)
  PROVE  (s \o <<e>>) \o t \in Seq(S) /\ JoinedBy((s \o <<e>>) \o t, s, e, t)
<1> DEFINE a == s \o <<e>>
           r == a \o t
<1>1. <<e>> \in Seq(S) /\ Len(<<e>>) = 1 /\ <<e>>[1] = e
  OBVIOUS
<1>2. a \in Seq(S) /\ Joined(a, s, <<e>>)
  BY <1>1, Concatenation
<1> HIDE DEF a
<1>3. r \in Seq(S) /\ Joined(r, a, t)
  BY <1>2, Concatenation
<1> HIDE DEF r
<1>4. Len(a) = Len(s) + 1 /\ Len(s) \in Nat /\ a[Len(s) + 1] = e /\ \A i \in 1..Len(s) : a[i] = s[i]
  BY <1>1, <1>2 DEF Joined
<1>5. /\ \A i \in 1..Len(s) : i \in DOMAIN r /\ r[i] = s[i]
      /\ r[Len(s) + 1] = e
  BY <1>3, <1>4 DEF Joined
<1>6. /\ \A i \in 1..Len(t) : r[Len(s) + 1 + i] = t[i]
      /\ Len(r) = Len(s) + 1 + Len(t) /\ DOMAIN r = 1..(Len(s) + 1 + Len(t))
      /\ Len(t) \in Nat /\ DOMAIN t = 1..Len(t)
  BY <1>3, <1>4 DEF Joined
<1>7. DOMAIN s = 1..Len(s)
  BY <1>2 DEF Joined
<1>8. JoinedBy(r, s, e, t)
  BY <1>4, <1>5, <1>6, <1>7 DEF JoinedBy
<1> QED BY <1>3, <1>8 DEF r, a

\* What a round adds to the file: a notice if it drops, and the buffers unless there
\* is no line in them.
LEMMA WriteFile ==
  ASSUME Types, file \in Seq(Entry), FilledInv, Ordered(buffersToWrite),
         Len(buffersToWrite) >= 1, Write
  PROVE  /\ file' \in Seq(Entry)
         /\ Len(file') >= Len(file) /\ \A i \in DOMAIN file : i \in DOMAIN file' /\ file'[i] = file[i]
         /\ TooMany => Len(file') = Len(file) + 1 + Kept /\ file'[Len(file) + 1].notice > 0
         /\ Texts' = Texts \/ Texts' = Texts \o Written \/ Texts' = (Texts \o << <<>> >>) \o Written
         /\ Texts' = Texts => LinesIn(Written) = {}
         /\ \A i \in DOMAIN file' \ DOMAIN file : \A k \in DOMAIN file'[i].text :
              file'[i].text[k] \in LinesIn(Written)
<1> DEFINE T == [i \in 1..Len(Written) |-> Text(Written[i])]
           m == Len(buffersToWrite) - Kept
<1>1. /\ Written \in Seq(Buffers) /\ Len(Written) \in Nat /\ DOMAIN Written = 1..Len(Written)
      /\ \A i \in 1..Len(Written) : Written[i] \in Buffers
  BY WrittenBuffers
<1>2. \A b \in Buffers : Text(b) \in Entry /\ Text(b).text = b
  BY DEF Text, Entry
<1>3. T \in Seq(Entry) /\ Len(T) = Len(Written) /\ \A i \in 1..Len(Written) : T[i].text = Written[i]
  <2>1. \A i \in 1..Len(Written) : T[i] \in Entry /\ T[i].text = Written[i]
    BY <1>1, <1>2
  <2>2. T \in [1..Len(Written) -> Entry]
    BY <1>1, <1>2
  <2> HIDE DEF T
  <2>3. T \in Seq(Entry) /\ Len(T) = Len(Written)
    BY <1>1, <2>2
  <2> QED BY <2>1, <2>3
<1>4. /\ Texts \in Seq(Buffers) /\ Len(Texts) = Len(file)
      /\ \A i \in DOMAIN file : Texts[i] = file[i].text
  BY PartTypes
<1>f. Texts' = [i \in DOMAIN file' |-> file'[i].text]
  BY DEF Texts
<1>5. CASE TooMany
  <2>1. m \in Nat /\ m > 0 /\ Len(Written) = Kept
    BY <1>5, WrittenOrder DEF Types, Kept
  <2>2. LinesIn(Written) # {}
    <3>1. 1 \in DOMAIN Written /\ 1 \in DOMAIN buffersToWrite /\ Written[1] = buffersToWrite[1]
          /\ 1 < Len(buffersToWrite)
      BY <1>1, <1>5, <2>1, WrittenOrder DEF Types, Kept
    <3>2. Written[1] # <<>>
      BY <3>1 DEF FilledInv
    <3>3. 1 \in DOMAIN Written[1]
      BY <1>1, <3>1, <3>2 DEF Buffers
    <3> QED BY <3>1, <3>3, LinesMember
  <2>3. file' = file \o <<Notice(m)>> \o T
    BY <1>5, <2>2 DEF Write, Entries
  <2>4. /\ Notice(m) \in Entry /\ Notice(m).notice = m /\ Notice(m).text = <<>>
    BY <2>1, NoLines DEF Notice, Entry
  <2> DEFINE N == Notice(m)
  <2> HIDE DEF N, T, m
  <2>5. /\ file' = file \o <<N>> \o T /\ N \in Entry /\ N.notice > 0 /\ N.text = <<>>
    BY <2>1, <2>3, <2>4 DEF N
  <2>6. /\ file' \in Seq(Entry) /\ Len(file') = Len(file) + 1 + Len(T)
        /\ \A i \in 1..Len(file) : i \in DOMAIN file' /\ file'[i] = file[i]
        /\ file'[Len(file) + 1] = N
        /\ \A i \in 1..Len(T) : file'[Len(file) + 1 + i] = T[i]
        /\ Len(file) \in Nat /\ DOMAIN file = 1..Len(file)
        /\ DOMAIN file' = 1..(Len(file) + 1 + Len(T))
    <3>1. (file \o <<N>>) \o T \in Seq(Entry) /\ JoinedBy((file \o <<N>>) \o T, file, N, T)
      BY <1>3, <2>5, Concatenation3
    <3> QED BY <2>5, <3>1 DEF JoinedBy
  <2>7. Texts' = (Texts \o << <<>> >>) \o Written
    <3> DEFINE R == (Texts \o << <<>> >>) \o Written
    <3>1. /\ R \in Seq(Buffers) /\ Len(R) = Len(file) + 1 + Len(Written)
          /\ DOMAIN R = 1..(Len(file) + 1 + Len(Written))
          /\ \A i \in 1..Len(file) : R[i] = Texts[i]
          /\ R[Len(file) + 1] = <<>>
          /\ \A i \in 1..Len(Written) : R[Len(file) + 1 + i] = Written[i]
      <4>1. R \in Seq(Buffers) /\ JoinedBy(R, Texts, <<>>, Written)
        BY <1>1, <1>4, NoLines, Concatenation3
      <4> QED BY <1>4, <4>1 DEF JoinedBy
    <3> HIDE DEF R
    <3>2. ASSUME NEW i \in 1..(Len(file) + 1 + Len(Written)) PROVE R[i] = file'[i].text
      <4>1. CASE i \in 1..Len(file)
        BY <1>4, <2>6, <3>1, <4>1
      <4>2. CASE i = Len(file) + 1
        BY <2>5, <2>6, <3>1, <4>2
      <4>3. CASE i > Len(file) + 1
        <5>1. PICK j \in 1..Len(Written) : i = Len(file) + 1 + j
          <6>1. i - (Len(file) + 1) \in 1..Len(Written) /\ i = Len(file) + 1 + (i - (Len(file) + 1))
            BY <1>1, <2>6, <4>3
          <6> QED BY <6>1
        <5> QED BY <1>3, <2>6, <3>1, <5>1
      <4> QED BY <1>1, <2>6, <4>1, <4>2, <4>3
    <3>3. R = [i \in 1..(Len(file) + 1 + Len(Written)) |-> R[i]]
      BY <3>1
    <3>4. R = [i \in DOMAIN file' |-> file'[i].text]
      BY <1>3, <2>6, <3>2, <3>3
    <3> QED BY <1>f, <3>4 DEF R
  <2>8. Texts' # Texts
    <3>1. DOMAIN Texts' = DOMAIN file' /\ DOMAIN Texts = DOMAIN file
      BY <1>f DEF Texts
    <3>2. Len(file) + 1 \in DOMAIN file' /\ Len(file) + 1 \notin DOMAIN file
      BY <1>1, <1>3, <2>6
    <3> QED BY <3>1, <3>2
  <2>9. Len(file') = Len(file) + 1 + Kept /\ file'[Len(file) + 1].notice > 0
    BY <1>3, <2>1, <2>5, <2>6
  <2>10. Len(file') >= Len(file)
    BY <1>1, <1>3, <2>6
  <2>11. ASSUME NEW i \in DOMAIN file' \ DOMAIN file, NEW k \in DOMAIN file'[i].text
         PROVE  file'[i].text[k] \in LinesIn(Written)
    <3>1. CASE i = Len(file) + 1
      BY <2>5, <2>6, <2>11, <3>1, NoLines
    <3>2. CASE i # Len(file) + 1
      <4>1. i - (Len(file) + 1) \in 1..Len(Written) /\ i = Len(file) + 1 + (i - (Len(file) + 1))
        BY <1>1, <1>3, <2>6, <2>11, <3>2
      <4>2. PICK j \in 1..Len(Written) : i = Len(file) + 1 + j
        BY <4>1
      <4>3. file'[i].text = Written[j] /\ j \in DOMAIN Written
        BY <1>1, <1>3, <2>6, <4>2
      <4> QED BY <2>11, <4>3, LinesMember
    <3> QED BY <3>1, <3>2
  <2> QED BY <2>6, <2>7, <2>8, <2>9, <2>10, <2>11
<1>6. CASE ~TooMany /\ LinesIn(Written) = {}
  <2>1. file' = file
    BY <1>6 DEF Write, Entries
  <2>2. Texts' = Texts
    BY <2>1 DEF Texts
  <2> QED BY <1>6, <2>1, <2>2
<1>7. CASE ~TooMany /\ LinesIn(Written) # {}
  <2>1. file' = file \o T
    <3>1. file' = file \o <<>> \o T
      BY <1>7 DEF Write, Entries
    <3> QED BY <3>1
  <2> HIDE DEF T
  <2>2. /\ file' \in Seq(Entry) /\ Len(file') = Len(file) + Len(T)
        /\ \A i \in 1..Len(file) : i \in DOMAIN file' /\ file'[i] = file[i]
        /\ \A i \in 1..Len(T) : file'[Len(file) + i] = T[i]
        /\ Len(file) \in Nat /\ DOMAIN file = 1..Len(file)
        /\ DOMAIN file' = 1..(Len(file) + Len(T))
    <3>1. file \o T \in Seq(Entry) /\ Joined(file \o T, file, T)
      BY <1>3, Concatenation
    <3> QED BY <2>1, <3>1 DEF Joined
  <2>3. Texts' = Texts \o Written
    <3> DEFINE R == Texts \o Written
    <3>1. /\ R \in Seq(Buffers) /\ DOMAIN R = 1..(Len(file) + Len(Written))
          /\ \A i \in 1..Len(file) : R[i] = Texts[i]
          /\ \A i \in 1..Len(Written) : R[Len(file) + i] = Written[i]
      <4>1. R \in Seq(Buffers) /\ Joined(R, Texts, Written)
        BY <1>1, <1>4, Concatenation
      <4> QED BY <1>4, <4>1 DEF Joined
    <3> HIDE DEF R
    <3>2. ASSUME NEW i \in 1..(Len(file) + Len(Written)) PROVE R[i] = file'[i].text
      <4>1. CASE i \in 1..Len(file)
        BY <1>4, <2>2, <3>1, <4>1
      <4>2. CASE i > Len(file)
        <5>1. PICK j \in 1..Len(Written) : i = Len(file) + j
          <6>1. i - Len(file) \in 1..Len(Written) /\ i = Len(file) + (i - Len(file))
            BY <1>1, <2>2, <4>2
          <6> QED BY <6>1
        <5> QED BY <1>3, <2>2, <3>1, <5>1
      <4> QED BY <1>1, <2>2, <4>1, <4>2
    <3>3. R = [i \in 1..(Len(file) + Len(Written)) |-> R[i]]
      BY <3>1
    <3>4. R = [i \in DOMAIN file' |-> file'[i].text]
      BY <1>3, <2>2, <3>2, <3>3
    <3> QED BY <1>f, <3>4 DEF R
  <2>4. Texts' # Texts
    <3>1. DOMAIN Texts' = DOMAIN file' /\ DOMAIN Texts = DOMAIN file
      BY <1>f DEF Texts
    <3>2. Len(Written) > 0
      BY WrittenBuffers DEF Types
    <3>3. Len(file) + 1 \in DOMAIN file' /\ Len(file) + 1 \notin DOMAIN file
      BY <1>1, <1>3, <2>2, <3>2
    <3> QED BY <3>1, <3>3
  <2>5. Len(file') >= Len(file)
    BY <1>1, <1>3, <2>2
  <2>6. ASSUME NEW i \in DOMAIN file' \ DOMAIN file, NEW k \in DOMAIN file'[i].text
        PROVE  file'[i].text[k] \in LinesIn(Written)
    <3>1. i - Len(file) \in 1..Len(Written) /\ i = Len(file) + (i - Len(file))
      BY <1>1, <1>3, <2>2, <2>6
    <3>2. PICK j \in 1..Len(Written) : i = Len(file) + j
      BY <3>1
    <3>3. file'[i].text = Written[j] /\ j \in DOMAIN Written
      BY <1>1, <1>3, <2>2, <3>2
    <3> QED BY <2>6, <3>3, LinesMember
  <2> QED BY <1>7, <2>2, <2>3, <2>4, <2>5, <2>6
<1> QED BY <1>5, <1>6, <1>7

\* A round moves the buffers it took to the file, or drops what is behind the first
\* two of them and leaves a notice.
LEMMA WriteOrder == ASSUME IInv, OrderInv, Write PROVE OrderInv'
<1>1. /\ buffersToWrite' = <<>>
      /\ dropped' = dropped \cup (LinesIn(buffersToWrite) \ LinesIn(Written))
      /\ UNCHANGED <<buffers_, currentBuffer_, lines>>
  BY DEF Write, front
<1>2. /\ Types /\ file \in Seq(Entry) /\ FilledInv /\ Ordered(buffersToWrite)
      /\ Len(buffersToWrite) >= 1
  <2>1. Len(buffersToWrite) >= 1
    BY DEF Write, IInv, Types, SparesInv
  <2> QED BY <2>1 DEF IInv, OrderInv, PartsInv
<1>3. /\ Ordered(Written) /\ LinesIn(Written) \subseteq LinesIn(buffersToWrite)
      /\ Below(LinesIn(Written), LinesIn(buffersToWrite) \ LinesIn(Written))
      /\ ~TooMany => Written = buffersToWrite
  BY <1>2, WrittenOrder
<1>4. /\ file' \in Seq(Entry) /\ Len(file') >= Len(file)
      /\ \A i \in DOMAIN file : i \in DOMAIN file' /\ file'[i] = file[i]
      /\ TooMany => Len(file') = Len(file) + 1 + Kept /\ file'[Len(file) + 1].notice > 0
      /\ \A i \in DOMAIN file' \ DOMAIN file : \A k \in DOMAIN file'[i].text :
           file'[i].text[k] \in LinesIn(Written)
  BY <1>2, WriteFile
<1>5. /\ Texts \in Seq(Buffers) /\ Written \in Seq(Buffers) /\ buffersToWrite \in Seq(Buffers)
      /\ buffers_ \in Seq(Buffers) /\ <<currentBuffer_>> \in Seq(Buffers)
  BY <1>2, PartTypes, WrittenBuffers DEF Types
<1>6. Ordered(Texts') /\ LinesIn(Texts') = LinesIn(Texts) \cup LinesIn(Written)
  <2>1. Ordered(Texts) /\ Below(LinesIn(Texts), LinesIn(Written))
    BY <1>3 DEF OrderInv, PartsInv, PlaceInv, Below
  <2>2. CASE Texts' = Texts
    BY <1>2, <2>1, <2>2, WriteFile
  <2>3. CASE Texts' = Texts \o Written
    BY <1>3, <1>5, <2>1, <2>3, Joining
  <2>4. CASE Texts' = (Texts \o << <<>> >>) \o Written
    <3> DEFINE a == Texts \o << <<>> >>
    <3>1. << <<>> >> \in Seq(Buffers)
      BY NoLines, OneBuffer
    <3>2. a \in Seq(Buffers) /\ LinesIn(a) = LinesIn(Texts) /\ Ordered(a)
      <4>1. Below(LinesIn(Texts), LinesIn(<< <<>> >>))
        BY NoLines DEF Below
      <4>2. LinesIn(a) = LinesIn(Texts) \cup LinesIn(<< <<>> >>) /\ a \in Seq(Buffers) /\ Ordered(a)
        BY <1>5, <2>1, <3>1, <4>1, NoLines, Joining, Zenon
      <4> HIDE DEF a
      <4> QED BY <4>2, NoLines
    <3> HIDE DEF a
    <3>3. LinesIn(a \o Written) = LinesIn(a) \cup LinesIn(Written) /\ Ordered(a \o Written)
      BY <1>3, <1>5, <2>1, <3>2, Joining
    <3> QED BY <2>4, <3>2, <3>3 DEF a
  <2> QED BY <1>2, <2>2, <2>3, <2>4, WriteFile
<1>7. LinesIn(buffersToWrite') = {} /\ Ordered(buffersToWrite')
  BY <1>1, NoLines
<1>8. PartsInv'
  BY <1>1, <1>6, <1>7 DEF OrderInv, PartsInv
<1>9. PlaceInv'
  BY <1>1, <1>3, <1>6, <1>7 DEF OrderInv, PlaceInv, Below
<1>10. TotalInv'
  <2>1. \A x \in LinesIn(buffersToWrite) \ LinesIn(Written) :
          x \notin LinesIn(Texts) /\ x \notin LinesIn(buffers_) /\ x \notin LinesIn(<<currentBuffer_>>)
    <3>1. \A x \in LinesIn(buffersToWrite) : x \in Nat /\ ~(x < x)
      BY <1>5, LinesAreNat
    <3> QED BY <3>1 DEF OrderInv, PlaceInv, Below
  <2>2. InLog' = InLog \ (LinesIn(buffersToWrite) \ LinesIn(Written))
    BY <1>1, <1>3, <1>6, <1>7, <2>1 DEF InLog
  <2> QED BY <1>1, <2>2 DEF OrderInv, TotalInv
<1>11. FilledInv'
  BY <1>1 DEF OrderInv, FilledInv
<1>12. NoticeInv'
  <2>1. ASSUME NEW n \in DOMAIN file, NEW d \in dropped, StandsFor(n, d)
        PROVE  n \in DOMAIN file' /\ StandsFor(n, d)'
    <3>1. n \in DOMAIN file' /\ file'[n].notice > 0 /\ n + Kept <= Len(file')
      BY <1>2, <1>4, <2>1 DEF StandsFor, Kept
    <3>2. ASSUME NEW i \in DOMAIN file', NEW k \in DOMAIN file'[i].text
          PROVE  file'[i].text[k] < d <=> i <= n + Kept
      <4>1. CASE i \in DOMAIN file
        BY <1>4, <2>1, <4>1 DEF StandsFor
      <4>2. CASE i \notin DOMAIN file
        <5>1. file'[i].text[k] \in LinesIn(buffersToWrite)
          BY <1>3, <1>4, <4>2
        <5>2. d < file'[i].text[k] /\ d \in Nat /\ file'[i].text[k] \in Nat
          <6>1. d < file'[i].text[k]
            BY <2>1, <5>1 DEF StandsFor, Below
          <6>2. d \in Nat
            BY DEF IInv, Types
          <6>3. file'[i].text[k] \in Nat
            BY <1>5, <5>1, LinesAreNat
          <6> QED BY <6>1, <6>2, <6>3
        <5>3. i > n + Kept
          BY <1>2, <1>4, <2>1, <4>2 DEF StandsFor, Kept
        <5>4. ~(i <= n + Kept)
          BY <1>2, <1>4, <5>3 DEF Kept
        <5> QED BY <5>2, <5>4
      <4> QED BY <4>1, <4>2
    <3>3. Below({d}, LinesIn(buffersToWrite') \cup LinesIn(buffers_') \cup LinesIn(<<currentBuffer_'>>))
      BY <1>1, <1>7, <2>1 DEF StandsFor, Below
    <3> QED BY <3>1, <3>2, <3>3 DEF StandsFor
  <2>2. ASSUME NEW d \in LinesIn(buffersToWrite) \ LinesIn(Written)
        PROVE  \E n \in DOMAIN file' : StandsFor(n, d)'
    <3>1. TooMany
      BY <1>3
    <3>0. PICK n : n = Len(file) + 1
      OBVIOUS
    <3>2. n \in DOMAIN file' /\ file'[n].notice > 0 /\ n + Kept = Len(file') /\ Len(file') \in Nat
      BY <1>2, <1>4, <3>0, <3>1 DEF Kept
    <3>3. ASSUME NEW i \in DOMAIN file', NEW k \in DOMAIN file'[i].text
          PROVE  file'[i].text[k] < d /\ i <= Len(file')
      <4>1. file'[i].text[k] \in LinesIn(Texts) \/ file'[i].text[k] \in LinesIn(Written)
        <5>1. CASE i \in DOMAIN file
          <6>1. Texts[i] = file'[i].text /\ i \in DOMAIN Texts
            BY <1>2, <1>4, <5>1, PartTypes
          <6> QED BY <6>1, LinesMember
        <5>2. CASE i \notin DOMAIN file
          BY <1>4, <5>2
        <5> QED BY <5>1, <5>2
      <4>2. file'[i].text[k] < d
        BY <1>3, <4>1 DEF OrderInv, PlaceInv, Below
      <4>3. i <= Len(file')
        BY <1>4
      <4> QED BY <4>2, <4>3
    <3>4. Below({d}, LinesIn(buffersToWrite') \cup LinesIn(buffers_') \cup LinesIn(<<currentBuffer_'>>))
      BY <1>1, <1>7 DEF OrderInv, PlaceInv, Below
    <3>5. StandsFor(n, d)'
      BY <3>2, <3>3, <3>4 DEF StandsFor
    <3> QED BY <3>2, <3>5
  <2> QED BY <1>1, <2>1, <2>2 DEF OrderInv, NoticeInv
<1> QED BY <1>4, <1>8, <1>9, <1>10, <1>11, <1>12 DEF OrderInv

\* The parts in order make the log in order.
LEMMA OrderOfLog == IInv /\ OrderInv => LogIsInOrder
<1> SUFFICES ASSUME IInv, OrderInv PROVE LogIsInOrder
  OBVIOUS
<1>1. /\ Types /\ Texts \in Seq(Buffers) /\ Len(Texts) = Len(file) /\ DOMAIN Texts = DOMAIN file
      /\ \A i \in DOMAIN file : Texts[i] = file[i].text
      /\ buffersToWrite \in Seq(Buffers) /\ buffers_ \in Seq(Buffers)
      /\ <<currentBuffer_>> \in Seq(Buffers)
  BY PartTypes DEF IInv, Types, OrderInv
<1> DEFINE a == Texts \o buffersToWrite
           b == a \o buffers_
           c == b \o <<currentBuffer_>>
<1>2. /\ a \in Seq(Buffers) /\ Ordered(a)
      /\ LinesIn(a) = LinesIn(Texts) \cup LinesIn(buffersToWrite)
  BY <1>1, Joining DEF OrderInv, PartsInv, PlaceInv
<1>j. Joined(a, Texts, buffersToWrite)
  BY <1>1, Concatenation
<1> HIDE DEF a
<1>3. /\ b \in Seq(Buffers) /\ Ordered(b) /\ LinesIn(b) = LinesIn(a) \cup LinesIn(buffers_)
  <2>1. Below(LinesIn(a), LinesIn(buffers_))
    BY <1>2 DEF OrderInv, PlaceInv, Below
  <2> QED BY <1>1, <1>2, <2>1, Joining DEF OrderInv, PartsInv
<1>k. Joined(b, a, buffers_)
  BY <1>1, <1>2, Concatenation
<1> HIDE DEF b
<1>4. /\ c \in Seq(Buffers) /\ Ordered(c) /\ LinesIn(c) = LinesIn(b) \cup LinesIn(<<currentBuffer_>>)
  <2>1. Below(LinesIn(b), LinesIn(<<currentBuffer_>>))
    BY <1>2, <1>3 DEF OrderInv, PlaceInv, Below
  <2> QED BY <1>1, <1>3, <2>1, Joining DEF OrderInv, PartsInv
<1>l. Joined(c, b, <<currentBuffer_>>)
  BY <1>1, <1>3, Concatenation
<1>5. Log = c
  BY DEF Log, Texts, a, b, c
<1> HIDE DEF c
<1>6. LinesIn(Log) = (1..lines) \ dropped
  BY <1>2, <1>3, <1>4, <1>5 DEF OrderInv, TotalInv, InLog
<1>7. Ordered(Log)
  BY <1>4, <1>5
<1>8. \A i \in DOMAIN file : i \in DOMAIN c /\ c[i] = file[i].text
  <2>1. DOMAIN file = 1..Len(Texts) /\ Len(Texts) \in Nat
    BY <1>1, <1>j DEF Joined
  <2>2. ASSUME NEW i \in 1..Len(Texts) PROVE i \in DOMAIN c /\ c[i] = Texts[i]
    <3>1. i \in 1..Len(a) /\ a[i] = Texts[i]
      BY <1>j DEF Joined
    <3>2. i \in 1..Len(b) /\ b[i] = a[i]
      BY <1>k, <3>1 DEF Joined
    <3>3. i \in DOMAIN c /\ c[i] = b[i]
      BY <1>l, <3>2 DEF Joined
    <3> QED BY <3>1, <3>2, <3>3
  <2> QED BY <1>1, <2>1, <2>2
<1>9. ASSUME NEW i \in DOMAIN c \ DOMAIN file, NEW k \in DOMAIN c[i]
      PROVE  /\ i \in Nat /\ i > Len(file)
             /\ c[i][k] \in LinesIn(buffersToWrite) \cup LinesIn(buffers_)
                              \cup LinesIn(<<currentBuffer_>>)
  <2> DEFINE x == c[i][k]
             T1 == Len(Texts)
             A1 == Len(a)
             B1 == Len(b)
  <2>1. /\ T1 \in Nat /\ A1 = T1 + Len(buffersToWrite) /\ B1 = A1 + Len(buffers_)
        /\ Len(buffersToWrite) \in Nat /\ Len(buffers_) \in Nat
        /\ DOMAIN c = 1..(B1 + 1) /\ DOMAIN file = 1..T1 /\ T1 = Len(file)
    <3>1. Len(<<currentBuffer_>>) = 1
      OBVIOUS
    <3> QED BY <1>1, <1>j, <1>k, <1>l, <3>1 DEF Joined
  <2>2. i \in Nat /\ i > Len(file) /\ i <= B1 + 1
    BY <2>1
  <2>3. CASE i <= A1
    <3>1. PICK j \in 1..Len(buffersToWrite) : i = T1 + j
      <4>1. i - T1 \in 1..Len(buffersToWrite) /\ i = T1 + (i - T1)
        BY <2>1, <2>2, <2>3
      <4> QED BY <4>1
    <3>2. a[i] = buffersToWrite[j] /\ j \in DOMAIN buffersToWrite
      BY <1>j, <3>1 DEF Joined
    <3>3. i \in 1..Len(a) /\ i \in 1..Len(b)
      BY <2>1, <2>2, <2>3
    <3>4. c[i] = buffersToWrite[j]
      BY <1>k, <1>l, <3>2, <3>3 DEF Joined
    <3> QED BY <2>2, <3>2, <3>4, LinesMember
  <2>4. CASE i > A1 /\ i <= B1
    <3>1. PICK j \in 1..Len(buffers_) : i = A1 + j
      <4>1. i - A1 \in 1..Len(buffers_) /\ i = A1 + (i - A1)
        BY <2>1, <2>2, <2>4
      <4> QED BY <4>1
    <3>2. b[i] = buffers_[j] /\ j \in DOMAIN buffers_
      BY <1>k, <3>1 DEF Joined
    <3>3. i \in 1..Len(b)
      BY <2>1, <2>2, <2>4
    <3>4. c[i] = buffers_[j]
      BY <1>l, <3>2, <3>3 DEF Joined
    <3> QED BY <2>2, <3>2, <3>4, LinesMember
  <2>5. CASE i = B1 + 1
    <3>1. Len(<<currentBuffer_>>) = 1 /\ <<currentBuffer_>>[1] = currentBuffer_
          /\ 1 \in DOMAIN <<currentBuffer_>>
      OBVIOUS
    <3>2. c[i] = <<currentBuffer_>>[1]
      BY <1>l, <2>5, <3>1 DEF Joined
    <3> QED BY <2>2, <3>1, <3>2, LinesMember
  <2>6. i <= A1 \/ (i > A1 /\ i <= B1) \/ i = B1 + 1
    BY <2>1, <2>2
  <2> QED BY <2>3, <2>4, <2>5, <2>6
<1>10. ASSUME NEW d \in dropped, NEW n \in DOMAIN file, StandsFor(n, d),
              NEW i \in DOMAIN Log, NEW k \in DOMAIN Log[i]
       PROVE  Log[i][k] < d <=> i <= n + Kept
  <2>1. CASE i \in DOMAIN file
    BY <1>5, <1>8, <1>10, <2>1 DEF StandsFor
  <2>2. CASE i \notin DOMAIN file
    <3>1. i \in Nat /\ i > Len(file) /\ d < c[i][k]
      BY <1>5, <1>9, <1>10, <2>2 DEF StandsFor, Below
    <3>2. c[i][k] \in Nat /\ d \in Nat
      <4>1. c[i][k] \in LinesIn(c)
        BY <1>5, LinesMember
      <4>2. d \in Nat
        BY DEF IInv, Types
      <4> QED BY <1>4, <4>1, <4>2, LinesAreNat
    <3>3. n + Kept <= Len(file) /\ n \in Nat /\ Len(file) \in Nat
      BY <1>1, <1>j, <1>10 DEF StandsFor, Joined
    <3>4. ~(i <= n + Kept)
      BY <3>1, <3>3 DEF Kept
    <3>5. ~(c[i][k] < d)
      BY <3>1, <3>2
    <3> QED BY <1>5, <3>4, <3>5
  <2> QED BY <2>1, <2>2
<1>11. ASSUME NEW d \in dropped
       PROVE  \E n \in DOMAIN file :
                /\ file[n].notice > 0
                /\ \A i \in DOMAIN Log : \A k \in DOMAIN Log[i] : Log[i][k] < d <=> i <= n + Kept
  <2>1. PICK n \in DOMAIN file : StandsFor(n, d)
    BY DEF OrderInv, NoticeInv
  <2>2. file[n].notice > 0
    BY <2>1 DEF StandsFor
  <2>3. \A i \in DOMAIN Log : \A k \in DOMAIN Log[i] : Log[i][k] < d <=> i <= n + Kept
    BY <1>10, <2>1
  <2> QED BY <2>2, <2>3
<1> QED BY <1>6, <1>7, <1>11 DEF LogIsInOrder, Ordered

\* The lines reach the file in the order of append(), each once, whatever the sizes
\* and however append() and the rounds of threadFunc interleave; lines are missing
\* only where a notice says so, directly behind the two buffers that follow it.
THEOREM NoLineIsLost == Spec => []LogIsInOrder
<1>1. IInv /\ [Next]_vars => IInv'
  BY AppendStep, SwapStep, WriteStep, OtherStep DEF Next, ThreadFunc
<1>2. IInv /\ OrderInv /\ [Next]_vars => OrderInv'
  <2> SUFFICES ASSUME IInv, OrderInv, [Next]_vars PROVE OrderInv'
    OBVIOUS
  <2>1. CASE AppendFits \/ AppendFull \/ Swap \/ Write
    BY <2>1, AppendFitsOrder, AppendFullOrder, SwapOrder, WriteOrder
  <2>2. CASE Start \/ Stop \/ StopNotify \/ Join \/ Begin \/ TestRunning \/ Lock \/ WaitEnds
             \/ UNCHANGED vars
    <3>1. UNCHANGED <<front, back, lines, file, dropped>>
      BY <2>2 DEF Start, Stop, StopNotify, Join, Begin, TestRunning, Lock, WaitEnds, vars
    <3> QED BY <3>1, OtherOrder
  <2> QED BY <2>1, <2>2 DEF Next, ThreadFunc
<1> QED BY InitInv, InitOrder, <1>1, <1>2, OrderOfLog, PTL DEF Spec
=============================================================================
