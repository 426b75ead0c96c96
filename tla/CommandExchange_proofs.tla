----------------------- MODULE CommandExchange_proofs -----------------------
(***************************************************************************)
(* Proofs about CommandExchange for every value of its constants.          *)
(***************************************************************************)
EXTENDS CommandExchange, SequenceTheorems, TLAPS

-----------------------------------------------------------------------------
(* Chunks *)

\* Division, rounded down.
LEMMA Quotient ==
  ASSUME NEW a \in Nat, NEW b \in Nat \ {0}
  PROVE  /\ a \div b \in Nat
         /\ b * (a \div b) <= a
         /\ a < b * (a \div b) + b
OBVIOUS

\* Multiples of a size are in the order of their factors.
LEMMA Multiples ==
  ASSUME NEW i \in Nat, NEW j \in Nat, NEW b \in Nat, i <= j
  PROVE  i * b \in Nat /\ j * b \in Nat /\ i * b <= j * b
OBVIOUS

\* Concatenation, by the place in each part.
LEMMA ConcatAt ==
  ASSUME NEW S, NEW s \in Seq(S), NEW t \in Seq(S)
  PROVE  /\ s \o t \in Seq(S)
         /\ Len(s \o t) = Len(s) + Len(t)
         /\ \A i \in 1..Len(s) : (s \o t)[i] = s[i]
         /\ \A i \in 1..Len(t) : (s \o t)[Len(s) + i] = t[i]
BY ConcatProperties

\* A part of a sequence, place by place.
LEMMA PartAt ==
  ASSUME NEW S, NEW s \in Seq(S), NEW a \in Nat, NEW b \in Nat, a <= b, b <= Len(s)
  PROVE  /\ SubSeq(s, a + 1, b) \in Seq(S)
         /\ Len(SubSeq(s, a + 1, b)) = b - a
         /\ \A i \in 1..(b - a) : SubSeq(s, a + 1, b)[i] = s[a + i]
<1>1. \A i \in (a + 1)..b : s[i] \in S
  OBVIOUS
<1>2. /\ SubSeq(s, a + 1, b) \in Seq(S)
      /\ Len(SubSeq(s, a + 1, b)) = IF a + 1 <= b THEN b - (a + 1) + 1 ELSE 0
      /\ \A i \in 1..(b - (a + 1) + 1) : SubSeq(s, a + 1, b)[i] = s[(a + 1) + i - 1]
  BY <1>1, SubSeqProperties
<1>3. b - (a + 1) + 1 = b - a /\ \A i \in Nat : (a + 1) + i - 1 = a + i
  OBVIOUS
<1> QED BY <1>2, <1>3

First(d) == d[1]
Final(d) == d[Len(d)]

\* Bytes that follow each other.
Stretch(d) == d # <<>> /\ First(d) > 0 /\ \A i \in 1..Len(d) : d[i] = First(d) + (i - 1)

\* Every piece of a payload starts within it and only the last one ends with it.
LEMMA ChunkNumbers ==
  ASSUME NEW n \in Nat
  PROVE  /\ NumChunks(n) \in Nat
         /\ \A k \in 1..NumChunks(n) :
              /\ (k - 1) * ChunkSize \in Nat /\ k * ChunkSize \in Nat
              /\ k * ChunkSize = (k - 1) * ChunkSize + ChunkSize
              /\ (k - 1) * ChunkSize < n
              /\ k = NumChunks(n) <=> n <= k * ChunkSize
<1> DEFINE N == NumChunks(n)
<1>1. ChunkSize \in Nat \ {0} /\ n + (ChunkSize - 1) \in Nat
  BY ExchangeAssumption
<1>2. /\ N \in Nat
      /\ ChunkSize * N <= n + (ChunkSize - 1)
      /\ n + (ChunkSize - 1) < ChunkSize * N + ChunkSize
  BY <1>1, Quotient DEF NumChunks
<1> HIDE DEF N
<1>3. ASSUME NEW k \in 1..N
      PROVE  /\ (k - 1) * ChunkSize \in Nat /\ k * ChunkSize \in Nat
             /\ k * ChunkSize = (k - 1) * ChunkSize + ChunkSize
             /\ (k - 1) * ChunkSize < n
             /\ k = N <=> n <= k * ChunkSize
  <2>1. k - 1 \in Nat /\ k \in Nat /\ k <= N
    BY <1>2
  <2>2. k * ChunkSize = (k - 1) * ChunkSize + ChunkSize
    BY <1>1, <2>1
  <2>3. (k - 1) * ChunkSize \in Nat /\ k * ChunkSize \in Nat /\ N * ChunkSize \in Nat /\ k * ChunkSize <= N * ChunkSize
    BY <1>1, <1>2, <2>1, Multiples
  <2>4. ChunkSize * N = N * ChunkSize
    BY <1>1, <1>2
  <2>5. (k - 1) * ChunkSize < n
    BY <1>1, <1>2, <2>2, <2>3, <2>4
  <2>6. CASE k = N
    BY <1>1, <1>2, <2>2, <2>3, <2>4, <2>5, <2>6
  <2>7. CASE k # N
    <3>1. k + 1 \in Nat /\ k + 1 <= N
      BY <1>2, <2>1, <2>7
    <3>2. (k + 1) * ChunkSize <= N * ChunkSize /\ (k + 1) * ChunkSize = k * ChunkSize + ChunkSize
      BY <1>1, <1>2, <2>1, <3>1, Multiples
    <3> QED BY <1>1, <1>2, <2>2, <2>3, <2>4, <2>5, <2>7, <3>2
  <2> QED BY <2>6, <2>7
<1> QED BY <1>2, <1>3 DEF N

\* Where the pieces of a payload end.
LEMMA Ends ==
  ASSUME NEW n \in Nat
  PROVE  /\ ChunkEnd(n, 0) = 0
         /\ \A k \in 1..NumChunks(n) :
              /\ ChunkEnd(n, k - 1) \in Nat /\ ChunkEnd(n, k) \in Nat
              /\ ChunkEnd(n, k - 1) = (k - 1) * ChunkSize
              /\ ChunkEnd(n, k - 1) < ChunkEnd(n, k) /\ ChunkEnd(n, k) <= n
              /\ k = NumChunks(n) <=> ChunkEnd(n, k) = n
<1>1. ChunkSize \in Nat \ {0}
  BY ExchangeAssumption
<1>2. ChunkEnd(n, 0) = 0
  BY <1>1 DEF ChunkEnd
<1>3. ASSUME NEW k \in 1..NumChunks(n)
      PROVE  /\ ChunkEnd(n, k - 1) \in Nat /\ ChunkEnd(n, k) \in Nat
             /\ ChunkEnd(n, k - 1) = (k - 1) * ChunkSize
             /\ ChunkEnd(n, k - 1) < ChunkEnd(n, k) /\ ChunkEnd(n, k) <= n
             /\ k = NumChunks(n) <=> ChunkEnd(n, k) = n
  <2>1. /\ (k - 1) * ChunkSize \in Nat /\ k * ChunkSize \in Nat
        /\ k * ChunkSize = (k - 1) * ChunkSize + ChunkSize
        /\ (k - 1) * ChunkSize < n
        /\ k = NumChunks(n) <=> n <= k * ChunkSize
    BY ChunkNumbers
  <2> DEFINE a == (k - 1) * ChunkSize
             b == k * ChunkSize
  <2>2. /\ ChunkEnd(n, k - 1) = IF a < n THEN a ELSE n
        /\ ChunkEnd(n, k) = IF b < n THEN b ELSE n
    BY DEF ChunkEnd
  <2>3. a \in Nat /\ b \in Nat /\ b = a + ChunkSize /\ a < n /\ (k = NumChunks(n) <=> n <= b)
    BY <2>1
  <2>4. ChunkEnd(n, k - 1) = (k - 1) * ChunkSize
    BY <2>2, <2>3
  <2> HIDE DEF a, b
  <2> QED BY <1>1, <2>2, <2>3, <2>4
<1> QED BY <1>2, <1>3

\* The pieces end one after the other.
LEMMA EndsRise ==
  ASSUME NEW n \in Nat, NEW i \in Nat, NEW j \in 1..NumChunks(n), i < j
  PROVE  ChunkEnd(n, i) \in Nat /\ ChunkEnd(n, i) <= ChunkEnd(n, j - 1)
<1>1. NumChunks(n) \in Nat
  BY ChunkNumbers
<1>2. j - 1 \in Nat /\ i <= j - 1 /\ ChunkSize \in Nat
  BY <1>1, ExchangeAssumption
<1>3. i * ChunkSize \in Nat /\ i * ChunkSize <= (j - 1) * ChunkSize
  BY <1>2, Multiples
<1>4. ChunkEnd(n, j - 1) = (j - 1) * ChunkSize
  BY Ends
<1>5. (j - 1) * ChunkSize < n /\ (j - 1) * ChunkSize \in Nat
  BY ChunkNumbers
<1> DEFINE a == i * ChunkSize
           b == (j - 1) * ChunkSize
<1>6. ChunkEnd(n, i) = IF a < n THEN a ELSE n
  BY DEF ChunkEnd
<1> HIDE DEF a, b
<1>7. a \in Nat /\ a <= b /\ b < n /\ b \in Nat /\ ChunkEnd(n, j - 1) = b
  BY <1>3, <1>4, <1>5 DEF a, b
<1> QED BY <1>6, <1>7

\* A piece of a payload.
LEMMA PieceIs ==
  ASSUME NEW n \in Nat, NEW k \in 1..NumChunks(n)
  PROVE  LET d == Piece(Bytes(n), k) IN
         /\ d \in Seq(Nat) /\ Stretch(d)
         /\ First(d) = ChunkEnd(n, k - 1) + 1
         /\ Final(d) = ChunkEnd(n, k)
<1> DEFINE a == ChunkEnd(n, k - 1)
           b == ChunkEnd(n, k)
           d == Piece(Bytes(n), k)
<1>1. a \in Nat /\ b \in Nat /\ a < b /\ b <= n /\ a = (k - 1) * ChunkSize
  BY Ends
<1>2. Bytes(n) \in Seq(Nat) /\ Len(Bytes(n)) = n /\ \A i \in 1..n : Bytes(n)[i] = i
  BY DEF Bytes
<1>3. d = SubSeq(Bytes(n), a + 1, b)
  BY <1>1, <1>2 DEF Piece
<1> HIDE DEF a, b, d
<1>4. /\ d \in Seq(Nat) /\ Len(d) = b - a
      /\ \A i \in 1..(b - a) : d[i] = Bytes(n)[a + i]
  <2>1. a \in Nat /\ b \in Nat /\ a <= b /\ b <= Len(Bytes(n)) /\ Bytes(n) \in Seq(Nat)
    BY <1>1, <1>2
  <2>2. /\ SubSeq(Bytes(n), a + 1, b) \in Seq(Nat)
        /\ Len(SubSeq(Bytes(n), a + 1, b)) = b - a
        /\ \A i \in 1..(b - a) : SubSeq(Bytes(n), a + 1, b)[i] = Bytes(n)[a + i]
    BY <2>1, PartAt
  <2> QED BY <1>3, <2>2
<1>5. \A i \in 1..(b - a) : a + i \in 1..n
  BY <1>1
<1>6. \A i \in 1..(b - a) : d[i] = a + i
  BY <1>2, <1>4, <1>5
<1>7. 1 \in 1..(b - a) /\ b - a \in 1..(b - a)
  BY <1>1
<1>8. First(d) = a + 1 /\ Final(d) = b
  BY <1>1, <1>4, <1>6, <1>7 DEF First, Final
<1>9. Stretch(d)
  <2>1. d # <<>>
    BY <1>1, <1>4
  <2>2. \A i \in 1..Len(d) : d[i] = First(d) + (i - 1)
    BY <1>1, <1>4, <1>6, <1>8
  <2> QED BY <1>1, <1>8, <2>1, <2>2 DEF Stretch
<1> QED BY <1>4, <1>8, <1>9 DEF a, b, d

\* A stretch that starts where a payload ends prolongs it.
LEMMA Prolongs ==
  ASSUME NEW a \in Nat, NEW d \in Seq(Nat), Stretch(d), First(d) = a + 1
  PROVE  Bytes(a) \o d = Bytes(Final(d)) /\ Final(d) \in Nat /\ Final(d) = a + Len(d)
<1>1. Bytes(a) \in Seq(Nat) /\ Len(Bytes(a)) = a /\ \A i \in 1..a : Bytes(a)[i] = i
  BY DEF Bytes
<1>2. Len(d) \in Nat /\ Len(d) > 0
  BY DEF Stretch
<1>3. \A i \in 1..Len(d) : d[i] = a + i
  BY <1>2 DEF Stretch
<1>4. Final(d) = a + Len(d)
  BY <1>2, <1>3 DEF Final
<1>5. /\ Bytes(a) \o d \in Seq(Nat) /\ Len(Bytes(a) \o d) = a + Len(d)
      /\ \A i \in 1..a : (Bytes(a) \o d)[i] = Bytes(a)[i]
      /\ \A i \in 1..Len(d) : (Bytes(a) \o d)[a + i] = d[i]
  <2>1. \A s \in Seq(Nat) :
          /\ s \o d \in Seq(Nat) /\ Len(s \o d) = Len(s) + Len(d)
          /\ \A i \in 1..Len(s) : (s \o d)[i] = s[i]
          /\ \A i \in 1..Len(d) : (s \o d)[Len(s) + i] = d[i]
    BY ConcatAt
  <2> QED BY <1>1, <2>1
<1>6. Bytes(a + Len(d)) \in Seq(Nat) /\ Len(Bytes(a + Len(d))) = a + Len(d)
      /\ \A i \in 1..(a + Len(d)) : Bytes(a + Len(d))[i] = i
  BY <1>2 DEF Bytes
<1>7. \A i \in 1..(a + Len(d)) : (Bytes(a) \o d)[i] = i
  <2> TAKE i \in 1..(a + Len(d))
  <2>1. CASE i <= a
    BY <1>1, <1>5, <2>1
  <2>2. CASE i > a
    <3>1. i - a \in 1..Len(d) /\ a + (i - a) = i
      BY <1>2, <2>2
    <3>2. (Bytes(a) \o d)[a + (i - a)] = d[i - a] /\ d[i - a] = a + (i - a)
      BY <1>3, <1>5, <3>1
    <3> QED BY <3>1, <3>2
  <2>3. a + Len(d) \in Nat
    BY <1>2
  <2>4. i <= a \/ i > a
    BY <2>3
  <2> QED BY <2>1, <2>2, <2>4
<1>8. Bytes(a) \o d = Bytes(a + Len(d))
  BY <1>5, <1>6, <1>7, SeqEqual
<1> QED BY <1>2, <1>4, <1>8

-----------------------------------------------------------------------------
(* Types *)

Chunks == [id : Clients, data : Seq(Nat), last : BOOLEAN]
Mail   == Answers \cup {Foreign, Input}

\* At first everything is empty.
LEMMA InitTyped == Init => TypeOK
<1> SUFFICES ASSUME Init PROVE TypeOK
  OBVIOUS
<1>1. \A S : <<>> \in Seq(S)
  OBVIOUS
<1>2. ASSUME NEW c \in Clients PROVE sent[c] <= NumChunks(ReqLen[c])
  <2> DEFINE n == NumChunks(ReqLen[c])
  <2>1. n \in Nat
    BY ChunkNumbers, ExchangeAssumption
  <2>2. sent[c] = 0
    BY DEF Init
  <2> HIDE DEF n
  <2>3. sent[c] <= n
    BY <2>1, <2>2
  <2> QED BY <2>3 DEF n
<1>3. /\ received \in [Clients -> Seq(Nat)] /\ past \in [Clients -> Seq(Nat)] /\ answer \in [Clients -> Seq(Nat)]
      /\ batch \in [Clients -> Seq(Mail)] /\ toClient \in [Clients -> Seq(Mail)]
      /\ toShell \in [Clients -> Seq(Chunks)] /\ runs \in [Clients -> Seq(Seq(Nat))] /\ toServer \in Seq(Answers)
  BY <1>1 DEF Init
<1>4. breaks \in 0..MaxBreaks /\ foreign \in 0..MaxForeign
  BY ExchangeAssumption DEF Init
<1> QED BY <1>2, <1>3, <1>4 DEF Init, TypeOK, Chunks, Mail

\* A chunk of a request is one.
LEMMA RequestChunkType ==
  ASSUME NEW c \in Clients, NEW k \in 1..NumChunks(ReqLen[c])
  PROVE  RequestChunk(c, k) \in Chunks
<1>1. ReqLen[c] \in Nat
  BY ExchangeAssumption
<1>2. Piece(Bytes(ReqLen[c]), k) \in Seq(Nat)
  BY <1>1, PieceIs
<1> QED BY <1>2 DEF RequestChunk, Chunks

\* The chunks of an answer of n bytes to client c.
AreChunks(a, c, status, n) ==
  /\ a \in Seq(Answers) /\ Len(a) = NumAnswerChunks(n) /\ Len(a) \in Nat
  /\ \A i \in 1..Len(a) :
       /\ a[i].kind = "answer" /\ a[i].id = c /\ a[i].status = status
       /\ a[i].data = Piece(Bytes(n), i)
       /\ a[i].last <=> i = NumAnswerChunks(n)

\* The chunks of an answer are answers.
LEMMA AnswerChunksAt ==
  ASSUME NEW c \in Clients, NEW status \in {"ok", "bad"}, NEW n \in Nat
  PROVE  AreChunks(AnswerChunks(c, status, Bytes(n)), c, status, n)
<1> DEFINE N == NumAnswerChunks(n)
<1>1. Bytes(n) \in Seq(Nat) /\ Len(Bytes(n)) = n
  BY DEF Bytes
<1>2. N \in Nat
  BY ChunkNumbers DEF NumAnswerChunks
<1>3. ASSUME NEW i \in 1..N PROVE Piece(Bytes(n), i) \in Seq(Nat)
  <2>1. CASE n = 0
    <3>1. i = 1
      BY <2>1 DEF NumAnswerChunks
    <3>2. ChunkEnd(0, 1) = 0
      BY ExchangeAssumption DEF ChunkEnd
    <3>3. (1 - 1) * ChunkSize + 1 = 1
      BY ExchangeAssumption
    <3>4. Piece(Bytes(n), i) = SubSeq(Bytes(n), 1, 0)
      BY <1>1, <2>1, <3>1, <3>2, <3>3 DEF Piece
    <3> QED BY <1>1, <3>4
  <2>2. CASE n # 0
    <3>1. i \in 1..NumChunks(n)
      BY <2>2 DEF NumAnswerChunks
    <3> QED BY <3>1, PieceIs
  <2> QED BY <2>1, <2>2
<1> HIDE DEF N
<1>4. ASSUME NEW i \in 1..N
      PROVE  [kind |-> "answer", id |-> c, status |-> status, data |-> Piece(Bytes(n), i), last |-> i = N] \in Answers
  BY <1>3 DEF Answers
<1> DEFINE R(i) == [kind |-> "answer", id |-> c, status |-> status, data |-> Piece(Bytes(n), i), last |-> i = N]
           a == AnswerChunks(c, status, Bytes(n))
<1>5. a = [i \in 1..N |-> R(i)]
  BY <1>1 DEF AnswerChunks, N
<1>6. \A i \in 1..N : R(i) \in Answers
  BY <1>4
<1>7. /\ R(1).kind = "answer"
      /\ \A i \in 1..N : /\ R(i).kind = "answer" /\ R(i).id = c /\ R(i).status = status
                         /\ R(i).data = Piece(Bytes(n), i)
                         /\ R(i).last <=> i = N
  OBVIOUS
<1> HIDE DEF R, a
<1>8. a \in Seq(Answers) /\ Len(a) = N /\ \A i \in 1..N : a[i] = R(i)
  BY <1>2, <1>5, <1>6
<1> QED BY <1>2, <1>7, <1>8 DEF AreChunks, N, a

\* Every step of a client keeps the types.
LEMMA ClientTyped ==
  ASSUME TypeOK, NEW c \in Clients, Client(c) \/ TimePasses(c)
  PROVE  TypeOK'
<1> USE DEF clientVars, shellVars, netVars
<1>0. /\ toShell \in [Clients -> Seq(Chunks)]
      /\ batch \in [Clients -> Seq(Mail)] /\ toClient \in [Clients -> Seq(Mail)]
      /\ received \in [Clients -> Seq(Nat)]
  BY DEF TypeOK, Chunks, Mail
<1>1. CASE SendHeader(c)
  BY <1>1 DEF SendHeader, Go, TypeOK
<1>2. CASE HeaderFails(c)
  BY <1>2 DEF HeaderFails, Go, TypeOK
<1>3. CASE SendRequestChunk(c)
  <2>1. NumChunks(ReqLen[c]) \in Nat /\ sent[c] \in Nat
    BY ChunkNumbers, ExchangeAssumption DEF TypeOK
  <2>2. sent[c] + 1 \in 1..NumChunks(ReqLen[c])
    BY <1>3, <2>1 DEF SendRequestChunk
  <2>3. RequestChunk(c, sent[c] + 1) \in Chunks
    BY <2>2, RequestChunkType
  <2>4. sent' \in [Clients -> Nat] /\ \A x \in Clients : sent'[x] <= NumChunks(ReqLen[x])
    BY <1>3, <2>1, <2>2 DEF SendRequestChunk, TypeOK
  <2>5. toShell' \in [Clients -> Seq(Chunks)]
    <3>1. toShell[c] \in Seq(Chunks)
      BY <1>0
    <3>2. Append(toShell[c], RequestChunk(c, sent[c] + 1)) \in Seq(Chunks)
      BY <2>3, <3>1
    <3> QED BY <1>0, <1>3, <3>2 DEF SendRequestChunk
  <2>6. reqLost' \in SUBSET Clients
    BY <1>3 DEF SendRequestChunk, TypeOK
  <2> QED BY <1>3, <2>4, <2>6, <2>5 DEF SendRequestChunk, TypeOK, Chunks
<1>4. CASE RequestSent(c)
  BY <1>4 DEF RequestSent, Go, TypeOK
<1>5. CASE CheckTimeout(c)
  BY <1>5 DEF CheckTimeout, Go, TypeOK
<1>6. CASE ReadBatch(c)
  <2>1. PICK k \in 1..Len(toClient[c]) :
          /\ batch' = [batch EXCEPT ![c] = SubSeq(toClient[c], 1, k)]
          /\ toClient' = [toClient EXCEPT ![c] = SubSeq(@, k + 1, Len(@))]
    BY <1>6 DEF ReadBatch
  <2>2. toClient[c] \in Seq(Mail) /\ Len(toClient[c]) \in Nat
    BY DEF TypeOK, Mail
  <2>3. SubSeq(toClient[c], 1, k) \in Seq(Mail) /\ SubSeq(toClient[c], k + 1, Len(toClient[c])) \in Seq(Mail)
    BY <2>1, <2>2
  <2>4. batch' \in [Clients -> Seq(Mail)] /\ toClient' \in [Clients -> Seq(Mail)]
    BY <1>0, <2>1, <2>3
  <2> QED BY <1>6, <2>4 DEF ReadBatch, Go, TypeOK, Mail
<1>7. CASE ReadFails(c)
  BY <1>7 DEF ReadFails, Go, TypeOK
<1>8. CASE BatchDone(c)
  BY <1>8 DEF BatchDone, Go, TypeOK
<1>9. CASE MeetForeign(c) \/ MeetError(c)
  <2>1. batch' \in [Clients -> Seq(Mail)]
    <3>1. batch' = [batch EXCEPT ![c] = <<>>]
      BY <1>9 DEF MeetForeign, MeetError
    <3>2. <<>> \in Seq(Mail)
      OBVIOUS
    <3> QED BY <1>0, <3>1, <3>2
  <2>2. dropped' \in SUBSET Clients
    BY <1>9 DEF MeetForeign, MeetError, TypeOK
  <2> QED BY <1>9, <2>1, <2>2 DEF MeetForeign, MeetError, Go, TypeOK, Mail
<1>10. CASE KeepChunk(c)
  <2>1. batch[c] \in Seq(Mail) /\ batch[c] # <<>>
    BY <1>0, <1>10 DEF KeepChunk
  <2>2. Head(batch[c]) \in Mail /\ IsOwn(c, Head(batch[c])) /\ Tail(batch[c]) \in Seq(Mail)
    BY <1>10, <2>1 DEF KeepChunk
  <2>3. Head(batch[c]).data \in Seq(Nat)
    BY <2>2 DEF Mail, Answers, Foreign, Input, IsOwn
  <2>4. received[c] \o Head(batch[c]).data \in Seq(Nat)
    <3>1. \A p, d \in Seq(Nat) : p \o d \in Seq(Nat)
      BY ConcatAt
    <3> QED BY <1>0, <2>3, <3>1
  <2>5. received' \in [Clients -> Seq(Nat)]
    BY <1>0, <1>10, <2>4 DEF KeepChunk
  <2>6. batch' \in [Clients -> Seq(Mail)]
    <3>1. <<>> \in Seq(Mail)
      OBVIOUS
    <3>2. batch' \in {[batch EXCEPT ![c] = <<>>], [batch EXCEPT ![c] = Tail(batch[c])]}
      BY <1>10 DEF KeepChunk
    <3> QED BY <1>0, <2>2, <3>1, <3>2
  <2>7. pc' \in [Clients -> {"header", "send", "check", "read", "parse", "ok", "failed"}]
    BY <1>10 DEF KeepChunk, Decode, Go, TypeOK
  <2> QED BY <1>10, <2>5, <2>6, <2>7 DEF KeepChunk, TypeOK, Mail
<1>11. CASE TimePasses(c)
  BY <1>11 DEF TimePasses, TypeOK
<1>12. CASE ReadPart(c)
  BY <1>12 DEF ReadPart, Go, TypeOK
<1> QED BY <1>1, <1>2, <1>3, <1>4, <1>5, <1>6, <1>7, <1>8, <1>9, <1>10, <1>11, <1>12 DEF Client

\* So does every step of the shell.
LEMMA ShellTyped ==
  ASSUME TypeOK, Shell
  PROVE  TypeOK'
<1> USE DEF clientVars, shellVars, netVars
<1> DEFINE M(c) == Head(toShell[c])
<1>0. /\ toShell \in [Clients -> Seq(Chunks)] /\ past \in [Clients -> Seq(Nat)]
      /\ runs \in [Clients -> Seq(Seq(Nat))] /\ answer \in [Clients -> Seq(Nat)]
      /\ toServer \in Seq(Answers)
  BY DEF TypeOK, Chunks
<1>1. ASSUME NEW c \in Clients, TakeChunk(c)
      PROVE  /\ M(c).id \in Clients /\ Appended(M(c)) \in Seq(Nat)
             /\ toShell' \in [Clients -> Seq(Chunks)]
  <2>1. toShell[c] \in Seq(Chunks) /\ toShell[c] # <<>>
    BY <1>0, <1>1 DEF TakeChunk
  <2>2. M(c) \in Chunks /\ Tail(toShell[c]) \in Seq(Chunks)
    BY <2>1
  <2>3. M(c).data \in Seq(Nat) /\ M(c).id \in Clients
    BY <2>2 DEF Chunks
  <2>4. <<>> \in Seq(Nat) /\ past[M(c).id] \in Seq(Nat)
    BY <1>0, <2>3
  <2> HIDE DEF M
  <2>5. \A p, d \in Seq(Nat) : p \o d \in Seq(Nat)
    BY ConcatAt
  <2>6. Appended(M(c)) \in Seq(Nat)
    BY <2>3, <2>4, <2>5 DEF Appended
  <2>7. toShell' \in [Clients -> Seq(Chunks)]
    BY <1>0, <1>1, <2>2 DEF TakeChunk, M
  <2> QED BY <2>3, <2>6, <2>7
<1>2. ASSUME NEW c \in Clients, StoreChunk(c) PROVE TypeOK'
  <2>1. TakeChunk(c) /\ M(c).id \in Clients
    BY <1>1, <1>2 DEF StoreChunk
  <2>2. past' \in [Clients -> Seq(Nat)] /\ pending' \in SUBSET Clients
    <3>1. past' = [past EXCEPT ![M(c).id] = Appended(M(c))] /\ pending' = pending \cup {M(c).id}
      BY <1>2 DEF StoreChunk
    <3>2. Appended(M(c)) \in Seq(Nat) /\ pending \in SUBSET Clients
      BY <1>1, <2>1 DEF TypeOK
    <3> HIDE DEF M
    <3> QED BY <1>0, <2>1, <3>1, <3>2
  <2> QED BY <1>1, <1>2, <2>1, <2>2 DEF StoreChunk, TakeChunk, TypeOK, Chunks
<1>3. ASSUME NEW c \in Clients, RunRequest(c) \/ RunPanics(c) PROVE TypeOK'
  <2>1. TakeChunk(c) /\ M(c).id \in Clients
    BY <1>1, <1>3 DEF RunRequest, RunPanics
  <2>2. /\ pending' = pending \ {M(c).id}
        /\ past' = [past EXCEPT ![M(c).id] = <<>>]
        /\ runs' = [runs EXCEPT ![M(c).id] = Append(@, Appended(M(c)))]
    BY <1>3 DEF RunRequest, RunPanics
  <2>3. past' \in [Clients -> Seq(Nat)] /\ pending' \in SUBSET Clients
    <3>1. pending \in SUBSET Clients /\ <<>> \in Seq(Nat)
      BY DEF TypeOK
    <3> HIDE DEF M
    <3> QED BY <1>0, <2>1, <2>2, <3>1
  <2>4. runs' \in [Clients -> Seq(Seq(Nat))]
    <3>1. Appended(M(c)) \in Seq(Nat)
      BY <1>1, <2>1
    <3> HIDE DEF M
    <3>2. Append(runs[M(c).id], Appended(M(c))) \in Seq(Seq(Nat))
      BY <1>0, <2>1, <3>1
    <3> QED BY <1>0, <2>1, <2>2, <3>2
  <2>5. answer' \in [Clients -> Seq(Nat)] /\ toServer' \in Seq(Answers)
    <3>1. CASE RunPanics(c)
      BY <3>1 DEF RunPanics, TypeOK
    <3>2. CASE RunRequest(c)
      <4>1. PICK n \in 0..MaxRes, status \in {"ok", "bad"} :
              /\ answer' = [answer EXCEPT ![M(c).id] = Bytes(n)]
              /\ toServer' = toServer \o AnswerChunks(M(c).id, status, Bytes(n))
        BY <3>2 DEF RunRequest
      <4>2. n \in Nat /\ Bytes(n) \in Seq(Nat)
        BY ExchangeAssumption DEF Bytes
      <4>3. AnswerChunks(M(c).id, status, Bytes(n)) \in Seq(Answers)
        <5>1. \A x \in Clients, s \in {"ok", "bad"}, k \in Nat : AnswerChunks(x, s, Bytes(k)) \in Seq(Answers)
          BY AnswerChunksAt DEF AreChunks
        <5> HIDE DEF M
        <5> QED BY <2>1, <4>2, <5>1
      <4>4. toServer' \in Seq(Answers)
        <5>1. \A p, d \in Seq(Answers) : p \o d \in Seq(Answers)
          BY ConcatAt
        <5> QED BY <1>0, <4>1, <4>3, <5>1
      <4> HIDE DEF M
      <4> QED BY <1>0, <2>1, <4>1, <4>2, <4>4
    <3> QED BY <1>3, <3>1, <3>2
  <2>6. running' \in BOOLEAN
    BY <1>3 DEF RunRequest, RunPanics, TypeOK
  <2>7. UNCHANGED <<clientVars, netVars, toClient, reqLost>>
    BY <2>1 DEF TakeChunk
  <2> QED BY <1>1, <2>1, <2>3, <2>4, <2>5, <2>6, <2>7 DEF TypeOK, Chunks
<1> QED BY <1>2, <1>3 DEF Shell

\* And of the network.
LEMMA NetworkTyped ==
  ASSUME TypeOK, Network
  PROVE  TypeOK'
<1> USE DEF clientVars, shellVars, netVars
<1>0. /\ toShell \in [Clients -> Seq(Chunks)] /\ toClient \in [Clients -> Seq(Mail)]
  BY DEF TypeOK, Chunks, Mail
<1>1. CASE RouteAnswer
  <2>1. toServer \in Seq(Answers) /\ toServer # <<>> /\ Head(toServer) \in Answers /\ Tail(toServer) \in Seq(Answers)
    BY <1>1 DEF RouteAnswer, TypeOK
  <2>2. Head(toServer).id \in Clients /\ Head(toServer) \in Mail
    BY <2>1 DEF Answers, Mail
  <2>3. toClient' \in [Clients -> Seq(Mail)]
    <3> DEFINE m == Head(toServer)
    <3>1. toClient' = IF up[m.id] THEN [toClient EXCEPT ![m.id] = Append(@, m)] ELSE toClient
      BY <1>1 DEF RouteAnswer
    <3> HIDE DEF m
    <3>2. m.id \in Clients /\ m \in Mail
      BY <2>2 DEF m
    <3>3. Append(toClient[m.id], m) \in Seq(Mail)
      BY <1>0, <3>2
    <3> QED BY <1>0, <3>1, <3>2, <3>3
  <2> QED BY <1>1, <2>1, <2>3 DEF RouteAnswer, TypeOK, Mail
<1>2. CASE ShellLinkBreaks
  <2>1. PICK k \in [Clients -> UNION {0..Len(toShell[c]) : c \in Clients}] :
          /\ \A c \in Clients : k[c] <= Len(toShell[c])
          /\ toShell' = [c \in Clients |-> SubSeq(toShell[c], 1, k[c])]
          /\ reqLost' = reqLost \cup {c \in Clients : k[c] < Len(toShell[c])}
    BY <1>2 DEF ShellLinkBreaks
  <2>2. \A c \in Clients : toShell[c] \in Seq(Chunks) /\ Len(toShell[c]) \in Nat
    BY <1>0
  <2>3. \A c \in Clients : k[c] \in Nat
    BY <2>1, <2>2
  <2>4. ASSUME NEW c \in Clients PROVE SubSeq(toShell[c], 1, k[c]) \in Seq(Chunks)
    BY <2>1, <2>2, <2>3
  <2>5. toShell' \in [Clients -> Seq(Chunks)] /\ reqLost' \in SUBSET Clients
    BY <2>1, <2>4 DEF TypeOK
  <2>6. breaks' \in 0..MaxBreaks
    BY <1>2, ExchangeAssumption DEF ShellLinkBreaks, TypeOK
  <2>7. toServer' \in Seq(Answers) /\ ansLost' \in SUBSET Clients
    <3>1. PICK n \in 0..Len(toServer) :
            /\ toServer' = SubSeq(toServer, n + 1, Len(toServer))
            /\ ansLost' = ansLost \cup {toServer[i].id : i \in 1..n}
      BY <1>2 DEF ShellLinkBreaks
    <3>2. toServer \in Seq(Answers) /\ Len(toServer) \in Nat
      BY DEF TypeOK
    <3>3. SubSeq(toServer, n + 1, Len(toServer)) \in Seq(Answers)
      BY <3>1, <3>2
    <3>4. \A i \in 1..n : toServer[i] \in Answers
      BY <3>1, <3>2
    <3>5. \A i \in 1..n : toServer[i].id \in Clients
      BY <3>4 DEF Answers
    <3> QED BY <3>1, <3>3, <3>5 DEF TypeOK
  <2> QED BY <1>2, <2>5, <2>6, <2>7 DEF ShellLinkBreaks, TypeOK, Chunks
<1>3. ASSUME NEW c \in Clients, Misroute(c) PROVE TypeOK'
  <2>1. toClient' \in [Clients -> Seq(Mail)]
    <3>1. PICK m \in {Foreign, Input} : toClient' = [toClient EXCEPT ![c] = Append(@, m)]
      BY <1>3 DEF Misroute
    <3>2. Append(toClient[c], m) \in Seq(Mail)
      BY <1>0 DEF Mail
    <3> QED BY <1>0, <3>1, <3>2
  <2>2. foreign' \in 0..MaxForeign
    BY <1>3, ExchangeAssumption DEF Misroute, TypeOK
  <2> QED BY <1>3, <2>1, <2>2 DEF Misroute, TypeOK, Mail
<1>4. ASSUME NEW c \in Clients, ClientLinkBreaks(c) PROVE TypeOK'
  <2>1. PICK k \in 0..Len(toShell[c]) :
          /\ toShell' = [toShell EXCEPT ![c] = SubSeq(@, 1, k)]
          /\ reqLost' = IF k < Len(toShell[c]) THEN reqLost \cup {c} ELSE reqLost
    BY <1>4 DEF ClientLinkBreaks
  <2>2. toShell[c] \in Seq(Chunks) /\ Len(toShell[c]) \in Nat
    BY <1>0
  <2>3. SubSeq(toShell[c], 1, k) \in Seq(Chunks)
    BY <2>1, <2>2
  <2>4. toShell' \in [Clients -> Seq(Chunks)] /\ reqLost' \in SUBSET Clients
    BY <1>0, <2>1, <2>3 DEF TypeOK
  <2>5. breaks' \in 0..MaxBreaks /\ up' \in [Clients -> BOOLEAN]
    BY <1>4, ExchangeAssumption DEF ClientLinkBreaks, TypeOK
  <2> QED BY <1>4, <2>4, <2>5 DEF ClientLinkBreaks, TypeOK, Chunks
<1> QED BY <1>1, <1>2, <1>3, <1>4 DEF Network

\* Every step keeps the types.
LEMMA TypedStep == TypeOK /\ [Next]_vars => TypeOK'
<1>1. TypeOK /\ UNCHANGED vars => TypeOK'
  BY DEF TypeOK, vars, clientVars, shellVars, netVars
<1> QED BY <1>1, ClientTyped, ShellTyped, NetworkTyped DEF Next, Done

\* What is on its way and what is kept always has its type, and no client
\* sends more chunks than its request has.
THEOREM TypeCorrect == Spec => []TypeOK
BY InitTyped, TypedStep, PTL DEF Spec

-----------------------------------------------------------------------------
(* Requests.  For a client whose request has n bytes: e is the end of what   *)
(* it has written, q its chunks on their way to the shell, p what the shell  *)
(* keeps of it, and r the payloads it has run.                               *)

Rising(d) == \A i, j \in 1..Len(d) : i < j => d[i] < d[j]

\* A chunk that client c has written.
Written(c, n, e, m) ==
  m.id = c /\ Stretch(m.data) /\ Final(m.data) <= e /\ (m.last <=> Final(m.data) = n)

\* The bytes kept and the chunks in the queue follow each other.
Kept(n, e, p) ==
  /\ Rising(p)
  /\ \A i \in 1..Len(p) : p[i] < n /\ p[i] <= e

Queued(c, n, e, q, p) ==
  /\ \A i \in 1..Len(q) : Written(c, n, e, q[i])
  /\ \A i \in 1..Len(q), k \in 1..Len(p) : p[k] < First(q[i].data)
  /\ \A i, j \in 1..Len(q) : i < j => Final(q[i].data) < First(q[j].data)

\* A request that was run is over: all of it is sent and nothing of it is left.
Run(n, e, q, p, r) ==
  /\ Len(r) <= 1
  /\ r # <<>> => q = <<>> /\ e = n /\ p = <<>>
  /\ \A k \in 1..Len(r) : r[k] # <<>> /\ Rising(r[k]) /\ Final(r[k]) = n

\* Without a loss there is no gap.
NoGap(n, e, q, p, r) ==
  /\ r \in {<<>>, <<Bytes(n)>>}
  /\ r = <<>> =>
       /\ p = Bytes(Len(p))
       /\ q # <<>> => First(q[1].data) = Len(p) + 1 /\ Final(q[Len(q)].data) = e
       /\ q = <<>> => e = Len(p)
       /\ \A i \in 1..(Len(q) - 1) : First(q[i + 1].data) = Final(q[i].data) + 1

Orderly(c, n, e, q, p, r) == Kept(n, e, p) /\ Queued(c, n, e, q, p) /\ Run(n, e, q, p, r)

\* The bytes of a stretch lie between its ends, and rise.
LEMMA StretchIs ==
  ASSUME NEW d \in Seq(Nat), Stretch(d)
  PROVE  /\ First(d) \in Nat /\ Final(d) \in Nat /\ First(d) <= Final(d)
         /\ Len(d) \in Nat /\ Len(d) > 0
         /\ \A i \in 1..Len(d) : First(d) <= d[i] /\ d[i] <= Final(d)
         /\ Rising(d)
<1>1. Len(d) \in Nat /\ Len(d) > 0
  BY DEF Stretch
<1>2. 1 \in 1..Len(d) /\ Len(d) \in 1..Len(d)
  BY <1>1
<1>3. First(d) \in Nat /\ Final(d) \in Nat
  BY <1>2 DEF First, Final
<1>4. \A i \in 1..Len(d) : d[i] = First(d) + (i - 1)
  BY DEF Stretch
<1>5. Final(d) = First(d) + (Len(d) - 1)
  BY <1>2, <1>4 DEF Final
<1> DEFINE f == First(d)
           g == Final(d)
<1> HIDE DEF f, g
<1>6. f \in Nat /\ g = f + (Len(d) - 1) /\ \A i \in 1..Len(d) : d[i] = f + (i - 1)
  BY <1>3, <1>4, <1>5 DEF f, g
<1>7. f <= g /\ \A i \in 1..Len(d) : f <= d[i] /\ d[i] <= g
  BY <1>1, <1>6
<1>8. Rising(d)
  BY <1>1, <1>6 DEF Rising
<1> QED BY <1>1, <1>3, <1>7, <1>8 DEF f, g

\* Nothing is sent, kept or run at first.
LEMMA OrderlyAtFirst ==
  ASSUME NEW c, NEW n \in Nat
  PROVE  Orderly(c, n, 0, <<>>, <<>>, <<>>) /\ NoGap(n, 0, <<>>, <<>>, <<>>)
<1>1. Kept(n, 0, <<>>)
  BY DEF Kept, Rising
<1>2. Queued(c, n, 0, <<>>, <<>>) /\ Run(n, 0, <<>>, <<>>, <<>>)
  BY DEF Queued, Run
<1>3. Bytes(0) = <<>>
  BY DEF Bytes
<1>4. NoGap(n, 0, <<>>, <<>>, <<>>)
  BY <1>3 DEF NoGap
<1> QED BY <1>1, <1>2, <1>4 DEF Orderly

\* The next chunk of a request is written, or lost as it is written.
LEMMA OrderlySend ==
  ASSUME NEW c, NEW n \in Nat, NEW e \in Nat, NEW q \in Seq(Chunks), NEW p \in Seq(Nat),
         NEW r \in Seq(Seq(Nat)),
         Orderly(c, n, e, q, p, r),
         NEW g \in Nat, e < g, g <= n
  PROVE  /\ Orderly(c, n, g, q, p, r)
         /\ \A m \in Chunks :
              Written(c, n, g, m) /\ First(m.data) = e + 1 /\ Final(m.data) = g =>
                /\ Orderly(c, n, g, Append(q, m), p, r)
                /\ NoGap(n, e, q, p, r) => NoGap(n, g, Append(q, m), p, r)
<1>1. Kept(n, e, p) /\ Queued(c, n, e, q, p) /\ Run(n, e, q, p, r)
  BY DEF Orderly
<1>2. r = <<>>
  BY <1>1 DEF Run
<1>3. Kept(n, g, p)
  BY <1>1 DEF Kept
<1>4. \A i \in 1..Len(q) : q[i].data \in Seq(Nat) /\ Written(c, n, g, q[i])
  <2> TAKE i \in 1..Len(q)
  <2>0. q[i] \in Chunks
    OBVIOUS
  <2>1. q[i].data \in Seq(Nat) /\ Written(c, n, e, q[i])
    BY <1>1, <2>0 DEF Queued, Chunks
  <2>2. Final(q[i].data) \in Nat
    BY <2>1, StretchIs DEF Written
  <2> QED BY <2>1, <2>2 DEF Written
<1>5. Queued(c, n, g, q, p) /\ Run(n, g, q, p, r)
  BY <1>1, <1>2, <1>4 DEF Queued, Run
<1>6. ASSUME NEW m \in Chunks, Written(c, n, g, m), First(m.data) = e + 1, Final(m.data) = g
      PROVE  /\ Orderly(c, n, g, Append(q, m), p, r)
             /\ NoGap(n, e, q, p, r) => NoGap(n, g, Append(q, m), p, r)
  <2> DEFINE Q == Append(q, m)
  <2>1. Len(q) \in Nat /\ Len(Q) = Len(q) + 1 /\ Q[Len(q) + 1] = m /\ \A i \in 1..Len(q) : Q[i] = q[i]
    BY AppendProperties
  <2> HIDE DEF Q
  <2>2. \A i \in 1..Len(Q) : i \in 1..Len(q) \/ (i = Len(q) + 1 /\ Q[i] = m)
    BY <2>1
  <2>3. \A i \in 1..Len(Q) : Written(c, n, g, Q[i])
    BY <1>4, <1>6, <2>1, <2>2
  <2>4. \A k \in 1..Len(p) : p[k] \in Nat /\ p[k] < First(m.data)
    BY <1>1, <1>6 DEF Kept
  <2>5. \A i \in 1..Len(q) : Final(q[i].data) < First(m.data)
    <3> TAKE i \in 1..Len(q)
    <3>1. Written(c, n, e, q[i])
      BY <1>1 DEF Queued
    <3>2. Final(q[i].data) \in Nat /\ Final(q[i].data) <= e
      BY <1>4, <3>1, StretchIs DEF Written
    <3> QED BY <1>6, <3>2
  <2>6. \A i \in 1..Len(Q), k \in 1..Len(p) : p[k] < First(Q[i].data)
    BY <1>1, <2>1, <2>2, <2>4 DEF Queued
  <2>7. \A i, j \in 1..Len(Q) : i < j => Final(Q[i].data) < First(Q[j].data)
    <3> TAKE i, j \in 1..Len(Q)
    <3> HAVE i < j
    <3>1. i \in 1..Len(q)
      BY <2>1
    <3>2. CASE j \in 1..Len(q)
      BY <1>1, <2>1, <3>1, <3>2 DEF Queued
    <3>3. CASE j = Len(q) + 1 /\ Q[j] = m
      BY <2>1, <2>5, <3>1, <3>3
    <3> QED BY <2>2, <3>2, <3>3
  <2>8. Queued(c, n, g, Q, p)
    BY <2>3, <2>6, <2>7 DEF Queued
  <2>9. Run(n, g, Q, p, r)
    BY <1>2, <1>5 DEF Run
  <2>10. ASSUME NoGap(n, e, q, p, r)
         PROVE  NoGap(n, g, Q, p, r)
    <3>1. /\ p = Bytes(Len(p))
          /\ q # <<>> => First(q[1].data) = Len(p) + 1 /\ Final(q[Len(q)].data) = e
          /\ q = <<>> => e = Len(p)
          /\ \A i \in 1..(Len(q) - 1) : First(q[i + 1].data) = Final(q[i].data) + 1
      BY <1>2, <2>10 DEF NoGap
    <3>2. Q # <<>> /\ Final(Q[Len(Q)].data) = g
      BY <1>6, <2>1
    <3>3. First(Q[1].data) = Len(p) + 1
      <4>1. CASE q = <<>>
        BY <1>6, <2>1, <3>1, <4>1
      <4>2. CASE q # <<>>
        <5>1. 1 \in 1..Len(q)
          BY <2>1, <4>2
        <5> QED BY <2>1, <3>1, <4>2, <5>1
      <4> QED BY <4>1, <4>2
    <3>4. ASSUME NEW i \in 1..(Len(Q) - 1)
          PROVE  First(Q[i + 1].data) = Final(Q[i].data) + 1
      <4>1. i \in 1..Len(q) /\ Q[i] = q[i]
        BY <2>1
      <4>2. CASE i = Len(q)
        <5>1. Q[i + 1] = m /\ Final(Q[i].data) = e
          BY <2>1, <3>1, <4>1, <4>2
        <5> QED BY <1>6, <5>1
      <4>3. CASE i # Len(q)
        <5>1. i \in 1..(Len(q) - 1) /\ Q[i + 1] = q[i + 1]
          BY <2>1, <4>1, <4>3
        <5> QED BY <3>1, <4>1, <5>1
      <4> QED BY <4>2, <4>3
    <3> QED BY <1>2, <3>1, <3>2, <3>3, <3>4 DEF NoGap
  <2> QED BY <1>3, <2>8, <2>9, <2>10 DEF Orderly, Q
<1> QED BY <1>3, <1>5, <1>6 DEF Orderly

\* The end of what is in the queue is lost.
LEMMA OrderlyCut ==
  ASSUME NEW c, NEW n \in Nat, NEW e \in Nat, NEW q \in Seq(Chunks), NEW p \in Seq(Nat),
         NEW r \in Seq(Seq(Nat)),
         Orderly(c, n, e, q, p, r),
         NEW k \in 0..Len(q)
  PROVE  /\ Orderly(c, n, e, SubSeq(q, 1, k), p, r)
         /\ k = Len(q) => SubSeq(q, 1, k) = q
<1> DEFINE Q == SubSeq(q, 1, k)
<1>1. Kept(n, e, p) /\ Queued(c, n, e, q, p) /\ Run(n, e, q, p, r)
  BY DEF Orderly
<1>2. Len(q) \in Nat /\ k \in Nat /\ k <= Len(q)
  OBVIOUS
<1>3. Q \in Seq(Chunks) /\ Len(Q) = k /\ \A i \in 1..k : Q[i] = q[i]
  <2>1. 0 \in Nat /\ k - 0 = k /\ \A i \in 1..k : 0 + i = i
    BY <1>2
  <2>2. /\ SubSeq(q, 0 + 1, k) \in Seq(Chunks) /\ Len(SubSeq(q, 0 + 1, k)) = k - 0
        /\ \A i \in 1..(k - 0) : SubSeq(q, 0 + 1, k)[i] = q[0 + i]
    BY <1>2, <2>1, PartAt
  <2> QED BY <2>1, <2>2
<1> HIDE DEF Q
<1>4. \A i \in 1..Len(Q) : i \in 1..Len(q) /\ Q[i] = q[i]
  BY <1>2, <1>3
<1>5. Queued(c, n, e, Q, p)
  BY <1>1, <1>4 DEF Queued
<1>6. Run(n, e, Q, p, r)
  <2>1. q = <<>> => Q = <<>>
    BY <1>2, <1>3
  <2> QED BY <1>1, <2>1 DEF Run
<1>7. k = Len(q) => Q = q
  BY <1>2, <1>3, SeqEqual
<1> QED BY <1>1, <1>5, <1>6, <1>7 DEF Orderly, Q

\* The chunk m at the head, its data d, and s, what is kept prolonged with them.
Follows(c, n, e, q, p, r, m, d, s) ==
  /\ Len(q) \in Nat /\ m = q[1] /\ 1 \in 1..Len(q) /\ r = <<>>
  /\ d \in Seq(Nat) /\ Written(c, n, e, m) /\ First(d) \in Nat /\ Final(d) \in Nat /\ First(d) <= Final(d)
  /\ s \in Seq(Nat) /\ s # <<>> /\ Len(s) = Len(p) + Len(d) /\ Rising(s) /\ Final(s) = Final(d)
  /\ \A i \in 1..Len(s) : s[i] <= Final(d)
  /\ NoGap(n, e, q, p, r) => s = Bytes(Len(s)) /\ Final(d) = Len(s)

\* The chunk at the head follows what is kept.
LEMMA HeadFollows ==
  ASSUME NEW c, NEW n \in Nat, NEW e \in Nat, NEW q \in Seq(Chunks), NEW p \in Seq(Nat),
         NEW r \in Seq(Seq(Nat)),
         Orderly(c, n, e, q, p, r), q # <<>>
  PROVE  Follows(c, n, e, q, p, r, Head(q), Head(q).data, p \o Head(q).data)
<1> DEFINE m == Head(q)
           d == m.data
           s == p \o d
<1>0. m = Head(q) /\ d = m.data /\ s = p \o d
  OBVIOUS
<1>1. Kept(n, e, p) /\ Queued(c, n, e, q, p) /\ Run(n, e, q, p, r)
  BY DEF Orderly
<1>2. Len(q) \in Nat /\ m = q[1] /\ 1 \in 1..Len(q)
  OBVIOUS
<1>3. r = <<>>
  BY <1>1 DEF Run
<1>4. m \in Chunks /\ Written(c, n, e, m)
  BY <1>1, <1>2 DEF Queued
<1>5. d \in Seq(Nat) /\ Stretch(d)
  BY <1>4 DEF Chunks, Written
<1>6. \A i \in 1..Len(p) : p[i] \in Nat /\ p[i] < First(d)
  BY <1>1, <1>2 DEF Queued
<1> HIDE DEF m, d, s
<1>7. /\ First(d) \in Nat /\ Final(d) \in Nat /\ First(d) <= Final(d)
      /\ Len(d) \in Nat /\ Len(d) > 0
      /\ \A i \in 1..Len(d) : First(d) <= d[i] /\ d[i] <= Final(d)
      /\ Rising(d)
  BY <1>5, StretchIs
<1>8. /\ s \in Seq(Nat) /\ Len(s) = Len(p) + Len(d)
      /\ \A i \in 1..Len(p) : s[i] = p[i]
      /\ \A i \in 1..Len(d) : s[Len(p) + i] = d[i]
  BY <1>0, <1>5, ConcatAt
<1>9. Len(p) \in Nat /\ s # <<>>
  BY <1>7, <1>8
<1>10. \A i \in 1..Len(s) :
         \/ i \in 1..Len(p) /\ s[i] = p[i]
         \/ i - Len(p) \in 1..Len(d) /\ s[i] = d[i - Len(p)] /\ i > Len(p)
  <2> TAKE i \in 1..Len(s)
  <2>1. CASE i <= Len(p)
    BY <1>8, <1>9, <2>1
  <2>2. CASE i > Len(p)
    <3>1. i - Len(p) \in 1..Len(d) /\ Len(p) + (i - Len(p)) = i
      BY <1>7, <1>8, <1>9, <2>2
    <3>2. s[Len(p) + (i - Len(p))] = d[i - Len(p)]
      BY <1>8, <3>1
    <3> QED BY <2>2, <3>1, <3>2
  <2> QED BY <1>9, <2>1, <2>2
<1>11. \A i \in 1..Len(d) : d[i] \in Nat
  BY <1>5
<1>12. \A i \in 1..Len(s) : s[i] <= Final(d)
  <2> TAKE i \in 1..Len(s)
  <2>1. CASE i \in 1..Len(p) /\ s[i] = p[i]
    BY <1>6, <1>7, <2>1
  <2>2. CASE i - Len(p) \in 1..Len(d) /\ s[i] = d[i - Len(p)]
    BY <1>7, <2>2
  <2> QED BY <1>10, <2>1, <2>2
<1>13. Rising(s)
  <2> SUFFICES ASSUME NEW i \in 1..Len(s), NEW j \in 1..Len(s), i < j PROVE s[i] < s[j]
    BY DEF Rising
  <2>1. CASE j \in 1..Len(p) /\ s[j] = p[j]
    <3>1. i \in 1..Len(p) /\ s[i] = p[i]
      BY <1>8, <1>9, <2>1
    <3> QED BY <1>1, <2>1, <3>1 DEF Kept, Rising
  <2>2. CASE j - Len(p) \in 1..Len(d) /\ s[j] = d[j - Len(p)]
    <3>1. CASE i \in 1..Len(p) /\ s[i] = p[i]
      <4>1. First(d) <= d[j - Len(p)] /\ d[j - Len(p)] \in Nat
        BY <1>7, <1>11, <2>2
      <4>2. p[i] \in Nat /\ p[i] < First(d)
        BY <1>6, <3>1
      <4> QED BY <1>7, <2>2, <3>1, <4>1, <4>2
    <3>2. CASE i - Len(p) \in 1..Len(d) /\ s[i] = d[i - Len(p)]
      <4>1. i - Len(p) < j - Len(p)
        BY <1>9
      <4> QED BY <1>7, <2>2, <3>2, <4>1 DEF Rising
    <3> QED BY <1>10, <3>1, <3>2
  <2> QED BY <1>10, <2>1, <2>2
<1>14. Final(s) = Final(d)
  <2>1. Len(d) \in 1..Len(d)
    BY <1>7
  <2> QED BY <1>8, <2>1 DEF Final
<1>15. ASSUME NoGap(n, e, q, p, r) PROVE s = Bytes(Len(s)) /\ Final(d) = Len(s)
  <2>1. p = Bytes(Len(p)) /\ First(d) = Len(p) + 1
    BY <1>0, <1>2, <1>3, <1>15 DEF NoGap
  <2>2. Bytes(Len(p)) \o d = Bytes(Final(d)) /\ Final(d) = Len(p) + Len(d)
    BY <1>5, <1>9, <2>1, Prolongs
  <2> QED BY <1>0, <1>8, <2>1, <2>2
<1> QED BY <1>2, <1>3, <1>4, <1>5, <1>7, <1>8, <1>9, <1>12, <1>13, <1>14, <1>15 DEF Follows, m, d, s

\* The shell takes a chunk that is not the last one, and keeps it.
LEMMA OrderlyStore ==
  ASSUME NEW c, NEW n \in Nat, NEW e \in Nat, NEW q \in Seq(Chunks), NEW p \in Seq(Nat),
         NEW r \in Seq(Seq(Nat)),
         Orderly(c, n, e, q, p, r), e <= n, q # <<>>, ~Head(q).last
  PROVE  /\ Orderly(c, n, e, Tail(q), p \o Head(q).data, r)
         /\ p \o Head(q).data # <<>>
         /\ NoGap(n, e, q, p, r) => NoGap(n, e, Tail(q), p \o Head(q).data, r)
<1> DEFINE m == Head(q)
           d == m.data
           s == p \o d
           Q == Tail(q)
<1>0. m = Head(q) /\ d = m.data /\ s = p \o d /\ ~m.last
  OBVIOUS
<1>1. Kept(n, e, p) /\ Queued(c, n, e, q, p) /\ Run(n, e, q, p, r)
  BY DEF Orderly
<1>3. Q \in Seq(Chunks) /\ Len(Q) = Len(q) - 1 /\ \A i \in 1..Len(Q) : i + 1 \in 1..Len(q) /\ Q[i] = q[i + 1]
  OBVIOUS
<1> HIDE DEF m, d, s, Q
<1>2. /\ Len(q) \in Nat /\ m = q[1] /\ 1 \in 1..Len(q) /\ r = <<>>
      /\ d \in Seq(Nat) /\ Written(c, n, e, m) /\ First(d) \in Nat /\ Final(d) \in Nat /\ First(d) <= Final(d)
      /\ s \in Seq(Nat) /\ s # <<>> /\ Len(s) = Len(p) + Len(d) /\ Rising(s) /\ Final(s) = Final(d)
      /\ \A i \in 1..Len(s) : s[i] <= Final(d)
      /\ NoGap(n, e, q, p, r) => s = Bytes(Len(s)) /\ Final(d) = Len(s)
  <2>1. Follows(c, n, e, q, p, r, m, d, s)
    BY HeadFollows DEF m, d, s
  <2> QED BY <2>1 DEF Follows
<1>5. Final(d) <= e /\ Final(d) # n
  BY <1>0, <1>2 DEF Written
<1>6. \A i \in 1..Len(s) : s[i] \in Nat
  BY <1>2
<1>7. \A i \in 1..Len(s) : s[i] < n /\ s[i] <= e
  BY <1>2, <1>5, <1>6
<1>8. Kept(n, e, s)
  BY <1>2, <1>7 DEF Kept
<1>9. \A i \in 1..Len(Q) : Final(d) < First(Q[i].data)
  <2> TAKE i \in 1..Len(Q)
  <2>1. i + 1 \in 1..Len(q) /\ Q[i] = q[i + 1] /\ 1 < i + 1
    BY <1>3
  <2>2. Final(q[1].data) < First(q[i + 1].data)
    BY <1>1, <1>2, <2>1 DEF Queued
  <2> QED BY <1>0, <1>2, <2>1, <2>2
<1>10. \A i \in 1..Len(Q) : Q[i].data \in Seq(Nat) /\ Written(c, n, e, Q[i])
  <2> TAKE i \in 1..Len(Q)
  <2>1. Q[i] \in Chunks
    BY <1>3
  <2> QED BY <1>1, <1>3, <2>1 DEF Queued, Chunks
<1>11. \A i \in 1..Len(Q), k \in 1..Len(s) : s[k] < First(Q[i].data)
  <2> TAKE i \in 1..Len(Q), k \in 1..Len(s)
  <2>1. First(Q[i].data) \in Nat
    BY <1>10, StretchIs DEF Written
  <2> QED BY <1>2, <1>6, <1>9, <2>1
<1>12. \A i, j \in 1..Len(Q) : i < j => Final(Q[i].data) < First(Q[j].data)
  <2> SUFFICES ASSUME NEW i \in 1..Len(Q), NEW j \in 1..Len(Q), i < j
               PROVE  Final(Q[i].data) < First(Q[j].data)
    OBVIOUS
  <2>1. i + 1 \in 1..Len(q) /\ j + 1 \in 1..Len(q) /\ i + 1 < j + 1 /\ Q[i] = q[i + 1] /\ Q[j] = q[j + 1]
    BY <1>3
  <2> QED BY <1>1, <2>1 DEF Queued
<1>13. Queued(c, n, e, Q, s)
  BY <1>10, <1>11, <1>12 DEF Queued
<1>14. Run(n, e, Q, s, r)
  BY <1>1, <1>2 DEF Run
<1>15. ASSUME NoGap(n, e, q, p, r)
       PROVE  NoGap(n, e, Q, s, r)
  <2>1. /\ q # <<>> => First(q[1].data) = Len(p) + 1 /\ Final(q[Len(q)].data) = e
        /\ \A i \in 1..(Len(q) - 1) : First(q[i + 1].data) = Final(q[i].data) + 1
    BY <1>2, <1>15 DEF NoGap
  <2>2. q # <<>> /\ s = Bytes(Len(s)) /\ Final(d) = Len(s) /\ Final(q[1].data) = Final(d)
    BY <1>0, <1>2, <1>15
  <2>3. CASE Q = <<>>
    <3>1. Len(q) = 1
      BY <1>2, <1>3, <2>3
    <3>2. e = Len(s)
      BY <2>1, <2>2, <3>1
    <3>3. \A i \in 1..(Len(Q) - 1) : FALSE
      BY <2>3
    <3> QED BY <1>2, <2>2, <2>3, <3>2, <3>3 DEF NoGap
  <2>4. CASE Q # <<>>
    <3>1. 1 \in 1..Len(Q) /\ Len(Q) \in 1..Len(Q) /\ 1 \in 1..(Len(q) - 1)
      BY <1>2, <1>3, <2>4
    <3>2. Q[1] = q[1 + 1] /\ Q[Len(Q)] = q[Len(q)]
      <4>1. Len(Q) + 1 = Len(q)
        BY <1>2, <1>3
      <4>2. Q[1] = q[1 + 1] /\ Q[Len(Q)] = q[Len(Q) + 1]
        BY <1>3, <3>1
      <4> QED BY <4>1, <4>2
    <3>3. First(q[1 + 1].data) = Final(q[1].data) + 1
      BY <2>1, <3>1
    <3>4. First(Q[1].data) = Len(s) + 1 /\ Final(Q[Len(Q)].data) = e
      BY <2>1, <2>2, <3>2, <3>3
    <3>5. \A i \in 1..(Len(Q) - 1) : First(Q[i + 1].data) = Final(Q[i].data) + 1
      <4> TAKE i \in 1..(Len(Q) - 1)
      <4>1. i + 1 \in 1..(Len(q) - 1) /\ Q[i] = q[i + 1] /\ Q[i + 1] = q[(i + 1) + 1]
        <5>1. i \in 1..Len(Q) /\ i + 1 \in 1..Len(Q) /\ i + 1 \in 1..(Len(q) - 1)
          BY <1>2, <1>3
        <5> QED BY <1>3, <5>1
      <4> QED BY <2>1, <4>1
    <3> QED BY <1>2, <2>2, <2>4, <3>4, <3>5 DEF NoGap
  <2> QED BY <2>3, <2>4
<1> QED BY <1>2, <1>8, <1>13, <1>14, <1>15 DEF Orderly, m, d, s, Q

\* The shell takes the last chunk and runs the request: it is the first run,
\* and nothing of the request is left.
LEMMA OrderlyRun ==
  ASSUME NEW c, NEW n \in Nat, NEW e \in Nat, NEW q \in Seq(Chunks), NEW p \in Seq(Nat),
         NEW r \in Seq(Seq(Nat)),
         Orderly(c, n, e, q, p, r), e <= n, q # <<>>, Head(q).last
  PROVE  /\ Orderly(c, n, e, Tail(q), <<>>, Append(r, p \o Head(q).data))
         /\ NoGap(n, e, q, p, r) => NoGap(n, e, Tail(q), <<>>, Append(r, p \o Head(q).data))
<1> DEFINE m == Head(q)
           d == m.data
           s == p \o d
           Q == Tail(q)
           R == Append(r, s)
<1>0. m = Head(q) /\ d = m.data /\ s = p \o d /\ m.last /\ R = Append(r, s)
  OBVIOUS
<1>1. Kept(n, e, p) /\ Queued(c, n, e, q, p) /\ Run(n, e, q, p, r)
  BY DEF Orderly
<1>3. Q \in Seq(Chunks) /\ Len(Q) = Len(q) - 1
  OBVIOUS
<1> HIDE DEF m, d, s, Q, R
<1>2. /\ Len(q) \in Nat /\ m = q[1] /\ 1 \in 1..Len(q) /\ r = <<>>
      /\ d \in Seq(Nat) /\ Written(c, n, e, m) /\ First(d) \in Nat /\ Final(d) \in Nat /\ First(d) <= Final(d)
      /\ s \in Seq(Nat) /\ s # <<>> /\ Len(s) = Len(p) + Len(d) /\ Rising(s) /\ Final(s) = Final(d)
      /\ NoGap(n, e, q, p, r) => s = Bytes(Len(s)) /\ Final(d) = Len(s)
  <2>1. Follows(c, n, e, q, p, r, m, d, s)
    BY HeadFollows DEF m, d, s
  <2> QED BY <2>1 DEF Follows
<1>5. Len(R) = 1 /\ R[1] = s /\ R = <<s>>
  BY <1>0, <1>2
<1>6. Final(d) = n /\ e = n
  BY <1>0, <1>2 DEF Written
<1>7. Q = <<>>
  <2> SUFFICES ASSUME Q # <<>> PROVE FALSE
    OBVIOUS
  <2>1. 2 \in 1..Len(q)
    BY <1>2, <1>3
  <2>2. Final(q[1].data) < First(q[2].data) /\ Written(c, n, e, q[2])
    <3>1. /\ \A i \in 1..Len(q) : Written(c, n, e, q[i])
          /\ \A i, j \in 1..Len(q) : i < j => Final(q[i].data) < First(q[j].data)
      BY <1>1 DEF Queued
    <3> QED BY <1>2, <2>1, <3>1
  <2>3. q[2].data \in Seq(Nat)
    <3>1. q[2] \in Chunks
      BY <2>1
    <3> QED BY <3>1 DEF Chunks
  <2>4. First(q[2].data) \in Nat /\ Final(q[2].data) \in Nat /\ First(q[2].data) <= Final(q[2].data)
    BY <2>2, <2>3, StretchIs DEF Written
  <2>5. Final(q[2].data) <= e /\ Final(q[1].data) = n
    BY <1>0, <1>2, <1>6, <2>2 DEF Written
  <2> QED BY <1>6, <2>2, <2>4, <2>5
<1>8. Kept(n, e, <<>>) /\ Queued(c, n, e, Q, <<>>)
  BY <1>7 DEF Kept, Queued, Rising
<1>9. Run(n, e, Q, <<>>, R)
  BY <1>2, <1>5, <1>6, <1>7 DEF Run
<1>10. ASSUME NoGap(n, e, q, p, r) PROVE NoGap(n, e, Q, <<>>, R)
  BY <1>2, <1>5, <1>6, <1>10 DEF NoGap
<1> QED BY <1>8, <1>9, <1>10 DEF Orderly, m, d, s, Q, R

-----------------------------------------------------------------------------
(* The requests of all clients stay orderly.                                 *)

SentEnd(c) == ChunkEnd(ReqLen[c], sent[c])

RequestOf(c) ==
  /\ Orderly(c, ReqLen[c], SentEnd(c), toShell[c], past[c], runs[c])
  /\ c \in pending <=> past[c] # <<>>
  /\ c \in reqLost \/ NoGap(ReqLen[c], SentEnd(c), toShell[c], past[c], runs[c])

RequestInv == \A c \in Clients : RequestOf(c)

requestVars == <<sent, toShell, past, pending, runs, reqLost>>

\* The types of what belongs to one client's request.
LEMMA RequestTypes ==
  ASSUME TypeOK, NEW c \in Clients
  PROVE  /\ ReqLen[c] \in Nat /\ sent[c] \in Nat /\ SentEnd(c) \in Nat /\ SentEnd(c) <= ReqLen[c]
         /\ toShell[c] \in Seq(Chunks) /\ past[c] \in Seq(Nat) /\ runs[c] \in Seq(Seq(Nat))
         /\ sent[c] <= NumChunks(ReqLen[c]) /\ NumChunks(ReqLen[c]) \in Nat
<1>1. ReqLen[c] \in Nat
  BY ExchangeAssumption
<1>2. sent[c] \in Nat /\ sent[c] <= NumChunks(ReqLen[c])
  BY DEF TypeOK
<1>3. toShell[c] \in Seq(Chunks) /\ past[c] \in Seq(Nat) /\ runs[c] \in Seq(Seq(Nat))
  BY DEF TypeOK, Chunks
<1>4. NumChunks(ReqLen[c]) \in Nat
  BY <1>1, ChunkNumbers
<1>5. CASE sent[c] = 0
  BY <1>1, <1>2, <1>3, <1>4, <1>5, Ends DEF SentEnd
<1>6. CASE sent[c] # 0
  <2>1. sent[c] \in 1..NumChunks(ReqLen[c])
    BY <1>2, <1>4, <1>6
  <2>2. ChunkEnd(ReqLen[c], sent[c]) \in Nat /\ ChunkEnd(ReqLen[c], sent[c]) <= ReqLen[c]
    BY <1>1, <2>1, Ends
  <2> QED BY <1>1, <1>2, <1>3, <1>4, <2>2 DEF SentEnd
<1> QED BY <1>5, <1>6

\* At first no request is sent.
LEMMA RequestInit == Init => RequestInv
<1> SUFFICES ASSUME Init, NEW c \in Clients PROVE RequestOf(c)
  BY DEF RequestInv
<1>1. ReqLen[c] \in Nat /\ ChunkEnd(ReqLen[c], 0) = 0
  BY ExchangeAssumption, Ends
<1>2. sent[c] = 0 /\ toShell[c] = <<>> /\ past[c] = <<>> /\ runs[c] = <<>> /\ pending = {}
  BY DEF Init
<1>3. Orderly(c, ReqLen[c], 0, <<>>, <<>>, <<>>) /\ NoGap(ReqLen[c], 0, <<>>, <<>>, <<>>)
  BY <1>1, OrderlyAtFirst
<1> QED BY <1>1, <1>2, <1>3 DEF RequestOf, SentEnd

\* The request of a client is as it was when nothing of it changes.
LEMMA RequestStays ==
  ASSUME NEW c \in Clients, RequestOf(c),
         sent'[c] = sent[c], toShell'[c] = toShell[c], past'[c] = past[c], runs'[c] = runs[c],
         c \in pending' <=> c \in pending, c \in reqLost => c \in reqLost'
  PROVE  RequestOf(c)'
BY DEF RequestOf, SentEnd

\* A client writes the next chunk, or cannot.
LEMMA RequestSend ==
  ASSUME TypeOK, RequestInv, NEW c \in Clients, SendRequestChunk(c)
  PROVE  RequestInv'
<1> DEFINE n == ReqLen[c]
           e == SentEnd(c)
           g == SentEnd(c)'
           m == RequestChunk(c, sent[c] + 1)
<1>0. sent \in [Clients -> Nat] /\ toShell \in [Clients -> Seq(Chunks)]
  BY DEF TypeOK, Chunks
<1>1. /\ n \in Nat /\ sent[c] \in Nat /\ e \in Nat /\ e <= n
      /\ toShell[c] \in Seq(Chunks) /\ past[c] \in Seq(Nat) /\ runs[c] \in Seq(Seq(Nat))
      /\ NumChunks(n) \in Nat /\ sent[c] < NumChunks(n)
  BY RequestTypes DEF SendRequestChunk
<1>2. sent' = [sent EXCEPT ![c] = sent[c] + 1] /\ UNCHANGED <<past, pending, runs>>
  BY DEF SendRequestChunk, shellVars
<1>3. sent[c] + 1 \in 1..NumChunks(n) /\ (sent[c] + 1) - 1 = sent[c] /\ sent'[c] = sent[c] + 1
  BY <1>0, <1>1, <1>2
<1>4. g = ChunkEnd(n, sent[c] + 1)
  BY <1>3 DEF SentEnd
<1>5. /\ g \in Nat /\ e < g /\ g <= n /\ (sent[c] + 1 = NumChunks(n) <=> g = n)
  BY <1>1, <1>3, <1>4, Ends DEF SentEnd
<1>6. m \in Chunks /\ m.id = c /\ m.data = Piece(Bytes(n), sent[c] + 1) /\ (m.last <=> sent[c] + 1 = NumChunks(n))
  BY <1>3, RequestChunkType DEF RequestChunk
<1>7. Stretch(m.data) /\ First(m.data) = e + 1 /\ Final(m.data) = g
  <2>1. LET d == Piece(Bytes(n), sent[c] + 1) IN
          Stretch(d) /\ First(d) = ChunkEnd(n, (sent[c] + 1) - 1) + 1 /\ Final(d) = ChunkEnd(n, sent[c] + 1)
    BY <1>1, <1>3, PieceIs
  <2> QED BY <1>3, <1>4, <1>6, <2>1 DEF SentEnd
<1> HIDE DEF n, e, g, m
<1>8. Written(c, n, g, m)
  BY <1>5, <1>6, <1>7 DEF Written
<1>9. Orderly(c, n, e, toShell[c], past[c], runs[c])
  BY DEF RequestInv, RequestOf, n, e
<1>10. /\ Orderly(c, n, g, toShell[c], past[c], runs[c])
       /\ Orderly(c, n, g, Append(toShell[c], m), past[c], runs[c])
       /\ NoGap(n, e, toShell[c], past[c], runs[c]) => NoGap(n, g, Append(toShell[c], m), past[c], runs[c])
  BY <1>1, <1>5, <1>6, <1>7, <1>8, <1>9, OrderlySend
<1>11. ASSUME NEW x \in Clients, x # c PROVE RequestOf(x)'
  <2>1. sent'[x] = sent[x] /\ toShell'[x] = toShell[x] /\ (x \in reqLost => x \in reqLost')
    BY <1>0, <1>2, <1>11 DEF SendRequestChunk
  <2> QED BY <1>2, <2>1, RequestStays DEF RequestInv
<1>12. RequestOf(c)'
  <2>1. (c \in pending' <=> past'[c] # <<>>) /\ past'[c] = past[c] /\ runs'[c] = runs[c]
    BY <1>2 DEF RequestInv, RequestOf
  <2>2. CASE up[c]
    <3>1. toShell'[c] = Append(toShell[c], m) /\ reqLost' = reqLost
      BY <1>0, <2>2 DEF SendRequestChunk, m
    <3>2. c \in reqLost \/ NoGap(n, e, toShell[c], past[c], runs[c])
      BY DEF RequestInv, RequestOf, n, e
    <3> QED BY <1>10, <2>1, <3>1, <3>2 DEF RequestOf, n, g
  <2>3. CASE ~up[c]
    <3>1. toShell'[c] = toShell[c] /\ c \in reqLost'
      BY <2>3 DEF SendRequestChunk
    <3> QED BY <1>10, <2>1, <3>1 DEF RequestOf, n, g
  <2> QED BY <2>2, <2>3
<1> QED BY <1>11, <1>12 DEF RequestInv

\* The shell's thread takes a chunk, keeps it or runs the request.
LEMMA RequestTake ==
  ASSUME TypeOK, RequestInv, NEW c \in Clients, StoreChunk(c) \/ RunRequest(c) \/ RunPanics(c)
  PROVE  RequestInv'
<1> DEFINE n == ReqLen[c]
           e == SentEnd(c)
           q == toShell[c]
           m == Head(q)
           s == past[c] \o m.data
<1>0. /\ toShell \in [Clients -> Seq(Chunks)] /\ past \in [Clients -> Seq(Nat)]
      /\ runs \in [Clients -> Seq(Seq(Nat))]
  BY DEF TypeOK, Chunks
<1>1. /\ n \in Nat /\ e \in Nat /\ e <= n
      /\ q \in Seq(Chunks) /\ past[c] \in Seq(Nat) /\ runs[c] \in Seq(Seq(Nat))
  BY RequestTypes
<1>2. /\ q # <<>> /\ toShell' = [toShell EXCEPT ![c] = Tail(@)]
      /\ UNCHANGED <<sent, reqLost>>
  BY DEF StoreChunk, RunRequest, RunPanics, TakeChunk, clientVars
<1>3. /\ Orderly(c, n, e, q, past[c], runs[c])
      /\ c \in pending <=> past[c] # <<>>
      /\ c \in reqLost \/ NoGap(n, e, q, past[c], runs[c])
  BY DEF RequestInv, RequestOf
<1>4. m.id = c
  <2>1. 1 \in 1..Len(q) /\ m = q[1]
    BY <1>1, <1>2
  <2>2. Written(c, n, e, q[1])
    BY <1>3, <2>1 DEF Orderly, Queued
  <2> QED BY <2>1, <2>2 DEF Written
<1>5. Appended(m) = s
  <2>1. past[c] = <<>> => past[c] \o m.data = <<>> \o m.data
    OBVIOUS
  <2> QED BY <1>3, <1>4, <2>1 DEF Appended
<1>6. toShell'[c] = Tail(q) /\ SentEnd(c)' = e
  BY <1>0, <1>2 DEF SentEnd
<1>7. ASSUME NEW x \in Clients, x # c PROVE RequestOf(x)'
  <2>1. /\ \/ pending' = pending \cup {m.id} /\ past' = [past EXCEPT ![m.id] = Appended(m)] /\ runs' = runs
           \/ /\ pending' = pending \ {m.id} /\ past' = [past EXCEPT ![m.id] = <<>>]
              /\ runs' = [runs EXCEPT ![m.id] = Append(@, Appended(m))]
    BY DEF StoreChunk, RunRequest, RunPanics
  <2> HIDE DEF m
  <2>2. past'[x] = past[x] /\ runs'[x] = runs[x] /\ (x \in pending' <=> x \in pending)
    BY <1>0, <1>4, <1>7, <2>1
  <2>3. toShell'[x] = toShell[x] /\ sent'[x] = sent[x] /\ reqLost' = reqLost
    BY <1>0, <1>2, <1>7
  <2> QED BY <2>2, <2>3, RequestStays DEF RequestInv
<1>8. CASE StoreChunk(c)
  <2>1. ~m.last /\ pending' = pending \cup {m.id} /\ past' = [past EXCEPT ![m.id] = Appended(m)] /\ runs' = runs
    BY <1>8 DEF StoreChunk
  <2>2. /\ Orderly(c, n, e, Tail(q), s, runs[c]) /\ s # <<>>
        /\ NoGap(n, e, q, past[c], runs[c]) => NoGap(n, e, Tail(q), s, runs[c])
    BY <1>1, <1>2, <1>3, <2>1, OrderlyStore
  <2> HIDE DEF m, s, q, e, n
  <2>3. past'[c] = s /\ c \in pending' /\ runs'[c] = runs[c] /\ reqLost' = reqLost
    BY <1>0, <1>2, <1>4, <1>5, <2>1
  <2>4. RequestOf(c)'
    BY <1>3, <1>6, <2>2, <2>3 DEF RequestOf, n
  <2> QED BY <1>7, <2>4 DEF RequestInv
<1>9. CASE RunRequest(c) \/ RunPanics(c)
  <2>1. /\ m.last /\ pending' = pending \ {m.id} /\ past' = [past EXCEPT ![m.id] = <<>>]
        /\ runs' = [runs EXCEPT ![m.id] = Append(@, Appended(m))]
    BY <1>9 DEF RunRequest, RunPanics
  <2>2. /\ Orderly(c, n, e, Tail(q), <<>>, Append(runs[c], s))
        /\ NoGap(n, e, q, past[c], runs[c]) => NoGap(n, e, Tail(q), <<>>, Append(runs[c], s))
    BY <1>1, <1>2, <1>3, <2>1, OrderlyRun
  <2> HIDE DEF m, s, q, e, n
  <2>3. past'[c] = <<>> /\ c \notin pending' /\ runs'[c] = Append(runs[c], s) /\ reqLost' = reqLost
    BY <1>0, <1>2, <1>4, <1>5, <2>1
  <2>4. RequestOf(c)'
    BY <1>3, <1>6, <2>2, <2>3 DEF RequestOf, n
  <2> QED BY <1>7, <2>4 DEF RequestInv
<1> QED BY <1>8, <1>9

\* A connection is lost, and with it the end of requests on their way.
LEMMA RequestCut ==
  ASSUME TypeOK, RequestInv, NEW c \in Clients, NEW k \in 0..Len(toShell[c]),
         toShell'[c] = SubSeq(toShell[c], 1, k),
         k < Len(toShell[c]) => c \in reqLost',
         c \in reqLost => c \in reqLost',
         UNCHANGED <<sent, past, pending, runs>>
  PROVE  RequestOf(c)'
<1> DEFINE n == ReqLen[c]
           e == SentEnd(c)
           q == toShell[c]
<1>1. /\ n \in Nat /\ e \in Nat
      /\ q \in Seq(Chunks) /\ past[c] \in Seq(Nat) /\ runs[c] \in Seq(Seq(Nat))
  BY RequestTypes
<1>2. /\ Orderly(c, n, e, q, past[c], runs[c])
      /\ c \in pending <=> past[c] # <<>>
      /\ c \in reqLost \/ NoGap(n, e, q, past[c], runs[c])
  BY DEF RequestInv, RequestOf
<1>3. /\ Orderly(c, n, e, SubSeq(q, 1, k), past[c], runs[c])
      /\ k = Len(q) => SubSeq(q, 1, k) = q
  BY <1>1, <1>2, OrderlyCut
<1>4. SentEnd(c)' = e /\ k \in Nat /\ Len(q) \in Nat /\ (k < Len(q) \/ k = Len(q))
  BY <1>1 DEF SentEnd
<1> HIDE DEF n, e, q
<1>5. toShell'[c] = SubSeq(q, 1, k) /\ (k < Len(q) => c \in reqLost')
  BY DEF q
<1>6. c \in reqLost' \/ NoGap(n, e, SubSeq(q, 1, k), past[c], runs[c])
  BY <1>2, <1>3, <1>4, <1>5
<1> QED BY <1>2, <1>3, <1>4, <1>5, <1>6 DEF RequestOf, n

\* Every step keeps the requests orderly.
LEMMA RequestStep ==
  ASSUME TypeOK, RequestInv, [Next]_vars
  PROVE  RequestInv'
<1>1. CASE UNCHANGED requestVars
  BY <1>1 DEF requestVars, RequestInv, RequestOf, SentEnd
<1>2. ASSUME NEW c \in Clients, Client(c) \/ TimePasses(c) PROVE RequestInv'
  <2>1. CASE SendRequestChunk(c)
    BY <2>1, RequestSend
  <2>2. CASE ~SendRequestChunk(c)
    <3>1. UNCHANGED requestVars
      BY <1>2, <2>2 DEF Client, SendHeader, HeaderFails, RequestSent, CheckTimeout, TimePasses, ReadBatch, ReadPart,
                        ReadFails, BatchDone, MeetForeign, MeetError, KeepChunk, shellVars, requestVars
    <3> QED BY <1>1, <3>1
  <2> QED BY <2>1, <2>2
<1>3. CASE Shell
  BY <1>3, RequestTake DEF Shell
<1>4. CASE ShellLinkBreaks
  <2>1. PICK k \in [Clients -> UNION {0..Len(toShell[c]) : c \in Clients}] :
          /\ \A c \in Clients : k[c] <= Len(toShell[c])
          /\ toShell' = [c \in Clients |-> SubSeq(toShell[c], 1, k[c])]
          /\ reqLost' = reqLost \cup {c \in Clients : k[c] < Len(toShell[c])}
    BY <1>4 DEF ShellLinkBreaks
  <2>2. UNCHANGED <<sent, past, pending, runs>>
    BY <1>4 DEF ShellLinkBreaks, clientVars, shellVars
  <2>3. ASSUME NEW c \in Clients PROVE RequestOf(c)'
    <3>1. \A x \in Clients : Len(toShell[x]) \in Nat
      <4>1. \A x \in Clients : toShell[x] \in Seq(Chunks)
        BY DEF TypeOK, Chunks
      <4> QED BY <4>1
    <3>2. k[c] \in 0..Len(toShell[c])
      BY <2>1, <3>1
    <3>3. /\ toShell'[c] = SubSeq(toShell[c], 1, k[c])
          /\ k[c] < Len(toShell[c]) => c \in reqLost'
          /\ c \in reqLost => c \in reqLost'
      BY <2>1
    <3> QED BY <2>2, <3>2, <3>3, RequestCut
  <2> QED BY <2>3 DEF RequestInv
<1>5. ASSUME NEW c \in Clients, ClientLinkBreaks(c) PROVE RequestInv'
  <2>0. toShell \in [Clients -> Seq(Chunks)]
    BY DEF TypeOK, Chunks
  <2>1. PICK k \in 0..Len(toShell[c]) :
          /\ toShell' = [toShell EXCEPT ![c] = SubSeq(@, 1, k)]
          /\ reqLost' = IF k < Len(toShell[c]) THEN reqLost \cup {c} ELSE reqLost
    BY <1>5 DEF ClientLinkBreaks
  <2>2. UNCHANGED <<sent, past, pending, runs>>
    BY <1>5 DEF ClientLinkBreaks, clientVars, shellVars
  <2>3. ASSUME NEW x \in Clients PROVE RequestOf(x)'
    <3>1. CASE x = c
      <4>1. /\ toShell'[c] = SubSeq(toShell[c], 1, k)
            /\ k < Len(toShell[c]) => c \in reqLost'
            /\ c \in reqLost => c \in reqLost'
        BY <2>0, <2>1
      <4> QED BY <2>2, <3>1, <4>1, RequestCut
    <3>2. CASE x # c
      <4>1. toShell'[x] = toShell[x] /\ (x \in reqLost => x \in reqLost')
        BY <2>0, <2>1, <3>2
      <4> QED BY <2>2, <4>1, RequestStays DEF RequestInv
    <3> QED BY <3>1, <3>2
  <2> QED BY <2>3 DEF RequestInv
<1>6. CASE RouteAnswer \/ \E c \in Clients : Misroute(c)
  <2>1. UNCHANGED requestVars
    BY <1>6 DEF RouteAnswer, Misroute, clientVars, shellVars, requestVars
  <2> QED BY <1>1, <2>1
<1>7. CASE UNCHANGED vars
  <2>1. UNCHANGED requestVars
    BY <1>7 DEF vars, clientVars, shellVars, requestVars
  <2> QED BY <1>1, <2>1
<1> QED BY <1>2, <1>3, <1>4, <1>5, <1>6, <1>7 DEF Next, Network, Done

\* Types and orderly requests go together.
LEMMA RequestsOrderly == Spec => [](TypeOK /\ RequestInv)
<1>1. Init => TypeOK /\ RequestInv
  BY InitTyped, RequestInit
<1>2. TypeOK /\ RequestInv /\ [Next]_vars => (TypeOK /\ RequestInv)'
  <2>1. TypeOK /\ [Next]_vars => TypeOK'
    BY TypedStep
  <2> QED BY <2>1, RequestStep
<1> QED BY <1>1, <1>2, PTL DEF Spec

\* Losses never make the shell run a request twice: the chunk that completes a
\* request is the last one there is.
THEOREM RequestRunsOnce == Spec => []RunsOnce
<1>1. TypeOK /\ RequestInv => RunsOnce
  BY DEF RequestInv, RequestOf, Orderly, Run, RunsOnce
<1> QED BY <1>1, RequestsOrderly, PTL

\* Whatever the connections lose, the bytes of a request that is run are in the
\* order in which they were sent, none twice and none of another request, and
\* the last one is there.
THEOREM RequestRunsInOrder == Spec => []RunsPartsInOrder
<1>1. TypeOK /\ RequestInv => RunsPartsInOrder
  <2> SUFFICES ASSUME TypeOK, RequestInv, NEW c \in Clients, NEW k \in DOMAIN runs[c]
               PROVE  LET p == runs[c][k] IN
                        /\ \A i, j \in DOMAIN p : i < j => p[i] < p[j]
                        /\ p # <<>> /\ p[Len(p)] = ReqLen[c]
    BY DEF RunsPartsInOrder
  <2>1. runs[c] \in Seq(Seq(Nat))
    BY RequestTypes
  <2>2. k \in 1..Len(runs[c]) /\ runs[c][k] \in Seq(Nat)
    BY <2>1
  <2>3. runs[c][k] # <<>> /\ Rising(runs[c][k]) /\ Final(runs[c][k]) = ReqLen[c]
    BY <2>2 DEF RequestInv, RequestOf, Orderly, Run
  <2>4. DOMAIN runs[c][k] = 1..Len(runs[c][k])
    BY <2>2
  <2> QED BY <2>3, <2>4 DEF Rising, Final
<1> QED BY <1>1, RequestsOrderly, PTL

\* A request of which no connection lost a chunk is run as it was sent, byte for
\* byte, however the chunks of several clients interleave.
THEOREM RequestRunsWhole == Spec => []RunsWhatWasSent
<1>1. TypeOK /\ RequestInv => RunsWhatWasSent
  BY DEF RequestInv, RequestOf, NoGap, RunsWhatWasSent, Payload
<1> QED BY <1>1, RequestsOrderly, PTL

\* What the shell keeps of a request is completed by a chunk that is still to
\* come, unless one was lost.
THEOREM RequestNotStale == Spec => []NoStaleRequest
<1>1. TypeOK /\ RequestInv => NoStaleRequest
  <2> SUFFICES ASSUME TypeOK, RequestInv, NEW c \in pending \ reqLost,
                      toShell[c] = <<>>, ~(sent[c] < NumChunks(ReqLen[c]))
               PROVE  FALSE
    BY DEF NoStaleRequest
  <2> DEFINE n == ReqLen[c]
             e == SentEnd(c)
             p == past[c]
  <2>1. c \in Clients
    BY DEF TypeOK
  <2>2. /\ n \in Nat /\ sent[c] \in Nat /\ e \in Nat /\ e <= n /\ p \in Seq(Nat)
        /\ sent[c] <= NumChunks(n) /\ NumChunks(n) \in Nat
    BY <2>1, RequestTypes
  <2>3. /\ Orderly(c, n, e, toShell[c], p, runs[c]) /\ p # <<>>
        /\ NoGap(n, e, toShell[c], p, runs[c])
    BY <2>1 DEF RequestInv, RequestOf
  <2>4. p = Bytes(Len(p)) /\ e = Len(p) /\ Len(p) \in Nat /\ Len(p) > 0
    <3>1. runs[c] = <<>>
      BY <2>3 DEF Orderly, Run
    <3>2. p = Bytes(Len(p)) /\ e = Len(p)
      BY <2>3, <3>1 DEF NoGap
    <3>3. Len(p) \in Nat /\ Len(p) > 0
      BY <2>2, <2>3
    <3> QED BY <3>2, <3>3
  <2>5. sent[c] = NumChunks(n)
    BY <2>2
  <2>6. e = n
    <3>1. n > 0
      BY <2>2, <2>4
    <3>2. CASE NumChunks(n) = 0
      <4>1. e = 0
        BY <2>2, <2>5, <3>2, Ends DEF SentEnd
      <4> QED BY <2>4, <4>1
    <3>3. CASE NumChunks(n) # 0
      <4>1. NumChunks(n) \in 1..NumChunks(n)
        BY <2>2, <3>3
      <4>2. ChunkEnd(n, NumChunks(n)) = n
        BY <2>2, <4>1, Ends
      <4> QED BY <2>5, <4>2 DEF SentEnd
    <3> QED BY <3>2, <3>3
  <2>7. Len(p) \in 1..Len(p)
    BY <2>4
  <2>8. p[Len(p)] < n
    BY <2>3, <2>7 DEF Orderly, Kept
  <2>9. Bytes(Len(p))[Len(p)] = Len(p)
    BY <2>7 DEF Bytes
  <2> HIDE DEF n, e, p
  <2> QED BY <2>2, <2>4, <2>6, <2>8, <2>9
<1> QED BY <1>1, RequestsOrderly, PTL

-----------------------------------------------------------------------------
(* Answers.  What a client can use of a sequence of messages are the chunks  *)
(* of its own answer, those with status "ok".                                *)

OwnOk(c, m) == IsOwn(c, m) /\ m.status = "ok"

Own(c, s) == {m \in {s[i] : i \in 1..Len(s)} : OwnOk(c, m)}

Before(a, b) == Final(a.data) < First(b.data)

InOrder(c, s) ==
  \A i, j \in 1..Len(s) : i < j /\ OwnOk(c, s[i]) /\ OwnOk(c, s[j]) => Before(s[i], s[j])

Cross(A, B) == \A a \in A, b \in B : Before(a, b)

LEMMA OwnEmpty ==
  ASSUME NEW c
  PROVE  Own(c, <<>>) = {} /\ InOrder(c, <<>>)
BY DEF Own, InOrder

\* What is a client's own is an answer.
LEMMA OwnIs ==
  ASSUME NEW c, NEW s \in Seq(Mail), NEW m \in Own(c, s)
  PROVE  m \in Answers /\ m.id = c /\ m.data \in Seq(Nat) /\ m.last \in BOOLEAN
<1>1. m \in Mail /\ OwnOk(c, m)
  BY DEF Own
<1>2. m \in Answers
  BY <1>1 DEF Mail, OwnOk, IsOwn, Foreign, Input
<1> QED BY <1>1, <1>2 DEF Answers, OwnOk, IsOwn

\* The message at the head is taken off.
LEMMA OwnTail ==
  ASSUME NEW c, NEW s \in Seq(Mail), s # <<>>, InOrder(c, s)
  PROVE  /\ Tail(s) \in Seq(Mail) /\ Head(s) \in Mail /\ InOrder(c, Tail(s))
         /\ OwnOk(c, Head(s)) => Own(c, s) = {Head(s)} \cup Own(c, Tail(s)) /\ Cross({Head(s)}, Own(c, Tail(s)))
         /\ ~OwnOk(c, Head(s)) => Own(c, Tail(s)) = Own(c, s)
<1> DEFINE t == Tail(s)
           h == Head(s)
<1>1. Len(s) \in Nat /\ Len(s) > 0 /\ h = s[1] /\ h \in Mail
  OBVIOUS
<1>2. t \in Seq(Mail) /\ Len(t) = Len(s) - 1 /\ \A i \in 1..Len(t) : i + 1 \in 1..Len(s) /\ t[i] = s[i + 1]
  OBVIOUS
<1> HIDE DEF t, h
<1>3. InOrder(c, t)
  <2> SUFFICES ASSUME NEW i \in 1..Len(t), NEW j \in 1..Len(t), i < j, OwnOk(c, t[i]), OwnOk(c, t[j])
               PROVE  Before(t[i], t[j])
    BY DEF InOrder
  <2>1. i + 1 \in 1..Len(s) /\ j + 1 \in 1..Len(s) /\ i + 1 < j + 1 /\ t[i] = s[i + 1] /\ t[j] = s[j + 1]
    BY <1>2
  <2> QED BY <2>1 DEF InOrder
<1>4. {s[i] : i \in 1..Len(s)} = {h} \cup {t[i] : i \in 1..Len(t)}
  <2>1. \A i \in 1..Len(s) : i = 1 \/ (i - 1 \in 1..Len(t) /\ t[i - 1] = s[i])
    <3> TAKE i \in 1..Len(s)
    <3>1. CASE i # 1
      <4>1. i - 1 \in 1..Len(t) /\ (i - 1) + 1 = i
        BY <1>1, <1>2, <3>1
      <4> QED BY <1>2, <4>1
    <3> QED BY <3>1
  <2>2. 1 \in 1..Len(s)
    BY <1>1
  <2>3. ASSUME NEW m \in {s[i] : i \in 1..Len(s)} PROVE m \in {h} \cup {t[i] : i \in 1..Len(t)}
    BY <1>1, <2>1
  <2>4. ASSUME NEW m \in {h} \cup {t[i] : i \in 1..Len(t)} PROVE m \in {s[i] : i \in 1..Len(s)}
    BY <1>1, <1>2, <2>2
  <2> QED BY <2>3, <2>4
<1>5. OwnOk(c, h) => Own(c, s) = {h} \cup Own(c, t)
  BY <1>4 DEF Own
<1>6. ~OwnOk(c, h) => Own(c, t) = Own(c, s)
  BY <1>4 DEF Own
<1>7. ASSUME OwnOk(c, h), NEW m \in Own(c, t) PROVE Before(h, m)
  <2>1. PICK i \in 1..Len(t) : m = t[i] /\ OwnOk(c, m)
    BY DEF Own
  <2>2. 1 \in 1..Len(s) /\ i + 1 \in 1..Len(s) /\ 1 < i + 1 /\ t[i] = s[i + 1]
    BY <1>1, <1>2
  <2>3. OwnOk(c, s[1]) /\ OwnOk(c, s[i + 1])
    BY <1>1, <1>7, <2>1, <2>2
  <2>4. Before(s[1], s[i + 1])
    BY <2>2, <2>3 DEF InOrder
  <2> QED BY <1>1, <2>1, <2>2, <2>4
<1> QED BY <1>1, <1>2, <1>3, <1>5, <1>6, <1>7 DEF Cross, t, h

\* Two sequences one after the other.
LEMMA OwnConcat ==
  ASSUME NEW c, NEW s \in Seq(Mail), NEW t \in Seq(Mail),
         InOrder(c, s), InOrder(c, t), Cross(Own(c, s), Own(c, t))
  PROVE  s \o t \in Seq(Mail) /\ InOrder(c, s \o t) /\ Own(c, s \o t) = Own(c, s) \cup Own(c, t)
<1> DEFINE u == s \o t
<1>1. /\ u \in Seq(Mail) /\ Len(u) = Len(s) + Len(t)
      /\ \A i \in 1..Len(s) : u[i] = s[i]
      /\ \A i \in 1..Len(t) : u[Len(s) + i] = t[i]
  BY ConcatAt
<1>2. Len(s) \in Nat /\ Len(t) \in Nat
  OBVIOUS
<1> HIDE DEF u
<1>3. \A i \in 1..Len(u) :
        \/ i \in 1..Len(s) /\ u[i] = s[i]
        \/ i > Len(s) /\ i - Len(s) \in 1..Len(t) /\ u[i] = t[i - Len(s)]
  <2> TAKE i \in 1..Len(u)
  <2>1. CASE i <= Len(s)
    BY <1>1, <1>2, <2>1
  <2>2. CASE i > Len(s)
    <3>1. i - Len(s) \in 1..Len(t) /\ Len(s) + (i - Len(s)) = i
      BY <1>1, <1>2, <2>2
    <3>2. u[Len(s) + (i - Len(s))] = t[i - Len(s)]
      BY <1>1, <3>1
    <3> QED BY <2>2, <3>1, <3>2
  <2> QED BY <1>2, <2>1, <2>2
<1>4. {u[i] : i \in 1..Len(u)} = {s[i] : i \in 1..Len(s)} \cup {t[i] : i \in 1..Len(t)}
  <2>1. \A i \in 1..Len(s) : i \in 1..Len(u) /\ u[i] = s[i]
    BY <1>1, <1>2
  <2>2. \A i \in 1..Len(t) : Len(s) + i \in 1..Len(u) /\ u[Len(s) + i] = t[i]
    BY <1>1, <1>2
  <2>3. ASSUME NEW m \in {u[i] : i \in 1..Len(u)}
        PROVE  m \in {s[i] : i \in 1..Len(s)} \cup {t[i] : i \in 1..Len(t)}
    BY <1>3
  <2>4. ASSUME NEW m \in {s[i] : i \in 1..Len(s)} \cup {t[i] : i \in 1..Len(t)}
        PROVE  m \in {u[i] : i \in 1..Len(u)}
    BY <2>1, <2>2
  <2> QED BY <2>3, <2>4
<1>5. Own(c, u) = Own(c, s) \cup Own(c, t)
  BY <1>4 DEF Own
<1>6. InOrder(c, u)
  <2> SUFFICES ASSUME NEW i \in 1..Len(u), NEW j \in 1..Len(u), i < j, OwnOk(c, u[i]), OwnOk(c, u[j])
               PROVE  Before(u[i], u[j])
    BY DEF InOrder
  <2>1. CASE j \in 1..Len(s) /\ u[j] = s[j]
    <3>1. i \in 1..Len(s) /\ u[i] = s[i]
      BY <1>1, <1>2, <2>1
    <3> QED BY <2>1, <3>1 DEF InOrder
  <2>2. CASE j - Len(s) \in 1..Len(t) /\ u[j] = t[j - Len(s)]
    <3>1. CASE i \in 1..Len(s) /\ u[i] = s[i]
      <4>1. u[i] \in Own(c, s) /\ u[j] \in Own(c, t)
        BY <2>2, <3>1 DEF Own
      <4> QED BY <4>1 DEF Cross
    <3>2. CASE i - Len(s) \in 1..Len(t) /\ u[i] = t[i - Len(s)]
      <4>1. i - Len(s) < j - Len(s)
        BY <1>2
      <4> QED BY <2>2, <3>2, <4>1 DEF InOrder
    <3> QED BY <1>3, <3>1, <3>2
  <2> QED BY <1>3, <2>1, <2>2
<1> QED BY <1>1, <1>5, <1>6 DEF u

\* A message is put at the end.
LEMMA OwnAppend ==
  ASSUME NEW c, NEW s \in Seq(Mail), NEW m \in Mail, InOrder(c, s)
  PROVE  /\ Append(s, m) \in Seq(Mail)
         /\ OwnOk(c, m) => Own(c, Append(s, m)) = Own(c, s) \cup {m}
         /\ ~OwnOk(c, m) => Own(c, Append(s, m)) = Own(c, s) /\ InOrder(c, Append(s, m))
         /\ OwnOk(c, m) /\ Cross(Own(c, s), {m}) => InOrder(c, Append(s, m))
<1> DEFINE u == Append(s, m)
<1>1. /\ u \in Seq(Mail) /\ Len(s) \in Nat /\ Len(u) = Len(s) + 1 /\ u[Len(s) + 1] = m
      /\ \A i \in 1..Len(s) : u[i] = s[i]
  BY AppendProperties
<1> HIDE DEF u
<1>2. \A i \in 1..Len(u) : (i \in 1..Len(s) /\ u[i] = s[i]) \/ (i = Len(s) + 1 /\ u[i] = m)
  BY <1>1
<1>3. {u[i] : i \in 1..Len(u)} = {s[i] : i \in 1..Len(s)} \cup {m}
  <2>1. \A i \in 1..Len(s) : i \in 1..Len(u) /\ u[i] = s[i]
    BY <1>1
  <2>2. Len(s) + 1 \in 1..Len(u) /\ u[Len(s) + 1] = m
    BY <1>1
  <2> QED BY <1>2, <2>1, <2>2
<1>4. /\ OwnOk(c, m) => Own(c, u) = Own(c, s) \cup {m}
      /\ ~OwnOk(c, m) => Own(c, u) = Own(c, s)
  BY <1>3 DEF Own
<1>5. ASSUME OwnOk(c, m) => Cross(Own(c, s), {m}) PROVE InOrder(c, u)
  <2> SUFFICES ASSUME NEW i \in 1..Len(u), NEW j \in 1..Len(u), i < j, OwnOk(c, u[i]), OwnOk(c, u[j])
               PROVE  Before(u[i], u[j])
    BY DEF InOrder
  <2>1. i \in 1..Len(s) /\ u[i] = s[i]
    BY <1>1
  <2>2. CASE j \in 1..Len(s) /\ u[j] = s[j]
    BY <2>1, <2>2 DEF InOrder
  <2>3. CASE j = Len(s) + 1 /\ u[j] = m
    <3>1. u[i] \in Own(c, s) /\ OwnOk(c, m)
      BY <2>1, <2>3 DEF Own
    <3> QED BY <1>5, <2>3, <3>1 DEF Cross
  <2> QED BY <1>2, <2>2, <2>3
<1> QED BY <1>1, <1>4, <1>5 DEF u

\* A sequence is cut in two.
LEMMA OwnSplit ==
  ASSUME NEW c, NEW s \in Seq(Mail), NEW k \in 1..Len(s), InOrder(c, s)
  PROVE  LET a == SubSeq(s, 1, k)  b == SubSeq(s, k + 1, Len(s)) IN
         /\ a \in Seq(Mail) /\ b \in Seq(Mail) /\ InOrder(c, a) /\ InOrder(c, b)
         /\ Own(c, s) = Own(c, a) \cup Own(c, b) /\ Cross(Own(c, a), Own(c, b))
<1> DEFINE a == SubSeq(s, 1, k)
           b == SubSeq(s, k + 1, Len(s))
<1>1. Len(s) \in Nat /\ k \in Nat /\ k <= Len(s)
  OBVIOUS
<1>2. a \in Seq(Mail) /\ Len(a) = k /\ \A i \in 1..k : a[i] = s[i]
  <2>1. 0 \in Nat /\ k - 0 = k /\ \A i \in 1..k : 0 + i = i
    BY <1>1
  <2>2. /\ SubSeq(s, 0 + 1, k) \in Seq(Mail) /\ Len(SubSeq(s, 0 + 1, k)) = k - 0
        /\ \A i \in 1..(k - 0) : SubSeq(s, 0 + 1, k)[i] = s[0 + i]
    BY <1>1, <2>1, PartAt
  <2> QED BY <2>1, <2>2
<1>3. b \in Seq(Mail) /\ Len(b) = Len(s) - k /\ \A i \in 1..(Len(s) - k) : b[i] = s[k + i]
  BY <1>1, PartAt
<1> HIDE DEF a, b
<1>4. \A i \in 1..Len(a) : i \in 1..Len(s) /\ a[i] = s[i]
  BY <1>1, <1>2
<1>5. \A i \in 1..Len(b) : k + i \in 1..Len(s) /\ b[i] = s[k + i]
  BY <1>1, <1>3
<1>6. InOrder(c, a)
  BY <1>4 DEF InOrder
<1>7. InOrder(c, b)
  <2> SUFFICES ASSUME NEW i \in 1..Len(b), NEW j \in 1..Len(b), i < j, OwnOk(c, b[i]), OwnOk(c, b[j])
               PROVE  Before(b[i], b[j])
    BY DEF InOrder
  <2>1. k + i \in 1..Len(s) /\ k + j \in 1..Len(s) /\ k + i < k + j /\ b[i] = s[k + i] /\ b[j] = s[k + j]
    BY <1>1, <1>5
  <2> QED BY <2>1 DEF InOrder
<1>8. {s[i] : i \in 1..Len(s)} = {a[i] : i \in 1..Len(a)} \cup {b[i] : i \in 1..Len(b)}
  <2>1. \A i \in 1..Len(s) :
          \/ i \in 1..Len(a) /\ s[i] = a[i]
          \/ i - k \in 1..Len(b) /\ s[i] = b[i - k]
    <3> TAKE i \in 1..Len(s)
    <3>1. CASE i <= k
      BY <1>1, <1>2, <3>1
    <3>2. CASE i > k
      <4>1. i - k \in 1..Len(b) /\ k + (i - k) = i
        BY <1>1, <1>3, <3>2
      <4>2. b[i - k] = s[k + (i - k)]
        BY <1>5, <4>1
      <4> QED BY <4>1, <4>2
    <3> QED BY <1>1, <3>1, <3>2
  <2>2. ASSUME NEW m \in {s[i] : i \in 1..Len(s)}
        PROVE  m \in {a[i] : i \in 1..Len(a)} \cup {b[i] : i \in 1..Len(b)}
    BY <2>1
  <2>3. ASSUME NEW m \in {a[i] : i \in 1..Len(a)} \cup {b[i] : i \in 1..Len(b)}
        PROVE  m \in {s[i] : i \in 1..Len(s)}
    BY <1>4, <1>5
  <2> QED BY <2>2, <2>3
<1>9. Own(c, s) = Own(c, a) \cup Own(c, b)
  BY <1>8 DEF Own
<1>10. ASSUME NEW x \in Own(c, a), NEW y \in Own(c, b) PROVE Before(x, y)
  <2>1. PICK i \in 1..Len(a) : x = a[i] /\ OwnOk(c, x)
    BY DEF Own
  <2>2. PICK j \in 1..Len(b) : y = b[j] /\ OwnOk(c, y)
    BY DEF Own
  <2>3. i \in 1..Len(s) /\ k + j \in 1..Len(s) /\ i < k + j /\ a[i] = s[i] /\ b[j] = s[k + j]
    BY <1>1, <1>2, <1>4, <1>5
  <2>4. OwnOk(c, s[i]) /\ OwnOk(c, s[k + j])
    BY <2>1, <2>2, <2>3
  <2>5. Before(s[i], s[k + j])
    BY <2>3, <2>4 DEF InOrder
  <2> QED BY <2>1, <2>2, <2>3, <2>5
<1> QED BY <1>2, <1>3, <1>6, <1>7, <1>9, <1>10 DEF Cross, a, b

\* Chunks with length n together, each complete.
Complete(n, M) ==
  \A m \in M : Stretch(m.data) /\ Final(m.data) <= n /\ (m.last <=> Final(m.data) = n)

\* Every chunk of A starts after byte l or after a chunk of M.
Linked(l, A, M) ==
  \A m \in A : First(m.data) = l + 1 \/ \E x \in M : First(m.data) = Final(x.data) + 1

\* The chunks of an answer, as the shell makes them.
LEMMA OwnAnswer ==
  ASSUME NEW c \in Clients, NEW n \in Nat, n > 0
  PROVE  LET a == AnswerChunks(c, "ok", Bytes(n)) IN
         /\ a \in Seq(Mail) /\ InOrder(c, a) /\ Complete(n, Own(c, a)) /\ Linked(0, Own(c, a), Own(c, a))
<1> DEFINE a == AnswerChunks(c, "ok", Bytes(n))
           N == NumChunks(n)
<1>1. NumAnswerChunks(n) = N
  BY DEF NumAnswerChunks
<1>2. /\ a \in Seq(Answers) /\ Len(a) = N /\ N \in Nat
      /\ \A i \in 1..N : /\ a[i].kind = "answer" /\ a[i].id = c /\ a[i].status = "ok"
                         /\ a[i].data = Piece(Bytes(n), i)
                         /\ a[i].last <=> i = N
  <2>1. AreChunks(a, c, "ok", n)
    BY AnswerChunksAt
  <2> HIDE DEF a, N
  <2> QED BY <1>1, <2>1, ChunkNumbers DEF AreChunks, N
<1> HIDE DEF a, N
<1>3. ASSUME NEW i \in 1..N
      PROVE  /\ Stretch(a[i].data) /\ OwnOk(c, a[i])
             /\ First(a[i].data) = ChunkEnd(n, i - 1) + 1 /\ Final(a[i].data) = ChunkEnd(n, i)
             /\ ChunkEnd(n, i) \in Nat /\ ChunkEnd(n, i) <= n /\ ChunkEnd(n, i - 1) \in Nat
             /\ i = N <=> ChunkEnd(n, i) = n
  <2>1. LET d == Piece(Bytes(n), i) IN
        Stretch(d) /\ First(d) = ChunkEnd(n, i - 1) + 1 /\ Final(d) = ChunkEnd(n, i)
    BY PieceIs DEF N
  <2>2. ChunkEnd(n, i) \in Nat /\ ChunkEnd(n, i) <= n /\ (i = N <=> ChunkEnd(n, i) = n) /\ ChunkEnd(n, i - 1) \in Nat
    BY Ends DEF N
  <2> QED BY <1>2, <2>1, <2>2 DEF OwnOk, IsOwn
<1>4. a \in Seq(Mail)
  <2>1. \A i \in 1..Len(a) : a[i] \in Mail
    BY <1>2 DEF Mail
  <2> QED BY <1>2, <2>1
<1>5. InOrder(c, a)
  <2> SUFFICES ASSUME NEW i \in 1..N, NEW j \in 1..N, i < j PROVE Before(a[i], a[j])
    BY <1>2 DEF InOrder
  <2>1. i \in Nat /\ j \in 1..NumChunks(n)
    BY <1>2 DEF N
  <2>2. ChunkEnd(n, i) <= ChunkEnd(n, j - 1)
    BY <2>1, EndsRise
  <2>3. Final(a[i].data) = ChunkEnd(n, i) /\ First(a[j].data) = ChunkEnd(n, j - 1) + 1
        /\ ChunkEnd(n, i) \in Nat /\ ChunkEnd(n, j - 1) \in Nat
    BY <1>3
  <2> QED BY <2>2, <2>3 DEF Before
<1>6. \A m \in Own(c, a) : \E i \in 1..N : m = a[i]
  BY <1>2 DEF Own
<1>7. \A i \in 1..N : a[i] \in Own(c, a)
  BY <1>2, <1>3 DEF Own
<1>8. Complete(n, Own(c, a))
  <2> SUFFICES ASSUME NEW m \in Own(c, a)
               PROVE  Stretch(m.data) /\ Final(m.data) <= n /\ (m.last <=> Final(m.data) = n)
    BY DEF Complete
  <2>1. PICK i \in 1..N : m = a[i]
    BY <1>6
  <2> QED BY <1>2, <1>3, <2>1
<1>9. ASSUME NEW m \in Own(c, a)
      PROVE  First(m.data) = 0 + 1 \/ \E x \in Own(c, a) : First(m.data) = Final(x.data) + 1
  <2>1. PICK i \in 1..N : m = a[i]
    BY <1>6
  <2>2. CASE i = 1
    <3>1. ChunkEnd(n, 1 - 1) = 0
      BY Ends
    <3>2. First(a[i].data) = ChunkEnd(n, 1 - 1) + 1
      BY <1>3, <2>2
    <3> QED BY <2>1, <3>1, <3>2
  <2>3. CASE i # 1
    <3>1. i - 1 \in 1..N
      BY <1>2, <2>3
    <3>2. Final(a[i - 1].data) = ChunkEnd(n, i - 1) /\ First(a[i].data) = ChunkEnd(n, i - 1) + 1
      BY <1>3, <3>1
    <3> QED BY <1>7, <2>1, <3>1, <3>2
  <2> QED BY <2>2, <2>3
<1> QED BY <1>4, <1>5, <1>8, <1>9 DEF Linked, a

\* An answer is of no use to another client, and none with an error status to any.
LEMMA OwnOther ==
  ASSUME NEW c \in Clients, NEW n \in Nat, NEW status \in {"ok", "bad"}, NEW x, x # c \/ status = "bad"
  PROVE  LET a == AnswerChunks(c, status, Bytes(n)) IN
         a \in Seq(Mail) /\ InOrder(x, a) /\ Own(x, a) = {}
<1> DEFINE a == AnswerChunks(c, status, Bytes(n))
<1>1. /\ a \in Seq(Answers)
      /\ \A i \in 1..Len(a) : a[i].id = c /\ a[i].status = status
  <2>1. AreChunks(a, c, status, n)
    BY AnswerChunksAt
  <2> HIDE DEF a
  <2> QED BY <2>1 DEF AreChunks
<1> HIDE DEF a
<1>2. a \in Seq(Mail)
  <2>1. \A i \in 1..Len(a) : a[i] \in Mail
    BY <1>1 DEF Mail
  <2> QED BY <1>1, <2>1
<1>3. \A i \in 1..Len(a) : ~OwnOk(x, a[i])
  BY <1>1 DEF OwnOk, IsOwn
<1> QED BY <1>2, <1>3 DEF InOrder, Own, a

\* When all of A is linked, the chunk that comes before the others starts after byte l.
LEMMA FirstLinked ==
  ASSUME NEW l \in Nat, NEW m, NEW R, Linked(l, {m} \cup R, {m} \cup R), Cross({m}, R),
         \A x \in {m} \cup R : x.data \in Seq(Nat) /\ Stretch(x.data)
  PROVE  First(m.data) = l + 1
<1> SUFFICES ASSUME NEW x \in {m} \cup R, First(m.data) = Final(x.data) + 1 PROVE FALSE
  BY DEF Linked
<1>1. /\ First(m.data) \in Nat /\ Final(m.data) \in Nat /\ First(m.data) <= Final(m.data)
      /\ First(x.data) \in Nat /\ Final(x.data) \in Nat /\ First(x.data) <= Final(x.data)
  BY StretchIs
<1>2. CASE x = m
  BY <1>1, <1>2
<1>3. CASE x \in R
  <2>1. Final(m.data) < First(x.data)
    BY <1>3 DEF Cross, Before
  <2> QED BY <1>1, <2>1
<1> QED BY <1>2, <1>3

\* Once chunk m, which starts after byte l, is taken, its end is in the place of l.
LEMMA NextLinked ==
  ASSUME NEW l \in Nat, NEW m, NEW A, NEW R, Linked(l, A, {m} \cup R), Cross({m}, A),
         First(m.data) = l + 1,
         \A x \in {m} \cup A : x.data \in Seq(Nat) /\ Stretch(x.data)
  PROVE  Linked(Final(m.data), A, R)
<1> SUFFICES ASSUME NEW x \in A
             PROVE  First(x.data) = Final(m.data) + 1 \/ \E y \in R : First(x.data) = Final(y.data) + 1
  BY DEF Linked
<1>1. /\ First(m.data) \in Nat /\ Final(m.data) \in Nat /\ First(m.data) <= Final(m.data)
      /\ First(x.data) \in Nat
  BY StretchIs
<1>2. Final(m.data) < First(x.data)
  BY DEF Cross, Before
<1>3. First(x.data) # l + 1
  BY <1>1, <1>2
<1>4. PICK y \in {m} \cup R : First(x.data) = Final(y.data) + 1
  BY <1>3 DEF Linked
<1> QED BY <1>4

\* What is linked to chunks that come later is linked without them.
LEMMA EarlierLinked ==
  ASSUME NEW l \in Nat, NEW m, NEW A, NEW R, Linked(l, A, A), Linked(l, {m}, A \cup {m} \cup R), Cross({m}, R),
         \A x \in {m} \cup R : x.data \in Seq(Nat) /\ Stretch(x.data)
  PROVE  Linked(l, A \cup {m}, A \cup {m})
<1>1. \A x \in A : First(x.data) = l + 1 \/ \E y \in A \cup {m} : First(x.data) = Final(y.data) + 1
  BY DEF Linked
<1>2. CASE First(m.data) = l + 1
  BY <1>1, <1>2 DEF Linked
<1>3. CASE First(m.data) # l + 1
  <2>1. PICK y \in A \cup {m} \cup R : First(m.data) = Final(y.data) + 1
    BY <1>3 DEF Linked
  <2>2. y \notin R
    <3> SUFFICES ASSUME y \in R PROVE FALSE
      OBVIOUS
    <3>1. /\ First(m.data) \in Nat /\ Final(m.data) \in Nat /\ First(m.data) <= Final(m.data)
          /\ First(y.data) \in Nat /\ Final(y.data) \in Nat /\ First(y.data) <= Final(y.data)
      BY StretchIs
    <3>2. Final(m.data) < First(y.data)
      BY DEF Cross, Before
    <3> QED BY <2>1, <3>1, <3>2
  <2> QED BY <1>1, <2>1, <2>2 DEF Linked
<1> QED BY <1>2, <1>3

-----------------------------------------------------------------------------
(* The answer of every client is on its way in order and without gaps.       *)

\* What client c can read, and what can still be routed to it.
Arrived(c) == Own(c, batch[c]) \cup Own(c, toClient[c])
Coming(c)  == Own(c, toServer)

Path(c, b, t, s) ==
  /\ InOrder(c, b) /\ InOrder(c, t) /\ InOrder(c, s)
  /\ Cross(Own(c, b), Own(c, t))
  /\ Cross(Own(c, b) \cup Own(c, t), Own(c, s))

PathOf(c) == Path(c, batch[c], toClient[c], toServer)

\* The chunks are those of the one answer made, and none is there before.
MadeOf(c) ==
  /\ answer[c] = Bytes(Len(answer[c]))
  /\ Complete(Len(answer[c]), Arrived(c) \cup Coming(c))
  /\ runs[c] = <<>> =>
       Arrived(c) = {} /\ Coming(c) = {} /\ answer[c] = <<>> /\ received[c] = <<>> /\ pc[c] # "ok"

\* Nothing is missing between what the client has and what it can read, nor,
\* while its connection is open, between that and what is to come.
Connected(c) ==
  /\ received[c] = Bytes(Len(received[c]))
  /\ Linked(Len(received[c]), Arrived(c), Arrived(c))
  /\ up[c] => Linked(Len(received[c]), Coming(c), Arrived(c) \cup Coming(c))

JoinedOf(c) ==
  c \notin ansLost \cup dropped =>
    /\ Returned(c) \/ Connected(c)
    /\ pc[c] = "ok" => received[c] = answer[c] /\ answer[c] # <<>>

\* A batch is looked at to its end, or thrown away, before the next read.
ParsesOf(c) == batch[c] # <<>> => pc[c] = "parse"

AnswerOf(c) == PathOf(c) /\ MadeOf(c) /\ JoinedOf(c) /\ ParsesOf(c)

AnswerInv == \A c \in Clients : AnswerOf(c)

\* The types of what belongs to one client's answer.
LEMMA AnswerTypes ==
  ASSUME TypeOK, NEW c \in Clients
  PROVE  /\ batch[c] \in Seq(Mail) /\ toClient[c] \in Seq(Mail) /\ toServer \in Seq(Mail)
         /\ received[c] \in Seq(Nat) /\ answer[c] \in Seq(Nat)
         /\ Len(received[c]) \in Nat /\ Len(answer[c]) \in Nat
         /\ \A m \in Arrived(c) \cup Coming(c) : m \in Answers /\ m.data \in Seq(Nat) /\ m.last \in BOOLEAN
<1>1. batch[c] \in Seq(Mail) /\ toClient[c] \in Seq(Mail) /\ toServer \in Seq(Answers)
  BY DEF TypeOK, Mail
<1>2. toServer \in Seq(Mail)
  <2>1. \A i \in 1..Len(toServer) : toServer[i] \in Mail
    BY <1>1 DEF Mail
  <2> QED BY <1>1, <2>1
<1>3. received[c] \in Seq(Nat) /\ answer[c] \in Seq(Nat)
  BY DEF TypeOK
<1>4. ASSUME NEW m \in Arrived(c) \cup Coming(c) PROVE m \in Answers /\ m.data \in Seq(Nat) /\ m.last \in BOOLEAN
  BY <1>1, <1>2, OwnIs DEF Arrived, Coming
<1> QED BY <1>1, <1>2, <1>3, <1>4

\* No answer is made at first.
LEMMA AnswerInit == Init => AnswerInv
<1> SUFFICES ASSUME Init, NEW c \in Clients PROVE AnswerOf(c)
  BY DEF AnswerInv
<1>1. /\ batch[c] = <<>> /\ toClient[c] = <<>> /\ toServer = <<>> /\ answer[c] = <<>> /\ received[c] = <<>>
      /\ pc[c] = "header"
  BY DEF Init
<1>2. Arrived(c) = {} /\ Coming(c) = {}
  BY <1>1, OwnEmpty DEF Arrived, Coming
<1>3. Bytes(Len(<<>>)) = <<>>
  BY DEF Bytes
<1>4. PathOf(c)
  BY <1>1, OwnEmpty DEF PathOf, Path, Cross
<1>5. MadeOf(c)
  BY <1>1, <1>2, <1>3 DEF MadeOf, Complete
<1>6. JoinedOf(c)
  BY <1>1, <1>2, <1>3 DEF JoinedOf, Connected, Linked
<1> QED BY <1>1, <1>4, <1>5, <1>6 DEF AnswerOf, ParsesOf

\* What a step may do to a client's answer without adding to it: the client
\* throws its batch away and counts it as dropped or returns, and the shell's
\* channel loses chunks that count as lost or that nobody will route.
Stays(c) ==
  /\ InOrder(c, batch'[c]) /\ InOrder(c, toClient'[c]) /\ InOrder(c, toServer')
  /\ Own(c, batch'[c]) \subseteq Own(c, batch[c])
  /\ Own(c, batch'[c]) = Own(c, batch[c]) \/ c \in dropped' \/ Returned(c)'
  /\ Own(c, toClient'[c]) = Own(c, toClient[c])
  /\ Own(c, toServer') \subseteq Own(c, toServer)
  /\ Own(c, toServer') = Own(c, toServer) \/ c \in ansLost' \/ ~up'[c]
  /\ up'[c] => up[c]
  /\ received'[c] = received[c] /\ answer'[c] = answer[c]
  /\ runs'[c] = <<>> => runs[c] = <<>>
  /\ c \in ansLost \cup dropped => c \in ansLost' \cup dropped'
  /\ Returned(c) => Returned(c)'
  /\ pc'[c] = "ok" => pc[c] = "ok"
  /\ batch'[c] # <<>> => pc'[c] = "parse"

LEMMA AnswerStays ==
  ASSUME NEW c \in Clients, AnswerOf(c), Stays(c)
  PROVE  AnswerOf(c)'
<1>1. PathOf(c)'
  BY DEF AnswerOf, PathOf, Path, Cross, Stays
<1>2. Arrived(c)' \subseteq Arrived(c) /\ Coming(c)' \subseteq Coming(c)
  BY DEF Arrived, Coming, Stays
<1>3. MadeOf(c)'
  <2>1. Complete(Len(answer[c]), Arrived(c)' \cup Coming(c)')
    BY <1>2 DEF AnswerOf, MadeOf, Complete
  <2>2. answer'[c] = answer[c] /\ received'[c] = received[c] /\ (runs'[c] = <<>> => runs[c] = <<>>)
        /\ (pc'[c] = "ok" => pc[c] = "ok")
    BY DEF Stays
  <2> QED BY <1>2, <2>1, <2>2 DEF AnswerOf, MadeOf
<1>4. JoinedOf(c)'
  <2> SUFFICES ASSUME c \notin ansLost' \cup dropped'
               PROVE  /\ Returned(c)' \/ Connected(c)'
                      /\ pc'[c] = "ok" => received'[c] = answer'[c] /\ answer'[c] # <<>>
    BY DEF JoinedOf
  <2>1. c \notin ansLost \cup dropped
    BY DEF Stays
  <2>2. received'[c] = received[c] /\ answer'[c] = answer[c] /\ (pc'[c] = "ok" => pc[c] = "ok")
    BY DEF Stays
  <2>3. pc'[c] = "ok" => received'[c] = answer'[c] /\ answer'[c] # <<>>
    BY <2>1, <2>2 DEF AnswerOf, JoinedOf
  <2>4. ASSUME ~Returned(c)' PROVE Connected(c)'
    <3>1. Connected(c)
      BY <2>1, <2>4 DEF AnswerOf, JoinedOf, Stays
    <3>2. Arrived(c)' = Arrived(c)
      BY <2>4 DEF Arrived, Stays
    <3>3. up'[c] => up[c] /\ Coming(c)' = Coming(c)
      BY DEF Coming, Stays
    <3> QED BY <2>2, <3>1, <3>2, <3>3 DEF Connected
  <2> QED BY <2>3, <2>4
<1>5. ParsesOf(c)'
  BY DEF ParsesOf, Stays
<1> QED BY <1>1, <1>3, <1>4, <1>5 DEF AnswerOf

\* Nothing of a client's answer moves.
LEMMA AnswerQuiet ==
  ASSUME NEW c \in Clients, AnswerOf(c),
         batch'[c] = batch[c], toClient'[c] = toClient[c], toServer' = toServer,
         received'[c] = received[c], answer'[c] = answer[c],
         up'[c] => up[c], runs'[c] = <<>> => runs[c] = <<>>,
         c \in ansLost \cup dropped => c \in ansLost' \cup dropped',
         Returned(c) => Returned(c)', pc'[c] = "ok" => pc[c] = "ok",
         batch[c] # <<>> => pc'[c] = "parse"
  PROVE  AnswerOf(c)'
<1>1. InOrder(c, batch[c]) /\ InOrder(c, toClient[c]) /\ InOrder(c, toServer)
  BY DEF AnswerOf, PathOf, Path
<1>2. Stays(c)
  BY <1>1 DEF Stays
<1> QED BY <1>2, AnswerStays

\* A client does something else than reading its answer.
LEMMA AnswerElsewhere ==
  ASSUME TypeOK, AnswerInv, NEW c \in Clients,
         \/ SendHeader(c) \/ HeaderFails(c) \/ SendRequestChunk(c) \/ RequestSent(c)
         \/ CheckTimeout(c) \/ ReadPart(c) \/ ReadFails(c) \/ BatchDone(c) \/ TimePasses(c)
  PROVE  AnswerInv'
<1>1. pc \in [Clients -> {"header", "send", "check", "read", "parse", "ok", "failed"}]
  BY DEF TypeOK
<1>2. UNCHANGED <<batch, toClient, toServer, received, answer, up, runs, ansLost, dropped>>
  BY DEF SendHeader, HeaderFails, SendRequestChunk, RequestSent, CheckTimeout, ReadPart, ReadFails, BatchDone, TimePasses,
         shellVars, netVars
<1>3. ASSUME NEW x \in Clients
      PROVE  /\ Returned(x) => Returned(x)'
             /\ pc'[x] = "ok" => pc[x] = "ok"
             /\ batch[x] # <<>> => pc'[x] = "parse"
  <2>1. batch[x] # <<>> => pc[x] = "parse"
    BY DEF AnswerInv, AnswerOf, ParsesOf
  <2>2. CASE x = c
    BY <1>1, <2>1, <2>2 DEF SendHeader, HeaderFails, SendRequestChunk, RequestSent, CheckTimeout, ReadPart, ReadFails, BatchDone,
                            TimePasses, Go, Returned
  <2>3. CASE x # c
    <3>1. pc'[x] = pc[x]
      BY <1>1, <2>3 DEF SendHeader, HeaderFails, SendRequestChunk, RequestSent, CheckTimeout, ReadPart, ReadFails, BatchDone,
                        TimePasses, Go
    <3> QED BY <2>1, <3>1 DEF Returned
  <2> QED BY <2>2, <2>3
<1> QED BY <1>2, <1>3, AnswerQuiet DEF AnswerInv

\* For the clients other than c a step of c changes nothing.
LEMMA AnswerOthers ==
  ASSUME AnswerInv, NEW c, NEW x \in Clients, x # c,
         batch'[x] = batch[x], toClient'[x] = toClient[x], received'[x] = received[x],
         pc'[x] = pc[x], x \in dropped => x \in dropped',
         UNCHANGED <<toServer, answer, up, runs, ansLost>>
  PROVE  AnswerOf(x)'
<1>1. /\ Returned(x) => Returned(x)'
      /\ batch[x] # <<>> => pc'[x] = "parse"
  BY DEF AnswerInv, AnswerOf, ParsesOf, Returned
<1> QED BY <1>1, AnswerQuiet DEF AnswerInv

\* A client reads a batch.
LEMMA AnswerRead ==
  ASSUME TypeOK, AnswerInv, NEW c \in Clients, ReadBatch(c)
  PROVE  AnswerInv'
<1>0. /\ batch \in [Clients -> Seq(Mail)] /\ toClient \in [Clients -> Seq(Mail)]
      /\ pc \in [Clients -> {"header", "send", "check", "read", "parse", "ok", "failed"}]
  BY DEF TypeOK, Mail
<1>1. PICK k \in 1..Len(toClient[c]) :
        /\ batch' = [batch EXCEPT ![c] = SubSeq(toClient[c], 1, k)]
        /\ toClient' = [toClient EXCEPT ![c] = SubSeq(@, k + 1, Len(@))]
  BY DEF ReadBatch
<1>2. /\ pc[c] = "read" /\ pc' = [pc EXCEPT ![c] = "parse"]
      /\ UNCHANGED <<toServer, received, answer, up, runs, ansLost, dropped>>
  BY DEF ReadBatch, Go, shellVars, netVars
<1>3. ASSUME NEW x \in Clients, x # c PROVE AnswerOf(x)'
  <2>1. batch'[x] = batch[x] /\ toClient'[x] = toClient[x] /\ pc'[x] = pc[x]
    BY <1>0, <1>1, <1>2, <1>3
  <2> QED BY <1>2, <1>3, <2>1, AnswerOthers
<1>4. AnswerOf(c)'
  <2> DEFINE b == SubSeq(toClient[c], 1, k)
             t == SubSeq(toClient[c], k + 1, Len(toClient[c]))
  <2>1. batch'[c] = b /\ toClient'[c] = t /\ pc'[c] = "parse"
    BY <1>0, <1>1, <1>2
  <2>2. AnswerOf(c) /\ batch[c] = <<>>
    BY <1>2 DEF AnswerInv, AnswerOf, ParsesOf
  <2>3. InOrder(c, toClient[c]) /\ InOrder(c, toServer) /\ toClient[c] \in Seq(Mail)
    BY <1>0, <2>2 DEF AnswerOf, PathOf, Path
  <2>4. /\ InOrder(c, b) /\ InOrder(c, t)
        /\ Own(c, toClient[c]) = Own(c, b) \cup Own(c, t) /\ Cross(Own(c, b), Own(c, t))
    BY <2>3, OwnSplit
  <2> HIDE DEF b, t
  <2>5. Own(c, batch[c]) = {}
    BY <2>2, OwnEmpty
  <2>6. Arrived(c)' = Arrived(c) /\ Coming(c)' = Coming(c) /\ Own(c, b) \cup Own(c, t) = Arrived(c)
    BY <1>2, <2>1, <2>4, <2>5 DEF Arrived, Coming
  <2>7. PathOf(c)'
    <3>1. Cross(Arrived(c), Own(c, toServer))
      BY <2>2 DEF AnswerOf, PathOf, Path, Arrived
    <3>2. Path(c, b, t, toServer)
      BY <2>3, <2>4, <2>6, <3>1 DEF Path
    <3> QED BY <1>2, <2>1, <3>2 DEF PathOf
  <2>8. MadeOf(c)'
    BY <1>2, <2>1, <2>2, <2>6 DEF AnswerOf, MadeOf
  <2>9. JoinedOf(c)'
    BY <1>2, <2>1, <2>2, <2>6 DEF AnswerOf, JoinedOf, Connected, Returned
  <2> QED BY <2>1, <2>7, <2>8, <2>9 DEF AnswerOf, ParsesOf
<1> QED BY <1>3, <1>4 DEF AnswerInv

\* A client throws the rest of a batch away.
LEMMA AnswerMeet ==
  ASSUME TypeOK, AnswerInv, NEW c \in Clients, MeetForeign(c) \/ MeetError(c)
  PROVE  AnswerInv'
<1>0. /\ batch \in [Clients -> Seq(Mail)]
      /\ pc \in [Clients -> {"header", "send", "check", "read", "parse", "ok", "failed"}]
  BY DEF TypeOK, Mail
<1>1. /\ pc[c] = "parse" /\ batch' = [batch EXCEPT ![c] = <<>>]
      /\ UNCHANGED <<toClient, toServer, received, answer, up, runs, ansLost>>
  BY DEF MeetForeign, MeetError, shellVars, netVars
<1>2. /\ \/ pc' = [pc EXCEPT ![c] = "failed"]
         \/ /\ pc' = [pc EXCEPT ![c] = "check"]
            /\ (\E i \in DOMAIN batch[c] : IsOwn(c, batch[c][i])) => c \in dropped'
      /\ dropped \subseteq dropped'
  BY DEF MeetForeign, MeetError, Go
<1>3. ASSUME NEW x \in Clients, x # c PROVE AnswerOf(x)'
  <2>1. batch'[x] = batch[x] /\ toClient'[x] = toClient[x] /\ pc'[x] = pc[x]
    BY <1>0, <1>1, <1>2, <1>3
  <2> QED BY <1>1, <1>2, <1>3, <2>1, AnswerOthers
<1>4. AnswerOf(c)'
  <2>1. AnswerOf(c)
    BY DEF AnswerInv
  <2>2. batch'[c] = <<>> /\ pc'[c] # "ok" /\ ~Returned(c)
    BY <1>0, <1>1, <1>2 DEF Returned
  <2>3. Own(c, batch'[c]) = {} /\ InOrder(c, batch'[c])
    BY <2>2, OwnEmpty
  <2>4. Own(c, batch[c]) = {} \/ c \in dropped' \/ Returned(c)'
    <3>1. CASE pc' = [pc EXCEPT ![c] = "failed"]
      BY <1>0, <3>1 DEF Returned
    <3>2. CASE \E i \in DOMAIN batch[c] : IsOwn(c, batch[c][i])
      BY <1>2, <3>1, <3>2
    <3>3. CASE ~\E i \in DOMAIN batch[c] : IsOwn(c, batch[c][i])
      <4>1. batch[c] \in Seq(Mail)
        BY <1>0
      <4>2. DOMAIN batch[c] = 1..Len(batch[c])
        BY <4>1
      <4> QED BY <3>3, <4>2 DEF Own, OwnOk
    <3> QED BY <3>1, <3>2, <3>3
  <2>5. InOrder(c, toClient[c]) /\ InOrder(c, toServer)
    BY <2>1 DEF AnswerOf, PathOf, Path
  <2>6. Stays(c)
    BY <1>1, <1>2, <2>2, <2>3, <2>4, <2>5 DEF Stays
  <2> QED BY <2>1, <2>6, AnswerStays
<1> QED BY <1>3, <1>4 DEF AnswerInv

\* A client keeps a chunk of its answer; with the last one it has all of it.
LEMMA AnswerKeep ==
  ASSUME TypeOK, AnswerInv, NEW c \in Clients, KeepChunk(c)
  PROVE  AnswerInv'
<1> DEFINE m == Head(batch[c])
           l == Len(received[c])
           T == Own(c, toClient[c])
           S == Own(c, toServer)
           R == Own(c, Tail(batch[c])) \cup T
<1>0. /\ batch \in [Clients -> Seq(Mail)] /\ received \in [Clients -> Seq(Nat)]
      /\ pc \in [Clients -> {"header", "send", "check", "read", "parse", "ok", "failed"}]
  BY DEF TypeOK, Mail
<1>1. /\ pc[c] = "parse" /\ batch[c] # <<>> /\ OwnOk(c, m)
      /\ received' = [received EXCEPT ![c] = @ \o m.data]
      /\ UNCHANGED <<toClient, toServer, answer, up, runs, ansLost, dropped>>
  BY DEF KeepChunk, OwnOk, shellVars, netVars
<1>2. \/ m.last /\ batch' = [batch EXCEPT ![c] = <<>>] /\ \E r \in {"ok", "failed"} : pc' = [pc EXCEPT ![c] = r]
      \/ ~m.last /\ batch' = [batch EXCEPT ![c] = Tail(@)] /\ pc' = pc
  BY DEF KeepChunk, Decode, Go
<1>3. ASSUME NEW x \in Clients, x # c PROVE AnswerOf(x)'
  <2> HIDE DEF m
  <2>1. batch'[x] = batch[x] /\ received'[x] = received[x] /\ pc'[x] = pc[x] /\ toClient'[x] = toClient[x]
    BY <1>0, <1>1, <1>2, <1>3
  <2> QED BY <1>1, <1>3, <2>1, AnswerOthers
<1>4. AnswerOf(c)'
  <2>1. AnswerOf(c) /\ InOrder(c, batch[c]) /\ batch[c] \in Seq(Mail)
    BY <1>0 DEF AnswerInv, AnswerOf, PathOf, Path
  <2>2. /\ InOrder(c, Tail(batch[c])) /\ Own(c, batch[c]) = {m} \cup Own(c, Tail(batch[c]))
        /\ Cross({m}, Own(c, Tail(batch[c])))
    BY <1>1, <2>1, OwnTail
  <2>3. /\ l \in Nat /\ Len(answer[c]) \in Nat /\ received[c] \in Seq(Nat)
        /\ \A x \in Arrived(c) \cup Coming(c) : x.data \in Seq(Nat) /\ x.last \in BOOLEAN
    BY AnswerTypes
  <2>4. received'[c] = received[c] \o m.data
    BY <1>0, <1>1
  <2> HIDE DEF m, l, T, S, R
  <2>5. Arrived(c) = {m} \cup R /\ Coming(c) = S /\ m \in Arrived(c)
    BY <2>2 DEF Arrived, Coming, R, T, S
  <2>6. Cross({m}, R) /\ Cross({m}, S)
    BY <2>1, <2>2 DEF AnswerOf, PathOf, Path, Cross, R, T, S
  <2>7. \A x \in {m} \cup R \cup S : x.data \in Seq(Nat) /\ Stretch(x.data)
    BY <2>1, <2>3, <2>5 DEF AnswerOf, MadeOf, Complete
  <2>8. /\ Final(m.data) <= Len(answer[c]) /\ (m.last <=> Final(m.data) = Len(answer[c]))
        /\ answer[c] = Bytes(Len(answer[c]))
    BY <2>1, <2>5 DEF AnswerOf, MadeOf, Complete
  <2>9. runs[c] # <<>>
    BY <2>1, <2>5 DEF AnswerOf, MadeOf
  <2>10. ASSUME c \notin ansLost \cup dropped
         PROVE  /\ Connected(c) /\ First(m.data) = l + 1
                /\ received'[c] = Bytes(Final(m.data)) /\ Final(m.data) \in Nat /\ Final(m.data) > 0
    <3>1. Connected(c)
      BY <1>1, <2>1, <2>10 DEF AnswerOf, JoinedOf, Returned
    <3>2. Linked(l, {m} \cup R, {m} \cup R)
      BY <2>5, <3>1 DEF Connected, l
    <3>3. First(m.data) = l + 1
      BY <2>3, <2>6, <2>7, <3>2, FirstLinked
    <3>4. received[c] = Bytes(l)
      BY <3>1 DEF Connected, l
    <3>5. m.data \in Seq(Nat) /\ Stretch(m.data)
      BY <2>7
    <3>6. Bytes(l) \o m.data = Bytes(Final(m.data)) /\ Final(m.data) \in Nat /\ Final(m.data) = l + Len(m.data)
      BY <2>3, <3>3, <3>5, Prolongs
    <3>7. Len(m.data) \in Nat /\ Len(m.data) > 0
      BY <3>5, StretchIs
    <3> QED BY <2>3, <2>4, <3>1, <3>3, <3>4, <3>6, <3>7
  <2>11. ASSUME InOrder(c, batch'[c]), Own(c, batch'[c]) \subseteq Own(c, batch[c])
         PROVE  PathOf(c)' /\ MadeOf(c)'
    <3>1. PathOf(c)'
      BY <1>1, <2>1, <2>11 DEF AnswerOf, PathOf, Path, Cross
    <3>2. Arrived(c)' \subseteq Arrived(c) /\ Coming(c)' = Coming(c)
      BY <1>1, <2>11 DEF Arrived, Coming
    <3>3. Complete(Len(answer[c]), Arrived(c)' \cup Coming(c)')
      BY <2>1, <3>2 DEF AnswerOf, MadeOf, Complete
    <3> QED BY <1>1, <2>8, <2>9, <3>1, <3>3 DEF MadeOf
  <2>12. CASE m.last
    <3>1. batch'[c] = <<>> /\ pc'[c] \in {"ok", "failed"}
      BY <1>0, <1>2, <2>12
    <3>2. InOrder(c, batch'[c]) /\ Own(c, batch'[c]) = {}
      BY <3>1, OwnEmpty
    <3>3. c \notin ansLost \cup dropped => received'[c] = answer[c] /\ answer[c] # <<>>
      <4> SUFFICES ASSUME c \notin ansLost \cup dropped
                   PROVE  received'[c] = answer[c] /\ answer[c] # <<>>
        OBVIOUS
      <4>1. received'[c] = Bytes(Final(m.data)) /\ Final(m.data) > 0
        BY <2>10
      <4>2. Final(m.data) = Len(answer[c])
        BY <2>8, <2>12
      <4>3. answer[c] # <<>>
        BY <2>3, <4>1, <4>2
      <4> QED BY <2>8, <4>1, <4>2, <4>3
    <3>4. JoinedOf(c)'
      BY <1>1, <3>1, <3>3 DEF JoinedOf, Returned
    <3> QED BY <2>11, <3>1, <3>2, <3>4 DEF AnswerOf, ParsesOf
  <2>13. CASE ~m.last
    <3>1. batch'[c] = Tail(batch[c]) /\ pc'[c] = "parse"
      BY <1>0, <1>1, <1>2, <2>13
    <3>2. InOrder(c, batch'[c]) /\ Own(c, batch'[c]) \subseteq Own(c, batch[c])
      BY <2>2, <3>1
    <3>3. Arrived(c)' = R /\ Coming(c)' = S
      BY <1>1, <3>1 DEF Arrived, Coming, R, T, S
    <3>4. ASSUME c \notin ansLost \cup dropped PROVE Connected(c)'
      <4>1. /\ Connected(c) /\ First(m.data) = l + 1
            /\ received'[c] = Bytes(Final(m.data)) /\ Final(m.data) \in Nat
        BY <2>10, <3>4
      <4>2. Len(received'[c]) = Final(m.data)
        BY <4>1 DEF Bytes
      <4>3. Linked(l, R, {m} \cup R) /\ (up[c] => Linked(l, S, {m} \cup (R \cup S)))
        <5>1. {m} \cup R \cup S = {m} \cup (R \cup S)
          OBVIOUS
        <5> QED BY <2>5, <4>1, <5>1 DEF Connected, Linked, l
      <4>4. Linked(Final(m.data), R, R)
        BY <2>3, <2>6, <2>7, <4>1, <4>3, NextLinked
      <4>5. up[c] => Linked(Final(m.data), S, R \cup S)
        BY <2>3, <2>6, <2>7, <4>1, <4>3, NextLinked
      <4> QED BY <1>1, <3>3, <4>1, <4>2, <4>4, <4>5 DEF Connected
    <3>5. JoinedOf(c)'
      BY <1>1, <3>1, <3>4 DEF JoinedOf
    <3> QED BY <2>11, <3>1, <3>2, <3>5 DEF AnswerOf, ParsesOf
  <2> QED BY <2>12, <2>13
<1> QED BY <1>3, <1>4 DEF AnswerInv

\* The shell's thread takes a chunk; when it runs the request, the answer it
\* makes is the first one for that client.
LEMMA AnswerShell ==
  ASSUME TypeOK, RequestInv, AnswerInv, NEW c \in Clients, StoreChunk(c) \/ RunRequest(c) \/ RunPanics(c)
  PROVE  AnswerInv'
<1> DEFINE m == Head(toShell[c])
<1>0. /\ runs \in [Clients -> Seq(Seq(Nat))] /\ answer \in [Clients -> Seq(Nat)] /\ toServer \in Seq(Mail)
  BY AnswerTypes DEF TypeOK
<1>1. UNCHANGED <<pc, received, batch, dropped, up, ansLost, toClient>> /\ toShell[c] # <<>>
  BY DEF StoreChunk, RunRequest, RunPanics, TakeChunk, clientVars, netVars
<1>2. m.id = c /\ runs[c] = <<>>
  <2>1. /\ Orderly(c, ReqLen[c], SentEnd(c), toShell[c], past[c], runs[c])
        /\ toShell[c] \in Seq(Chunks)
    BY RequestTypes DEF RequestInv, RequestOf
  <2>2. 1 \in 1..Len(toShell[c]) /\ m = toShell[c][1]
    BY <1>1, <2>1
  <2> QED BY <1>1, <2>1, <2>2 DEF Orderly, Queued, Written, Run
<1>3. \/ runs' = runs
      \/ runs' = [runs EXCEPT ![m.id] = Append(@, Appended(m))]
  BY DEF StoreChunk, RunRequest, RunPanics
<1> HIDE DEF m
<1>4. \A x \in Clients : runs'[x] = <<>> => runs[x] = <<>>
  BY <1>0, <1>2, <1>3
<1>5. \A x \in Clients : /\ Returned(x) => Returned(x)'
                         /\ batch[x] # <<>> => pc'[x] = "parse"
  BY <1>1 DEF AnswerInv, AnswerOf, ParsesOf, Returned
<1>6. CASE StoreChunk(c) \/ RunPanics(c)
  <2>1. UNCHANGED <<answer, toServer>>
    BY <1>6 DEF StoreChunk, RunPanics
  <2> QED BY <1>1, <1>4, <1>5, <2>1, AnswerQuiet DEF AnswerInv
<1>7. CASE RunRequest(c)
  <2>1. PICK n \in 0..MaxRes, status \in {"ok", "bad"} :
          /\ status = "ok" => n > 0
          /\ answer' = [answer EXCEPT ![c] = Bytes(n)]
          /\ toServer' = toServer \o AnswerChunks(c, status, Bytes(n))
    BY <1>2, <1>7 DEF RunRequest, m
  <2>2. n \in Nat
    BY ExchangeAssumption
  <2> DEFINE a == AnswerChunks(c, status, Bytes(n))
  <2>3. a \in Seq(Mail) /\ \A x \in Clients : x # c \/ status = "bad" => InOrder(x, a) /\ Own(x, a) = {}
    BY <2>2, OwnOther
  <2>4. status = "ok" => InOrder(c, a) /\ Complete(n, Own(c, a)) /\ Linked(0, Own(c, a), Own(c, a))
    BY <2>1, <2>2, OwnAnswer
  <2>5. toServer' = toServer \o a
    BY <2>1
  <2> HIDE DEF a
  <2>6. ASSUME NEW x \in Clients, x # c PROVE AnswerOf(x)'
    <3>1. AnswerOf(x) /\ InOrder(x, batch[x]) /\ InOrder(x, toClient[x]) /\ InOrder(x, toServer)
      BY DEF AnswerInv, AnswerOf, PathOf, Path
    <3>2. InOrder(x, a) /\ Own(x, a) = {}
      BY <2>3, <2>6
    <3>3. Cross(Own(x, toServer), Own(x, a))
      BY <3>2 DEF Cross
    <3>4. InOrder(x, toServer') /\ Own(x, toServer') = Own(x, toServer)
      <4>1. InOrder(x, toServer \o a) /\ Own(x, toServer \o a) = Own(x, toServer) \cup Own(x, a)
        BY <1>0, <2>3, <3>1, <3>2, <3>3, OwnConcat
      <4> QED BY <2>5, <3>2, <4>1
    <3>5. answer'[x] = answer[x]
      BY <1>0, <2>1, <2>6
    <3>6. pc'[x] = "ok" => pc[x] = "ok"
      BY <1>1
    <3>7. Stays(x)
      BY <1>1, <1>4, <1>5, <3>1, <3>4, <3>5, <3>6 DEF Stays
    <3> QED BY <3>1, <3>7, AnswerStays
  <2>7. AnswerOf(c)'
    <3>1. AnswerOf(c) /\ InOrder(c, batch[c]) /\ InOrder(c, toClient[c]) /\ InOrder(c, toServer)
      BY DEF AnswerInv, AnswerOf, PathOf, Path
    <3>2. Arrived(c) = {} /\ Coming(c) = {} /\ received[c] = <<>> /\ pc[c] # "ok"
      BY <1>2, <3>1 DEF AnswerOf, MadeOf
    <3>3. InOrder(c, a) /\ Complete(n, Own(c, a)) /\ Linked(0, Own(c, a), Own(c, a))
      <4>1. CASE status = "ok"
        BY <2>4, <4>1
      <4>2. CASE status = "bad"
        BY <2>3, <4>2 DEF Complete, Linked
      <4> QED BY <4>1, <4>2
    <3>4. InOrder(c, toServer') /\ Own(c, toServer') = Own(c, a)
      <4>1. Own(c, toServer) = {} /\ Cross(Own(c, toServer), Own(c, a))
        BY <3>2 DEF Coming, Cross
      <4>2. InOrder(c, toServer \o a) /\ Own(c, toServer \o a) = Own(c, toServer) \cup Own(c, a)
        BY <1>0, <2>3, <3>1, <3>3, <4>1, OwnConcat
      <4> QED BY <2>5, <4>1, <4>2
    <3>5. Arrived(c)' = {} /\ Coming(c)' = Own(c, a)
      BY <1>1, <3>2, <3>4 DEF Arrived, Coming
    <3>6. answer'[c] = Bytes(n) /\ Len(answer'[c]) = n
      <4>1. answer'[c] = Bytes(n)
        BY <1>0, <2>1
      <4>2. Len(Bytes(n)) = n
        BY <2>2 DEF Bytes
      <4> QED BY <4>1, <4>2
    <3>7. runs'[c] # <<>>
      <4>1. runs' = [runs EXCEPT ![c] = Append(@, Appended(m))]
        BY <1>2, <1>7 DEF RunRequest, m
      <4>2. runs'[c] = Append(<<>>, Appended(m))
        BY <1>0, <1>2, <4>1
      <4>3. \A v : Append(<<>>, v) # <<>>
        OBVIOUS
      <4> QED BY <4>2, <4>3
    <3>8. PathOf(c)'
      <4>1. Own(c, batch[c]) = {} /\ Own(c, toClient[c]) = {}
        BY <3>2 DEF Arrived
      <4> QED BY <1>1, <3>1, <3>4, <4>1 DEF PathOf, Path, Cross
    <3>9. MadeOf(c)'
      BY <3>3, <3>5, <3>6, <3>7 DEF MadeOf
    <3>10. Connected(c)'
      <4>1. received'[c] = <<>> /\ Len(<<>>) = 0 /\ Bytes(0) = <<>>
        BY <1>1, <3>2 DEF Bytes
      <4>2. Linked(0, {}, {}) /\ Linked(0, Own(c, a), {} \cup Own(c, a))
        BY <3>3 DEF Linked
      <4> QED BY <3>5, <4>1, <4>2 DEF Connected
    <3>11. JoinedOf(c)'
      BY <1>1, <3>2, <3>10 DEF JoinedOf
    <3>12. ParsesOf(c)'
      BY <1>1, <1>5 DEF ParsesOf
    <3> QED BY <3>8, <3>9, <3>11, <3>12 DEF AnswerOf
  <2> QED BY <2>6, <2>7 DEF AnswerInv
<1> QED BY <1>6, <1>7

\* The server routes the answer chunk at the head.
LEMMA AnswerRoute ==
  ASSUME TypeOK, AnswerInv, RouteAnswer
  PROVE  AnswerInv'
<1> DEFINE h == Head(toServer)
<1>0. toServer \in Seq(Answers) /\ toServer # <<>> /\ toClient \in [Clients -> Seq(Mail)]
  BY DEF TypeOK, Mail, RouteAnswer
<1>1. h \in Answers /\ h \in Mail /\ h.id \in Clients
  <2>1. h \in Answers
    BY <1>0
  <2> QED BY <2>1 DEF Answers, Mail
<1>2. /\ toClient' = IF up[h.id] THEN [toClient EXCEPT ![h.id] = Append(@, h)] ELSE toClient
      /\ toServer' = Tail(toServer)
      /\ UNCHANGED <<pc, received, batch, dropped, up, ansLost, runs, answer>>
  BY DEF RouteAnswer, clientVars, shellVars, netVars
<1> SUFFICES ASSUME NEW c \in Clients PROVE AnswerOf(c)'
  BY DEF AnswerInv
<1>3. AnswerOf(c) /\ InOrder(c, batch[c]) /\ InOrder(c, toClient[c]) /\ InOrder(c, toServer)
  BY DEF AnswerInv, AnswerOf, PathOf, Path
<1>4. batch[c] \in Seq(Mail) /\ toClient[c] \in Seq(Mail) /\ toServer \in Seq(Mail)
  BY AnswerTypes
<1>5. /\ InOrder(c, Tail(toServer))
      /\ OwnOk(c, h) => Own(c, toServer) = {h} \cup Own(c, Tail(toServer)) /\ Cross({h}, Own(c, Tail(toServer)))
      /\ ~OwnOk(c, h) => Own(c, Tail(toServer)) = Own(c, toServer)
  BY <1>0, <1>3, <1>4, OwnTail
<1> HIDE DEF h
<1>6. pc'[c] = pc[c] /\ (Returned(c) => Returned(c)') /\ (batch'[c] # <<>> => pc'[c] = "parse")
  BY <1>2, <1>3 DEF Returned, AnswerOf, ParsesOf
<1>7. CASE ~OwnOk(c, h)
  <2>1. Own(c, toClient'[c]) = Own(c, toClient[c]) /\ InOrder(c, toClient'[c])
    <3>1. toClient'[c] = toClient[c] \/ toClient'[c] = Append(toClient[c], h)
      BY <1>0, <1>1, <1>2
    <3>2. Own(c, Append(toClient[c], h)) = Own(c, toClient[c]) /\ InOrder(c, Append(toClient[c], h))
      BY <1>1, <1>3, <1>4, <1>7, OwnAppend
    <3> QED BY <1>3, <3>1, <3>2
  <2>2. Stays(c)
    BY <1>2, <1>3, <1>5, <1>6, <1>7, <2>1 DEF Stays
  <2> QED BY <1>3, <2>2, AnswerStays
<1>8. CASE OwnOk(c, h) /\ ~up[c]
  <2>1. h.id = c /\ toClient'[c] = toClient[c] /\ ~up'[c]
    BY <1>2, <1>8 DEF OwnOk, IsOwn
  <2>2. Stays(c)
    BY <1>2, <1>3, <1>5, <1>6, <1>8, <2>1 DEF Stays
  <2> QED BY <1>3, <2>2, AnswerStays
<1>9. CASE OwnOk(c, h) /\ up[c]
  <2> DEFINE B == Own(c, batch[c])
             T == Own(c, toClient[c])
             S == Own(c, Tail(toServer))
  <2>1. h.id = c /\ toClient'[c] = Append(toClient[c], h)
    BY <1>0, <1>1, <1>2, <1>9 DEF OwnOk, IsOwn
  <2>2. Cross(B \cup T, {h} \cup S) /\ Cross(B, T)
    BY <1>3, <1>5, <1>9 DEF AnswerOf, PathOf, Path
  <2>3. InOrder(c, toClient'[c]) /\ Own(c, toClient'[c]) = T \cup {h}
    <3>1. Cross(T, {h})
      BY <2>2 DEF Cross
    <3> QED BY <1>1, <1>3, <1>4, <1>9, <2>1, <3>1, OwnAppend
  <2>4. Own(c, toServer') = S /\ InOrder(c, toServer') /\ Own(c, toServer) = {h} \cup S /\ Cross({h}, S)
    BY <1>2, <1>5, <1>9
  <2> HIDE DEF B, T, S
  <2>5. Arrived(c) = B \cup T /\ Coming(c) = {h} \cup S
    BY <2>4 DEF Arrived, Coming, B, T
  <2>6. Arrived(c)' = Arrived(c) \cup {h} /\ Coming(c)' = S
    BY <1>2, <2>3, <2>4, <2>5 DEF Arrived, Coming, B
  <2>7. PathOf(c)'
    <3>1. Cross(B, T \cup {h}) /\ Cross(B \cup (T \cup {h}), S)
      BY <2>2, <2>4 DEF Cross
    <3> QED BY <1>2, <1>3, <2>3, <2>4, <3>1 DEF PathOf, Path, B
  <2>8. Arrived(c)' \cup Coming(c)' = Arrived(c) \cup Coming(c)
    BY <2>5, <2>6
  <2>9. MadeOf(c)'
    <3>1. Arrived(c) \cup Coming(c) # {}
      BY <2>5
    <3> QED BY <1>2, <1>3, <2>8, <3>1 DEF AnswerOf, MadeOf
  <2>10. ASSUME Connected(c) PROVE Connected(c)'
    <3> DEFINE l == Len(received[c])
               A == Arrived(c)
    <3>1. l \in Nat /\ \A x \in Arrived(c) \cup Coming(c) : x.data \in Seq(Nat)
      BY AnswerTypes
    <3>2. Linked(l, A, A) /\ Linked(l, {h} \cup S, A \cup ({h} \cup S))
      BY <1>9, <2>5, <2>10 DEF Connected
    <3>3. \A x \in {h} \cup S : x.data \in Seq(Nat) /\ Stretch(x.data)
      BY <1>3, <2>5, <3>1 DEF AnswerOf, MadeOf, Complete
    <3> HIDE DEF l, A
    <3>4. Linked(l, {h}, A \cup {h} \cup S)
      BY <3>2 DEF Linked
    <3>5. Linked(l, A \cup {h}, A \cup {h})
      BY <2>4, <3>1, <3>2, <3>3, <3>4, EarlierLinked
    <3>6. Linked(l, S, (A \cup {h}) \cup S)
      BY <3>2 DEF Linked
    <3> QED BY <1>2, <2>6, <2>10, <3>5, <3>6 DEF Connected, l, A
  <2>11. JoinedOf(c)'
    BY <1>2, <1>3, <1>6, <2>10 DEF AnswerOf, JoinedOf
  <2> QED BY <1>6, <2>7, <2>9, <2>11 DEF AnswerOf, ParsesOf
<1> QED BY <1>7, <1>8, <1>9

\* A message that is not for a client joins what it can read.
LEMMA AnswerMisroute ==
  ASSUME TypeOK, AnswerInv, NEW c \in Clients, Misroute(c)
  PROVE  AnswerInv'
<1>1. PICK m \in {Foreign, Input} : toClient' = [toClient EXCEPT ![c] = Append(@, m)]
  BY DEF Misroute
<1>2. UNCHANGED <<pc, received, batch, dropped, up, ansLost, runs, answer, toServer>>
  BY DEF Misroute, clientVars, shellVars
<1>3. m \in Mail /\ toClient \in [Clients -> Seq(Mail)]
  BY DEF TypeOK, Mail
<1> SUFFICES ASSUME NEW x \in Clients PROVE AnswerOf(x)'
  BY DEF AnswerInv
<1>4. AnswerOf(x) /\ InOrder(x, batch[x]) /\ InOrder(x, toClient[x]) /\ InOrder(x, toServer)
  BY DEF AnswerInv, AnswerOf, PathOf, Path
<1>5. ~OwnOk(x, m)
  BY DEF OwnOk, IsOwn, Foreign, Input
<1>6. toClient[x] \in Seq(Mail)
  BY <1>3
<1>7. Own(x, Append(toClient[x], m)) = Own(x, toClient[x]) /\ InOrder(x, Append(toClient[x], m))
  BY <1>3, <1>4, <1>5, <1>6, OwnAppend
<1>8. toClient'[x] = toClient[x] \/ toClient'[x] = Append(toClient[x], m)
  BY <1>1, <1>3
<1>9. Own(x, toClient'[x]) = Own(x, toClient[x]) /\ InOrder(x, toClient'[x])
  BY <1>4, <1>7, <1>8
<1>10. (Returned(x) => Returned(x)') /\ (batch'[x] # <<>> => pc'[x] = "parse") /\ pc'[x] = pc[x]
  BY <1>2, <1>4 DEF Returned, AnswerOf, ParsesOf
<1>11. Stays(x)
  BY <1>2, <1>4, <1>9, <1>10 DEF Stays
<1> QED BY <1>4, <1>11, AnswerStays

\* The connection of a client or of the shell is lost; with the shell's may go
\* the next chunks of its channel.
LEMMA AnswerBreaks ==
  ASSUME TypeOK, AnswerInv, ShellLinkBreaks \/ \E c \in Clients : ClientLinkBreaks(c)
  PROVE  AnswerInv'
<1> SUFFICES ASSUME NEW x \in Clients PROVE AnswerOf(x)'
  BY DEF AnswerInv
<1>1. UNCHANGED <<pc, received, batch, dropped, runs, answer, toClient>>
  BY DEF ShellLinkBreaks, ClientLinkBreaks, clientVars, shellVars
<1>2. AnswerOf(x) /\ InOrder(x, batch[x]) /\ InOrder(x, toClient[x]) /\ InOrder(x, toServer)
  BY DEF AnswerInv, AnswerOf, PathOf, Path
<1>3. (Returned(x) => Returned(x)') /\ (batch'[x] # <<>> => pc'[x] = "parse") /\ pc'[x] = pc[x]
  BY <1>1, <1>2 DEF Returned, AnswerOf, ParsesOf
<1>4. CASE \E c \in Clients : ClientLinkBreaks(c)
  <2>1. PICK c \in Clients : ClientLinkBreaks(c)
    BY <1>4
  <2>2. UNCHANGED <<toServer, ansLost>> /\ up' = [up EXCEPT ![c] = FALSE]
    BY <2>1 DEF ClientLinkBreaks
  <2>3. up'[x] => up[x]
    BY <2>2 DEF TypeOK
  <2>4. Stays(x)
    BY <1>1, <1>2, <1>3, <2>2, <2>3 DEF Stays
  <2> QED BY <1>2, <2>4, AnswerStays
<1>5. CASE ShellLinkBreaks
  <2>1. PICK n \in 0..Len(toServer) :
          /\ toServer' = SubSeq(toServer, n + 1, Len(toServer))
          /\ ansLost' = ansLost \cup {toServer[i].id : i \in 1..n}
    BY <1>5 DEF ShellLinkBreaks
  <2>2. up' = up /\ (x \in ansLost => x \in ansLost')
    BY <1>5, <2>1 DEF ShellLinkBreaks
  <2>3. toServer \in Seq(Mail) /\ Len(toServer) \in Nat
    BY AnswerTypes
  <2>4. CASE n = 0
    <3>1. toServer' = toServer
      BY <2>1, <2>3, <2>4
    <3>2. Stays(x)
      BY <1>1, <1>2, <1>3, <2>2, <3>1 DEF Stays
    <3> QED BY <1>2, <3>2, AnswerStays
  <2>5. CASE n # 0
    <3> DEFINE a == SubSeq(toServer, 1, n)
               b == SubSeq(toServer, n + 1, Len(toServer))
    <3>1. n \in 1..Len(toServer) /\ n \in Nat
      BY <2>1, <2>3, <2>5
    <3>2. a \in Seq(Mail) /\ InOrder(x, b) /\ Own(x, toServer) = Own(x, a) \cup Own(x, b)
      BY <1>2, <2>3, <3>1, OwnSplit
    <3>3. Len(a) = n /\ \A i \in 1..n : a[i] = toServer[i]
      BY <2>3, <3>1
    <3>4. Own(x, a) # {} => x \in ansLost'
      BY <2>1, <3>3 DEF Own, OwnOk, IsOwn
    <3> HIDE DEF a
    <3>5. /\ Own(x, toServer') \subseteq Own(x, toServer) /\ InOrder(x, toServer')
          /\ Own(x, toServer') = Own(x, toServer) \/ x \in ansLost'
      BY <2>1, <3>2, <3>4
    <3>6. Stays(x)
      BY <1>1, <1>2, <1>3, <2>2, <3>5 DEF Stays
    <3> QED BY <1>2, <3>6, AnswerStays
  <2> QED BY <2>4, <2>5
<1> QED BY <1>4, <1>5

\* Every step keeps the answers as they should be.
LEMMA AnswerStep ==
  ASSUME TypeOK, RequestInv, AnswerInv, [Next]_vars
  PROVE  AnswerInv'
<1>1. CASE UNCHANGED vars
  BY <1>1 DEF vars, clientVars, shellVars, netVars, AnswerInv, AnswerOf, PathOf, Path, MadeOf, JoinedOf, Connected,
              ParsesOf, Returned, Arrived, Coming
<1>2. ASSUME NEW c \in Clients, Client(c) \/ TimePasses(c) PROVE AnswerInv'
  BY <1>2, AnswerElsewhere, AnswerRead, AnswerMeet, AnswerKeep DEF Client
<1>3. CASE Shell
  BY <1>3, AnswerShell DEF Shell
<1>4. CASE Network
  BY <1>4, AnswerRoute, AnswerMisroute, AnswerBreaks DEF Network
<1> QED BY <1>1, <1>2, <1>3, <1>4 DEF Next, Done

\* A command that succeeds returns the answer that the shell made for it, whole
\* and in order, whatever the timing of reads, routes and lost connections,
\* unless a chunk went with the shell's connection or with a batch that the
\* client gave up.
THEOREM AnswerIsWhole == Spec => []AnswerIsTheShells
<1>1. Init => TypeOK /\ RequestInv /\ AnswerInv
  BY InitTyped, RequestInit, AnswerInit
<1>2. TypeOK /\ RequestInv /\ AnswerInv /\ [Next]_vars => (TypeOK /\ RequestInv /\ AnswerInv)'
  <2>1. TypeOK /\ [Next]_vars => TypeOK'
    BY TypedStep
  <2>2. TypeOK /\ RequestInv /\ [Next]_vars => RequestInv'
    BY RequestStep
  <2>3. TypeOK /\ RequestInv /\ AnswerInv /\ [Next]_vars => AnswerInv'
    BY AnswerStep
  <2> QED BY <2>1, <2>2, <2>3
<1>3. AnswerInv => AnswerIsTheShells
  BY DEF AnswerInv, AnswerOf, JoinedOf, AnswerIsTheShells
<1> QED BY <1>1, <1>2, <1>3, PTL DEF Spec

=============================================================================
