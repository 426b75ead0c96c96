-------------------------- MODULE ForwardTcp_proofs --------------------------
(***************************************************************************)
(* Proofs about ForwardTcp for every number of callers, every buffer and   *)
(* every size of what a caller sends.                                      *)
(*                                                                         *)
(* Inv has five parts beside the types: no request has a number that was   *)
(* not given (Numbers); what the buffer, a request and a target hold is    *)
(* one caller's, holes or not (Clean); the queue has each caller once      *)
(* (Queue); a caller has one request at most, from Send to the target      *)
(* (Once); an answer belongs to the caller whose request has its number    *)
(* (Tied).                                                                 *)
(***************************************************************************)
EXTENDS ForwardTcp, SequenceTheorems, TLAPS

Byte    == (Callers \cup {None}) \X Nat
Request == [id : Nat, of : Callers, data : Seq(Byte)]
Answer  == [id : Nat, of : Callers, ok : BOOLEAN]
Taken   == [id : Nat, of : Callers, data : Seq(Byte), left : Nat]

Serving == pc \in {"read", "send", "wait"}

Types ==
  /\ caller \in [Callers -> {"out", "queued", "served", "closed"}]
  /\ size \in [Callers -> Nat]
  /\ backlog \in Seq(Callers)
  /\ pc \in {"accept", "read", "send", "wait", "exited"}
  /\ cur \in Callers \cup {None}
  /\ (cur = None) <=> ~Serving
  /\ buf \in [1..BufSize -> Byte]
  /\ id \in Nat
  /\ up \in Seq(Request)
  /\ cut \in SUBSET Nat
  /\ down \in SUBSET Answer
  /\ target \in Seq(Taken)
  /\ got \in [Callers -> Seq(Answer)]

\* Requests have numbers that were given.
Numbers == cut \subseteq 0..id /\ \A i \in DOMAIN up : up[i].id <= id

\* Bytes of c, of the n that it sends, with holes if r has lost chunks.
IsOneCallers(r, n, cuts) ==
  IF r.id \in cuts THEN IsHoled(r.data, r.of, n) ELSE IsPadded(r.data, r.of, n)

CleanSeq(s, sizes, cuts) == \A i \in DOMAIN s : IsOneCallers(s[i], sizes[s[i].of], cuts)

\* What is on its way, or has arrived, is one caller's.
Clean ==
  /\ pc = "send" => IsPadded(buf, cur, size[cur])
  /\ CleanSeq(up, size, cut)
  /\ CleanSeq(target, size, cut)

\* The caller that is served is the one that was taken from the queue, where
\* each waits once.
Queue ==
  /\ \A c \in Callers : caller[c] = "served" <=> c = cur
  /\ \A i \in DOMAIN backlog : caller[backlog[i]] = "queued"
  /\ \A i, j \in DOMAIN backlog : backlog[i] = backlog[j] => i = j

\* The callers that can have sent a request already.
Sent == {c \in Callers : caller[c] = "closed" \/ (c = cur /\ pc = "wait")}

\* A caller has one request at most, on its way or arrived.
Once ==
  /\ \A i \in DOMAIN up : up[i].of \in Sent
  /\ \A i \in DOMAIN target : target[i].of \in Sent
  /\ \A i, j \in DOMAIN up : up[i].of = up[j].of => i = j
  /\ \A i, j \in DOMAIN target : target[i].of = target[j].of => i = j
  /\ \A i \in DOMAIN up, j \in DOMAIN target : up[i].of # target[j].of

\* A request or an answer with number i may be of caller c: the present number
\* is the present caller's.
Owned == {p \in Nat \X Callers : p[1] <= id /\ ((pc = "wait" /\ p[1] = id) => p[2] = cur)}

\* The numbers of the requests of which a target took all that the shell had,
\* the whole buffer if no chunk was lost.
Took == {n \in Nat : \E j \in DOMAIN target :
           /\ target[j].id = n
           /\ target[j].left = 0
           /\ Len(target[j].data) = BufSize \/ target[j].id \in cut}

\* Answers come from requests, and those that were written from answers.
TiedGot(c) ==
  /\ Len(got[c]) <= 1
  /\ got[c] # <<>> => caller[c] = "closed"
  /\ \A i \in DOMAIN got[c] : got[c][i].of = c /\ got[c][i].id \in Took

Tied ==
  /\ \A i \in DOMAIN up : <<up[i].id, up[i].of>> \in Owned /\ (Len(up[i].data) = BufSize \/ up[i].id \in cut)
  /\ \A a \in down : <<a.id, a.of>> \in Owned /\ (a.ok => a.id \in Took)
  /\ \A c \in Callers : TiedGot(c)

Inv == Types /\ Numbers /\ Clean /\ Queue /\ Once /\ Tied

-----------------------------------------------------------------------------
(* Sequences *)

\* An element is taken out: the others keep their order.
LEMMA RemoveAtShape ==
  ASSUME NEW S, NEW s \in Seq(S), NEW r \in DOMAIN s
  PROVE  /\ RemoveAt(s, r) \in Seq(S)
         /\ \A i \in DOMAIN RemoveAt(s, r) :
              LET k == IF i < r THEN i ELSE i + 1 IN
              i \in Int /\ k \in DOMAIN s /\ RemoveAt(s, r)[i] = s[k]
<1> DEFINE a == SubSeq(s, 1, r - 1)
           b == SubSeq(s, r + 1, Len(s))
<1>1. r \in 1..Len(s) /\ Len(s) \in Nat /\ r \in Int
  OBVIOUS
<1>2. a \in Seq(S) /\ Len(a) = r - 1 /\ \A i \in 1..(r - 1) : a[i] = s[i]
  BY <1>1
<1>3. b \in Seq(S) /\ Len(b) = Len(s) - r /\ \A i \in 1..(Len(s) - r) : b[i] = s[r + i]
  BY <1>1
<1> HIDE DEF a, b
<1>4. /\ a \o b \in Seq(S)
      /\ Len(a \o b) = Len(s) - 1
      /\ \A i \in 1..(Len(s) - 1) : (a \o b)[i] = IF i <= r - 1 THEN a[i] ELSE b[i - (r - 1)]
  BY <1>1, <1>2, <1>3, ConcatProperties
<1>5. ASSUME NEW i \in 1..(Len(s) - 1) PROVE (a \o b)[i] = IF i < r THEN s[i] ELSE s[i + 1]
  <2>1. CASE i < r
    BY <1>1, <1>2, <1>4, <2>1
  <2>2. CASE ~(i < r)
    <3>1. i - (r - 1) \in 1..(Len(s) - r) /\ r + (i - (r - 1)) = i + 1
      BY <1>1, <2>2
    <3> QED BY <1>1, <1>3, <1>4, <2>2, <3>1
  <2> QED BY <2>1, <2>2
<1>6. RemoveAt(s, r) = a \o b
  BY DEF RemoveAt, a, b
<1>7. DOMAIN (a \o b) = 1..(Len(s) - 1)
  BY <1>4
<1>8. ASSUME NEW i \in DOMAIN (a \o b)
      PROVE  LET k == IF i < r THEN i ELSE i + 1 IN
             i \in Int /\ k \in DOMAIN s /\ (a \o b)[i] = s[k]
  <2>1. i \in 1..(Len(s) - 1)
    BY <1>7
  <2>2. (a \o b)[i] = IF i < r THEN s[i] ELSE s[i + 1]
    BY <1>5, <2>1
  <2> QED BY <1>1, <2>1, <2>2
<1> QED BY <1>4, <1>6, <1>8

\* What is around a hole comes from before it, from behind it, or is its seam.
LEMMA AroundHoleShape ==
  ASSUME NEW d \in Seq(Byte), NEW c \in Callers, NEW i \in 0..Len(d), NEW j \in 1..(Len(d) + 1),
         NEW seam \in {<<>>, <<Seam(c)>>}, i + Len(seam) + 1 < j
  PROVE  LET h == AroundHole(d, i, seam, j) IN
         /\ h \in Seq(Byte)
         /\ \A p \in DOMAIN h :
              \/ p <= i /\ p \in DOMAIN d /\ h[p] = d[p]
              \/ p = i + 1 /\ h[p] = Seam(c)
              \/ p > i /\ p + (j - i - Len(seam) - 1) \in DOMAIN d
                 /\ h[p] = d[p + (j - i - Len(seam) - 1)]
<1> DEFINE a == SubSeq(d, 1, i)
           b == SubSeq(d, j, Len(d))
           ab == a \o seam
           n == Len(d)
           q == Len(seam)
<1>0. n \in Nat /\ i \in Nat /\ j \in Nat /\ i <= n /\ j <= n + 1 /\ j >= 1
  OBVIOUS
<1>1. seam \in Seq(Byte) /\ q \in {0, 1} /\ \A p \in 1..q : seam[p] = Seam(c)
  <2>1. Seam(c) \in Byte
    BY DEF Seam, Byte
  <2>2. CASE seam = <<>>
    BY <2>2
  <2>3. CASE seam = <<Seam(c)>>
    BY <2>1, <2>3
  <2> QED BY <2>2, <2>3
<1>2. a \in Seq(Byte) /\ Len(a) = i /\ \A p \in 1..i : a[p] = d[p]
  BY <1>0
<1>3. b \in Seq(Byte) /\ Len(b) = n - j + 1 /\ \A p \in 1..(n - j + 1) : b[p] = d[j + p - 1]
  BY <1>0
<1> HIDE DEF a, b, n, q
<1>4. /\ ab \in Seq(Byte)
      /\ Len(ab) = i + q
      /\ \A p \in 1..(i + q) : ab[p] = IF p <= i THEN a[p] ELSE seam[p - i]
  <2>1. /\ ab \in Seq(Byte)
        /\ Len(ab) = Len(a) + Len(seam)
        /\ \A p \in 1..(Len(a) + Len(seam)) : ab[p] = IF p <= Len(a) THEN a[p] ELSE seam[p - Len(a)]
    BY <1>1, <1>2, ConcatProperties
  <2> QED BY <1>2, <2>1 DEF q
<1> HIDE DEF ab
<1>5. /\ ab \o b \in Seq(Byte)
      /\ Len(ab \o b) = i + q + (n - j + 1)
      /\ \A p \in 1..(i + q + (n - j + 1)) : (ab \o b)[p] = IF p <= i + q THEN ab[p] ELSE b[p - (i + q)]
  <2>1. Len(ab) + Len(b) = i + q + (n - j + 1)
    BY <1>3, <1>4
  <2>2. /\ ab \o b \in Seq(Byte)
        /\ Len(ab \o b) = Len(ab) + Len(b)
        /\ \A p \in 1..(Len(ab) + Len(b)) : (ab \o b)[p] = IF p <= Len(ab) THEN ab[p] ELSE b[p - Len(ab)]
    BY <1>3, <1>4, ConcatProperties
  <2> QED BY <1>4, <2>1, <2>2
<1>6. AroundHole(d, i, seam, j) = ab \o b
  BY DEF AroundHole, ab, a, b
<1>7. ASSUME NEW p \in 1..(i + q + (n - j + 1))
      PROVE  \/ p <= i /\ p \in 1..n /\ (ab \o b)[p] = d[p]
             \/ p = i + 1 /\ (ab \o b)[p] = Seam(c)
             \/ p > i /\ p + (j - i - q - 1) \in 1..n /\ (ab \o b)[p] = d[p + (j - i - q - 1)]
  <2>1. CASE p <= i
    <3>1. p \in 1..n /\ p \in 1..i /\ p \in 1..(i + q)
      BY <1>0, <1>1, <2>1
    <3> QED BY <1>2, <1>4, <1>5, <2>1, <3>1
  <2>2. CASE p > i /\ p <= i + q
    <3>1. p = i + 1 /\ p - i = 1 /\ 1 \in 1..q /\ p \in 1..(i + q)
      BY <1>0, <1>1, <2>2
    <3>2. (ab \o b)[p] = ab[p] /\ ab[p] = seam[1] /\ seam[1] = Seam(c)
      BY <1>1, <1>4, <1>5, <2>2, <3>1
    <3> QED BY <3>1, <3>2
  <2>3. CASE p > i + q
    <3>1. p - (i + q) \in 1..(n - j + 1) /\ j + (p - (i + q)) - 1 = p + (j - i - q - 1)
          /\ p + (j - i - q - 1) \in 1..n /\ p > i
      BY <1>0, <1>1, <2>3
    <3>2. ~(p <= i + q)
      BY <1>0, <1>1, <2>3
    <3>3. (ab \o b)[p] = b[p - (i + q)]
      BY <1>5, <3>2
    <3> QED BY <1>3, <3>1, <3>3
  <2>4. p <= i \/ (p > i /\ p <= i + q) \/ p > i + q
    BY <1>0, <1>1
  <2> QED BY <2>1, <2>2, <2>3, <2>4
<1>8. DOMAIN (ab \o b) = 1..(i + q + (n - j + 1)) /\ DOMAIN d = 1..n
  BY <1>5, <1>0 DEF n
<1> HIDE DEF AroundHole
<1> QED BY <1>5, <1>6, <1>7, <1>8 DEF q

-----------------------------------------------------------------------------
(* Types *)

\* The shell runs a request: what it makes of it.
Runs(r, n, ok) ==
  /\ ok => n = Len(r.data)
  /\ target' = Append(target, [id |-> r.id, of |-> r.of, data |-> SubSeq(r.data, 1, n), left |-> Len(r.data) - n])
  /\ down' = down \cup {[id |-> r.id, of |-> r.of, ok |-> ok]}

Refuses(r) ==
  /\ r.id \in cut
  /\ down' = down \cup {[id |-> r.id, of |-> r.of, ok |-> FALSE]}
  /\ target' = target

\* It panics, passes the request on or refuses it.
LEMMA ShellCases ==
  ASSUME ShellRuns
  PROVE  \/ UNCHANGED <<down, target>>
         \/ \E n \in 0..Len(Head(up).data), ok \in BOOLEAN : Runs(Head(up), n, ok)
         \/ Refuses(Head(up))
BY DEF ShellRuns, Runs, Refuses, MayBeNoJson

\* A request gets a hole: the others stay as they are, and of it what is around
\* the hole.
Hole(r, i, j, seam) ==
  /\ i + Len(seam) + 1 < j
  /\ up' = [up EXCEPT ![r].data = AroundHole(@, i, seam, j)]
  /\ cut' = cut \cup {up[r].id}

LEMMA HoleIn ==
  ASSUME Types, LoseChunks
  PROVE  \E r \in DOMAIN up :
           /\ up' \in Seq(Request) /\ cut' = cut \cup {up[r].id} /\ up[r] \in Request
           /\ DOMAIN up' = DOMAIN up
           /\ \A k \in DOMAIN up : /\ k # r => up'[k] = up[k]
                                   /\ up'[k].id = up[k].id /\ up'[k].of = up[k].of
           /\ \E i \in 0..Len(up[r].data), j \in 1..(Len(up[r].data) + 1), seam \in {<<>>, <<Seam(up[r].of)>>} :
                /\ i + Len(seam) + 1 < j
                /\ up'[r].data = AroundHole(up[r].data, i, seam, j)
<1>1. PICK r \in DOMAIN up :
        \E i \in 0..Len(up[r].data), j \in 1..(Len(up[r].data) + 1), seam \in {<<>>, <<Seam(up[r].of)>>} :
          Hole(r, i, j, seam)
  BY DEF LoseChunks, Hole
<1>2. PICK i \in 0..Len(up[r].data), j \in 1..(Len(up[r].data) + 1), seam \in {<<>>, <<Seam(up[r].of)>>} :
        Hole(r, i, j, seam)
  BY <1>1
<1>3. up[r] \in Request /\ up \in Seq(Request)
  BY <1>1 DEF Types
<1>4. AroundHole(up[r].data, i, seam, j) \in Seq(Byte)
  BY <1>2, <1>3, AroundHoleShape DEF Hole, Request
<1>5. [up[r] EXCEPT !.data = AroundHole(up[r].data, i, seam, j)] \in Request
  BY <1>3, <1>4 DEF Request
<1>6. up' = [up EXCEPT ![r] = [up[r] EXCEPT !.data = AroundHole(up[r].data, i, seam, j)]]
  BY <1>2 DEF Hole
<1>7. up' \in Seq(Request)
  BY <1>3, <1>5, <1>6
<1>8. DOMAIN up' = DOMAIN up /\ \A k \in DOMAIN up : k # r => up'[k] = up[k]
  BY <1>3, <1>6
<1>9. up'[r] = [up[r] EXCEPT !.data = AroundHole(up[r].data, i, seam, j)]
  BY <1>3, <1>6
<1>10. /\ up'[r].id = up[r].id /\ up'[r].of = up[r].of
       /\ up'[r].data = AroundHole(up[r].data, i, seam, j)
  BY <1>3, <1>9 DEF Request
<1>11. \A k \in DOMAIN up : up'[k].id = up[k].id /\ up'[k].of = up[k].of
  BY <1>8, <1>10
<1>12. i + Len(seam) + 1 < j /\ cut' = cut \cup {up[r].id}
  BY <1>2 DEF Hole
<1> QED BY <1>3, <1>7, <1>8, <1>10, <1>11, <1>12

\* The initial state has the right types.
LEMMA InitTypes == Init => Types
<1> SUFFICES ASSUME Init PROVE Types
  OBVIOUS
<1>1. size \in [Callers -> Nat]
  BY ForwardAssumption DEF Init
<1>2. buf \in [1..BufSize -> Byte]
  BY DEF Init, Zero, Byte
<1>3. backlog \in Seq(Callers) /\ up \in Seq(Request) /\ target \in Seq(Taken)
      /\ got \in [Callers -> Seq(Answer)]
  BY EmptySeq DEF Init
<1> QED BY <1>1, <1>2, <1>3 DEF Init, Types, Serving

\* Every step keeps the types.
LEMMA NextTypes == Types /\ [Next]_vars => Types'
<1> SUFFICES ASSUME Types, [Next]_vars PROVE Types'
  OBVIOUS
<1> USE ForwardAssumption DEF Types, Serving
<1>1. CASE \E c \in Callers : Call(c) \/ Leave(c)
  <2>1. PICK c \in Callers : Call(c) \/ Leave(c)
    BY <1>1
  <2>2. CASE Call(c)
    <3>1. backlog' \in Seq(Callers)
      BY <2>2, AppendProperties DEF Call
    <3>2. caller' \in [Callers -> {"out", "queued", "served", "closed"}]
      BY <2>2 DEF Call
    <3> QED BY <2>2, <3>1, <3>2 DEF Call
  <2>3. CASE Leave(c)
    BY <2>3 DEF Leave
  <2> QED BY <2>1, <2>2, <2>3
<1>2. CASE Accept
  <2>1. Head(backlog) \in Callers /\ Tail(backlog) \in Seq(Callers)
    BY <1>2, HeadTailProperties DEF Accept
  <2> QED BY <1>2, <2>1 DEF Accept
<1>3. CASE ReadSome
  <2>1. PICK k \in 0..size[cur] :
          buf' = [i \in 1..BufSize |-> IF i <= k THEN Bytes(cur)[i] ELSE NewBuffer[i]]
    BY <1>3 DEF ReadSome
  <2>2. cur \in Callers /\ size[cur] \in Nat
    BY <1>3 DEF ReadSome
  <2>3. buf' \in [1..BufSize -> Byte]
    BY <2>1, <2>2 DEF Bytes, NewBuffer, Zero, Byte
  <2> QED BY <1>3, <2>3 DEF ReadSome
<1>4. CASE ReadFails
  BY <1>4 DEF ReadFails, Continue
<1>5. CASE Send
  <2>1. buf \in Seq(Byte)
    OBVIOUS
  <2>2. cur \in Callers /\ id + 1 \in Nat
    BY <1>5 DEF Send
  <2>3. [id |-> NewId, of |-> cur, data |-> buf] \in Request
    BY <2>1, <2>2 DEF NewId, Request
  <2> QED BY <1>5, <2>2, <2>3 DEF Send, NewId
<1>6. CASE Exit
  BY <1>6 DEF Exit
<1>7. CASE ConnectionLost
  <2>1. WithoutOwn \in Seq(Request)
    BY DEF WithoutOwn, Front
  <2> QED BY <1>7, <2>1 DEF ConnectionLost, Continue
<1>8. CASE TakeAnswer
  <2>1. got' \in [Callers -> Seq(Answer)]
    BY <1>8 DEF TakeAnswer
  <2>2. down' \in SUBSET Answer
    BY <1>8 DEF TakeAnswer
  <2> QED BY <1>8, <2>1, <2>2 DEF TakeAnswer, Continue
<1>9. CASE ShellRuns
  <2> DEFINE r == Head(up)
  <2>1. up # <<>> /\ up' = Tail(up)
    BY <1>9 DEF ShellRuns
  <2>2. r \in Request /\ up' \in Seq(Request)
    BY <2>1, HeadTailProperties
  <2>3. CASE UNCHANGED <<down, target>>
    BY <1>9, <2>2, <2>3 DEF ShellRuns
  <2>4. ASSUME NEW n \in 0..Len(r.data), NEW ok \in BOOLEAN, Runs(r, n, ok) PROVE Types'
    <3>1. SubSeq(r.data, 1, n) \in Seq(Byte) /\ Len(r.data) - n \in Nat
      BY <2>2, SubSeqProperties DEF Request
    <3>2. target' \in Seq(Taken)
      BY <2>2, <2>4, <3>1, AppendProperties DEF Runs, Request, Taken
    <3>3. down' \in SUBSET Answer
      BY <2>2, <2>4 DEF Runs, Request, Answer
    <3> QED BY <1>9, <2>2, <3>2, <3>3 DEF ShellRuns
  <2>5. CASE Refuses(r)
    <3> HIDE DEF r
    <3>1. r.id \in Nat /\ r.of \in Callers
      BY <2>2 DEF Request
    <3>2. [id |-> r.id, of |-> r.of, ok |-> FALSE] \in Answer
      BY <3>1 DEF Answer
    <3>3. down' \in SUBSET Answer
      BY <2>5, <3>2 DEF Refuses
    <3> QED BY <1>9, <2>2, <2>5, <3>3 DEF ShellRuns, Refuses
  <2> QED BY <1>9, <2>3, <2>4, <2>5, ShellCases
<1>10. CASE DropLateAnswer \/ LoseAnswer
  BY <1>10 DEF DropLateAnswer, LoseAnswer
<1>11. CASE LoseRequest
  <2>1. up' \in Seq(Request)
    BY <1>11, RemoveAtShape DEF LoseRequest
  <2> QED BY <1>11, <2>1 DEF LoseRequest
<1>12. CASE LoseChunks
  <2>1. up' \in Seq(Request) /\ cut' \in SUBSET Nat
    BY <1>12, HoleIn DEF Request
  <2> QED BY <1>12, <2>1 DEF LoseChunks
<1>13. CASE UNCHANGED vars
  BY <1>13 DEF vars
<1> QED BY <1>1, <1>2, <1>3, <1>4, <1>5, <1>6, <1>7, <1>8, <1>9, <1>10, <1>11, <1>12, <1>13
        DEF Next, Forwarder

-----------------------------------------------------------------------------
(* Numbers *)

\* No request has lost anything at first.
LEMMA InitNumbers == Init => Numbers
BY DEF Init, Numbers

\* The requests that are left after a loss were all there before it.
LEMMA UpLess ==
  ASSUME Types, ConnectionLost \/ LoseRequest \/ ShellRuns
  PROVE  \A i \in DOMAIN up' : \E k \in DOMAIN up : up'[i] = up[k]
<1>1. CASE ConnectionLost
  <2>1. up' = up \/ (up # <<>> /\ up' = Front(up))
    BY <1>1 DEF ConnectionLost, WithoutOwn
  <2>2. ASSUME up # <<>> PROVE \A i \in DOMAIN Front(up) : i \in DOMAIN up /\ Front(up)[i] = up[i]
    BY <2>2 DEF Front, Types
  <2> QED BY <2>1, <2>2
<1>2. CASE LoseRequest
  <2>1. PICK r \in DOMAIN up : up' = RemoveAt(up, r)
    BY <1>2 DEF LoseRequest
  <2> QED BY <2>1, RemoveAtShape DEF Types
<1>3. CASE ShellRuns
  <2>1. up # <<>> /\ up' = Tail(up)
    BY <1>3 DEF ShellRuns
  <2>2. \A i \in DOMAIN Tail(up) : i + 1 \in DOMAIN up /\ Tail(up)[i] = up[i + 1]
    BY <2>1 DEF Types
  <2> QED BY <2>1, <2>2
<1> QED BY <1>1, <1>2, <1>3

\* Every step keeps to the numbers that were given.
LEMMA NumbersStep == Types /\ Numbers /\ [Next]_vars => Numbers'
<1> SUFFICES ASSUME Types, Numbers, [Next]_vars PROVE Numbers'
  OBVIOUS
<1>1. CASE Send
  <2>1. id' = id + 1 /\ cut' = cut /\ up' = Append(up, [id |-> NewId, of |-> cur, data |-> buf])
    BY <1>1 DEF Send, NewId
  <2>2. \A i \in DOMAIN up' : (i \in DOMAIN up /\ up'[i].id = up[i].id) \/ up'[i].id = id + 1
    BY <2>1 DEF Types, NewId
  <2>3. id \in Nat /\ \A i \in DOMAIN up : up[i].id \in Nat
    <3>1. id \in Nat /\ \A i \in DOMAIN up : up[i] \in Request
      BY DEF Types
    <3> QED BY <3>1 DEF Request
  <2>4. \A i \in DOMAIN up' : up'[i].id <= id'
    BY <2>1, <2>2, <2>3 DEF Numbers
  <2> QED BY <2>1, <2>3, <2>4 DEF Numbers
<1>2. CASE ConnectionLost \/ LoseRequest \/ ShellRuns
  <2>1. UNCHANGED <<id, cut>>
    BY <1>2 DEF ConnectionLost, LoseRequest, ShellRuns
  <2> QED BY <1>2, <2>1, UpLess DEF Numbers
<1>3. CASE LoseChunks
  <2>1. id' = id /\ id \in Nat
    BY <1>3 DEF LoseChunks, Types
  <2>2. PICK r \in DOMAIN up :
          /\ cut' = cut \cup {up[r].id} /\ DOMAIN up' = DOMAIN up
          /\ \A k \in DOMAIN up : /\ k # r => up'[k] = up[k]
                                  /\ up'[k].id = up[k].id /\ up'[k].of = up[k].of
    BY <1>3, HoleIn
  <2>3. up[r].id \in 0..id
    <3>1. up[r] \in Request
      BY <2>2 DEF Types
    <3> QED BY <2>1, <2>2, <3>1 DEF Numbers, Request
  <2>4. cut' \subseteq 0..id
    BY <2>2, <2>3 DEF Numbers
  <2>5. \A i \in DOMAIN up' : up'[i].id <= id
    BY <2>2 DEF Numbers
  <2> QED BY <2>1, <2>4, <2>5 DEF Numbers
<1>4. CASE \/ \E c \in Callers : Call(c) \/ Leave(c)
          \/ Accept \/ ReadSome \/ ReadFails \/ Exit \/ TakeAnswer \/ DropLateAnswer \/ LoseAnswer
          \/ UNCHANGED vars
  <2>1. UNCHANGED <<up, id, cut>>
    BY <1>4 DEF Call, Leave, Accept, ReadSome, ReadFails, Exit, TakeAnswer, DropLateAnswer, LoseAnswer, vars
  <2> QED BY <2>1 DEF Numbers
<1> QED BY <1>1, <1>2, <1>3, <1>4 DEF Next, Forwarder

-----------------------------------------------------------------------------
(* Clean *)

\* A buffer is what a request without its bytes in the middle can be, too.
LEMMA PaddedIsHoled ==
  ASSUME NEW d \in Seq(Byte), NEW c \in Callers, NEW n \in Nat, IsPadded(d, c, n)
  PROVE  IsHoled(d, c, n)
<1>1. PICK k \in 0..n : \A j \in DOMAIN d : d[j] = IF j <= k THEN <<c, j>> ELSE Zero
  BY DEF IsPadded
<1>2. Zero[2] = 0 /\ \A j \in Nat : <<c, j>>[2] = j /\ <<c, j>> # Zero
  BY ForwardAssumption DEF Zero
<1>3. DOMAIN d \subseteq Nat \ {0}
  OBVIOUS
<1>4. \A j \in DOMAIN d : d[j] = Zero \/ \E m \in 0..n : d[j] = <<c, m>>
  BY <1>1, <1>3
<1>5. ASSUME NEW i \in DOMAIN d, NEW j \in DOMAIN d, i < j, d[j][2] > 0
      PROVE  d[i] # Zero /\ d[i][2] < d[j][2]
  <2>1. j <= k
    BY <1>1, <1>2, <1>5
  <2>2. i <= k
    BY <1>3, <1>5, <2>1
  <2>3. d[j] = <<c, j>> /\ d[i] = <<c, i>>
    BY <1>1, <2>1, <2>2
  <2> QED BY <1>2, <1>3, <1>5, <2>3
<1> QED BY <1>4, <1>5 DEF IsHoled

\* The beginning of a caller's bytes is one too.
LEMMA PrefixOfOneCallers ==
  ASSUME NEW d \in Seq(Byte), NEW c, NEW n \in Nat, NEW m \in 0..Len(d)
  PROVE  /\ IsPadded(d, c, n) => IsPadded(SubSeq(d, 1, m), c, n)
         /\ IsHoled(d, c, n) => IsHoled(SubSeq(d, 1, m), c, n)
<1> DEFINE p == SubSeq(d, 1, m)
<1>1. \A j \in DOMAIN p : j \in DOMAIN d /\ p[j] = d[j]
  OBVIOUS
<1> HIDE DEF p
<1>2. IsPadded(d, c, n) => IsPadded(p, c, n)
  BY <1>1 DEF IsPadded
<1>3. IsHoled(d, c, n) => IsHoled(p, c, n)
  BY <1>1 DEF IsHoled
<1> QED BY <1>2, <1>3 DEF p

\* A hole leaves some of a caller's bytes in their order.
LEMMA HoledAround ==
  ASSUME NEW d \in Seq(Byte), NEW c \in Callers, NEW n \in Nat, IsHoled(d, c, n),
         NEW i \in 0..Len(d), NEW j \in 1..(Len(d) + 1),
         NEW seam \in {<<>>, <<Seam(c)>>}, i + Len(seam) + 1 < j
  PROVE  IsHoled(AroundHole(d, i, seam, j), c, n)
<1> DEFINE h == AroundHole(d, i, seam, j)
           s == j - i - Len(seam) - 1
<1>1. h \in Seq(Byte) /\ \A p \in DOMAIN h : \/ p <= i /\ p \in DOMAIN d /\ h[p] = d[p]
                                             \/ p = i + 1 /\ h[p] = Seam(c)
                                             \/ p > i /\ p + s \in DOMAIN d /\ h[p] = d[p + s]
  BY AroundHoleShape
<1>2. i \in Nat /\ s \in Nat /\ s > 0
  BY DEF s
<1>3. Seam(c) = <<c, 0>> /\ Seam(c)[2] = 0 /\ Seam(c) # Zero
  BY ForwardAssumption DEF Seam, Zero
<1> HIDE DEF h, s
<1>4. DOMAIN h \subseteq Nat /\ DOMAIN d \subseteq Nat
  BY <1>1
<1>5. \A p \in DOMAIN h : h[p] = Zero \/ \E k \in 0..n : h[p] = <<c, k>>
  BY <1>1, <1>3 DEF IsHoled
<1>6. ASSUME NEW p \in DOMAIN h, NEW q \in DOMAIN h, p < q, h[q][2] > 0
      PROVE  h[p] # Zero /\ h[p][2] < h[q][2]
  <2>1. PICK y \in DOMAIN d : h[q] = d[y] /\ (y = q \/ (y = q + s /\ q > i)) /\ (y = q => q <= i)
    <3>1. h[q] # Seam(c)
      BY <1>3, <1>6
    <3> QED BY <1>1, <1>2, <1>4, <3>1
  <2>2. CASE h[p] = Seam(c)
    BY <1>3, <1>6, <2>2
  <2>3. CASE h[p] # Seam(c)
    <3>1. PICK x \in DOMAIN d : h[p] = d[x] /\ (x = p \/ (x = p + s /\ p > i)) /\ (x = p => p <= i)
      BY <1>1, <1>2, <1>4, <2>3
    <3>2. x < y
      <4>1. p \in Nat /\ q \in Nat /\ p < q
        BY <1>4, <1>6
      <4>2. CASE y = q
        BY <1>2, <2>1, <3>1, <4>1, <4>2
      <4>3. CASE y = q + s
        <5>1. p < q + s /\ p + s < q + s
          BY <1>2, <4>1
        <5> QED BY <3>1, <4>3, <5>1
      <4> QED BY <2>1, <4>2, <4>3
    <3> QED BY <1>6, <2>1, <3>1, <3>2 DEF IsHoled
  <2> QED BY <2>2, <2>3
<1>7. IsHoled(h, c, n)
  BY <1>5, <1>6 DEF IsHoled
<1> QED BY <1>7 DEF h

\* One more clean request.
LEMMA CleanAppend ==
  ASSUME NEW S, NEW s \in Seq(S), NEW sizes, NEW cuts, CleanSeq(s, sizes, cuts),
         NEW r \in S, IsOneCallers(r, sizes[r.of], cuts)
  PROVE  CleanSeq(Append(s, r), sizes, cuts)
<1>1. \A i \in DOMAIN Append(s, r) :
        Append(s, r)[i] = IF i = Len(s) + 1 THEN r ELSE s[i]
  OBVIOUS
<1>2. \A i \in DOMAIN Append(s, r) : i = Len(s) + 1 \/ i \in DOMAIN s
  OBVIOUS
<1> QED BY <1>1, <1>2 DEF CleanSeq

\* A request that loses chunks is still of one caller's bytes.
LEMMA CutsAreClean ==
  ASSUME NEW r, NEW n \in Nat, NEW cuts, NEW more, r.data \in Seq(Byte), r.of \in Callers,
         IsOneCallers(r, n, cuts), cuts \subseteq more
  PROVE  IsOneCallers(r, n, more)
BY PaddedIsHoled DEF IsOneCallers

\* Every step keeps the bytes of callers apart.
LEMMA CleanStep == Types /\ Numbers /\ Clean /\ [Next]_vars => Clean'
<1> SUFFICES ASSUME Types, Numbers, Clean, [Next]_vars PROVE Clean'
  OBVIOUS
<1>0. /\ \A i \in DOMAIN up : up[i] \in Request
      /\ \A i \in DOMAIN target : target[i] \in Taken
  BY DEF Types
<1>1. CASE ReadSome
  <2>1. PICK k \in 0..size[cur] :
          buf' = [i \in 1..BufSize |-> IF i <= k THEN Bytes(cur)[i] ELSE NewBuffer[i]]
    BY <1>1 DEF ReadSome
  <2>2. size[cur] \in Nat
    BY <1>1 DEF ReadSome, Types, Serving
  <2>3. IsPadded(buf', cur, size[cur])
    BY <2>1, <2>2, ForwardAssumption DEF IsPadded, Bytes, NewBuffer
  <2> QED BY <1>1, <2>3 DEF ReadSome, Clean
<1>2. CASE Send
  <2> DEFINE r == [id |-> NewId, of |-> cur, data |-> buf]
  <2>1. r \in Request
    BY <1>2, ForwardAssumption DEF Send, Types, Serving, NewId, Request
  <2>2. NewId \notin cut
    BY DEF NewId, Numbers, Types
  <2>3. IsOneCallers(r, size[r.of], cut)
    BY <1>2, <2>2 DEF Send, Clean, IsOneCallers
  <2>4. CleanSeq(Append(up, r), size, cut)
    BY <2>1, <2>3, CleanAppend DEF Clean, Types
  <2> QED BY <1>2, <2>4 DEF Send, Clean
<1>3. CASE ConnectionLost \/ LoseRequest
  <2>1. CleanSeq(up', size, cut)
    BY <1>3, UpLess DEF Clean, CleanSeq
  <2>2. UNCHANGED <<size, target, cut>> /\ (pc' = "send" => UNCHANGED <<pc, cur, buf>>)
    BY <1>3 DEF ConnectionLost, LoseRequest, Continue
  <2> QED BY <2>1, <2>2 DEF Clean
<1>4. CASE LoseChunks
  <2>1. UNCHANGED <<size, target, pc, cur, buf>>
    BY <1>4 DEF LoseChunks
  <2>2. PICK r \in DOMAIN up :
          /\ cut' = cut \cup {up[r].id} /\ DOMAIN up' = DOMAIN up
          /\ \A k \in DOMAIN up : /\ k # r => up'[k] = up[k]
                                  /\ up'[k].id = up[k].id /\ up'[k].of = up[k].of
          /\ \E i \in 0..Len(up[r].data), j \in 1..(Len(up[r].data) + 1), seam \in {<<>>, <<Seam(up[r].of)>>} :
               /\ i + Len(seam) + 1 < j
               /\ up'[r].data = AroundHole(up[r].data, i, seam, j)
    BY <1>4, HoleIn
  <2>3. ASSUME NEW x, x \in Request \/ x \in Taken, IsOneCallers(x, size[x.of], cut)
        PROVE  IsOneCallers(x, size[x.of], cut')
    <3>1. x.data \in Seq(Byte) /\ x.of \in Callers /\ size[x.of] \in Nat
      BY <2>3 DEF Types, Request, Taken
    <3> QED BY <2>2, <2>3, <3>1, CutsAreClean
  <2>4. CleanSeq(target', size, cut')
    BY <1>0, <2>1, <2>3 DEF Clean, CleanSeq
  <2>5. ASSUME NEW k \in DOMAIN up' PROVE IsOneCallers(up'[k], size[up'[k].of], cut')
    <3>1. k \in DOMAIN up /\ up[k] \in Request /\ IsOneCallers(up[k], size[up[k].of], cut)
      BY <1>0, <2>2 DEF Clean, CleanSeq
    <3>2. IsOneCallers(up[k], size[up[k].of], cut')
      BY <2>3, <3>1
    <3>3. CASE k # r
      BY <2>2, <3>1, <3>2, <3>3
    <3>4. CASE k = r
      <4>1. up[r].data \in Seq(Byte) /\ up[r].of \in Callers /\ size[up[r].of] \in Nat /\ up[r].id \in cut'
        BY <2>2, <3>1, <3>4 DEF Types, Request
      <4>2. IsHoled(up[r].data, up[r].of, size[up[r].of])
        BY <3>2, <3>4, <4>1 DEF IsOneCallers
      <4>3. IsHoled(up'[r].data, up[r].of, size[up[r].of])
        BY <2>2, <4>1, <4>2, HoledAround
      <4>4. up'[r].id \in cut' /\ up'[r].of = up[r].of
        <5>1. up'[r].id = up[r].id /\ up'[r].of = up[r].of
          BY <2>2
        <5> QED BY <4>1, <5>1
      <4> QED BY <3>4, <4>3, <4>4 DEF IsOneCallers
    <3> QED BY <3>3, <3>4
  <2> QED BY <2>1, <2>4, <2>5 DEF Clean, CleanSeq
<1>5. CASE ShellRuns
  <2>1. up # <<>> /\ up' = Tail(up) /\ UNCHANGED <<size, pc, cur, buf, cut>>
    BY <1>5 DEF ShellRuns
  <2>2. CleanSeq(up', size, cut)
    BY <1>5, UpLess DEF Clean, CleanSeq
  <2>3. CleanSeq(target', size, cut)
    <3> DEFINE r == Head(up)
    <3>1. CASE target' = target
      BY <3>1 DEF Clean
    <3>2. ASSUME NEW n \in 0..Len(r.data), NEW ok \in BOOLEAN, Runs(r, n, ok)
          PROVE  CleanSeq(target', size, cut)
      <4>1. r \in Request /\ IsOneCallers(r, size[r.of], cut)
        BY <1>0, <2>1 DEF Clean, CleanSeq, Types
      <4> DEFINE x == [id |-> r.id, of |-> r.of, data |-> SubSeq(r.data, 1, n), left |-> Len(r.data) - n]
      <4> HIDE DEF r
      <4>2. size[r.of] \in Nat /\ r.data \in Seq(Byte) /\ r.of \in Callers /\ r.id \in Nat
        BY <4>1 DEF Types, Request
      <4>3. IsOneCallers(x, size[x.of], cut)
        BY <4>1, <4>2, PrefixOfOneCallers DEF IsOneCallers
      <4>4. x \in Taken
        <5>1. SubSeq(r.data, 1, n) \in Seq(Byte) /\ Len(r.data) - n \in Nat
          BY <4>2, SubSeqProperties
        <5> QED BY <4>2, <5>1 DEF Taken
      <4>5. target' = Append(target, x)
        BY <3>2 DEF Runs
      <4> HIDE DEF x
      <4> QED BY <4>3, <4>4, <4>5, CleanAppend DEF Clean, Types
    <3> QED BY <1>5, <3>1, <3>2, ShellCases DEF Refuses
  <2> QED BY <2>1, <2>2, <2>3 DEF Clean
<1>6. CASE \/ \E c \in Callers : Call(c) \/ Leave(c)
          \/ Accept \/ ReadFails \/ Exit \/ TakeAnswer \/ DropLateAnswer \/ LoseAnswer
  <2>1. UNCHANGED <<size, up, target, cut>> /\ (pc' = "send" => UNCHANGED <<pc, cur, buf>>)
    BY <1>6 DEF Call, Leave, Accept, ReadFails, Exit, TakeAnswer, DropLateAnswer, LoseAnswer, Continue
  <2> QED BY <2>1 DEF Clean
<1>7. CASE UNCHANGED vars
  BY <1>7 DEF vars, Clean
<1> QED BY <1>1, <1>2, <1>3, <1>4, <1>5, <1>6, <1>7 DEF Next, Forwarder

\* Nothing is on its way at first.
LEMMA InitClean == Init => Clean
BY DEF Init, Clean, CleanSeq

-----------------------------------------------------------------------------
(* Queue *)

\* Nobody waits at first.
LEMMA InitQueue == Init => Queue
BY ForwardAssumption DEF Init, Queue

\* Every step keeps the queue and the caller that is served.
LEMMA QueueStep == Types /\ Queue /\ [Next]_vars => Queue'
<1> SUFFICES ASSUME Types, Queue, [Next]_vars PROVE Queue'
  OBVIOUS
<1>1. ASSUME NEW c \in Callers, Call(c) PROVE Queue'
  <2>1. caller[c] = "out" /\ caller' = [caller EXCEPT ![c] = "queued"]
        /\ backlog' = Append(backlog, c) /\ cur' = cur
    BY <1>1 DEF Call
  <2>2. \A i \in DOMAIN backlog' : backlog'[i] = IF i = Len(backlog) + 1 THEN c ELSE backlog[i]
    BY <2>1 DEF Types
  <2>3. \A i \in DOMAIN backlog' : i = Len(backlog) + 1 \/ i \in DOMAIN backlog
    BY <2>1 DEF Types
  <2>4. \A i \in DOMAIN backlog : backlog[i] \in Callers /\ backlog[i] # c
    BY <2>1 DEF Queue, Types
  <2>5. \A d \in Callers : caller'[d] = "served" <=> d = cur'
    BY <2>1 DEF Queue, Types
  <2>6. \A i \in DOMAIN backlog' : caller'[backlog'[i]] = "queued"
    BY <2>1, <2>2, <2>3, <2>4 DEF Queue, Types
  <2>7. \A i, j \in DOMAIN backlog' : backlog'[i] = backlog'[j] => i = j
    BY <2>2, <2>3, <2>4 DEF Queue
  <2> QED BY <2>5, <2>6, <2>7 DEF Queue
<1>2. CASE Accept
  <2>1. backlog # <<>> /\ backlog' = Tail(backlog) /\ cur' = Head(backlog) /\ cur = None
        /\ caller' = [caller EXCEPT ![Head(backlog)] = "served"]
    BY <1>2 DEF Accept, Types, Serving
  <2>2. Head(backlog) = backlog[1] /\ 1 \in DOMAIN backlog /\ backlog[1] \in Callers
    BY <2>1 DEF Types
  <2>3. \A i \in DOMAIN backlog' : i + 1 \in DOMAIN backlog /\ backlog'[i] = backlog[i + 1]
                                   /\ i # 0 /\ i \in Int /\ backlog[i + 1] \in Callers
    BY <2>1 DEF Types
  <2>4. \A i \in DOMAIN backlog' : backlog'[i] # backlog[1]
    <3> SUFFICES ASSUME NEW i \in DOMAIN backlog', backlog[i + 1] = backlog[1] PROVE FALSE
      BY <2>3
    <3>1. i + 1 = 1
      BY <2>2, <2>3 DEF Queue
    <3> QED BY <2>3, <3>1
  <2>5. \A d \in Callers : caller'[d] = "served" <=> d = cur'
    BY <2>1, <2>2, ForwardAssumption DEF Queue, Types
  <2>6. \A i \in DOMAIN backlog' : caller'[backlog'[i]] = "queued"
    BY <2>1, <2>2, <2>3, <2>4 DEF Queue, Types
  <2>7. \A i, j \in DOMAIN backlog' : backlog'[i] = backlog'[j] => i = j
    <3> SUFFICES ASSUME NEW i \in DOMAIN backlog', NEW j \in DOMAIN backlog',
                        backlog[i + 1] = backlog[j + 1]
                 PROVE  i = j
      BY <2>3
    <3>1. i + 1 = j + 1
      BY <2>3 DEF Queue
    <3> QED BY <2>3, <3>1
  <2> QED BY <2>5, <2>6, <2>7 DEF Queue
<1>3. CASE ReadFails \/ ConnectionLost \/ TakeAnswer
  <2>1. backlog' = backlog /\ cur' = None /\ cur \in Callers
        /\ caller' = [caller EXCEPT ![cur] = "closed"]
    BY <1>3 DEF ReadFails, ConnectionLost, TakeAnswer, Continue, Types, Serving
  <2>2. \A i \in DOMAIN backlog : backlog[i] \in Callers /\ backlog[i] # cur
    BY <2>1 DEF Queue, Types
  <2> QED BY <2>1, <2>2, ForwardAssumption DEF Queue, Types
<1>4. CASE Exit
  BY <1>4, ForwardAssumption DEF Exit, Queue, Types
<1>5. CASE \/ \E c \in Callers : Leave(c)
          \/ ReadSome \/ Send \/ ShellRuns \/ DropLateAnswer \/ LoseRequest \/ LoseChunks \/ LoseAnswer
          \/ UNCHANGED vars
  <2>1. UNCHANGED <<caller, backlog, cur>>
    BY <1>5 DEF Leave, ReadSome, Send, ShellRuns, DropLateAnswer, LoseRequest, LoseChunks, LoseAnswer, vars
  <2> QED BY <2>1 DEF Queue
<1> QED BY <1>1, <1>2, <1>3, <1>4, <1>5 DEF Next, Forwarder

-----------------------------------------------------------------------------
(* Once *)

\* A caller that has sent its request is never one that has yet to send it.
LEMMA SentStays ==
  ASSUME Types, Queue, [Next]_vars
  PROVE  Sent \subseteq Sent'
<1>1. CASE \E d \in Callers : Call(d)
  BY <1>1 DEF Call, Sent, Types
<1>2. CASE Accept
  <2>1. cur = None /\ Head(backlog) \in Callers /\ caller[Head(backlog)] = "queued"
    BY <1>2 DEF Accept, Types, Serving, Queue
  <2> QED BY <1>2, <2>1, ForwardAssumption DEF Accept, Sent, Types
<1>3. CASE ReadFails \/ ConnectionLost \/ TakeAnswer
  BY <1>3 DEF ReadFails, ConnectionLost, TakeAnswer, Continue, Sent, Types
<1>4. CASE Exit
  BY <1>4 DEF Exit, Sent, Types
<1>5. CASE \/ \E d \in Callers : Leave(d)
          \/ ReadSome \/ Send \/ ShellRuns \/ DropLateAnswer \/ LoseRequest \/ LoseChunks \/ LoseAnswer
          \/ UNCHANGED vars
  BY <1>5 DEF Leave, ReadSome, Send, ShellRuns, DropLateAnswer, LoseRequest, LoseChunks, LoseAnswer, vars, Sent
<1> QED BY <1>1, <1>2, <1>3, <1>4, <1>5 DEF Next, Forwarder

\* The requests on their way and those that arrived are different callers', of
\* whom each has sent.
LEMMA InitOnce == Init => Once
BY DEF Init, Once

\* Every step keeps a caller's requests to one.
LEMMA OnceStep == Types /\ Queue /\ Once /\ [Next]_vars => Once'
<1> SUFFICES ASSUME Types, Queue, Once, [Next]_vars PROVE Once'
  OBVIOUS
<1>0. Sent \subseteq Sent'
  BY SentStays
<1>o. (\A i \in DOMAIN up : up[i].of \in Callers) /\ (\A i \in DOMAIN target : target[i].of \in Callers)
  <2>1. (\A i \in DOMAIN up : up[i] \in Request) /\ (\A i \in DOMAIN target : target[i] \in Taken)
    BY DEF Types
  <2> QED BY <2>1 DEF Request, Taken
<1>1. CASE Send
  <2>1. /\ pc = "send" /\ pc' = "wait" /\ cur \in Callers /\ UNCHANGED <<cur, target>>
        /\ up' = Append(up, [id |-> NewId, of |-> cur, data |-> buf])
    BY <1>1 DEF Send, Types, Serving
  <2>2. cur \notin Sent
    BY <2>1 DEF Sent, Queue
  <2>3. \A i \in DOMAIN up' : up'[i].of = IF i = Len(up) + 1 THEN cur ELSE up[i].of
    BY <2>1 DEF Types
  <2>4. \A i \in DOMAIN up' : i = Len(up) + 1 \/ i \in DOMAIN up
    BY <2>1 DEF Types
  <2>5. \A i \in DOMAIN up : up[i].of # cur
    BY <2>2 DEF Once
  <2>6. \A i \in DOMAIN target : target[i].of # cur
    BY <2>2 DEF Once
  <2>7. cur \in Sent'
    BY <2>1 DEF Sent
  <2>8. \A i \in DOMAIN up' : up'[i].of \in Sent'
    <3> SUFFICES ASSUME NEW i \in DOMAIN up' PROVE up'[i].of \in Sent'
      OBVIOUS
    <3>1. CASE i = Len(up) + 1
      <4>1. up'[i].of = cur'
        BY <2>1, <2>3, <3>1
      <4> QED BY <2>1, <4>1 DEF Sent
    <3>2. CASE i \in DOMAIN up /\ i # Len(up) + 1
      <4>1. up'[i].of = up[i].of /\ up[i].of \in Sent
        BY <2>3, <3>2 DEF Once
      <4> QED BY <1>0, <1>o, <3>2, <4>1
    <3> QED BY <2>4, <3>1, <3>2
  <2>9. \A i \in DOMAIN target' : target'[i].of \in Sent'
    BY <1>0, <1>o, <2>1 DEF Once
  <2> QED BY <2>1, <2>3, <2>4, <2>5, <2>6, <2>8, <2>9 DEF Once
<1>2. CASE ConnectionLost
  <2>1. target' = target /\ up' \in {up, WithoutOwn}
    BY <1>2 DEF ConnectionLost
  <2>2. \A i \in DOMAIN up' : i \in DOMAIN up /\ up'[i] = up[i]
    <3>1. up' = up \/ (up # <<>> /\ up' = Front(up))
      BY <2>1 DEF WithoutOwn
    <3>2. ASSUME up # <<>> PROVE \A i \in DOMAIN Front(up) : i \in DOMAIN up /\ Front(up)[i] = up[i]
      BY <3>2 DEF Front, Types
    <3> QED BY <3>1, <3>2
  <2> QED BY <1>0, <1>o, <2>1, <2>2 DEF Once
<1>3. CASE LoseRequest
  <2>0. PICK r \in DOMAIN up : target' = target /\ up' = RemoveAt(up, r)
    BY <1>3 DEF LoseRequest
  <2> DEFINE Was(i) == IF i < r THEN i ELSE i + 1
  <2>1. target' = target
    BY <2>0
  <2>2. \A i \in DOMAIN up' : i \in Int /\ Was(i) \in DOMAIN up /\ up'[i] = up[Was(i)]
    BY <2>0, RemoveAtShape DEF Types
  <2>3. \A i, j \in DOMAIN up' : up'[i].of = up'[j].of => i = j
    <3> SUFFICES ASSUME NEW i \in DOMAIN up', NEW j \in DOMAIN up', up'[i].of = up'[j].of PROVE i = j
      OBVIOUS
    <3>1. Was(i) = Was(j)
      BY <2>2 DEF Once
    <3>2. i \in Int /\ j \in Int /\ r \in Int
      BY <2>2 DEF Types
    <3> QED BY <3>1, <3>2
  <2>4. \A i \in DOMAIN up' : up'[i].of \in Sent'
    BY <1>0, <1>o, <2>2 DEF Once
  <2>5. \A i \in DOMAIN target' : target'[i].of \in Sent'
    BY <1>0, <1>o, <2>1 DEF Once
  <2> QED BY <2>1, <2>2, <2>3, <2>4, <2>5 DEF Once
<1>4. CASE ShellRuns
  <2>1. up # <<>> /\ up' = Tail(up) /\ UNCHANGED <<caller, cur, pc>>
    BY <1>4 DEF ShellRuns
  <2>2. \A i \in DOMAIN up' : i \in Int /\ i # 0 /\ i + 1 \in DOMAIN up /\ up'[i] = up[i + 1]
    BY <2>1 DEF Types
  <2>3. Head(up) = up[1] /\ 1 \in DOMAIN up
    BY <2>1 DEF Types
  <2>4. \A i, j \in DOMAIN up' : up'[i].of = up'[j].of => i = j
    <3> SUFFICES ASSUME NEW i \in DOMAIN up', NEW j \in DOMAIN up', up'[i].of = up'[j].of PROVE i = j
      OBVIOUS
    <3>1. i + 1 = j + 1
      BY <2>2 DEF Once
    <3> QED BY <2>2, <3>1
  <2>5. \A i \in DOMAIN up' : up'[i].of # up[1].of
    <3> SUFFICES ASSUME NEW i \in DOMAIN up', up[i + 1].of = up[1].of PROVE FALSE
      BY <2>2
    <3>1. i + 1 = 1
      BY <2>2, <2>3 DEF Once
    <3> QED BY <2>2, <3>1
  <2>6. \A i \in DOMAIN up' : up'[i].of \in Sent'
    BY <1>0, <1>o, <2>2 DEF Once
  <2>7. CASE target' = target
    BY <1>0, <1>o, <2>2, <2>4, <2>6, <2>7 DEF Once
  <2>8. CASE target' # target
    <3>1. PICK r : target' = Append(target, r) /\ r.of = up[1].of
      <4>1. \E n \in 0..Len(Head(up).data), ok \in BOOLEAN : Runs(Head(up), n, ok)
        BY <1>4, <2>8, ShellCases DEF Refuses
      <4> QED BY <2>3, <4>1 DEF Runs
    <3>2. \A i \in DOMAIN target' :
            target'[i].of = IF i = Len(target) + 1 THEN up[1].of ELSE target[i].of
      BY <3>1 DEF Types
    <3>3. \A i \in DOMAIN target' : i = Len(target) + 1 \/ i \in DOMAIN target
      BY <3>1 DEF Types
    <3>4. \A j \in DOMAIN target : target[j].of # up[1].of
      <4>1. \A i \in DOMAIN up, j \in DOMAIN target : up[i].of # target[j].of
        BY DEF Once
      <4> QED BY <2>3, <4>1
    <3>5. \A i \in DOMAIN target' : target'[i].of \in Sent'
      <4>1. up[1].of \in Sent /\ \A i \in DOMAIN target : target[i].of \in Sent
        BY <2>3 DEF Once
      <4> QED BY <1>0, <3>2, <3>3, <4>1
    <3>6. \A i, j \in DOMAIN target' : target'[i].of = target'[j].of => i = j
      BY <3>2, <3>3, <3>4 DEF Once
    <3>7. \A i \in DOMAIN up', j \in DOMAIN target' : up'[i].of # target'[j].of
      BY <2>2, <2>5, <3>2, <3>3 DEF Once
    <3> QED BY <2>4, <2>6, <3>5, <3>6, <3>7 DEF Once
  <2> QED BY <2>7, <2>8
<1>5. CASE LoseChunks
  <2>1. target' = target
    BY <1>5 DEF LoseChunks
  <2>2. PICK r \in DOMAIN up :
          /\ DOMAIN up' = DOMAIN up
          /\ \A k \in DOMAIN up : /\ k # r => up'[k] = up[k]
                                  /\ up'[k].id = up[k].id /\ up'[k].of = up[k].of
    BY <1>5, HoleIn
  <2>3. DOMAIN up' = DOMAIN up /\ \A k \in DOMAIN up : up'[k].of = up[k].of
    BY <2>2
  <2> QED BY <1>0, <1>o, <2>1, <2>3 DEF Once
<1>6. CASE \/ \E c \in Callers : Call(c) \/ Leave(c)
          \/ Accept \/ ReadSome \/ ReadFails \/ Exit \/ TakeAnswer \/ DropLateAnswer \/ LoseAnswer
          \/ UNCHANGED vars
  <2>1. UNCHANGED <<up, target>>
    BY <1>6 DEF Call, Leave, Accept, ReadSome, ReadFails, Exit, TakeAnswer, DropLateAnswer,
                LoseAnswer, vars
  <2> QED BY <1>0, <1>o, <2>1 DEF Once
<1> QED BY <1>1, <1>2, <1>3, <1>4, <1>5, <1>6 DEF Next, Forwarder

-----------------------------------------------------------------------------
(* Tied *)

\* A number that is some caller's stays this caller's.
LEMMA OwnedStays == Types /\ [Next]_vars => Owned \subseteq Owned'
<1> SUFFICES ASSUME Types, [Next]_vars PROVE Owned \subseteq Owned'
  OBVIOUS
<1>1. CASE Send
  <2>1. id' = id + 1 /\ id \in Nat
    BY <1>1 DEF Send, NewId, Types
  <2>2. \A p \in Nat \X Callers : p[1] <= id => p[1] <= id' /\ p[1] # id'
    BY <2>1
  <2> QED BY <2>2 DEF Owned
<1>2. CASE ~Send
  <2>1. id' = id /\ (pc' = "wait" => pc = "wait" /\ cur' = cur)
    BY <1>2 DEF Next, Forwarder, Call, Leave, Accept, ReadSome, ReadFails, Exit, ConnectionLost,
                TakeAnswer, Continue, ShellRuns, DropLateAnswer, LoseRequest, LoseChunks, LoseAnswer, vars
  <2> QED BY <2>1 DEF Owned
<1> QED BY <1>1, <1>2

\* What a target took it keeps.
LEMMA TookStays == Types /\ [Next]_vars => Took \subseteq Took'
<1> SUFFICES ASSUME Types, [Next]_vars PROVE Took \subseteq Took'
  OBVIOUS
<1>1. /\ cut \subseteq cut'
      /\ \/ target' = target
         \/ \E r : target' = Append(target, r)
  <2>1. CASE LoseChunks
    BY <2>1 DEF LoseChunks
  <2>2. CASE ShellRuns
    BY <2>2, ShellCases DEF ShellRuns, Runs, Refuses
  <2>3. CASE ~LoseChunks /\ ~ShellRuns
    BY <2>3 DEF Next, Forwarder, Call, Leave, Accept, ReadSome, ReadFails, Send, Exit, ConnectionLost,
                TakeAnswer, Continue, DropLateAnswer, LoseRequest, LoseAnswer, vars
  <2> QED BY <2>1, <2>2, <2>3
<1>2. \A j \in DOMAIN target : j \in DOMAIN target' /\ target'[j] = target[j]
  <2>1. ASSUME NEW r, target' = Append(target, r)
        PROVE  \A j \in DOMAIN target : j \in DOMAIN target' /\ target'[j] = target[j]
    BY <2>1 DEF Types
  <2> QED BY <1>1, <2>1
<1> QED BY <1>1, <1>2 DEF Took

\* A caller that is closed stays closed.
LEMMA ClosedStays ==
  Types /\ Queue /\ [Next]_vars => \A c \in Callers : caller[c] = "closed" => caller'[c] = "closed"
<1> SUFFICES ASSUME Types, Queue, [Next]_vars, NEW c \in Callers, caller[c] = "closed"
             PROVE  caller'[c] = "closed"
  OBVIOUS
<1>1. CASE \E d \in Callers : Call(d)
  BY <1>1 DEF Call, Types
<1>2. CASE Accept
  <2>1. Head(backlog) \in Callers /\ caller[Head(backlog)] = "queued"
    BY <1>2 DEF Accept, Types, Queue
  <2> QED BY <1>2, <2>1 DEF Accept, Types
<1>3. CASE ReadFails \/ ConnectionLost \/ TakeAnswer
  BY <1>3 DEF ReadFails, ConnectionLost, TakeAnswer, Continue, Types
<1>4. CASE Exit
  BY <1>4 DEF Exit, Types
<1>5. CASE \/ \E d \in Callers : Leave(d)
          \/ ReadSome \/ Send \/ ShellRuns \/ DropLateAnswer \/ LoseRequest \/ LoseChunks \/ LoseAnswer
          \/ UNCHANGED vars
  BY <1>5 DEF Leave, ReadSome, Send, ShellRuns, DropLateAnswer, LoseRequest, LoseChunks, LoseAnswer, vars
<1> QED BY <1>1, <1>2, <1>3, <1>4, <1>5 DEF Next, Forwarder

\* No request, no answer and nothing written at first.
LEMMA InitTied == Init => Tied
BY DEF Init, Tied, TiedGot

\* Every step but TakeAnswer keeps what the callers were written.
LEMMA GotStays ==
  ASSUME Types, Queue, Tied, [Next]_vars, got' = got, NEW c \in Callers
  PROVE  TiedGot(c)'
BY TookStays, ClosedStays DEF Tied, TiedGot

\* Every step keeps an answer tied to the caller its request was sent for.
LEMMA TiedStep == Types /\ Queue /\ Tied /\ [Next]_vars => Tied'
<1> SUFFICES ASSUME Types, Queue, Tied, [Next]_vars PROVE Tied'
  OBVIOUS
<1>o. Owned \subseteq Owned'
  BY OwnedStays
<1>t. Took \subseteq Took'
  BY TookStays
<1>g. got' = got => \A c \in Callers : TiedGot(c)'
  BY GotStays
<1> DEFINE Whole(r, cuts) == Len(r.data) = BufSize \/ r.id \in cuts
<1>u. \A i \in DOMAIN up : <<up[i].id, up[i].of>> \in Owned /\ Whole(up[i], cut)
  BY DEF Tied
<1>c. cut \subseteq cut'
  BY DEF Next, Forwarder, Call, Leave, Accept, ReadSome, ReadFails, Send, Exit, ConnectionLost, TakeAnswer,
         ShellRuns, DropLateAnswer, LoseRequest, LoseChunks, LoseAnswer, vars
<1>d. \A a \in down : <<a.id, a.of>> \in Owned /\ (a.ok => a.id \in Took)
  BY DEF Tied
<1>1. CASE Send
  <2>1. /\ pc' = "wait" /\ cur \in Callers /\ id' = id + 1 /\ id' \in Nat
        /\ UNCHANGED <<cur, down, got>>
        /\ up' = Append(up, [id |-> id', of |-> cur, data |-> buf])
    BY <1>1 DEF Send, NewId, Types, Serving
  <2> DEFINE r == [id |-> id', of |-> cur, data |-> buf]
  <2>2. <<id', cur>> \in Owned'
    BY <2>1 DEF Owned
  <2>3. r.id = id' /\ r.of = cur /\ Whole(r, cut')
    BY ForwardAssumption DEF Types
  <2> HIDE DEF r
  <2>4. up \in Seq(Request) /\ up' = Append(up, r)
    BY <2>1 DEF Types, r
  <2>5. \A i \in DOMAIN up' : up'[i] = r \/ (i \in DOMAIN up /\ up'[i] = up[i])
    BY <2>4
  <2>6. \A i \in DOMAIN up' : <<up'[i].id, up'[i].of>> \in Owned' /\ Whole(up'[i], cut')
    BY <1>o, <1>u, <1>c, <2>2, <2>3, <2>5
  <2> QED BY <1>o, <1>t, <1>g, <1>d, <2>1, <2>6 DEF Tied
<1>2. CASE ConnectionLost \/ LoseRequest
  <2>1. UNCHANGED <<down, got, cut>>
    BY <1>2 DEF ConnectionLost, LoseRequest
  <2>2. \A i \in DOMAIN up' : \E k \in DOMAIN up : up'[i] = up[k]
    BY <1>2, UpLess
  <2>3. \A i \in DOMAIN up' : <<up'[i].id, up'[i].of>> \in Owned' /\ Whole(up'[i], cut')
    BY <1>o, <1>u, <2>1, <2>2
  <2> QED BY <1>o, <1>t, <1>g, <1>d, <2>1, <2>3 DEF Tied
<1>3. CASE LoseChunks
  <2>1. UNCHANGED <<down, got>>
    BY <1>3 DEF LoseChunks
  <2>2. PICK r \in DOMAIN up :
          /\ cut' = cut \cup {up[r].id} /\ DOMAIN up' = DOMAIN up
          /\ \A k \in DOMAIN up : /\ k # r => up'[k] = up[k]
                                  /\ up'[k].id = up[k].id /\ up'[k].of = up[k].of
    BY <1>3, HoleIn
  <2>3. ASSUME NEW i \in DOMAIN up' PROVE <<up'[i].id, up'[i].of>> \in Owned' /\ Whole(up'[i], cut')
    <3>1. i \in DOMAIN up /\ up'[i].id = up[i].id /\ up'[i].of = up[i].of
      BY <2>2
    <3>2. CASE i # r
      BY <1>o, <1>u, <2>2, <3>1, <3>2
    <3>3. CASE i = r
      BY <1>o, <1>u, <2>2, <3>1, <3>3
    <3> QED BY <3>2, <3>3
  <2> QED BY <1>o, <1>t, <1>g, <1>d, <2>1, <2>3 DEF Tied
<1>4. CASE ShellRuns
  <2> DEFINE r == Head(up)
  <2>1. up # <<>> /\ up' = Tail(up) /\ got' = got /\ cut' = cut
    BY <1>4 DEF ShellRuns
  <2>2. \A i \in DOMAIN up' : \E k \in DOMAIN up : up'[i] = up[k]
    BY <1>4, UpLess
  <2>3. <<r.id, r.of>> \in Owned /\ Whole(r, cut) /\ r \in Request
    BY <1>u, <2>1 DEF Types
  <2> HIDE DEF r
  <2>4. CASE UNCHANGED <<down, target>>
    BY <1>o, <1>t, <1>d, <1>g, <1>u, <2>1, <2>2, <2>4 DEF Tied
  <2>5. ASSUME NEW n \in 0..Len(r.data), NEW ok \in BOOLEAN, Runs(r, n, ok)
        PROVE  \A a \in down' : <<a.id, a.of>> \in Owned' /\ (a.ok => a.id \in Took')
    <3>1. ASSUME ok PROVE r.id \in Took'
      <4>1. r.data \in Seq(Byte) /\ r.id \in Nat /\ n = Len(r.data)
        BY <2>3, <2>5, <3>1 DEF Request, Runs
      <4>2. Len(SubSeq(r.data, 1, n)) = Len(r.data) /\ Len(r.data) - n = 0
        BY <4>1, SubSeqProperties
      <4> DEFINE x == [id |-> r.id, of |-> r.of, data |-> SubSeq(r.data, 1, n), left |-> Len(r.data) - n]
      <4>3. target' = Append(target, x)
        BY <2>5 DEF Runs
      <4>4. x.id = r.id /\ x.left = 0 /\ (Len(x.data) = BufSize \/ x.id \in cut')
        BY <2>1, <2>3, <4>2
      <4> HIDE DEF x
      <4>5. Len(target) + 1 \in DOMAIN target' /\ target'[Len(target) + 1] = x
        BY <4>3 DEF Types
      <4> QED BY <4>1, <4>4, <4>5 DEF Took
    <3>2. ASSUME NEW a \in down', a \notin down
          PROVE  <<a.id, a.of>> \in Owned' /\ (a.ok => a.id \in Took')
      <4>1. a.id = r.id /\ a.of = r.of /\ a.ok = ok
        BY <2>5, <3>2 DEF Runs
      <4> QED BY <1>o, <2>3, <3>1, <4>1
    <3> QED BY <1>o, <1>t, <1>d, <3>2
  <2>6. ASSUME Refuses(r) PROVE \A a \in down' : <<a.id, a.of>> \in Owned' /\ (a.ok => a.id \in Took')
    <3>1. ASSUME NEW a \in down', a \notin down PROVE a.id = r.id /\ a.of = r.of /\ ~a.ok
      BY <2>6, <3>1 DEF Refuses
    <3> QED BY <1>o, <1>t, <1>d, <2>3, <3>1
  <2>7. \A i \in DOMAIN up' : <<up'[i].id, up'[i].of>> \in Owned' /\ Whole(up'[i], cut')
    BY <1>o, <1>u, <2>1, <2>2
  <2>8. CASE \A a \in down' : <<a.id, a.of>> \in Owned' /\ (a.ok => a.id \in Took')
    BY <1>g, <2>1, <2>7, <2>8 DEF Tied
  <2> QED BY <1>4, <2>4, <2>5, <2>6, <2>8, ShellCases DEF r
<1>5. CASE TakeAnswer
  <2>1. PICK a \in down :
          /\ a.id = id /\ pc = "wait" /\ UNCHANGED <<up, cut>> /\ down' = down \ {a}
          /\ caller' = [caller EXCEPT ![cur] = "closed"]
          /\ got' = IF a.ok /\ cur \notin gone THEN [got EXCEPT ![cur] = Append(@, a)] ELSE got
    BY <1>5 DEF TakeAnswer, Continue
  <2>2. a \in Answer /\ a.of = cur /\ cur \in Callers
    BY <1>d, <2>1 DEF Owned, Types, Serving
  <2>3. caller[cur] = "served"
    BY <2>2 DEF Queue
  <2>4. got[cur] = <<>>
    BY <2>2, <2>3 DEF Tied, TiedGot
  <2>5. ASSUME NEW c \in Callers PROVE TiedGot(c)'
    <3>1. CASE got'[c] = got[c]
      BY <3>1, TookStays, ClosedStays DEF Tied, TiedGot
    <3>2. CASE got'[c] # got[c]
      <4>1. c = cur /\ a.ok /\ got'[c] = Append(<<>>, a)
        BY <2>1, <2>2, <2>4, <3>2 DEF Types
      <4>2. got'[c] = <<a>> /\ caller'[c] = "closed"
        BY <2>1, <2>2, <4>1 DEF Types
      <4>3. a.id \in Took'
        BY <1>d, <1>t, <4>1
      <4> QED BY <2>2, <4>1, <4>2, <4>3 DEF TiedGot
    <3> QED BY <3>1, <3>2
  <2> QED BY <1>o, <1>t, <1>u, <1>d, <2>1, <2>5 DEF Tied
<1>6. CASE \/ \E c \in Callers : Call(c) \/ Leave(c)
          \/ Accept \/ ReadSome \/ ReadFails \/ Exit \/ DropLateAnswer \/ LoseAnswer
          \/ UNCHANGED vars
  <2>1. UNCHANGED <<up, got, cut>> /\ down' \subseteq down
    BY <1>6 DEF Call, Leave, Accept, ReadSome, ReadFails, Exit, DropLateAnswer, LoseAnswer,
                Continue, vars
  <2> QED BY <1>o, <1>t, <1>g, <1>u, <1>d, <2>1 DEF Tied
<1> QED BY <1>1, <1>2, <1>3, <1>4, <1>5, <1>6 DEF Next, Forwarder

-----------------------------------------------------------------------------
(* Theorems *)

\* Inv is inductive.
LEMMA Inductive == (Init => Inv) /\ (Inv /\ [Next]_vars => Inv')
BY InitTypes, NextTypes, InitNumbers, NumbersStep, InitClean, CleanStep, InitQueue, QueueStep, InitOnce, OnceStep,
   InitTied, TiedStep DEF Inv

\* The invariant holds in every state that forward-tcp can be in.
THEOREM Invariance == Spec => []Inv
BY Inductive, PTL DEF Spec

\* A target receives bytes of one caller only, whichever callers were served
\* before and whatever failed (forward_tcp.rs:23): the first of them and zeros
\* behind, or what holes in the request leave of these, in their order.
THEOREM BytesApart == Spec => []TargetGetsOneCallersBytes
<1>1. Inv => TargetGetsOneCallersBytes
  BY DEF Inv, Clean, CleanSeq, IsOneCallers, TargetGetsOneCallersBytes
<1> QED BY Invariance, <1>1, PTL

\* The bytes of a caller reach a target once at most: whatever is lost, the loop
\* does not send them again (forward_tcp.rs:47).
THEOREM NothingTwice == Spec => []ForwardedOnce
<1>1. Inv => ForwardedOnce
  BY DEF Inv, Once, ForwardedOnce
<1> QED BY Invariance, <1>1, PTL

\* A caller is written its own answer and no other, once at most, and only when
\* a target took all that the shell had of its request, which is the whole buffer
\* unless chunks of the request were lost (forward_tcp.rs:54, tcp.rs:53).
THEOREM OwnAnswer == Spec => []AnswerIsTheCallers
<1>1. Inv => AnswerIsTheCallers
  BY DEF Inv, Tied, TiedGot, Took, AnswerIsTheCallers
<1> QED BY Invariance, <1>1, PTL

\* What no other part of Inv is about.
Rest == gone \subseteq Callers /\ stdinAlive \in BOOLEAN

LEMMA RestStep == Types /\ Rest /\ [Next]_vars => Rest'
<1> SUFFICES ASSUME Types, Rest, [Next]_vars PROVE Rest'
  OBVIOUS
<1> USE DEF Rest
<1>1. CASE \E c \in Callers : Call(c) \/ Leave(c)
  BY <1>1 DEF Call, Leave
<1>2. CASE Forwarder
  BY <1>2 DEF Forwarder, Accept, ReadSome, ReadFails, Send, Exit, ConnectionLost, TakeAnswer,
              Continue
<1>3. CASE ShellRuns
  <2>1. gone' = gone /\ (stdinAlive' = FALSE \/ stdinAlive' = stdinAlive)
    BY <1>3 DEF ShellRuns
  <2> QED BY <2>1
<1>4. CASE DropLateAnswer \/ LoseRequest \/ LoseChunks \/ LoseAnswer
  BY <1>4 DEF DropLateAnswer, LoseRequest, LoseChunks, LoseAnswer
<1>5. CASE UNCHANGED vars
  BY <1>5 DEF vars
<1> QED BY <1>1, <1>2, <1>3, <1>4, <1>5 DEF Next

\* The loop serves a caller exactly while it reads, sends or waits, its buffer
\* keeps the size of BUF_SIZE, and no answer has a number that was not given yet
\* (forward_tcp.rs:18-58).
THEOREM TypeCorrect == Spec => []TypeOK
<1>1. Init => Rest
  BY DEF Init, Rest
<1>2. Spec => []Rest
  <2>1. Inv => Types
    BY DEF Inv
  <2> QED BY <1>1, <2>1, Invariance, RestStep, PTL DEF Spec
<1>3. Inv /\ Rest => TypeOK
  <2> SUFFICES ASSUME Inv, Rest PROVE TypeOK
    OBVIOUS
  <2>1. Types /\ Numbers /\ Queue /\ Tied
    BY DEF Inv
  <2>2. (cur = None) <=> (pc \in {"accept", "exited"})
    BY <2>1 DEF Types, Serving
  <2>3. DOMAIN buf = 1..BufSize
    BY <2>1 DEF Types
  <2>4. \A a \in down : a.id <= id
    BY <2>1 DEF Tied, Owned
  <2>5. \A c \in Callers : (caller[c] = "served") <=> (c = cur)
    BY <2>1 DEF Queue
  <2>6. pc \in {"accept", "read", "send", "wait", "exited"}
    BY <2>1 DEF Types
  <2>7. cut \subseteq 0..id
    BY <2>1 DEF Numbers
  <2> QED BY <2>2, <2>3, <2>4, <2>5, <2>6, <2>7 DEF TypeOK, Rest
<1> QED BY Invariance, <1>2, <1>3, PTL

==============================================================================
