----------------------- MODULE ShellSessionOrder_proofs -----------------------
(***************************************************************************)
(* Proofs about what ShellSession puts in order, for every value of its    *)
(* constants: the server's input, the sizes of the terminal, the chunks of *)
(* answers, and the outputs on one connection.                             *)
(***************************************************************************)
EXTENDS ShellSession_proofs

-----------------------------------------------------------------------------
(* Input *)

LastPending == Pending[Len(Pending)]

\* What waits is in order, of connections there have been, and ends with the
\* last message that the server sent on the present one, if any.
InputInv ==
  /\ InputInOrder
  /\ \A i \in 1..Len(Pending) : Pending[i].conn <= conn
  /\ mainPc # "connect" =>
       \/ LastPending.conn = conn /\ LastPending.n = sentIn
       \/ LastPending.conn < conn /\ sentIn = 0

\* Concatenation, by the place in each part.
LEMMA ConcatAt ==
  ASSUME NEW S, NEW s \in Seq(S), NEW t \in Seq(S)
  PROVE  /\ s \o t \in Seq(S)
         /\ Len(s \o t) = Len(s) + Len(t)
         /\ \A i \in 1..Len(s) : (s \o t)[i] = s[i]
         /\ \A i \in 1..Len(t) : (s \o t)[Len(s) + i] = t[i]
BY ConcatProperties

\* What is pending, message by message.
LEMMA PendingAt ==
  ASSUME NEW l \in Stamp, NEW c \in Seq(Stamp), NEW b \in Seq(Stamp)
  PROVE  LET p == <<l>> \o c \o b IN
         /\ p \in Seq(Stamp)
         /\ Len(p) = 1 + Len(c) + Len(b)
         /\ p[1] = l
         /\ \A i \in 2..(1 + Len(c)) : p[i] = c[i - 1]
         /\ \A i \in (2 + Len(c))..(1 + Len(c) + Len(b)) : p[i] = b[(i - 1) - Len(c)]
<1> DEFINE q == <<l>> \o c
<1>1. <<l>> \in Seq(Stamp) /\ Len(<<l>>) = 1 /\ <<l>>[1] = l /\ Len(c) \in Nat /\ Len(b) \in Nat
  OBVIOUS
<1>2. /\ q \in Seq(Stamp) /\ Len(q) = 1 + Len(c) /\ q[1] = l
      /\ \A i \in 1..Len(c) : q[1 + i] = c[i]
  BY <1>1, ConcatAt
<1> HIDE DEF q
<1>q. \A x \in Seq(Stamp) :
        /\ x \o b \in Seq(Stamp) /\ Len(x \o b) = Len(x) + Len(b)
        /\ \A i \in 1..Len(x) : (x \o b)[i] = x[i]
        /\ \A i \in 1..Len(b) : (x \o b)[Len(x) + i] = b[i]
  BY ConcatAt
<1>3. /\ q \o b \in Seq(Stamp) /\ Len(q \o b) = Len(q) + Len(b)
      /\ \A i \in 1..Len(q) : (q \o b)[i] = q[i]
      /\ \A i \in 1..Len(b) : (q \o b)[Len(q) + i] = b[i]
  BY <1>2, <1>q
<1>4. ASSUME NEW i \in 2..(1 + Len(c)) PROVE (q \o b)[i] = c[i - 1]
  <2>1. i - 1 \in 1..Len(c) /\ i = 1 + (i - 1) /\ i \in 1..Len(q)
    BY <1>1, <1>2
  <2> QED BY <1>2, <1>3, <2>1
<1>5. ASSUME NEW i \in (2 + Len(c))..(1 + Len(c) + Len(b)) PROVE (q \o b)[i] = b[(i - 1) - Len(c)]
  <2>1. (i - 1) - Len(c) \in 1..Len(b) /\ i = Len(q) + ((i - 1) - Len(c))
    BY <1>1, <1>2
  <2> QED BY <1>3, <2>1
<1>6. 1 \in 1..Len(q)
  BY <1>1, <1>2
<1> QED BY <1>1, <1>2, <1>3, <1>4, <1>5, <1>6 DEF q

\* A step that drops the beginning or the end of what is pending keeps its order.
LEMMA PartOfPending ==
  ASSUME InputInv, Pending \in Seq(Stamp), Pending' \in Seq(Stamp), NEW d \in Nat,
         \A i \in 1..Len(Pending') : i + d \in 1..Len(Pending) /\ Pending'[i] = Pending[i + d]
  PROVE  InputInOrder' /\ \A i \in 1..Len(Pending') : Pending'[i].conn <= conn
<1>1. Len(Pending) \in Nat /\ Len(Pending') \in Nat
  OBVIOUS
<1>2. ASSUME NEW i \in 1..(Len(Pending') - 1) PROVE Follows(Pending'[i], Pending'[i + 1])
  <2>1. i \in 1..Len(Pending') /\ i + 1 \in 1..Len(Pending')
    BY <1>1
  <2>2. i + d \in 1..(Len(Pending) - 1) /\ (i + 1) + d = (i + d) + 1
    BY <1>1, <2>1
  <2>3. Pending'[i] = Pending[i + d] /\ Pending'[i + 1] = Pending[(i + d) + 1]
    BY <2>1, <2>2
  <2> QED BY <2>2, <2>3 DEF InputInv, InputInOrder
<1>3. \A i \in 1..Len(Pending') : Pending'[i].conn <= conn
  BY DEF InputInv
<1>4. InputInOrder'
  BY <1>2 DEF InputInOrder, Follows
<1> QED BY <1>3, <1>4

\* Initially nothing is pending but the message that never was.
LEMMA InitInput == Init => InputInv
<1> SUFFICES ASSUME Init PROVE InputInv
  OBVIOUS
<1>1. lastIn \in Stamp /\ toCmd = <<>> /\ inbound = <<>> /\ lastIn.conn = 0 /\ conn = 0
  BY DEF Init, Stamp
<1>2. <<>> \in Seq(Stamp) /\ Len(<<>>) = 0
  BY EmptySeq
<1>3. Len(Pending) = 1 /\ Pending[1] = lastIn
  BY <1>1, <1>2, PendingAt DEF Pending
<1> QED BY <1>1, <1>3 DEF Init, InputInv, InputInOrder

\* Every step keeps the input in order.
LEMMA InputStep ==
  ASSUME Typed, Typed', InputInv, [Next]_vars
  PROVE  InputInv'
<1>1. /\ lastIn \in Stamp /\ toCmd \in Seq(Stamp) /\ inbound \in Seq(Stamp)
      /\ lastIn' \in Stamp /\ toCmd' \in Seq(Stamp) /\ inbound' \in Seq(Stamp)
      /\ conn \in Nat /\ sentIn \in Nat /\ Len(toCmd) \in Nat /\ Len(inbound) \in Nat
  BY DEF Typed, TypeOK
<1>2. /\ Pending \in Seq(Stamp) /\ Len(Pending) = 1 + Len(toCmd) + Len(inbound)
      /\ Pending[1] = lastIn
      /\ \A i \in 2..(1 + Len(toCmd)) : Pending[i] = toCmd[i - 1]
      /\ \A i \in (2 + Len(toCmd))..(1 + Len(toCmd) + Len(inbound)) :
           Pending[i] = inbound[(i - 1) - Len(toCmd)]
  BY <1>1, PendingAt DEF Pending
<1>3. /\ Pending' \in Seq(Stamp) /\ Len(Pending') = 1 + Len(toCmd') + Len(inbound')
      /\ Pending'[1] = lastIn'
      /\ \A i \in 2..(1 + Len(toCmd')) : Pending'[i] = toCmd'[i - 1]
      /\ \A i \in (2 + Len(toCmd'))..(1 + Len(toCmd') + Len(inbound')) :
           Pending'[i] = inbound'[(i - 1) - Len(toCmd')]
  BY <1>1, PendingAt DEF Pending
<1>4. CASE UNCHANGED <<lastIn, toCmd, inbound, conn, sentIn>> /\ (mainPc' # "connect" => mainPc # "connect")
  <2>1. Pending' = Pending
    BY <1>4 DEF Pending
  <2> QED BY <1>4, <2>1 DEF InputInv, InputInOrder, LastPending
<1>5. CASE UNCHANGED <<lastIn, toCmd>> /\ inbound' = <<>>
           /\ \/ mainPc' = "connect" /\ conn' = conn
              \/ conn' = conn + 1 /\ sentIn' = 0
  <2>1. Len(inbound') = 0 /\ Len(toCmd') = Len(toCmd)
    BY <1>5
  <2>2. ASSUME NEW i \in 1..Len(Pending') PROVE i + 0 \in 1..Len(Pending) /\ Pending'[i] = Pending[i + 0]
    <3>1. i + 0 = i /\ i \in 1..(1 + Len(toCmd)) /\ i \in 1..Len(Pending)
      BY <1>1, <1>2, <1>3, <2>1
    <3>2. CASE i = 1
      BY <1>2, <1>3, <1>5, <3>1, <3>2
    <3>3. CASE i # 1
      <4>1. i \in 2..(1 + Len(toCmd)) /\ i \in 2..(1 + Len(toCmd'))
        BY <1>1, <2>1, <3>1, <3>3
      <4> QED BY <1>2, <1>3, <1>5, <3>1, <4>1
    <3> QED BY <3>2, <3>3
  <2>3. InputInOrder' /\ \A i \in 1..Len(Pending') : Pending'[i].conn <= conn
    BY <1>2, <1>3, <2>2, PartOfPending
  <2>4. \A i \in 1..Len(Pending') : Pending'[i] \in Stamp
    BY <1>3
  <2>5. Len(Pending') \in 1..Len(Pending')
    BY <1>1, <1>3, <2>1
  <2>6. LastPending'.conn <= conn /\ LastPending'.conn \in Nat
    BY <2>3, <2>4, <2>5 DEF LastPending, Stamp
  <2>7. \A i \in 1..Len(Pending') : Pending'[i].conn <= conn'
    <3>1. ASSUME NEW i \in 1..Len(Pending') PROVE Pending'[i].conn \in Nat /\ Pending'[i].conn <= conn
      BY <2>3, <2>4 DEF Stamp
    <3> QED BY <1>1, <1>5, <3>1
  <2> QED BY <1>1, <1>5, <2>3, <2>6, <2>7 DEF InputInv
<1>6. CASE Read
  <2>1. PICK k \in 1..Len(inbound) :
          /\ toCmd' = toCmd \o SubSeq(inbound, 1, k)
          /\ inbound' = SubSeq(inbound, k + 1, Len(inbound))
    BY <1>6 DEF Read
  <2>2. /\ UNCHANGED <<lastIn, conn, sentIn>> /\ mainPc # "connect"
    BY <1>6 DEF Read, stdinVars
  <2>3. /\ Len(toCmd') = Len(toCmd) + k /\ Len(inbound') = Len(inbound) - k
        /\ \A i \in 1..Len(toCmd) : toCmd'[i] = toCmd[i]
        /\ \A i \in (Len(toCmd) + 1)..(Len(toCmd) + k) : toCmd'[i] = inbound[i - Len(toCmd)]
        /\ \A i \in 1..(Len(inbound) - k) : inbound'[i] = inbound[i + k]
    BY <1>1, <2>1
  <2>4. Len(Pending') = Len(Pending)
    BY <1>1, <1>2, <1>3, <2>3
  <2>5. ASSUME NEW i \in 1..Len(Pending') PROVE Pending'[i] = Pending[i]
    <3>1. CASE i = 1
      BY <1>2, <1>3, <2>2, <3>1
    <3>2. CASE i \in 2..(1 + Len(toCmd))
      <4>1. i - 1 \in 1..Len(toCmd) /\ i \in 2..(1 + Len(toCmd'))
        BY <1>1, <2>3, <3>2
      <4> QED BY <1>2, <1>3, <2>3, <3>2, <4>1
    <3>3. CASE i \in (2 + Len(toCmd))..(1 + Len(toCmd) + k)
      <4>1. i - 1 \in (Len(toCmd) + 1)..(Len(toCmd) + k) /\ i \in 2..(1 + Len(toCmd'))
            /\ i \in (2 + Len(toCmd))..(1 + Len(toCmd) + Len(inbound))
        BY <1>1, <2>3, <3>3
      <4> QED BY <1>2, <1>3, <2>3, <4>1
    <3>4. CASE i > 1 + Len(toCmd) + k
      <4>1. /\ i \in (2 + Len(toCmd'))..(1 + Len(toCmd') + Len(inbound'))
            /\ i \in (2 + Len(toCmd))..(1 + Len(toCmd) + Len(inbound))
            /\ (i - 1) - Len(toCmd') \in 1..(Len(inbound) - k)
            /\ ((i - 1) - Len(toCmd')) + k = (i - 1) - Len(toCmd)
        BY <1>1, <1>2, <1>3, <2>3, <3>4
      <4> QED BY <1>2, <1>3, <2>3, <4>1
    <3> QED BY <1>1, <3>1, <3>2, <3>3, <3>4
  <2>6. Pending' = Pending
    BY <1>2, <1>3, <2>4, <2>5, SeqEqual
  <2> QED BY <2>2, <2>6 DEF InputInv, InputInOrder, LastPending
<1>7. CASE TakeInput
  <2>1. /\ toCmd # <<>> /\ lastIn' = Head(toCmd) /\ toCmd' = Tail(toCmd)
        /\ UNCHANGED <<inbound, conn, sentIn, mainPc>>
    BY <1>7 DEF TakeInput, mainVars, netVars
  <2>2. /\ Len(toCmd) > 0 /\ lastIn' = toCmd[1] /\ Len(toCmd') = Len(toCmd) - 1
        /\ \A i \in 1..(Len(toCmd) - 1) : toCmd'[i] = toCmd[i + 1]
    BY <1>1, <2>1
  <2>3. ASSUME NEW i \in 1..Len(Pending') PROVE i + 1 \in 1..Len(Pending) /\ Pending'[i] = Pending[i + 1]
    <3>1. CASE i = 1
      <4>1. 2 \in 2..(1 + Len(toCmd)) /\ 2 \in 1..Len(Pending)
        BY <1>1, <1>2, <2>2
      <4>2. Pending[2] = toCmd[1]
        BY <1>2, <4>1
      <4> QED BY <1>3, <2>2, <3>1, <4>1, <4>2
    <3>2. CASE i \in 2..Len(toCmd)
      <4>1. i - 1 \in 1..(Len(toCmd) - 1) /\ i \in 2..(1 + Len(toCmd'))
            /\ i + 1 \in 2..(1 + Len(toCmd)) /\ i + 1 \in 1..Len(Pending)
            /\ (i - 1) + 1 = (i + 1) - 1
        BY <1>1, <1>2, <2>2, <3>2
      <4>2. Pending'[i] = toCmd'[i - 1] /\ Pending[i + 1] = toCmd[(i + 1) - 1]
        BY <1>2, <1>3, <4>1
      <4>3. toCmd'[i - 1] = toCmd[(i - 1) + 1]
        BY <2>2, <4>1
      <4> QED BY <4>1, <4>2, <4>3
    <3>3. CASE i > Len(toCmd)
      <4>1. /\ i \in (2 + Len(toCmd'))..(1 + Len(toCmd') + Len(inbound'))
            /\ i + 1 \in (2 + Len(toCmd))..(1 + Len(toCmd) + Len(inbound))
            /\ (i - 1) - Len(toCmd') = ((i + 1) - 1) - Len(toCmd)
        BY <1>1, <1>2, <1>3, <2>1, <2>2, <3>3
      <4> QED BY <1>2, <1>3, <2>1, <4>1
    <3> QED BY <1>1, <2>2, <3>1, <3>2, <3>3
  <2>4. InputInOrder' /\ \A i \in 1..Len(Pending') : Pending'[i].conn <= conn
    BY <1>2, <1>3, <2>3, PartOfPending
  <2>5. Len(Pending') + 1 = Len(Pending) /\ Len(Pending') \in 1..Len(Pending')
    BY <1>1, <1>2, <1>3, <2>1, <2>2
  <2>6. LastPending' = LastPending
    BY <2>3, <2>5 DEF LastPending
  <2> QED BY <2>1, <2>4, <2>6 DEF InputInv
<1>8. CASE ServerSends
  <2> DEFINE new == [conn |-> conn, n |-> sentIn + 1]
  <2>1. /\ inbound' = Append(inbound, new) /\ sentIn' = sentIn + 1 /\ mainPc # "connect"
        /\ UNCHANGED <<lastIn, toCmd, conn, mainPc>>
    BY <1>8 DEF ServerSends, mainVars, stdinVars
  <2>2. new \in Stamp
    BY <1>1 DEF Stamp
  <2>3. /\ Len(inbound') = Len(inbound) + 1 /\ inbound'[Len(inbound) + 1] = new
        /\ \A i \in 1..Len(inbound) : inbound'[i] = inbound[i]
    BY <1>1, <2>1, <2>2
  <2> HIDE DEF new
  <2>4. Len(Pending') = Len(Pending) + 1 /\ Pending'[Len(Pending) + 1] = new
        /\ Len(Pending) \in Nat \ {0}
    BY <1>1, <1>2, <1>3, <2>1, <2>3
  <2>5. ASSUME NEW i \in 1..Len(Pending) PROVE Pending'[i] = Pending[i]
    <3>1. CASE i <= 1 + Len(toCmd)
      BY <1>1, <1>2, <1>3, <2>1, <3>1
    <3>2. CASE i > 1 + Len(toCmd)
      <4>1. (i - 1) - Len(toCmd) \in 1..Len(inbound)
            /\ i \in (2 + Len(toCmd))..(1 + Len(toCmd) + Len(inbound))
            /\ i \in (2 + Len(toCmd'))..(1 + Len(toCmd') + Len(inbound'))
        BY <1>1, <1>2, <2>1, <2>3, <3>2
      <4> QED BY <1>2, <1>3, <2>1, <2>3, <4>1
    <3> QED BY <1>1, <3>1, <3>2
  <2>6. Follows(Pending[Len(Pending)], new)
    BY <1>1, <2>1, <2>2 DEF InputInv, LastPending, Follows, new
  <2>7. ASSUME NEW i \in 1..(Len(Pending') - 1) PROVE Follows(Pending'[i], Pending'[i + 1])
    <3>1. CASE i = Len(Pending)
      BY <2>4, <2>5, <2>6, <3>1
    <3>2. CASE i # Len(Pending)
      <4>1. i \in 1..(Len(Pending) - 1) /\ i + 1 \in 1..Len(Pending)
        BY <2>4, <3>2
      <4> QED BY <2>5, <4>1 DEF InputInv, InputInOrder
    <3> QED BY <3>1, <3>2
  <2>8. InputInOrder'
    BY <2>7 DEF InputInOrder, Follows
  <2>9. new.conn = conn /\ new.n = sentIn + 1
    BY DEF new
  <2>10. ASSUME NEW i \in 1..Len(Pending') PROVE Pending'[i].conn <= conn
    <3>1. CASE i = Len(Pending) + 1
      BY <1>1, <2>4, <2>9, <3>1
    <3>2. CASE i # Len(Pending) + 1
      <4>1. i \in 1..Len(Pending)
        BY <2>4, <3>2
      <4> QED BY <2>5, <4>1 DEF InputInv
    <3> QED BY <3>1, <3>2
  <2> QED BY <2>1, <2>4, <2>8, <2>9, <2>10 DEF InputInv, LastPending
<1>9. Main => \/ UNCHANGED <<lastIn, toCmd, inbound, conn, sentIn>> /\ (mainPc' # "connect" => mainPc # "connect")
              \/ /\ UNCHANGED <<lastIn, toCmd>> /\ inbound' = <<>>
                 /\ \/ mainPc' = "connect" /\ conn' = conn
                    \/ conn' = conn + 1 /\ sentIn' = 0
              \/ Read
  <2>1. Disconnect => /\ UNCHANGED <<lastIn, toCmd, conn>> /\ inbound' = <<>> /\ mainPc' = "connect"
    BY DEF Disconnect, stdinVars
  <2> QED BY <2>1
     DEF Main, Connect, ConnectFails, HandshakeFails, SendHeader, SendSize, Replay, ReplayDone, SetupFails,
         ReadNothing, ReadFails, Recv, RecvTimeout, WriteLive, WriteLiveFails, KeepAlive,
         KeepAliveFails, Rest, vars, mainVars, netVars, stdinVars
<1>10. Stdout \/ UNCHANGED vars => UNCHANGED <<lastIn, toCmd, inbound, conn, sentIn, mainPc>>
  BY DEF Stdout, ReadOutput, PushHistory, SendOutput, ShellExits, ReadOutputFails,
         vars, mainVars, netVars, stdinVars
<1>11. Stdin => TakeInput \/ UNCHANGED <<lastIn, toCmd, inbound, conn, sentIn, mainPc>>
  BY DEF Stdin, Absorb, Resize, RunCommand, Restart, StdinPanics, SendSizeBack, SendChunk, mainVars, netVars
<1>12. Network => ServerSends \/ UNCHANGED <<lastIn, toCmd, inbound, conn, sentIn, mainPc>>
  BY DEF Network, Drain, LinkBreaks, Rest, stdinVars
<1> QED BY <1>4, <1>5, <1>6, <1>7, <1>8, <1>9, <1>10, <1>11, <1>12 DEF Next, Exited

-----------------------------------------------------------------------------
(* Frames and the channel *)

\* A write adds one frame of the present connection.
LEMMA WireGrows ==
  ASSUME Typed, NEW m \in StreamMsg \cup {Header}, Write(m)
  PROVE  /\ Len(wire) \in Nat
         /\ Len(wire') = Len(wire) + 1
         /\ \A i \in 1..Len(wire) : wire'[i] = wire[i]
         /\ wire'[Len(wire) + 1].conn = conn /\ wire'[Len(wire) + 1].msg = m
<1>1. PICK whole \in BOOLEAN : wire' = Append(wire, [conn |-> conn, msg |-> m, whole |-> whole])
  BY DEF Write
<1>2. wire \in Seq(Frame)
  BY DEF Typed, TypeOK
<1> QED BY <1>1, <1>2

\* What the other threads do to the channel is to put one message at its end.
LEMMA ChannelGrows ==
  ASSUME Typed, NEW m \in StreamMsg, toStream' = Append(toStream, m)
  PROVE  /\ Len(toStream) \in Nat
         /\ Len(toStream') = Len(toStream) + 1
         /\ \A i \in 1..Len(toStream) : toStream'[i] = toStream[i]
         /\ toStream'[Len(toStream) + 1] = m
         /\ \A j \in 1..Len(toStream') :
              \/ j \in 1..Len(toStream) /\ toStream'[j] = toStream[j]
              \/ j = Len(toStream) + 1 /\ toStream'[j] = m
BY DEF Typed, TypeOK

\* The main thread takes the first message, when its hands are empty.
LEMMA RecvTakes ==
  ASSUME Typed, Recv
  PROVE  /\ Len(toStream) \in Nat \ {0} /\ Len(toStream') = Len(toStream) - 1
         /\ \A i \in 1..(Len(toStream) - 1) : toStream'[i] = toStream[i + 1]
         /\ inHand = NoMsg /\ inHand' = toStream[1]
         /\ mainPc = "recv" /\ mainPc' = "write"
         /\ UNCHANGED <<wire, conn, ptySize, stdinPc, lastIn, response, history, produced, outPc>>
<1>1. toStream \in Seq(StreamMsg) /\ toStream # <<>>
  BY DEF Typed, TypeOK, Recv
<1>2. inHand' = Head(toStream) /\ toStream' = Tail(toStream)
  BY DEF Recv
<1>3. /\ Len(toStream) \in Nat \ {0} /\ Len(toStream') = Len(toStream) - 1
      /\ \A i \in 1..(Len(toStream) - 1) : toStream'[i] = toStream[i + 1]
      /\ inHand' = toStream[1]
  BY <1>1, <1>2
<1> QED BY <1>3 DEF Typed, HandOK, Recv, Rest, stdinVars, stdoutVars

\* The kinds of messages.
LEMMA Kinds ==
  /\ Header.kind = "header" /\ NoMsg.kind = "none"
  /\ \A s : SizeMsg(s).kind = "size" /\ SizeMsg(s).size = s
  /\ \A s, i : Chunk(s, i).kind = "chunk" /\ Chunk(s, i).of = s /\ Chunk(s, i).part = i
  /\ \A k : Output(k).kind = "stdout" /\ Output(k).id = k
BY DEF Header, NoMsg, SizeMsg, Chunk, Output

-----------------------------------------------------------------------------
(* Sizes *)

IsSize(m) == m.kind = "size"

NoSizeAfter(i) == \A j \in (i + 1)..Len(toStream) : ~IsSize(toStream[j])
SizeQueued     == \E i \in 1..Len(toStream) : toStream[i] = SizeMsg(ptySize) /\ NoSizeAfter(i)

SizeWritten ==
  \E i \in 1..Len(wire) :
    /\ wire[i].conn = conn /\ wire[i].msg = SizeMsg(ptySize)
    /\ \A j \in (i + 1)..Len(wire) : ~IsKind(j, "size")

HasSentSize == mainPc \in LoopPcs \cup {"replay"}

\* The last size in the channel is the pty's; when there is none, so is the one
\* that is being written, or else the last one written.
SizeInv ==
  stdinPc # "resized" =>
    \/ SizeQueued
    \/ /\ NoSizeAfter(0)
       /\ HasSentSize => IF IsSize(inHand) THEN inHand = SizeMsg(ptySize) ELSE SizeWritten

\* A message that is no size leaves the last size in the channel what it was.
LEMMA SizeAppend ==
  ASSUME Typed, SizeInv, NEW m \in StreamMsg, ~IsSize(m), toStream' = Append(toStream, m),
         UNCHANGED <<wire, conn, mainPc, inHand, ptySize>>, stdinPc' # "resized" => stdinPc # "resized"
  PROVE  SizeInv'
<1>1. /\ Len(toStream) \in Nat /\ Len(toStream') = Len(toStream) + 1
      /\ \A i \in 1..Len(toStream) : toStream'[i] = toStream[i]
      /\ ~IsSize(toStream'[Len(toStream) + 1])
  BY ChannelGrows
<1>2. \A i \in 0..Len(toStream) : NoSizeAfter(i) => NoSizeAfter(i)'
  <2>1. ASSUME NEW i \in 0..Len(toStream), NoSizeAfter(i), NEW j \in (i + 1)..Len(toStream')
        PROVE  ~IsSize(toStream'[j])
    <3>1. j = Len(toStream) + 1 \/ (j \in 1..Len(toStream) /\ j \in (i + 1)..Len(toStream))
      BY <1>1, <2>1
    <3> QED BY <1>1, <2>1, <3>1 DEF NoSizeAfter
  <2> QED BY <2>1 DEF NoSizeAfter, IsSize
<1>3. SizeQueued => SizeQueued'
  <2> SUFFICES ASSUME NEW i \in 1..Len(toStream), toStream[i] = SizeMsg(ptySize), NoSizeAfter(i)
               PROVE  SizeQueued'
    BY DEF SizeQueued
  <2>1. i \in 1..Len(toStream') /\ toStream'[i] = SizeMsg(ptySize') /\ NoSizeAfter(i)'
    <3>1. NoSizeAfter(i)'
      BY <1>1, <1>2
    <3> QED BY <1>1, <3>1
  <2> QED BY <2>1 DEF SizeQueued
<1>4. NoSizeAfter(0) => NoSizeAfter(0)'
  BY <1>1, <1>2
<1>5. HasSentSize' = HasSentSize /\ IsSize(inHand') = IsSize(inHand) /\ SizeWritten' = SizeWritten
  BY DEF HasSentSize, IsSize, SizeWritten, IsKind
<1> QED BY <1>3, <1>4, <1>5 DEF SizeInv

\* A frame that is no size leaves the last size written what it was.
LEMMA SizeStaysWritten ==
  ASSUME Typed, SizeWritten, NEW m \in StreamMsg \cup {Header}, Write(m), ~IsSize(m),
         UNCHANGED <<conn, ptySize>>
  PROVE  SizeWritten'
<1>1. /\ Len(wire) \in Nat /\ Len(wire') = Len(wire) + 1
      /\ \A i \in 1..Len(wire) : wire'[i] = wire[i]
      /\ ~IsSize(wire'[Len(wire) + 1].msg)
  BY WireGrows
<1>2. PICK i \in 1..Len(wire) :
        /\ wire[i].conn = conn /\ wire[i].msg = SizeMsg(ptySize)
        /\ \A j \in (i + 1)..Len(wire) : ~IsKind(j, "size")
  BY DEF SizeWritten
<1>3. ASSUME NEW j \in (i + 1)..Len(wire') PROVE ~IsKind(j, "size")'
  <2>1. j = Len(wire) + 1 \/ (j \in 1..Len(wire) /\ j \in (i + 1)..Len(wire))
    BY <1>1
  <2> QED BY <1>1, <1>2, <2>1 DEF IsKind, IsSize
<1>4. i \in 1..Len(wire') /\ wire'[i] = wire[i]
  BY <1>1
<1> QED BY <1>2, <1>3, <1>4 DEF SizeWritten

\* A size that is written is the last one.
LEMMA SizeIsWritten ==
  ASSUME Typed, Write(SizeMsg(ptySize)), UNCHANGED <<conn, ptySize>>
  PROVE  SizeWritten'
<1>1. SizeMsg(ptySize) \in StreamMsg
  BY DEF Typed, TypeOK, SizeMsg, StreamMsg
<1>2. /\ Len(wire) \in Nat /\ Len(wire') = Len(wire) + 1
      /\ wire'[Len(wire) + 1].conn = conn /\ wire'[Len(wire) + 1].msg = SizeMsg(ptySize)
  BY <1>1, WireGrows
<1>3. Len(wire) + 1 \in 1..Len(wire') /\ ((Len(wire) + 1) + 1)..Len(wire') = {}
  BY <1>2
<1> QED BY <1>2, <1>3 DEF SizeWritten

\* Every step keeps the size that the server knows, or will know, the pty's.
LEMMA SizeStep ==
  ASSUME Typed, SizeInv, [Next]_vars
  PROVE  SizeInv'
<1> SUFFICES ASSUME stdinPc' # "resized" PROVE SizeInv'
  BY DEF SizeInv
<1>1. ASSUME UNCHANGED <<toStream, ptySize>>, stdinPc # "resized",
             HasSentSize' => /\ HasSentSize /\ UNCHANGED <<inHand, conn>>
                             /\ wire' = wire \/ \E m \in StreamMsg \cup {Header} : Write(m) /\ ~IsSize(m)
      PROVE  SizeInv'
  <2>1. NoSizeAfter(0)' = NoSizeAfter(0) /\ SizeQueued' = SizeQueued
    BY <1>1 DEF SizeQueued, NoSizeAfter, IsSize
  <2>2. HasSentSize' /\ SizeWritten => SizeWritten'
    <3>1. CASE wire' = wire /\ conn' = conn
      BY <1>1, <3>1 DEF SizeWritten, IsKind
    <3> QED BY <1>1, <3>1, SizeStaysWritten
  <2> QED BY <1>1, <2>1, <2>2 DEF SizeInv, IsSize
<1>2. CASE Main
  <2>1. ptySize' = ptySize /\ stdinPc' = stdinPc
    <3>1. Disconnect => UNCHANGED <<ptySize, stdinPc>>
      BY DEF Disconnect, stdinVars
    <3> QED BY <1>2, <3>1
       DEF Main, Connect, ConnectFails, HandshakeFails, SendHeader, SendSize, Replay, ReplayDone, SetupFails,
           Read, ReadNothing, ReadFails, Recv, RecvTimeout, WriteLive, WriteLiveFails, KeepAlive,
           KeepAliveFails, Rest, vars, stdinVars
  <2>2. CASE SendHeader \/ SetupFails \/ ReadFails \/ WriteLiveFails \/ KeepAliveFails \/ Connect
    <3>1. ~HasSentSize' /\ toStream' = toStream
      BY <2>2 DEF SendHeader, SetupFails, ReadFails, WriteLiveFails, KeepAliveFails, Connect, Disconnect,
                  HasSentSize, LoopPcs
    <3> QED BY <1>1, <2>1, <3>1
  <2>3. CASE SendSize
    <3>1. /\ Write(SizeMsg(ptySize)) /\ toStream' = toStream /\ inHand' = inHand /\ inHand = NoMsg
          /\ conn' = conn
      BY <2>3 DEF SendSize, Typed, HandOK
    <3>2. SizeWritten' /\ ~IsSize(inHand')
      BY <2>1, <3>1, SizeIsWritten, Kinds DEF IsSize
    <3>3. NoSizeAfter(0)' = NoSizeAfter(0) /\ SizeQueued' = SizeQueued
      BY <2>1, <3>1 DEF SizeQueued, NoSizeAfter, IsSize
    <3> QED BY <2>1, <3>2, <3>3 DEF SizeInv
  <2>4. CASE Replay
    <3>1. /\ Write(history[replayed + 1]) /\ replayed + 1 \in 1..Len(history)
          /\ UNCHANGED <<toStream, inHand, conn, mainPc>>
      BY <2>4 DEF Replay, Typed, TypeOK
    <3>2. history[replayed + 1] \in StreamMsg /\ ~IsSize(history[replayed + 1])
      <4>1. history[replayed + 1] \in OutputMsg
        BY <3>1 DEF Typed, TypeOK
      <4> QED BY <4>1 DEF StreamMsg, OutputMsg, IsSize
    <3> QED BY <1>1, <2>1, <3>1, <3>2 DEF HasSentSize
  <2>5. CASE WriteLive
    <3>1. /\ Write(inHand) /\ inHand \in StreamMsg /\ UNCHANGED <<toStream, conn>> /\ ~IsSize(inHand')
          /\ mainPc = "write"
      BY <2>5, Kinds DEF WriteLive, Typed, TypeOK, HandOK, IsSize
    <3>2. NoSizeAfter(0)' = NoSizeAfter(0) /\ SizeQueued' = SizeQueued
      BY <2>1, <3>1 DEF SizeQueued, NoSizeAfter, IsSize
    <3>3. CASE IsSize(inHand) /\ inHand = SizeMsg(ptySize)
      <4>1. SizeWritten'
        BY <2>1, <3>1, <3>3, SizeIsWritten
      <4> QED BY <2>1, <3>1, <3>2, <4>1, <3>3 DEF SizeInv
    <3>4. CASE ~IsSize(inHand) /\ SizeWritten
      <4>1. SizeWritten'
        BY <2>1, <3>1, <3>4, SizeStaysWritten
      <4> QED BY <2>1, <3>1, <3>2, <4>1 DEF SizeInv
    <3>5. CASE SizeQueued
      BY <2>1, <3>2, <3>5 DEF SizeInv
    <3>6. HasSentSize
      BY <3>1 DEF HasSentSize, LoopPcs
    <3> QED BY <2>1, <3>3, <3>4, <3>5, <3>6 DEF SizeInv
  <2>6. CASE Recv
    <3>1. /\ Len(toStream) \in Nat \ {0} /\ Len(toStream') = Len(toStream) - 1
          /\ \A i \in 1..(Len(toStream) - 1) : toStream'[i] = toStream[i + 1]
          /\ inHand = NoMsg /\ inHand' = toStream[1] /\ mainPc = "recv"
          /\ UNCHANGED <<wire, conn, ptySize>>
      BY <2>6, RecvTakes
    <3>2. ASSUME NEW i \in 1..Len(toStream), NoSizeAfter(i)
          PROVE  NoSizeAfter(i - 1)'
      <4>1. ASSUME NEW j \in ((i - 1) + 1)..Len(toStream') PROVE ~IsSize(toStream'[j])
        <5>1. j \in 1..(Len(toStream) - 1) /\ j + 1 \in (i + 1)..Len(toStream)
          BY <3>1
        <5> QED BY <3>1, <3>2, <5>1 DEF NoSizeAfter
      <4> QED BY <4>1 DEF NoSizeAfter, IsSize
    <3>3. CASE SizeQueued
      <4>1. PICK i \in 1..Len(toStream) : toStream[i] = SizeMsg(ptySize) /\ NoSizeAfter(i)
        BY <3>3 DEF SizeQueued
      <4>2. NoSizeAfter(i - 1)'
        BY <3>2, <4>1
      <4>3. CASE i = 1
        <5>1. inHand' = SizeMsg(ptySize') /\ NoSizeAfter(0)'
          BY <3>1, <4>1, <4>2, <4>3
        <5> QED BY <5>1, Kinds DEF SizeInv, IsSize
      <4>4. CASE i # 1
        <5>1. i - 1 \in 1..Len(toStream') /\ toStream'[i - 1] = SizeMsg(ptySize')
          <6>1. i - 1 \in 1..(Len(toStream) - 1) /\ (i - 1) + 1 = i
            BY <3>1, <4>4
          <6> QED BY <3>1, <4>1, <6>1
        <5>2. SizeQueued'
          BY <4>2, <5>1 DEF SizeQueued
        <5> QED BY <5>2 DEF SizeInv
      <4> QED BY <4>3, <4>4
    <3>4. CASE NoSizeAfter(0) /\ SizeWritten
      <4>1. ~IsSize(toStream[1])
        BY <3>1, <3>4 DEF NoSizeAfter
      <4>2. NoSizeAfter(0)'
        <5>1. 1 \in 1..Len(toStream) /\ 1 - 1 = 0
          BY <3>1
        <5>2. NoSizeAfter(1)
          BY <3>1, <3>4 DEF NoSizeAfter
        <5> QED BY <3>2, <5>1, <5>2
      <4>3. SizeWritten' /\ ~IsSize(inHand')
        BY <3>1, <3>4, <4>1 DEF SizeWritten, IsKind, IsSize
      <4> QED BY <4>2, <4>3 DEF SizeInv
    <3>5. HasSentSize /\ ~IsSize(inHand)
      BY <3>1, Kinds DEF HasSentSize, LoopPcs, IsSize
    <3> QED BY <2>1, <3>3, <3>4, <3>5 DEF SizeInv
  <2>7. CASE ConnectFails \/ HandshakeFails \/ ReplayDone \/ Read \/ ReadNothing \/ RecvTimeout \/ KeepAlive
    <3>1. UNCHANGED <<wire, inHand, toStream, conn>> /\ (HasSentSize' => HasSentSize)
      BY <2>7 DEF ConnectFails, HandshakeFails, ReplayDone, Read, ReadNothing, RecvTimeout, KeepAlive,
                  vars, mainVars, HasSentSize, LoopPcs
    <3> QED BY <1>1, <2>1, <3>1
  <2> QED BY <1>2, <2>2, <2>3, <2>4, <2>5, <2>6, <2>7 DEF Main
<1>3. ASSUME UNCHANGED <<mainPc, conn, wire, inHand, toStream, ptySize>>, stdinPc # "resized"
      PROVE  SizeInv'
  BY <1>1, <1>3 DEF HasSentSize
<1>4. CASE Stdout
  <2>1. UNCHANGED <<mainPc, conn, wire, inHand>>
    BY <1>4, MainOnly
  <2>2. UNCHANGED <<ptySize, stdinPc>>
    BY <1>4 DEF Stdout, ReadOutput, PushHistory, SendOutput, ShellExits, ReadOutputFails, stdinVars
  <2>3. CASE SendOutput
    <3>1. toStream' = Append(toStream, Output(produced)) /\ ~IsSize(Output(produced))
      BY <2>3, Kinds DEF SendOutput, IsSize
    <3>2. Output(produced) \in StreamMsg
      BY DEF Typed, TypeOK, Output, StreamMsg, OutputMsg
    <3> QED BY <2>1, <2>2, <3>1, <3>2, SizeAppend
  <2>4. CASE toStream' = toStream
    BY <1>3, <2>1, <2>2, <2>4
  <2> QED BY <1>4, <2>3, <2>4 DEF Stdout, ReadOutput, PushHistory, ShellExits, ReadOutputFails
<1>5. CASE Stdin
  <2>1. UNCHANGED <<mainPc, conn, wire, inHand>>
    BY <1>5, MainOnly
  <2>2. CASE SendSizeBack
    <3>1. toStream' = Append(toStream, SizeMsg(ptySize)) /\ ptySize' = ptySize
      BY <2>2 DEF SendSizeBack
    <3>2. SizeMsg(ptySize) \in StreamMsg
      BY DEF Typed, TypeOK, SizeMsg, StreamMsg
    <3>3. /\ Len(toStream') \in 1..Len(toStream') /\ toStream'[Len(toStream')] = SizeMsg(ptySize')
          /\ (Len(toStream') + 1)..Len(toStream') = {}
      BY <3>1, <3>2, ChannelGrows
    <3>4. SizeQueued'
      BY <3>3 DEF SizeQueued, NoSizeAfter
    <3> QED BY <3>4 DEF SizeInv
  <2>3. CASE SendChunk
    <3>1. /\ toStream' = Append(toStream, Chunk(response.of, response.next))
          /\ ptySize' = ptySize /\ stdinPc # "resized"
          /\ ~IsSize(Chunk(response.of, response.next))
      BY <2>3, Kinds DEF SendChunk, IsSize
    <3>2. Chunk(response.of, response.next) \in StreamMsg
      BY DEF Typed, TypeOK, Chunk, StreamMsg
    <3> QED BY <2>1, <3>1, <3>2, SizeAppend
  <2>4. CASE Absorb \/ RunCommand \/ Restart \/ StdinPanics
    <3>1. UNCHANGED <<toStream, ptySize>> /\ stdinPc # "resized"
      BY <2>4 DEF Absorb, RunCommand, Restart, StdinPanics, TakeInput
    <3> QED BY <1>3, <2>1, <3>1
  <2>5. ~Resize
    BY DEF Resize
  <2> QED BY <1>5, <2>2, <2>3, <2>4, <2>5 DEF Stdin
<1>6. CASE Network \/ Exited \/ UNCHANGED vars
  <2>1. UNCHANGED <<mainPc, conn, wire, inHand, toStream, ptySize, stdinPc>>
    BY <1>6 DEF Network, ServerSends, Drain, LinkBreaks, Rest, Exited, vars, mainVars, stdinVars
  <2> QED BY <1>3, <2>1
<1> QED BY <1>2, <1>4, <1>5, <1>6 DEF Next

-----------------------------------------------------------------------------
(* Chunks of answers *)

IsChunk(m)     == m.kind = "chunk"
InOrder(a, b)  == (IsChunk(a) /\ IsChunk(b) /\ a.of = b.of) => a.part < b.part
Later(a, b)    == b.conn > a.conn \/ (b.conn = a.conn /\ b.n > a.n)

\* A chunk answers no later input than the last one that was taken, and is
\* before the one that is next.
MadeBy(m, last, pc, r) ==
  IsChunk(m) => ~Later(last, m.of) /\ ((pc = "respond" /\ m.of = last) => m.part < r.next)
Made(m) == MadeBy(m, lastIn, stdinPc, response)

WireMade    == \A i \in 1..Len(wire) : Made(wire[i].msg)
ChannelMade == Made(inHand) /\ \A i \in 1..Len(toStream) : Made(toStream[i])

\* From the wire to the end of the channel the chunks of an answer are in order.
WireInOrder == \A i, j \in 1..Len(wire) : i < j => InOrder(wire[i].msg, wire[j].msg)
HandInOrder ==
  /\ \A i \in 1..Len(wire) : InOrder(wire[i].msg, inHand)
  /\ \A j \in 1..Len(toStream) : InOrder(inHand, toStream[j])
ChannelInOrder ==
  /\ \A i \in 1..Len(wire), j \in 1..Len(toStream) : InOrder(wire[i].msg, toStream[j])
  /\ \A i, j \in 1..Len(toStream) : i < j => InOrder(toStream[i], toStream[j])

ChunkInv ==
  /\ stdinPc = "respond" => response.of = lastIn
  /\ WireMade /\ ChannelMade
  /\ WireInOrder /\ HandInOrder /\ ChannelInOrder

\* At first there is no chunk.
LEMMA InitChunk == Init => ChunkInv
BY Kinds DEF Init, ChunkInv, WireMade, ChannelMade, WireInOrder, HandInOrder, ChannelInOrder, Made, MadeBy, InOrder,
   IsChunk

\* Input that is taken is later than the one before.
LEMMA TakesLater ==
  ASSUME Typed, InputInv, TakeInput
  PROVE  lastIn \in Stamp /\ lastIn' \in Stamp /\ Later(lastIn, lastIn')
<1>1. lastIn \in Stamp /\ toCmd \in Seq(Stamp) /\ inbound \in Seq(Stamp) /\ toCmd # <<>>
  BY DEF Typed, TypeOK, TakeInput
<1>2. lastIn' = toCmd[1] /\ Len(toCmd) \in Nat \ {0} /\ Len(inbound) \in Nat
  BY <1>1 DEF TakeInput
<1>3. /\ Len(Pending) = 1 + Len(toCmd) + Len(inbound) /\ Pending[1] = lastIn
      /\ \A i \in 2..(1 + Len(toCmd)) : Pending[i] = toCmd[i - 1]
  BY <1>1, PendingAt DEF Pending
<1>4. 2 \in 2..(1 + Len(toCmd)) /\ 1 \in 1..(Len(Pending) - 1)
  BY <1>2, <1>3
<1>5. Follows(lastIn, lastIn')
  BY <1>2, <1>3, <1>4 DEF InputInv, InputInOrder
<1>6. lastIn' \in Stamp
  BY <1>1, <1>2
<1> QED BY <1>1, <1>5, <1>6 DEF Follows, Later, Stamp

\* Every message and every frame is of a known kind.
LEMMA ChunkTypes ==
  ASSUME Typed
  PROVE  /\ \A i \in 1..Len(wire) : IsChunk(wire[i].msg) => wire[i].msg.of \in Stamp /\ wire[i].msg.part \in Nat
         /\ IsChunk(inHand) => inHand.of \in Stamp /\ inHand.part \in Nat
         /\ \A i \in 1..Len(toStream) :
              IsChunk(toStream[i]) => toStream[i].of \in Stamp /\ toStream[i].part \in Nat
<1>1. \A m \in StreamMsg \cup {Header, NoMsg} : IsChunk(m) => m.of \in Stamp /\ m.part \in Nat
  BY DEF StreamMsg, OutputMsg, Header, NoMsg, IsChunk
<1>2. \A i \in 1..Len(wire) : wire[i].msg \in StreamMsg \cup {Header}
  <2>1. \A i \in 1..Len(wire) : wire[i] \in Frame
    BY DEF Typed, TypeOK
  <2> QED BY <2>1 DEF Frame
<1>3. inHand \in StreamMsg \cup {NoMsg} /\ \A i \in 1..Len(toStream) : toStream[i] \in StreamMsg
  BY DEF Typed, TypeOK
<1> QED BY <1>1, <1>2, <1>3

\* When new input is taken, all chunks are of earlier input.
LEMMA ChunkTake ==
  ASSUME Typed, InputInv, ChunkInv, TakeInput, UNCHANGED <<wire, inHand, toStream>>,
         stdinPc' = "respond" => response'.of = lastIn'
  PROVE  ChunkInv'
<1>1. lastIn \in Stamp /\ lastIn' \in Stamp /\ Later(lastIn, lastIn')
  BY TakesLater
<1>2. ASSUME NEW m, IsChunk(m) => m.of \in Stamp, Made(m)
      PROVE  IsChunk(m) => ~Later(lastIn', m.of) /\ m.of # lastIn'
  BY <1>1, <1>2 DEF Made, MadeBy, Later, Stamp
<1>3. WireMade' /\ ChannelMade'
  BY <1>2, ChunkTypes DEF ChunkInv, WireMade, ChannelMade, Made, MadeBy, IsChunk
<1>4. WireInOrder' /\ HandInOrder' /\ ChannelInOrder'
  BY DEF ChunkInv, WireInOrder, HandInOrder, ChannelInOrder, InOrder, IsChunk
<1> QED BY <1>3, <1>4 DEF ChunkInv

\* A message that is put in the channel keeps the order if all the others are before it.
LEMMA ChunkAppend ==
  ASSUME Typed, ChunkInv, NEW m \in StreamMsg, toStream' = Append(toStream, m),
         UNCHANGED <<wire, inHand, lastIn>>,
         MadeBy(m, lastIn', stdinPc', response'), stdinPc' = "respond" => response'.of = lastIn',
         \A x : (IsChunk(x) => x.part \in Nat) /\ Made(x) => MadeBy(x, lastIn', stdinPc', response') /\ InOrder(x, m)
  PROVE  ChunkInv'
<1>1. /\ Len(toStream) \in Nat /\ Len(toStream') = Len(toStream) + 1
      /\ \A i \in 1..Len(toStream) : toStream'[i] = toStream[i]
      /\ toStream'[Len(toStream) + 1] = m
  BY ChannelGrows
<1>2. ASSUME NEW j \in 1..Len(toStream')
      PROVE  \/ j \in 1..Len(toStream) /\ toStream'[j] = toStream[j]
             \/ j = Len(toStream) + 1 /\ toStream'[j] = m
  BY ChannelGrows
<1>p. /\ \A i \in 1..Len(wire) : Made(wire[i].msg) /\ (IsChunk(wire[i].msg) => wire[i].msg.part \in Nat)
      /\ Made(inHand) /\ (IsChunk(inHand) => inHand.part \in Nat)
      /\ \A i \in 1..Len(toStream) : Made(toStream[i]) /\ (IsChunk(toStream[i]) => toStream[i].part \in Nat)
  BY ChunkTypes DEF ChunkInv, WireMade, ChannelMade
<1>3. WireMade' /\ ChannelMade'
  <2>1. \A i \in 1..Len(wire) : MadeBy(wire[i].msg, lastIn', stdinPc', response')
    BY <1>p
  <2>2. \A j \in 1..Len(toStream') : MadeBy(toStream'[j], lastIn', stdinPc', response')
    BY <1>2, <1>p
  <2>3. MadeBy(inHand, lastIn', stdinPc', response')
    BY <1>p
  <2> QED BY <2>1, <2>2, <2>3 DEF WireMade, ChannelMade, Made
<1>4. WireInOrder'
  BY DEF ChunkInv, WireInOrder, InOrder, IsChunk
<1>5. HandInOrder'
  <2>1. ASSUME NEW j \in 1..Len(toStream') PROVE InOrder(inHand, toStream'[j])
    BY <1>2, <1>p DEF ChunkInv, HandInOrder
  <2> QED BY <2>1 DEF ChunkInv, HandInOrder, InOrder, IsChunk
<1>6. ASSUME NEW i \in 1..Len(toStream'), NEW j \in 1..Len(toStream'), i < j
      PROVE  InOrder(toStream'[i], toStream'[j])
  <2>1. i \in 1..Len(toStream) /\ toStream'[i] = toStream[i]
    BY <1>1, <1>6
  <2> QED BY <1>2, <1>6, <1>p, <2>1 DEF ChunkInv, ChannelInOrder
<1>7. ChannelInOrder'
  <2>1. ASSUME NEW i \in 1..Len(wire), NEW j \in 1..Len(toStream') PROVE InOrder(wire[i].msg, toStream'[j])
    BY <1>2, <1>p DEF ChunkInv, ChannelInOrder
  <2> QED BY <1>6, <2>1 DEF ChannelInOrder, InOrder, IsChunk
<1> QED BY <1>3, <1>4, <1>5, <1>7 DEF ChunkInv

\* A frame that carries no chunk disturbs no order.
LEMMA ChunkWrite ==
  ASSUME Typed, ChunkInv, NEW m \in StreamMsg \cup {Header}, Write(m), ~IsChunk(m),
         UNCHANGED <<toStream, inHand, lastIn, stdinPc, response>>
  PROVE  ChunkInv'
<1>1. /\ Len(wire) \in Nat /\ Len(wire') = Len(wire) + 1
      /\ \A i \in 1..Len(wire) : wire'[i] = wire[i]
      /\ wire'[Len(wire) + 1].msg = m
  BY WireGrows
<1>2. ASSUME NEW i \in 1..Len(wire')
      PROVE  (i \in 1..Len(wire) /\ wire'[i] = wire[i]) \/ ~IsChunk(wire'[i].msg)
  BY <1>1
<1>3. WireMade' /\ ChannelMade'
  BY <1>2 DEF ChunkInv, WireMade, ChannelMade, Made, MadeBy, IsChunk
<1>4. WireInOrder' /\ HandInOrder' /\ ChannelInOrder'
  BY <1>2 DEF ChunkInv, WireInOrder, HandInOrder, ChannelInOrder, InOrder, IsChunk
<1> QED BY <1>3, <1>4 DEF ChunkInv

\* The message in the main thread's hands is before the channel and after the wire.
LEMMA ChunkWriteLive ==
  ASSUME Typed, ChunkInv, WriteLive
  PROVE  ChunkInv'
<1>1. /\ Write(inHand) /\ inHand \in StreamMsg /\ inHand' = NoMsg
      /\ UNCHANGED <<toStream, lastIn, stdinPc, response>>
  BY DEF WriteLive, Rest, stdinVars, Typed, TypeOK, HandOK
<1>2. /\ Len(wire) \in Nat /\ Len(wire') = Len(wire) + 1
      /\ \A i \in 1..Len(wire) : wire'[i] = wire[i]
      /\ wire'[Len(wire) + 1].msg = inHand
  BY <1>1, WireGrows
<1>3. ASSUME NEW i \in 1..Len(wire')
      PROVE  \/ i \in 1..Len(wire) /\ wire'[i] = wire[i]
             \/ i = Len(wire) + 1 /\ wire'[i].msg = inHand
  BY <1>2
<1>4. ~IsChunk(inHand')
  BY <1>1, Kinds DEF IsChunk
<1>5. WireMade' /\ ChannelMade'
  BY <1>1, <1>3, <1>4 DEF ChunkInv, WireMade, ChannelMade, Made, MadeBy, IsChunk
<1>6. ASSUME NEW i \in 1..Len(wire'), NEW j \in 1..Len(wire'), i < j
      PROVE  InOrder(wire'[i].msg, wire'[j].msg)
  <2>1. i \in 1..Len(wire) /\ wire'[i] = wire[i]
    BY <1>2, <1>6
  <2> QED BY <1>3, <1>6, <2>1 DEF ChunkInv, WireInOrder, HandInOrder
<1>7. WireInOrder'
  BY <1>6 DEF WireInOrder, InOrder, IsChunk
<1>8. HandInOrder'
  BY <1>4 DEF HandInOrder, InOrder, IsChunk
<1>9. ChannelInOrder'
  BY <1>1, <1>3 DEF ChunkInv, ChannelInOrder, HandInOrder, InOrder, IsChunk
<1> QED BY <1>1, <1>5, <1>7, <1>8, <1>9 DEF ChunkInv

\* The first message of the channel is before the rest.
LEMMA ChunkRecv ==
  ASSUME Typed, ChunkInv, Recv
  PROVE  ChunkInv'
<1>1. /\ Len(toStream) \in Nat \ {0} /\ Len(toStream') = Len(toStream) - 1
      /\ \A i \in 1..(Len(toStream) - 1) : toStream'[i] = toStream[i + 1]
      /\ inHand' = toStream[1]
      /\ UNCHANGED <<wire, stdinPc, lastIn, response>>
  BY RecvTakes
<1>2. ASSUME NEW i \in 1..Len(toStream')
      PROVE  i + 1 \in 1..Len(toStream) /\ 1 < i + 1 /\ toStream'[i] = toStream[i + 1]
  BY <1>1
<1>3. 1 \in 1..Len(toStream)
  BY <1>1
<1>4. WireMade' /\ ChannelMade'
  BY <1>1, <1>2, <1>3 DEF ChunkInv, WireMade, ChannelMade, Made, MadeBy, IsChunk
<1>5. WireInOrder'
  BY <1>1 DEF ChunkInv, WireInOrder, InOrder, IsChunk
<1>6. HandInOrder'
  BY <1>1, <1>2, <1>3 DEF ChunkInv, ChannelInOrder, HandInOrder, InOrder, IsChunk
<1>7. ASSUME NEW i \in 1..Len(toStream'), NEW j \in 1..Len(toStream'), i < j
      PROVE  InOrder(toStream'[i], toStream'[j])
  <2>1. i + 1 < j + 1
    BY <1>1, <1>7
  <2> QED BY <1>2, <2>1 DEF ChunkInv, ChannelInOrder
<1>8. ChannelInOrder'
  BY <1>1, <1>2, <1>7 DEF ChunkInv, ChannelInOrder, InOrder, IsChunk
<1> QED BY <1>1, <1>4, <1>5, <1>6, <1>8 DEF ChunkInv

\* Frames that a new connection finds lost leave the others in order.
LEMMA ChunkConnect ==
  ASSUME Typed, ChunkInv, Connect
  PROVE  ChunkInv'
<1>1. UNCHANGED <<inHand, toStream, lastIn, stdinPc, response>>
  BY DEF Connect, stdinVars
<1>2. \A i \in 1..Len(wire') : i \in 1..Len(wire) /\ wire'[i] = wire[i]
  BY ConnectCuts DEF Typed, TypeOK
<1>3. WireMade' /\ ChannelMade'
  BY <1>1, <1>2 DEF ChunkInv, WireMade, ChannelMade, Made, MadeBy, IsChunk
<1>4. WireInOrder' /\ HandInOrder' /\ ChannelInOrder'
  BY <1>1, <1>2 DEF ChunkInv, WireInOrder, HandInOrder, ChannelInOrder, InOrder, IsChunk
<1> QED BY <1>1, <1>3, <1>4 DEF ChunkInv

\* A message that the connection takes with it disturbs no order.
LEMMA ChunkSame ==
  ASSUME ChunkInv, UNCHANGED <<wire, toStream, lastIn, stdinPc, response>>, inHand' \in {inHand, NoMsg}
  PROVE  ChunkInv'
<1>1. inHand' = inHand \/ ~IsChunk(inHand')
  BY Kinds DEF IsChunk
<1>2. WireMade' /\ ChannelMade'
  BY <1>1 DEF ChunkInv, WireMade, ChannelMade, Made, MadeBy, IsChunk
<1>3. WireInOrder' /\ HandInOrder' /\ ChannelInOrder'
  BY <1>1 DEF ChunkInv, WireInOrder, HandInOrder, ChannelInOrder, InOrder, IsChunk
<1> QED BY <1>2, <1>3 DEF ChunkInv

\* What the main thread does to the stdin thread's variables: nothing.
LEMMA MainNotStdin == Main \/ Stdout \/ Network \/ UNCHANGED vars => UNCHANGED <<stdinPc, lastIn, response, ptySize>>
<1> USE DEF stdinVars
<1>1. Disconnect => UNCHANGED <<stdinPc, lastIn, response, ptySize>>
  BY DEF Disconnect
<1>2. Main => UNCHANGED <<stdinPc, lastIn, response, ptySize>>
  BY <1>1 DEF Main, Connect, ConnectFails, HandshakeFails, SendHeader, SendSize, Replay, ReplayDone, SetupFails,
     Read, ReadNothing, ReadFails, Recv, RecvTimeout, WriteLive, WriteLiveFails, KeepAlive,
     KeepAliveFails, Rest, vars
<1>3. Stdout => UNCHANGED <<stdinPc, lastIn, response, ptySize>>
  BY DEF Stdout, ReadOutput, PushHistory, SendOutput, ShellExits, ReadOutputFails
<1>4. Network => UNCHANGED <<stdinPc, lastIn, response, ptySize>>
  BY DEF Network, ServerSends, Drain, LinkBreaks, Rest
<1> QED BY <1>2, <1>3, <1>4 DEF vars

\* What the main thread can do to the frames, its hands and the channel.
LEMMA MainMoves ==
  ASSUME Typed, Main
  PROVE  \/ WriteLive \/ Recv \/ Connect
         \/ UNCHANGED <<wire, toStream>> /\ inHand' \in {inHand, NoMsg}
         \/ /\ UNCHANGED <<toStream, inHand>>
            /\ \E m \in OutputMsg \cup {Header, SizeMsg(ptySize)} :
                 m \in StreamMsg \cup {Header} /\ Write(m) /\ ~IsChunk(m)
<1>1. Disconnect => UNCHANGED <<wire, toStream>> /\ inHand' = NoMsg
  BY DEF Disconnect
<1>2. CASE SendHeader
  BY <1>2, Kinds DEF SendHeader, IsChunk
<1>3. CASE SendSize
  <2>1. SizeMsg(ptySize) \in StreamMsg
    BY DEF Typed, TypeOK, SizeMsg, StreamMsg
  <2> QED BY <1>3, <2>1, Kinds DEF SendSize, IsChunk
<1>4. CASE Replay
  <2>1. /\ Write(history[replayed + 1]) /\ replayed + 1 \in 1..Len(history) /\ UNCHANGED <<toStream, inHand>>
    BY <1>4 DEF Replay, Typed, TypeOK
  <2>2. history[replayed + 1] \in OutputMsg
    BY <2>1 DEF Typed, TypeOK
  <2>3. history[replayed + 1] \in StreamMsg /\ ~IsChunk(history[replayed + 1])
    BY <2>2 DEF StreamMsg, OutputMsg, IsChunk
  <2> QED BY <2>1, <2>2, <2>3
<1>5. CASE ~(SendHeader \/ SendSize \/ Replay)
  BY <1>1, <1>5 DEF Main, ConnectFails, HandshakeFails, ReplayDone, SetupFails,
     Read, ReadNothing, ReadFails, Recv, RecvTimeout, WriteLiveFails, KeepAlive,
     KeepAliveFails, vars, mainVars
<1> QED BY <1>2, <1>3, <1>4, <1>5

\* Every step keeps the chunks of every answer in order.
LEMMA ChunkStep ==
  ASSUME Typed, InputInv, ChunkInv, [Next]_vars
  PROVE  ChunkInv'
<1>1. CASE Main
  <2>1. UNCHANGED <<stdinPc, lastIn, response>>
    BY <1>1, MainNotStdin
  <2> QED BY <1>1, <2>1, MainMoves, ChunkWriteLive, ChunkRecv, ChunkConnect, ChunkSame, ChunkWrite
<1>2. CASE Stdout
  <2>1. UNCHANGED <<wire, inHand, stdinPc, lastIn, response>>
    BY <1>2, MainOnly, MainNotStdin
  <2>2. CASE SendOutput
    <3>1. Output(produced) \in StreamMsg /\ ~IsChunk(Output(produced))
      BY Kinds DEF Typed, TypeOK, Output, StreamMsg, OutputMsg, IsChunk
    <3>2. toStream' = Append(toStream, Output(produced))
      BY <2>2 DEF SendOutput
    <3>3. MadeBy(Output(produced), lastIn', stdinPc', response')
        /\ \A x : Made(x) => MadeBy(x, lastIn', stdinPc', response') /\ InOrder(x, Output(produced))
      BY <2>1, <3>1 DEF Made, MadeBy, InOrder, IsChunk
    <3> QED BY <2>1, <3>1, <3>2, <3>3, ChunkAppend DEF ChunkInv
  <2>3. CASE toStream' = toStream
    BY <2>1, <2>3, ChunkSame
  <2> QED BY <1>2, <2>2, <2>3 DEF Stdout, ReadOutput, PushHistory, ShellExits, ReadOutputFails
<1>3. CASE SendSizeBack
  <2>1. /\ toStream' = Append(toStream, SizeMsg(ptySize)) /\ stdinPc = "resized" /\ stdinPc' = "recv"
        /\ UNCHANGED <<wire, inHand, lastIn, response>>
    BY <1>3 DEF SendSizeBack, mainVars
  <2>2. SizeMsg(ptySize) \in StreamMsg /\ ~IsChunk(SizeMsg(ptySize))
    BY Kinds DEF Typed, TypeOK, SizeMsg, StreamMsg, IsChunk
  <2>3. MadeBy(SizeMsg(ptySize), lastIn', stdinPc', response')
        /\ \A x : Made(x) => MadeBy(x, lastIn', stdinPc', response') /\ InOrder(x, SizeMsg(ptySize))
    BY <2>1, <2>2 DEF Made, MadeBy, InOrder, IsChunk
  <2> QED BY <2>1, <2>2, <2>3, ChunkAppend
<1>4. CASE SendChunk
  <2> DEFINE m == Chunk(response.of, response.next)
  <2>1. /\ toStream' = Append(toStream, m) /\ stdinPc = "respond"
        /\ response' = [response EXCEPT !.next = @ + 1]
        /\ UNCHANGED <<wire, inHand, lastIn>>
    BY <1>4 DEF SendChunk, mainVars
  <2>2. response \in [of : Stamp, next : Nat, total : Nat] /\ response.of = lastIn
    BY <2>1 DEF Typed, TypeOK, ChunkInv
  <2>3. m \in StreamMsg
    BY <2>2 DEF Chunk, StreamMsg
  <2>4. response'.of = lastIn' /\ response'.next = response.next + 1 /\ response.next \in Nat
    BY <2>1, <2>2
  <2>5. IsChunk(m) /\ m.of = lastIn /\ m.part = response.next
    BY <2>2, Kinds DEF IsChunk
  <2> HIDE DEF m
  <2>6. lastIn \in Stamp
    BY <2>2
  <2>7. MadeBy(m, lastIn', stdinPc', response')
    BY <2>1, <2>4, <2>5, <2>6 DEF Made, MadeBy, Later, Stamp, IsChunk
  <2>8. ASSUME NEW x, IsChunk(x) => x.part \in Nat, Made(x) PROVE MadeBy(x, lastIn', stdinPc', response') /\ InOrder(x, m)
    BY <2>1, <2>2, <2>4, <2>5, <2>8 DEF Made, MadeBy, InOrder, IsChunk
  <2> QED BY <2>1, <2>3, <2>4, <2>7, <2>8, ChunkAppend
<1>5. CASE Absorb \/ Resize \/ RunCommand \/ Restart \/ StdinPanics
  <2>1. TakeInput /\ UNCHANGED <<wire, inHand, toStream>>
    BY <1>5 DEF Absorb, Resize, RunCommand, Restart, StdinPanics, TakeInput, mainVars
  <2>2. stdinPc' = "respond" => response'.of = lastIn'
    BY <1>5 DEF Absorb, Resize, RunCommand, Restart, StdinPanics, TakeInput
  <2> QED BY <2>1, <2>2, ChunkTake
<1>6. CASE Network \/ Exited \/ UNCHANGED vars
  <2>1. UNCHANGED <<wire, inHand, toStream, stdinPc, lastIn, response>>
    BY <1>6 DEF Network, ServerSends, Drain, LinkBreaks, Rest, Exited, vars, mainVars, stdinVars
  <2> QED BY <2>1, ChunkSame
<1> QED BY <1>1, <1>2, <1>3, <1>4, <1>5, <1>6 DEF Next, Stdin

-----------------------------------------------------------------------------
(* What reconnects cost an answer *)

Of(m, s) == IsChunk(m) /\ m.of = s

\* What the connections after a, up to b, can have taken.
Cost(a, b) == LostWithConnection * (b - a)

LEMMA Costs ==
  /\ SendBuf \in Nat
  /\ \A a, b \in Nat : Cost(a, b) \in Int /\ Cost(a, b + 1) = Cost(a, b) + SendBuf + 1
  /\ \A a \in Nat : Cost(a, a) = 0
  /\ \A a, b \in Nat : a <= b => Cost(a, b) >= 0
<1>1. SendBuf \in Nat
  BY SessionAssumption
<1>2. ASSUME NEW n \in Nat, NEW d \in Nat PROVE n * d \in Nat /\ n * 0 = 0
  OBVIOUS
<1>3. ASSUME NEW a \in Nat, NEW b \in Nat, a <= b PROVE Cost(a, b) >= 0
  <2>1. b - a \in Nat /\ LostWithConnection \in Nat
    BY <1>1, <1>3 DEF LostWithConnection
  <2>2. LostWithConnection * (b - a) \in Nat
    BY <1>2, <2>1
  <2> QED BY <2>2 DEF Cost
<1>4. ASSUME NEW n \in Int, NEW d \in Int PROVE n * d \in Int /\ n * (d + 1) = n * d + n
  OBVIOUS
<1>5. ASSUME NEW a \in Nat, NEW b \in Nat
      PROVE  Cost(a, b) \in Int /\ Cost(a, b + 1) = Cost(a, b) + SendBuf + 1
  <2>1. LostWithConnection \in Int /\ b - a \in Int /\ (b + 1) - a = (b - a) + 1
    BY <1>1 DEF LostWithConnection
  <2>2. /\ LostWithConnection * (b - a) \in Int
        /\ LostWithConnection * ((b - a) + 1) = LostWithConnection * (b - a) + LostWithConnection
    BY <1>4, <2>1
  <2> QED BY <1>1, <2>1, <2>2 DEF Cost, LostWithConnection
<1>6. ASSUME NEW a \in Nat PROVE Cost(a, a) = 0
  <2>1. a - a = 0 /\ LostWithConnection \in Nat
    BY <1>1 DEF LostWithConnection
  <2>2. LostWithConnection * 0 = 0
    BY <1>2, <2>1
  <2> QED BY <2>1, <2>2 DEF Cost
<1> QED BY <1>1, <1>3, <1>5, <1>6

\* Among the first n frames the chunk (s, part) finds its predecessor, but for what
\* the connections up to c took and slack more.
NearBy(w, n, slack, c, s, part) ==
  \/ part <= 1 + Cost(s.conn, c) + slack /\ \A i \in 1..n : ~Of(w[i].msg, s)
  \/ \E i \in 1..n : Of(w[i].msg, s) /\ part <= w[i].msg.part + 1 + Cost(w[i].conn, c) + slack

\* What the connection still holds, its number, and the message lost from the hands.
Now == [unsent |-> unsent, conn |-> conn, dropped |-> IF mainPc = "connect" THEN 1 ELSE 0]

\* The chunk (s, part) can be the next one of its answer to be written, however
\* many of the frames at the end of the wire turn out to be lost.
NearIn(w, now, s, part) ==
  \A cut \in 0..now.unsent : NearBy(w, Len(w) - cut, cut + now.dropped, now.conn, s, part)

\* The messages on their way before place i of the channel.
Ahead(hand, ch, i) == {hand} \cup {ch[h] : h \in 1..(i - 1)}

\* A chunk on its way follows its predecessor, if any of its answer is ahead.
FollowsIn(w, now, ahead, s, part) ==
  IF \E m \in ahead : Of(m, s)
  THEN \E m \in ahead : Of(m, s) /\ part = m.part + 1
  ELSE NearIn(w, now, s, part)

HandNear == IsChunk(inHand) => NearIn(wire, Now, inHand.of, inHand.part)
ChannelFollows ==
  \A i \in 1..Len(toStream) :
    IsChunk(toStream[i]) =>
      FollowsIn(wire, Now, Ahead(inHand, toStream, i), toStream[i].of, toStream[i].part)
ResponseFollows ==
  stdinPc = "respond" =>
    FollowsIn(wire, Now, Ahead(inHand, toStream, Len(toStream) + 1), response.of, response.next)

LossInv == HandNear /\ ChannelFollows /\ ResponseFollows /\ AnswerGapsBounded

\* AnswerGapsBounded, frame by frame.
LostAt(w, j) ==
  IsChunk(w[j].msg) => NearBy(w, j - 1, 0, w[j].conn, w[j].msg.of, w[j].msg.part)

\* The numbers that frames carry.
LEMMA FrameNumbers ==
  ASSUME NEW w \in Seq(Frame)
  PROVE  /\ Len(w) \in Nat /\ DOMAIN w = 1..Len(w)
         /\ \A i \in 1..Len(w) :
              /\ w[i].conn \in Nat
              /\ IsChunk(w[i].msg) => w[i].msg.part \in Nat /\ w[i].msg.of \in Stamp
<1>1. \A m \in StreamMsg \cup {Header} : IsChunk(m) => m.of \in Stamp /\ m.part \in Nat
  BY DEF StreamMsg, OutputMsg, Header, IsChunk
<1>2. \A i \in 1..Len(w) : w[i] \in Frame
  OBVIOUS
<1> QED BY <1>1, <1>2 DEF Frame

LEMMA WireNumbers ==
  ASSUME Typed
  PROVE  /\ Len(wire) \in Nat
         /\ \A i \in 1..Len(wire) :
              /\ wire[i].conn \in Nat
              /\ IsChunk(wire[i].msg) => wire[i].msg.part \in Nat /\ wire[i].msg.of \in Stamp
BY FrameNumbers DEF Typed, TypeOK

\* The two ways to say what the chunk at j may lack are the same.
LEMMA LostSame ==
  ASSUME NEW w \in Seq(Frame), NEW j \in 1..Len(w), IsChunk(w[j].msg)
  PROVE  LET of == w[j].msg.of
             Earlier == {i \in 1..(j - 1) : w[i].msg.kind = "chunk" /\ w[i].msg.of = of}
             C(from) == LostWithConnection * (w[j].conn - from)
         IN (\/ Earlier = {} /\ w[j].msg.part <= 1 + C(of.conn)
             \/ \E i \in Earlier : w[j].msg.part <= w[i].msg.part + 1 + C(w[i].conn)) <=> LostAt(w, j)
<1> DEFINE of == w[j].msg.of
           part == w[j].msg.part
           c == w[j].conn
           Earlier == {i \in 1..(j - 1) : w[i].msg.kind = "chunk" /\ w[i].msg.of = of}
<1>1. of \in Stamp /\ of.conn \in Nat /\ c \in Nat /\ part \in Nat
  BY FrameNumbers DEF Stamp
<1>2. Earlier = {i \in 1..(j - 1) : Of(w[i].msg, of)}
  BY DEF Of, IsChunk
<1>3. LostAt(w, j) <=> NearBy(w, j - 1, 0, c, of, part)
  BY DEF LostAt
<1> SUFFICES (\/ Earlier = {} /\ part <= 1 + Cost(of.conn, c)
              \/ \E i \in Earlier : part <= w[i].msg.part + 1 + Cost(w[i].conn, c)) <=> LostAt(w, j)
  BY DEF Cost
<1> HIDE DEF of, Earlier, part, c
<1>4. Cost(of.conn, c) \in Int
  BY <1>1, Costs
<1>5. ASSUME NEW i \in 1..(j - 1), Of(w[i].msg, of)
      PROVE  w[i].msg.part \in Nat /\ Cost(w[i].conn, c) \in Int
  <2>1. i \in 1..Len(w)
    BY FrameNumbers
  <2> QED BY <1>1, <1>5, <2>1, FrameNumbers, Costs DEF Of
<1>6. part <= 1 + Cost(of.conn, c) + 0 <=> part <= 1 + Cost(of.conn, c)
  BY <1>1, <1>4
<1>7. \A i \in 1..(j - 1) : Of(w[i].msg, of) =>
        (part <= w[i].msg.part + 1 + Cost(w[i].conn, c) + 0 <=> part <= w[i].msg.part + 1 + Cost(w[i].conn, c))
  BY <1>1, <1>5
<1>8. Earlier = {} <=> \A i \in 1..(j - 1) : ~Of(w[i].msg, of)
  BY <1>2
<1> QED BY <1>2, <1>3, <1>6, <1>7, <1>8 DEF NearBy

LEMMA LostFrames ==
  ASSUME wire \in Seq(Frame)
  PROVE  AnswerGapsBounded <=> \A j \in 1..Len(wire) : LostAt(wire, j)
<1>1. DOMAIN wire = 1..Len(wire)
  BY FrameNumbers
<1>2. \A j \in 1..Len(wire) : ~IsChunk(wire[j].msg) => LostAt(wire, j)
  BY DEF LostAt
<1> QED BY <1>1, <1>2, LostSame DEF AnswerGapsBounded, IsKind, IsChunk

\* At first there is no answer.
LEMMA InitLoss == Init => LossInv
BY Kinds DEF Init, LossInv, HandNear, ChannelFollows, ResponseFollows, AnswerGapsBounded, IsChunk

\* A chunk that was near is near again if the frames of its answer are the same
\* ones and what can be missing grew by at least as much as the part did.
LEMMA NearOn ==
  ASSUME NEW w, NEW n, NEW k \in Int, NEW c \in Nat, NEW w2, NEW n2, NEW k2 \in Int, NEW c2 \in Nat,
         NEW s \in Stamp, NEW part \in Nat, NEW part2 \in Nat,
         NearBy(w, n, k, c, s, part),
         \A i \in 1..n : Of(w[i].msg, s) =>
           i \in 1..n2 /\ w2[i] = w[i] /\ w[i].conn \in Nat /\ w[i].msg.part \in Nat,
         \A i \in 1..n2 : Of(w2[i].msg, s) => i \in 1..n /\ w2[i] = w[i],
         \A x \in Nat : (part2 - part) + Cost(x, c) + k <= Cost(x, c2) + k2
  PROVE  NearBy(w2, n2, k2, c2, s, part2)
<1>1. s.conn \in Nat
  BY DEF Stamp
<1>2. \A x \in Nat : Cost(x, c) \in Int /\ Cost(x, c2) \in Int
  BY Costs
<1>3. CASE part <= 1 + Cost(s.conn, c) + k /\ \A i \in 1..n : ~Of(w[i].msg, s)
  <2>1. Cost(s.conn, c) \in Int /\ Cost(s.conn, c2) \in Int
        /\ (part2 - part) + Cost(s.conn, c) + k <= Cost(s.conn, c2) + k2
    BY <1>1, <1>2
  <2>2. part2 <= 1 + Cost(s.conn, c2) + k2
    BY <1>3, <2>1
  <2>3. \A i \in 1..n2 : ~Of(w2[i].msg, s)
    BY <1>3
  <2> QED BY <2>2, <2>3 DEF NearBy
<1>4. ASSUME NEW i \in 1..n, Of(w[i].msg, s), part <= w[i].msg.part + 1 + Cost(w[i].conn, c) + k
      PROVE  NearBy(w2, n2, k2, c2, s, part2)
  <2>1. i \in 1..n2 /\ w2[i] = w[i] /\ w[i].conn \in Nat /\ w[i].msg.part \in Nat
    BY <1>4
  <2>2. Cost(w[i].conn, c) \in Int /\ Cost(w[i].conn, c2) \in Int
        /\ (part2 - part) + Cost(w[i].conn, c) + k <= Cost(w[i].conn, c2) + k2
    BY <1>2, <2>1
  <2> DEFINE p == w[i].msg.part
             x == Cost(w[i].conn, c)
             y == Cost(w[i].conn, c2)
  <2>3. p \in Nat /\ x \in Int /\ y \in Int /\ (part2 - part) + x + k <= y + k2 /\ part <= p + 1 + x + k
    BY <1>4, <2>1, <2>2
  <2> HIDE DEF p, x, y
  <2>4. part2 <= p + 1 + y + k2
    BY <2>3
  <2> QED BY <1>4, <2>1, <2>4 DEF NearBy, p, y
<1> QED BY <1>3, <1>4 DEF NearBy

\* The numbers of a state.
LEMMA NowTypes ==
  ASSUME Typed
  PROVE  /\ unsent \in Nat /\ unsent <= SendBuf /\ conn \in Nat /\ Now.unsent = unsent /\ Now.conn = conn
         /\ Now.dropped \in {0, 1} /\ (mainPc # "connect" => Now.dropped = 0)
BY SessionAssumption DEF Typed, TypeOK, Now

\* A chunk of one answer stays near while others are written, or none.
LEMMA NearGrows ==
  ASSUME Typed, Typed', NEW s \in Stamp, NEW part \in Nat, NearIn(wire, Now, s, part),
         \/ wire' = wire /\ unsent' <= unsent
         \/ \E m \in StreamMsg \cup {Header} : Write(m) /\ ~Of(m, s),
         conn' = conn, Now'.dropped >= Now.dropped
  PROVE  NearIn(wire', Now', s, part)
<1> DEFINE d == Now.dropped
           d2 == Now'.dropped
<1>1. /\ unsent \in Nat /\ unsent' \in Nat /\ conn \in Nat /\ d \in Int /\ d2 \in Int /\ d2 >= d
      /\ Now.unsent = unsent /\ Now.conn = conn /\ Now'.unsent = unsent' /\ Now'.conn = conn
  <2>1. unsent' \in Nat
    BY SessionAssumption DEF Typed, TypeOK
  <2>2. Now'.unsent = unsent' /\ Now'.conn = conn' /\ d2 \in {0, 1}
    BY DEF Now
  <2> QED BY <2>1, <2>2, NowTypes
<1>2. /\ Len(wire) \in Nat
      /\ \A i \in 1..Len(wire) : wire[i].conn \in Nat /\ (Of(wire[i].msg, s) => wire[i].msg.part \in Nat)
  BY WireNumbers DEF Of
<1> HIDE DEF d, d2
<1>3. \A cut \in 0..unsent : NearBy(wire, Len(wire) - cut, cut + d, conn, s, part)
  BY <1>1 DEF NearIn, d
<1>4. \A x \in Nat : Cost(x, conn) \in Int
  BY <1>1, Costs
<1>5. CASE wire' = wire /\ unsent' <= unsent
  <2>1. ASSUME NEW cut \in 0..unsent' PROVE NearBy(wire', Len(wire') - cut, cut + d2, conn, s, part)
    <3>1. cut \in 0..unsent /\ \A i \in 1..(Len(wire) - cut) : i \in 1..Len(wire)
      BY <1>1, <1>2, <1>5
    <3>2. \A x \in Nat : (part - part) + Cost(x, conn) + (cut + d) <= Cost(x, conn) + (cut + d2)
      BY <1>1, <1>4, <3>1
    <3>3. cut + d \in Int /\ cut + d2 \in Int /\ NearBy(wire, Len(wire) - cut, cut + d, conn, s, part)
      BY <1>1, <1>3, <3>1
    <3> QED BY <1>1, <1>2, <1>5, <3>1, <3>2, <3>3, NearOn
  <2> QED BY <1>1, <2>1 DEF NearIn, d2
<1>6. ASSUME NEW m \in StreamMsg \cup {Header}, Write(m), ~Of(m, s)
      PROVE  NearIn(wire', Now', s, part)
  <2>1. /\ Len(wire') = Len(wire) + 1 /\ wire'[Len(wire) + 1].msg = m
        /\ \A i \in 1..Len(wire) : wire'[i] = wire[i]
    BY <1>6, WireGrows
  <2>2. unsent' = unsent + 1
    BY <1>6 DEF Write
  <2>3. ASSUME NEW cut \in 0..unsent' PROVE NearBy(wire', Len(wire') - cut, cut + d2, conn, s, part)
    <3>1. CASE cut = 0
      <4>1. NearBy(wire, Len(wire) - 0, 0 + d, conn, s, part)
        <5>1. 0 \in 0..unsent
          BY <1>1
        <5> QED BY <1>3, <5>1, Zenon
      <4>2. /\ \A i \in 1..(Len(wire) - 0) : i \in 1..Len(wire) /\ i \in 1..(Len(wire') - 0) /\ wire'[i] = wire[i]
            /\ \A i \in 1..(Len(wire') - 0) :
                 (i \in 1..(Len(wire) - 0) /\ wire'[i] = wire[i]) \/ wire'[i].msg = m
        BY <1>2, <2>1
      <4>3. \A x \in Nat : (part - part) + Cost(x, conn) + (0 + d) <= Cost(x, conn) + (0 + d2)
        BY <1>1, <1>4
      <4>4. 0 + d \in Int /\ 0 + d2 \in Int
        BY <1>1
      <4>5. NearBy(wire', Len(wire') - 0, 0 + d2, conn, s, part)
        BY <1>1, <1>2, <1>6, <4>1, <4>2, <4>3, <4>4, NearOn
      <4> QED BY <3>1, <4>5
    <3>2. CASE cut # 0
      <4> DEFINE n == Len(wire) - (cut - 1)
      <4>1. cut - 1 \in 0..unsent /\ Len(wire') - cut = n /\ \A i \in 1..n : i \in 1..Len(wire)
        BY <1>1, <1>2, <2>1, <2>2, <3>2
      <4>2. NearBy(wire, n, (cut - 1) + d, conn, s, part)
        BY <1>3, <4>1
      <4> HIDE DEF n
      <4>3. \A i \in 1..n : i \in 1..Len(wire) /\ wire'[i] = wire[i]
        BY <2>1, <4>1
      <4>4. \A x \in Nat : (part - part) + Cost(x, conn) + ((cut - 1) + d) <= Cost(x, conn) + (cut + d2)
        BY <1>1, <1>4, <4>1
      <4>5. (cut - 1) + d \in Int /\ cut + d2 \in Int
        BY <1>1, <4>1
      <4>6. NearBy(wire', n, cut + d2, conn, s, part)
        BY <1>1, <1>2, <4>2, <4>3, <4>4, <4>5, NearOn
      <4> QED BY <4>1, <4>6
    <3> QED BY <3>1, <3>2
  <2> QED BY <1>1, <2>3 DEF NearIn, d2
<1> QED BY <1>5, <1>6

\* A connection that is opened takes no more from the end of the wire than it may.
LEMMA NearConnects ==
  ASSUME Typed, Typed', Connect, NEW s \in Stamp, NEW part \in Nat, NearIn(wire, Now, s, part)
  PROVE  NearIn(wire', Now', s, part)
<1>1. PICK lost \in 0..unsent : 1..Len(wire') = 1..(Len(wire) - lost)
  BY ConnectCuts
<1>2. /\ conn' = conn + 1 /\ unsent' = 0 /\ mainPc = "connect" /\ mainPc' = "header"
      /\ \A i \in 1..Len(wire') : i \in 1..Len(wire) /\ wire'[i] = wire[i]
  BY ConnectCuts DEF Connect
<1>3. /\ unsent \in Nat /\ unsent <= SendBuf /\ conn \in Nat /\ lost \in Nat /\ lost <= SendBuf
      /\ Now.unsent = unsent /\ Now.conn = conn /\ Now.dropped = 1
      /\ Now'.unsent = 0 /\ Now'.conn = conn + 1 /\ Now'.dropped = 0
  BY <1>1, <1>2, NowTypes, Costs DEF Now
<1>4. NearBy(wire, Len(wire) - lost, lost + 1, conn, s, part)
  BY <1>1, <1>3 DEF NearIn
<1>5. \A i \in 1..Len(wire) : wire[i].conn \in Nat /\ (Of(wire[i].msg, s) => wire[i].msg.part \in Nat)
  BY WireNumbers DEF Of
<1>6. \A x \in Nat : (part - part) + Cost(x, conn) + (lost + 1) <= Cost(x, conn + 1) + 0
  <2> TAKE x \in Nat
  <2>1. Cost(x, conn) \in Int /\ Cost(x, conn + 1) = Cost(x, conn) + SendBuf + 1 /\ SendBuf \in Nat
    BY <1>3, Costs
  <2> QED BY <1>3, <2>1
<1>7. lost + 1 \in Int /\ conn + 1 \in Nat
  BY <1>3
<1>8. NearBy(wire', Len(wire'), 0, conn + 1, s, part)
  BY <1>1, <1>2, <1>3, <1>4, <1>5, <1>6, <1>7, NearOn
<1>9. Len(wire') - 0 = Len(wire')
  BY DEF Typed, TypeOK
<1> QED BY <1>3, <1>8, <1>9 DEF NearIn

\* The frames of a wire keep to what was lost when others follow, or are cut off.
LEMMA LostKeeps ==
  ASSUME Typed, Typed', AnswerGapsBounded,
         \A i \in 1..Len(wire') :
           \/ i \in 1..Len(wire) /\ \A h \in 1..i : wire'[h] = wire[h]
           \/ LostAt(wire', i)
  PROVE  AnswerGapsBounded'
<1>1. ASSUME NEW j \in 1..Len(wire), \A h \in 1..j : wire'[h] = wire[h], LostAt(wire, j)
      PROVE  LostAt(wire', j)
  <2>1. j \in 1..j /\ \A i \in 1..(j - 1) : i \in 1..j
    BY WireNumbers
  <2> QED BY <1>1, <2>1 DEF LostAt, NearBy
<1>2. \A j \in 1..Len(wire) : LostAt(wire, j)
  BY LostFrames DEF Typed, TypeOK
<1>3. \A j \in 1..Len(wire') : LostAt(wire', j)
  BY <1>1, <1>2
<1>4. wire' \in Seq(Frame)
  BY DEF Typed, TypeOK
<1>5. DOMAIN wire' = 1..Len(wire')
  BY <1>4, FrameNumbers
<1> QED BY <1>3, <1>4, <1>5, LostSame DEF AnswerGapsBounded, IsKind, IsChunk

\* A step that leaves what is on its way alone, and what is near near.
LEMMA LossSame ==
  ASSUME Typed, LossInv, UNCHANGED <<inHand, toStream>>,
         \A s \in Stamp : \A part \in Nat : NearIn(wire, Now, s, part) => NearIn(wire', Now', s, part),
         stdinPc' = "respond" => UNCHANGED <<stdinPc, response>>,
         AnswerGapsBounded'
  PROVE  LossInv'
<1>1. ASSUME NEW s \in Stamp, NEW part \in Nat, NEW a, FollowsIn(wire, Now, a, s, part)
      PROVE  FollowsIn(wire', Now', a, s, part)
  BY <1>1 DEF FollowsIn
<1>2. HandNear'
  BY ChunkTypes DEF LossInv, HandNear, IsChunk
<1>3. ChannelFollows'
  BY <1>1, ChunkTypes DEF LossInv, ChannelFollows, IsChunk
<1>4. ResponseFollows'
  <2>1. response.next \in Nat /\ response.of \in Stamp
    BY DEF Typed, TypeOK
  <2> QED BY <1>1, <2>1 DEF LossInv, ResponseFollows
<1> QED BY <1>2, <1>3, <1>4 DEF LossInv

\* What is ahead in the channel does not depend on what is behind it.
LEMMA AheadSame ==
  ASSUME Typed, NEW m \in StreamMsg, toStream' = Append(toStream, m), NEW i \in 1..(Len(toStream) + 1)
  PROVE  Ahead(inHand, toStream', i) = Ahead(inHand, toStream, i)
<1>1. \A h \in 1..(i - 1) : toStream'[h] = toStream[h]
  BY ChannelGrows
<1> QED BY <1>1 DEF Ahead

\* A message that is put in the channel and follows what is ahead of it.
LEMMA LossAppend ==
  ASSUME Typed, Typed', LossInv, NEW m \in StreamMsg, toStream' = Append(toStream, m),
         UNCHANGED <<wire, unsent, inHand, mainPc, conn>>,
         IsChunk(m) => FollowsIn(wire, Now, Ahead(inHand, toStream, Len(toStream) + 1), m.of, m.part),
         stdinPc' = "respond" =>
           FollowsIn(wire, Now, Ahead(inHand, toStream', Len(toStream') + 1), response'.of, response'.next)
  PROVE  LossInv'
<1>1. /\ Len(toStream) \in Nat /\ Len(toStream') = Len(toStream) + 1
      /\ \A j \in 1..Len(toStream') :
           \/ j \in 1..Len(toStream) /\ toStream'[j] = toStream[j]
           \/ j = Len(toStream) + 1 /\ toStream'[j] = m
  BY ChannelGrows
<1>2. Now' = Now
  BY DEF Now
<1>3. \A i \in 1..(Len(toStream) + 1) : Ahead(inHand, toStream', i) = Ahead(inHand, toStream, i)
  BY AheadSame
<1>4. HandNear'
  BY <1>2 DEF LossInv, HandNear, IsChunk
<1>5. ASSUME NEW j \in 1..Len(toStream'), IsChunk(toStream'[j])
      PROVE  FollowsIn(wire, Now, Ahead(inHand, toStream', j), toStream'[j].of, toStream'[j].part)
  <2>1. j \in 1..(Len(toStream) + 1)
    BY <1>1
  <2>2. CASE j \in 1..Len(toStream) /\ toStream'[j] = toStream[j]
    BY <1>3, <1>5, <2>1, <2>2 DEF LossInv, ChannelFollows
  <2>3. CASE j = Len(toStream) + 1 /\ toStream'[j] = m
    BY <1>3, <1>5, <2>1, <2>3
  <2> QED BY <1>1, <2>2, <2>3
<1>6. ChannelFollows'
  BY <1>2, <1>5 DEF ChannelFollows, IsChunk
<1>7. ResponseFollows'
  BY <1>2 DEF ResponseFollows
<1>8. AnswerGapsBounded' = AnswerGapsBounded
  BY DEF AnswerGapsBounded, IsKind
<1> QED BY <1>4, <1>6, <1>7, <1>8 DEF LossInv

\* Of what is ahead of a chunk only its own answer counts.
LEMMA AheadCounts ==
  ASSUME NEW w, NEW now, NEW a, NEW b, NEW s, NEW part,
         \A m : Of(m, s) => (m \in a <=> m \in b)
  PROVE  FollowsIn(w, now, a, s, part) <=> FollowsIn(w, now, b, s, part)
BY DEF FollowsIn

\* What follows another one still does when the hands are emptied: in front of
\* it was the message they held, and nothing else of the answer, or not that one.
LEMMA FollowsOn ==
  ASSUME NEW w, NEW now, NEW w2, NEW now2, NEW hand, NEW ch, NEW i \in Nat, NEW s, NEW part \in Nat,
         FollowsIn(w, now, Ahead(hand, ch, i), s, part),
         \A h \in 1..(i - 1) : Of(ch[h], s) => ch[h].part \in Nat /\ ch[h].part < part,
         \A h \in 1..(i - 1) : InOrder(hand, ch[h]),
         IsChunk(hand) => hand.part \in Nat /\ NearIn(w2, now2, hand.of, hand.part + 1),
         NearIn(w, now, s, part) /\ ~Of(hand, s) => NearIn(w2, now2, s, part)
  PROVE  FollowsIn(w2, now2, Ahead(NoMsg, ch, i), s, part)
<1>1. ~Of(NoMsg, s)
  BY Kinds DEF Of, IsChunk
<1>2. CASE \E h \in 1..(i - 1) : Of(ch[h], s)
  <2>1. PICK h \in 1..(i - 1) : Of(ch[h], s)
    BY <1>2
  <2>2. PICK m \in Ahead(hand, ch, i) : Of(m, s) /\ part = m.part + 1
    BY <2>1 DEF FollowsIn, Ahead
  <2>3. m # hand
    <3> SUFFICES ASSUME m = hand PROVE FALSE
      OBVIOUS
    <3>1. IsChunk(hand) /\ hand.part \in Nat /\ part = hand.part + 1
      BY <2>2 DEF Of
    <3>2. ch[h].part \in Nat /\ ch[h].part < part
      BY <2>1
    <3>3. hand.part < ch[h].part
      BY <2>1, <2>2 DEF InOrder, Of
    <3> QED BY <3>1, <3>2, <3>3
  <2>4. m \in Ahead(NoMsg, ch, i)
    BY <2>3 DEF Ahead
  <2> QED BY <2>2, <2>4 DEF FollowsIn
<1>3. CASE ~(\E h \in 1..(i - 1) : Of(ch[h], s)) /\ Of(hand, s)
  <2>1. PICK m \in Ahead(hand, ch, i) : Of(m, s) /\ part = m.part + 1
    BY <1>3 DEF FollowsIn, Ahead
  <2>2. m = hand
    BY <1>3, <2>1 DEF Ahead
  <2>3. NearIn(w2, now2, s, part)
    BY <1>3, <2>1, <2>2 DEF Of
  <2> QED BY <1>1, <1>3, <2>3 DEF FollowsIn, Ahead
<1>4. CASE ~(\E h \in 1..(i - 1) : Of(ch[h], s)) /\ ~Of(hand, s)
  <2>1. NearIn(w, now, s, part)
    BY <1>4 DEF FollowsIn, Ahead
  <2> QED BY <1>1, <1>4, <2>1 DEF FollowsIn, Ahead
<1> QED BY <1>2, <1>3, <1>4

\* The message in the main thread's hands goes, to the wire or with its connection.
LEMMA LossHandGoes ==
  ASSUME Typed, Typed', LossInv, ChunkInv, inHand' = NoMsg,
         UNCHANGED <<toStream, stdinPc, response>>,
         IsChunk(inHand) => NearIn(wire', Now', inHand.of, inHand.part + 1),
         \A s \in Stamp : \A part \in Nat :
           NearIn(wire, Now, s, part) /\ ~Of(inHand, s) => NearIn(wire', Now', s, part),
         AnswerGapsBounded'
  PROVE  LossInv'
<1>1. ~IsChunk(inHand')
  BY Kinds DEF IsChunk
<1>2. HandNear'
  BY <1>1 DEF HandNear, IsChunk
<1>3. Len(toStream) \in Nat
  BY DEF Typed, TypeOK
<1>4. IsChunk(inHand) => inHand.part \in Nat
  BY ChunkTypes
<1>5. \A h \in 1..Len(toStream) : InOrder(inHand, toStream[h]) /\ (IsChunk(toStream[h]) => toStream[h].part \in Nat)
  BY ChunkTypes DEF ChunkInv, HandInOrder
<1>6. ASSUME NEW i \in 1..Len(toStream), IsChunk(toStream[i])
      PROVE  FollowsIn(wire', Now', Ahead(NoMsg, toStream, i), toStream[i].of, toStream[i].part)
  <2> DEFINE s == toStream[i].of
             part == toStream[i].part
  <2>1. FollowsIn(wire, Now, Ahead(inHand, toStream, i), s, part)
    BY <1>6 DEF LossInv, ChannelFollows
  <2>2. i \in Nat /\ part \in Nat /\ s \in Stamp /\ \A h \in 1..(i - 1) : h \in 1..Len(toStream) /\ h < i
    BY <1>3, <1>6, ChunkTypes
  <2>3. ASSUME NEW h \in 1..(i - 1), Of(toStream[h], s)
        PROVE  toStream[h].part \in Nat /\ toStream[h].part < part
    BY <1>5, <1>6, <2>2, <2>3 DEF ChunkInv, ChannelInOrder, InOrder, Of
  <2>4. \A h \in 1..(i - 1) : InOrder(inHand, toStream[h])
    BY <1>5, <2>2
  <2> HIDE DEF s, part
  <2>5. FollowsIn(wire', Now', Ahead(NoMsg, toStream, i), s, part)
    BY <1>4, <2>1, <2>2, <2>3, <2>4, FollowsOn
  <2> QED BY <2>5 DEF s, part
<1>7. ChannelFollows'
  BY <1>6 DEF ChannelFollows, IsChunk
<1>8. ASSUME stdinPc = "respond"
      PROVE  FollowsIn(wire', Now', Ahead(NoMsg, toStream, Len(toStream) + 1), response.of, response.next)
  <2>1. FollowsIn(wire, Now, Ahead(inHand, toStream, Len(toStream) + 1), response.of, response.next)
    BY <1>8 DEF LossInv, ResponseFollows
  <2>2. /\ Len(toStream) + 1 \in Nat /\ response.next \in Nat /\ response.of \in Stamp
        /\ \A h \in 1..((Len(toStream) + 1) - 1) : h \in 1..Len(toStream)
    BY <1>3 DEF Typed, TypeOK
  <2>3. ASSUME NEW h \in 1..((Len(toStream) + 1) - 1), Of(toStream[h], response.of)
        PROVE  toStream[h].part \in Nat /\ toStream[h].part < response.next
    BY <1>5, <1>8, <2>2, <2>3 DEF ChunkInv, ChannelMade, Made, MadeBy, Of
  <2>4. \A h \in 1..((Len(toStream) + 1) - 1) : InOrder(inHand, toStream[h])
    BY <1>5, <2>2
  <2> QED BY <1>4, <2>1, <2>2, <2>3, <2>4, FollowsOn
<1>9. ResponseFollows'
  BY <1>8 DEF ResponseFollows
<1> QED BY <1>2, <1>7, <1>9 DEF LossInv

\* A message that is lost with its connection is one more that can be missing.
LEMMA LossWriteFails ==
  ASSUME Typed, Typed', LossInv, ChunkInv, WriteLiveFails
  PROVE  LossInv'
<1>1. /\ mainPc = "write" /\ mainPc' = "connect" /\ inHand' = NoMsg
      /\ UNCHANGED <<wire, unsent, conn, toStream, stdinPc, response>>
  BY DEF WriteLiveFails, Disconnect, stdinVars
<1>2. /\ unsent \in Nat /\ conn \in Nat /\ Now.unsent = unsent /\ Now.conn = conn /\ Now.dropped = 0
      /\ Now'.unsent = unsent /\ Now'.conn = conn /\ Now'.dropped = 1
  BY <1>1, NowTypes DEF Now
<1>3. ASSUME NEW s \in Stamp, NEW part \in Nat, NearIn(wire, Now, s, part), NEW part2 \in {part, part + 1}
      PROVE  NearIn(wire', Now', s, part2)
  <2>1. ASSUME NEW cut \in 0..unsent PROVE NearBy(wire, Len(wire) - cut, cut + 1, conn, s, part2)
    <3> DEFINE n == Len(wire) - cut
    <3>1. NearBy(wire, n, cut + 0, conn, s, part)
      BY <1>2, <1>3 DEF NearIn
    <3>2. \A i \in 1..n : i \in 1..Len(wire)
      BY <1>2, WireNumbers
    <3> HIDE DEF n
    <3>3. \A i \in 1..n : Of(wire[i].msg, s) => wire[i].conn \in Nat /\ wire[i].msg.part \in Nat
      BY <3>2, WireNumbers DEF Of
    <3>4. \A x \in Nat : (part2 - part) + Cost(x, conn) + (cut + 0) <= Cost(x, conn) + (cut + 1)
      <4> TAKE x \in Nat
      <4>1. Cost(x, conn) \in Int /\ part2 - part \in {0, 1} /\ cut \in Nat
        BY <1>2, Costs
      <4> QED BY <4>1
    <3>5. cut + 0 \in Int /\ cut + 1 \in Int /\ part2 \in Nat
      BY <1>2
    <3>6. NearBy(wire, n, cut + 1, conn, s, part2)
      BY <1>2, <3>1, <3>3, <3>4, <3>5, NearOn
    <3> QED BY <3>6 DEF n
  <2> QED BY <1>1, <1>2, <2>1 DEF NearIn
<1>4. IsChunk(inHand) => NearIn(wire', Now', inHand.of, inHand.part + 1)
  BY <1>3, ChunkTypes DEF LossInv, HandNear
<1>5. AnswerGapsBounded'
  BY <1>1 DEF LossInv, AnswerGapsBounded, IsKind
<1> QED BY <1>1, <1>3, <1>4, <1>5, LossHandGoes

\* A chunk that is written is near enough for the one after it, whether the wire
\* keeps it or not.
LEMMA WrittenNear ==
  ASSUME Typed, Typed', WriteLive, IsChunk(inHand), NearIn(wire, Now, inHand.of, inHand.part)
  PROVE  NearIn(wire', Now', inHand.of, inHand.part + 1)
<1> DEFINE s == inHand.of
           part == inHand.part
<1>1. /\ Write(inHand) /\ inHand \in StreamMsg /\ mainPc = "write" /\ mainPc' = "keepalive" /\ conn' = conn
  BY DEF WriteLive, Rest, Typed, TypeOK, HandOK
<1>2. /\ Len(wire) \in Nat /\ Len(wire') = Len(wire) + 1
      /\ \A i \in 1..Len(wire) : wire'[i] = wire[i]
      /\ wire'[Len(wire) + 1].conn = conn /\ wire'[Len(wire) + 1].msg = inHand
      /\ unsent' = unsent + 1
  BY <1>1, WireGrows DEF Write
<1>3. /\ unsent \in Nat /\ conn \in Nat /\ Now.unsent = unsent /\ Now.conn = conn /\ Now.dropped = 0
      /\ Now'.unsent = unsent + 1 /\ Now'.conn = conn /\ Now'.dropped = 0
  BY <1>1, <1>2, NowTypes DEF Now
<1>4. s \in Stamp /\ part \in Nat /\ inHand.part = part
  BY ChunkTypes
<1>5. \A i \in 1..Len(wire) : wire[i].conn \in Nat /\ (Of(wire[i].msg, s) => wire[i].msg.part \in Nat)
  BY WireNumbers DEF Of
<1>6. Of(inHand, s) /\ NearIn(wire, Now, s, part)
  BY DEF Of
<1> SUFFICES NearIn(wire', Now', s, part + 1)
  OBVIOUS
<1> HIDE DEF s, part
<1>7. ASSUME NEW cut \in 0..(unsent + 1) PROVE NearBy(wire', Len(wire') - cut, cut + 0, conn, s, part + 1)
  <2>1. CASE cut = 0
    <3>1. Len(wire) + 1 \in 1..(Len(wire') - 0)
      BY <1>2
    <3>2. part + 1 <= part + 1 + Cost(conn, conn) + (0 + 0)
      BY <1>3, <1>4, Costs
    <3>3. NearBy(wire', Len(wire') - 0, 0 + 0, conn, s, part + 1)
      BY <1>2, <1>4, <1>6, <3>1, <3>2 DEF NearBy
    <3> QED BY <2>1, <3>3
  <2>2. CASE cut # 0
    <3> DEFINE n == Len(wire) - (cut - 1)
    <3>1. cut - 1 \in 0..unsent /\ Len(wire') - cut = n /\ \A i \in 1..n : i \in 1..Len(wire)
      BY <1>2, <1>3, <2>2
    <3>2. NearBy(wire, n, (cut - 1) + 0, conn, s, part)
      BY <1>3, <1>6, <3>1 DEF NearIn
    <3> HIDE DEF n
    <3>3. \A i \in 1..n : i \in 1..Len(wire) /\ wire'[i] = wire[i]
      BY <1>2, <3>1
    <3>4. \A x \in Nat : ((part + 1) - part) + Cost(x, conn) + ((cut - 1) + 0) <= Cost(x, conn) + (cut + 0)
      <4> TAKE x \in Nat
      <4>1. Cost(x, conn) \in Int /\ cut \in Int
        BY <1>3, Costs
      <4> QED BY <1>4, <4>1
    <3>5. (cut - 1) + 0 \in Int /\ cut + 0 \in Int /\ part + 1 \in Nat
      BY <1>3, <1>4
    <3>6. NearBy(wire', n, cut + 0, conn, s, part + 1)
      BY <1>3, <1>4, <1>5, <3>2, <3>3, <3>4, <3>5, NearOn
    <3> QED BY <3>1, <3>6
  <2> QED BY <2>1, <2>2
<1> QED BY <1>3, <1>7 DEF NearIn

\* A chunk that is written is as near to its predecessor as it was before.
LEMMA LossWriteLive ==
  ASSUME Typed, Typed', LossInv, ChunkInv, WriteLive
  PROVE  LossInv'
<1>1. /\ Write(inHand) /\ inHand \in StreamMsg /\ inHand' = NoMsg /\ mainPc = "write" /\ mainPc' = "keepalive"
      /\ UNCHANGED <<toStream, conn, stdinPc, response>>
  BY DEF WriteLive, Rest, stdinVars, Typed, TypeOK, HandOK
<1>2. /\ Len(wire) \in Nat /\ Len(wire') = Len(wire) + 1
      /\ \A i \in 1..Len(wire) : wire'[i] = wire[i]
      /\ wire'[Len(wire) + 1].conn = conn /\ wire'[Len(wire) + 1].msg = inHand
  BY <1>1, WireGrows
<1>3. /\ unsent \in Nat /\ conn \in Nat /\ Now.unsent = unsent /\ Now.conn = conn /\ Now.dropped = 0 /\ Now'.dropped = 0
  BY <1>1, NowTypes DEF Now
<1>4. IsChunk(inHand) => NearIn(wire', Now', inHand.of, inHand.part + 1)
  BY WrittenNear DEF LossInv, HandNear
<1>5. ASSUME NEW s \in Stamp, NEW part \in Nat, NearIn(wire, Now, s, part), ~Of(inHand, s)
      PROVE  NearIn(wire', Now', s, part)
  <2>1. \E m \in StreamMsg \cup {Header} : Write(m) /\ ~Of(m, s)
    BY <1>1, <1>5
  <2>2. conn' = conn /\ Now'.dropped >= Now.dropped
    BY <1>1, <1>3
  <2> QED BY <1>5, <2>1, <2>2, NearGrows
<1>6. ASSUME IsChunk(inHand) PROVE LostAt(wire', Len(wire) + 1)
  <2> DEFINE n == Len(wire)
  <2>1. NearBy(wire, n - 0, 0 + 0, conn, inHand.of, inHand.part)
    BY <1>3, <1>6 DEF LossInv, HandNear, NearIn
  <2>2. n - 0 = n /\ 0 + 0 = 0 /\ (n + 1) - 1 = n
    BY <1>2
  <2>3. \A i \in 1..n : wire'[i] = wire[i]
    BY <1>2
  <2>4. NearBy(wire', n, 0, conn, inHand.of, inHand.part)
    BY <2>1, <2>2, <2>3 DEF NearBy
  <2> QED BY <1>2, <2>2, <2>4 DEF LostAt
<1>7. AnswerGapsBounded'
  <2>1. \A i \in 1..Len(wire') : i \in 1..Len(wire) \/ i = Len(wire) + 1
    BY <1>2
  <2>2. \A i \in 1..Len(wire) : \A h \in 1..i : wire'[h] = wire[h]
    BY <1>2
  <2>3. LostAt(wire', Len(wire) + 1)
    BY <1>2, <1>6 DEF LostAt
  <2> QED BY <2>1, <2>2, <2>3, LostKeeps DEF LossInv
<1> QED BY <1>1, <1>4, <1>5, <1>7, LossHandGoes

\* The first message of the channel has only the hands before it, and they are empty.
LEMMA LossRecv ==
  ASSUME Typed, Typed', LossInv, Recv
  PROVE  LossInv'
<1>1. /\ Len(toStream) \in Nat \ {0} /\ Len(toStream') = Len(toStream) - 1
      /\ \A i \in 1..(Len(toStream) - 1) : toStream'[i] = toStream[i + 1]
      /\ inHand = NoMsg /\ inHand' = toStream[1] /\ mainPc = "recv" /\ mainPc' = "write"
      /\ UNCHANGED <<wire, unsent, conn, stdinPc, response>>
  BY RecvTakes DEF Recv
<1>2. Now' = Now /\ ~IsChunk(NoMsg)
  BY <1>1, Kinds DEF Now, IsChunk
<1>3. ASSUME NEW i \in 1..Len(toStream), NEW s, NEW m, Of(m, s)
      PROVE  m \in Ahead(inHand', toStream', i) <=> m \in Ahead(inHand, toStream, i + 1)
  <2>1. m # NoMsg
    BY <1>2, <1>3 DEF Of
  <2>2. ASSUME m \in Ahead(inHand', toStream', i) PROVE m \in Ahead(inHand, toStream, i + 1)
    <3>1. CASE m = toStream[1]
      <4>1. 1 \in 1..((i + 1) - 1)
        BY <1>1
      <4> QED BY <3>1, <4>1 DEF Ahead
    <3>2. ASSUME NEW h \in 1..(i - 1), m = toStream'[h] PROVE m \in Ahead(inHand, toStream, i + 1)
      <4>1. h \in 1..(Len(toStream) - 1) /\ h + 1 \in 1..((i + 1) - 1)
        BY <1>1
      <4>2. m = toStream[h + 1]
        BY <1>1, <3>2, <4>1
      <4> QED BY <4>1, <4>2 DEF Ahead
    <3> QED BY <1>1, <2>2, <3>1, <3>2 DEF Ahead
  <2>3. ASSUME m \in Ahead(inHand, toStream, i + 1) PROVE m \in Ahead(inHand', toStream', i)
    <3>1. PICK h \in 1..((i + 1) - 1) : m = toStream[h]
      BY <1>1, <2>1, <2>3 DEF Ahead
    <3>2. CASE h = 1
      BY <1>1, <3>1, <3>2 DEF Ahead
    <3>3. CASE h # 1
      <4>1. h - 1 \in 1..(i - 1) /\ h - 1 \in 1..(Len(toStream) - 1) /\ (h - 1) + 1 = h
        BY <1>1, <3>3
      <4>2. m = toStream'[h - 1]
        BY <1>1, <3>1, <4>1
      <4> QED BY <4>1, <4>2 DEF Ahead
    <3> QED BY <3>2, <3>3
  <2> QED BY <2>2, <2>3
<1>4. ASSUME NEW i \in 1..Len(toStream), NEW s, NEW part,
             FollowsIn(wire, Now, Ahead(inHand, toStream, i + 1), s, part)
      PROVE  FollowsIn(wire, Now, Ahead(inHand', toStream', i), s, part)
  <2>1. \A m : Of(m, s) => (m \in Ahead(inHand', toStream', i) <=> m \in Ahead(inHand, toStream, i + 1))
    BY <1>3
  <2> QED BY <1>4, <2>1, AheadCounts
<1>5. HandNear'
  <2> SUFFICES ASSUME IsChunk(inHand') PROVE NearIn(wire, Now, inHand'.of, inHand'.part)
    BY <1>1, <1>2 DEF HandNear, IsChunk
  <2>1. 1 \in 1..Len(toStream)
    BY <1>1
  <2>2. FollowsIn(wire, Now, Ahead(inHand, toStream, 1), inHand'.of, inHand'.part)
    BY <1>1, <2>1 DEF LossInv, ChannelFollows
  <2>3. Ahead(inHand, toStream, 1) = {NoMsg}
    BY <1>1 DEF Ahead
  <2> QED BY <1>2, <2>2, <2>3 DEF FollowsIn, Of
<1>6. ChannelFollows'
  <2>1. ASSUME NEW i \in 1..Len(toStream'), IsChunk(toStream'[i])
        PROVE  FollowsIn(wire, Now, Ahead(inHand', toStream', i), toStream'[i].of, toStream'[i].part)
    <3>1. i \in 1..Len(toStream) /\ i + 1 \in 1..Len(toStream) /\ toStream'[i] = toStream[i + 1]
      BY <1>1
    <3>2. FollowsIn(wire, Now, Ahead(inHand, toStream, i + 1), toStream'[i].of, toStream'[i].part)
      BY <2>1, <3>1 DEF LossInv, ChannelFollows
    <3> QED BY <1>4, <3>1, <3>2
  <2> QED BY <1>1, <1>2, <2>1 DEF ChannelFollows, IsChunk
<1>7. ResponseFollows'
  <2>1. Len(toStream) \in 1..Len(toStream) /\ Len(toStream') + 1 = Len(toStream)
    BY <1>1
  <2>2. stdinPc = "respond" =>
          FollowsIn(wire, Now, Ahead(inHand, toStream, Len(toStream) + 1), response.of, response.next)
    BY DEF LossInv, ResponseFollows
  <2>3. stdinPc = "respond" =>
          FollowsIn(wire, Now, Ahead(inHand', toStream', Len(toStream')+ 1), response.of, response.next)
    BY <1>4, <2>1, <2>2
  <2> QED BY <1>1, <1>2, <2>3 DEF ResponseFollows
<1>8. AnswerGapsBounded'
  BY <1>1 DEF LossInv, AnswerGapsBounded, IsKind
<1> QED BY <1>1, <1>5, <1>6, <1>7, <1>8 DEF LossInv

\* A new connection.
LEMMA LossConnect ==
  ASSUME Typed, Typed', LossInv, Connect
  PROVE  LossInv'
<1>1. UNCHANGED <<inHand, toStream, stdinPc, response>>
  BY DEF Connect, stdinVars
<1>2. \A i \in 1..Len(wire') : i \in 1..Len(wire) /\ \A h \in 1..i : wire'[h] = wire[h]
  <2>1. \A i \in 1..Len(wire') : i \in 1..Len(wire) /\ wire'[i] = wire[i]
    BY ConnectCuts
  <2>2. \A i \in 1..Len(wire') : \A h \in 1..i : h \in 1..Len(wire')
    BY DEF Typed, TypeOK
  <2> QED BY <2>1, <2>2
<1>3. AnswerGapsBounded'
  BY <1>2, LostKeeps DEF LossInv
<1> QED BY <1>1, <1>3, NearConnects, LossSame

\* A new answer has no chunk anywhere.
LEMMA NewAnswer ==
  ASSUME Typed, InputInv, ChunkInv, LossInv, RunCommand
  PROVE  FollowsIn(wire, Now, Ahead(inHand, toStream, Len(toStream) + 1), lastIn', 1)
<1>1. TakeInput
  BY DEF RunCommand
<1>2. lastIn \in Stamp /\ lastIn' \in Stamp /\ Later(lastIn, lastIn')
  BY <1>1, TakesLater
<1>3. ASSUME NEW m, IsChunk(m) => m.of \in Stamp, Made(m)
      PROVE  ~Of(m, lastIn')
  BY <1>2, <1>3 DEF Made, MadeBy, Later, Stamp, Of
<1>4. \A i \in 1..Len(wire) : ~Of(wire[i].msg, lastIn')
  BY <1>3, ChunkTypes DEF ChunkInv, WireMade
<1>5. \A m \in Ahead(inHand, toStream, Len(toStream) + 1) : ~Of(m, lastIn')
  <2>1. ~Of(inHand, lastIn') /\ \A i \in 1..Len(toStream) : ~Of(toStream[i], lastIn')
    BY <1>3, ChunkTypes DEF ChunkInv, ChannelMade
  <2>2. Len(toStream) \in Nat
    BY DEF Typed, TypeOK
  <2>3. \A h \in 1..((Len(toStream) + 1) - 1) : h \in 1..Len(toStream)
    BY <2>2
  <2> QED BY <2>1, <2>3 DEF Ahead
<1>6. lastIn'.conn \in Nat /\ lastIn'.conn <= conn
  <2>1. lastIn \in Stamp /\ toCmd \in Seq(Stamp) /\ inbound \in Seq(Stamp) /\ toCmd # <<>>
    BY <1>1 DEF Typed, TypeOK, TakeInput
  <2>2. lastIn' = toCmd[1] /\ Len(toCmd) \in Nat \ {0} /\ Len(inbound) \in Nat
    BY <1>1, <2>1 DEF TakeInput
  <2>3. /\ Len(Pending) = 1 + Len(toCmd) + Len(inbound)
        /\ \A i \in 2..(1 + Len(toCmd)) : Pending[i] = toCmd[i - 1]
    BY <2>1, PendingAt DEF Pending
  <2>4. 2 \in 2..(1 + Len(toCmd)) /\ 2 \in 1..Len(Pending) /\ 2 - 1 = 1
    BY <2>2, <2>3
  <2>5. Pending[2] = lastIn'
    BY <2>2, <2>3, <2>4
  <2> QED BY <1>2, <2>4, <2>5 DEF InputInv, Stamp
<1>7. ASSUME NEW cut \in 0..Now.unsent
      PROVE  NearBy(wire, Len(wire) - cut, cut + Now.dropped, Now.conn, lastIn', 1)
  <2>1. cut \in Nat /\ Now.dropped \in Nat /\ Now.conn = conn /\ conn \in Nat
    BY NowTypes
  <2>2. Cost(lastIn'.conn, conn) \in Int /\ Cost(lastIn'.conn, conn) >= 0
    BY <1>6, <2>1, Costs
  <2>3. 1 <= 1 + Cost(lastIn'.conn, Now.conn) + (cut + Now.dropped)
    BY <2>1, <2>2
  <2>4. \A i \in 1..(Len(wire) - cut) : i \in 1..Len(wire)
    BY <2>1, WireNumbers
  <2> QED BY <1>4, <2>3, <2>4 DEF NearBy
<1> QED BY <1>5, <1>7 DEF FollowsIn, NearIn

\* A message that is put in the channel is ahead of the next one.
LEMMA AheadAppend ==
  ASSUME Typed, NEW m \in StreamMsg, toStream' = Append(toStream, m)
  PROVE  Ahead(inHand, toStream', Len(toStream') + 1) = Ahead(inHand, toStream, Len(toStream) + 1) \cup {m}
<1>1. /\ Len(toStream) \in Nat /\ Len(toStream') = Len(toStream) + 1
      /\ \A i \in 1..Len(toStream) : toStream'[i] = toStream[i]
      /\ toStream'[Len(toStream) + 1] = m
      /\ \A j \in 1..Len(toStream') :
           \/ j \in 1..Len(toStream) /\ toStream'[j] = toStream[j]
           \/ j = Len(toStream) + 1 /\ toStream'[j] = m
  BY ChannelGrows
<1>2. (Len(toStream) + 1) - 1 = Len(toStream) /\ (Len(toStream') + 1) - 1 = Len(toStream')
  BY <1>1
<1>3. \A i \in 1..Len(toStream) : i \in 1..Len(toStream')
  BY <1>1
<1>4. Len(toStream) + 1 \in 1..Len(toStream')
  BY <1>1
<1>5. {toStream'[h] : h \in 1..Len(toStream')} = {toStream[h] : h \in 1..Len(toStream)} \cup {m}
  BY <1>1, <1>3, <1>4
<1> QED BY <1>2, <1>5 DEF Ahead

\* Every step keeps what an answer can have lost.
LEMMA LossStep ==
  ASSUME Typed, Typed', InputInv, ChunkInv, LossInv, [Next]_vars
  PROVE  LossInv'
<1>1. CASE WriteLive \/ WriteLiveFails \/ Recv \/ Connect
  BY <1>1, LossWriteLive, LossWriteFails, LossRecv, LossConnect
<1>2. CASE Main /\ ~(WriteLive \/ WriteLiveFails \/ Recv \/ Connect)
  <2>1. UNCHANGED <<stdinPc, response>>
    BY <1>2, MainNotStdin
  <2>2. /\ UNCHANGED toStream
        /\ wire' = wire \/ \E m \in StreamMsg \cup {Header} : Write(m) /\ ~IsChunk(m)
        /\ inHand' \in {inHand, NoMsg}
    BY <1>2, MainMoves
  <2>3. /\ conn' = conn /\ (mainPc # "connect" \/ mainPc' = "connect")
        /\ wire' = wire => unsent' <= unsent
    <3>1. Disconnect => UNCHANGED <<conn, wire, unsent>> /\ mainPc' = "connect"
      BY DEF Disconnect
    <3>2. ASSUME NEW m \in StreamMsg \cup {Header}, Write(m) PROVE wire' # wire
      BY <3>2, WireGrows
    <3>3. history \in Seq(OutputMsg) /\ (replayed < Len(history) => history[replayed + 1] \in StreamMsg)
      <4>1. replayed \in Nat /\ Len(history) \in Nat /\ history \in Seq(OutputMsg)
        BY DEF Typed, TypeOK
      <4>2. replayed < Len(history) => replayed + 1 \in 1..Len(history)
        BY <4>1
      <4> QED BY <4>1, <4>2 DEF StreamMsg
    <3>4. SizeMsg(ptySize) \in StreamMsg
      BY DEF Typed, TypeOK, SizeMsg, StreamMsg
    <3>5. unsent <= unsent
      BY NowTypes
    <3> QED BY <1>2, <3>1, <3>2, <3>3, <3>4, <3>5 DEF Main, ConnectFails, HandshakeFails, SendHeader, SendSize,
         Replay, ReplayDone, SetupFails, Read, ReadNothing, ReadFails, RecvTimeout, KeepAlive, KeepAliveFails,
         Rest, vars, mainVars
  <2>4. inHand' = inHand
    <3>1. mainPc # "write"
      BY <1>2 DEF Main, ConnectFails, HandshakeFails, SendHeader, SendSize, Replay, ReplayDone,
         SetupFails, Read, ReadNothing, ReadFails, RecvTimeout, KeepAlive, KeepAliveFails
    <3> QED BY <2>2, <3>1 DEF Typed, HandOK
  <2>5. Now'.dropped >= Now.dropped
    <3>1. Now.dropped \in {0, 1} /\ Now'.dropped \in {0, 1}
          /\ (mainPc # "connect" => Now.dropped = 0) /\ (mainPc' = "connect" => Now'.dropped = 1)
      BY DEF Now
    <3> QED BY <2>3, <3>1
  <2>6. ASSUME NEW s \in Stamp, NEW part \in Nat, NearIn(wire, Now, s, part) PROVE NearIn(wire', Now', s, part)
    <3>1. \/ wire' = wire /\ unsent' <= unsent
          \/ \E m \in StreamMsg \cup {Header} : Write(m) /\ ~Of(m, s)
      BY <2>2, <2>3 DEF Of
    <3> QED BY <2>3, <2>5, <2>6, <3>1, NearGrows
  <2>7. AnswerGapsBounded'
    <3>1. CASE wire' = wire
      BY <3>1 DEF LossInv, AnswerGapsBounded, IsKind
    <3>2. ASSUME NEW m \in StreamMsg \cup {Header}, Write(m), ~IsChunk(m) PROVE AnswerGapsBounded'
      <4>1. /\ Len(wire) \in Nat /\ Len(wire') = Len(wire) + 1
            /\ \A i \in 1..Len(wire) : wire'[i] = wire[i]
            /\ wire'[Len(wire) + 1].msg = m
        BY <3>2, WireGrows
      <4>2. \A i \in 1..Len(wire') : i \in 1..Len(wire) \/ i = Len(wire) + 1
        BY <4>1
      <4>3. \A i \in 1..Len(wire) : \A h \in 1..i : wire'[h] = wire[h]
        BY <4>1
      <4>4. LostAt(wire', Len(wire) + 1)
        BY <3>2, <4>1 DEF LostAt
      <4> QED BY <4>2, <4>3, <4>4, LostKeeps DEF LossInv
    <3> QED BY <2>2, <3>1, <3>2
  <2> QED BY <2>1, <2>2, <2>4, <2>6, <2>7, LossSame
<1>3. ASSUME UNCHANGED <<mainPc, conn, wire>>, unsent' <= unsent
      PROVE  /\ \A s \in Stamp : \A part \in Nat : NearIn(wire, Now, s, part) => NearIn(wire', Now', s, part)
             /\ AnswerGapsBounded'
  <2>1. Now'.dropped >= Now.dropped
    BY <1>3 DEF Now
  <2> QED BY <1>3, <2>1, NearGrows DEF LossInv, AnswerGapsBounded, IsKind
<1>n. unsent <= unsent
  BY NowTypes
<1>4. CASE Stdout
  <2>1. UNCHANGED <<mainPc, conn, wire, unsent, inHand, stdinPc, response>>
    BY <1>4, MainOnly, MainNotStdin DEF Stdout, ReadOutput, PushHistory, SendOutput, ShellExits, ReadOutputFails, mainVars
  <2>2. CASE SendOutput
    <3> DEFINE m == Output(produced)
    <3>1. m \in StreamMsg /\ ~IsChunk(m) /\ toStream' = Append(toStream, m)
      BY <2>2, Kinds DEF SendOutput, Typed, TypeOK, Output, StreamMsg, OutputMsg, IsChunk
    <3> HIDE DEF m
    <3>2. stdinPc' = "respond" =>
            FollowsIn(wire, Now, Ahead(inHand, toStream', Len(toStream') + 1), response'.of, response'.next)
      <4>1. Ahead(inHand, toStream', Len(toStream') + 1)
              = Ahead(inHand, toStream, Len(toStream) + 1) \cup {m}
        BY <3>1, AheadAppend
      <4>2. \A s : \A x : Of(x, s) => (x \in Ahead(inHand, toStream, Len(toStream) + 1)
                                         <=> x \in Ahead(inHand, toStream', Len(toStream') + 1))
        BY <3>1, <4>1 DEF Of
      <4>3. stdinPc = "respond" =>
              FollowsIn(wire, Now, Ahead(inHand, toStream, Len(toStream) + 1), response.of, response.next)
        BY DEF LossInv, ResponseFollows
      <4> QED BY <2>1, <4>2, <4>3, AheadCounts
    <3> QED BY <2>1, <3>1, <3>2, LossAppend
  <2>3. CASE toStream' = toStream
    BY <1>3, <1>n, <2>1, <2>3, LossSame
  <2> QED BY <1>4, <2>2, <2>3 DEF Stdout, ReadOutput, PushHistory, ShellExits, ReadOutputFails
<1>5. CASE SendSizeBack
  <2>1. /\ toStream' = Append(toStream, SizeMsg(ptySize)) /\ stdinPc' = "recv"
        /\ UNCHANGED <<wire, unsent, inHand, mainPc, conn>>
    BY <1>5 DEF SendSizeBack, mainVars
  <2>2. SizeMsg(ptySize) \in StreamMsg /\ ~IsChunk(SizeMsg(ptySize))
    BY Kinds DEF Typed, TypeOK, SizeMsg, StreamMsg, IsChunk
  <2> QED BY <2>1, <2>2, LossAppend
<1>6. CASE SendChunk
  <2> DEFINE m == Chunk(response.of, response.next)
  <2>1. /\ toStream' = Append(toStream, m) /\ stdinPc = "respond"
        /\ response' = [response EXCEPT !.next = @ + 1]
        /\ UNCHANGED <<wire, unsent, inHand, mainPc, conn, lastIn>>
    BY <1>6 DEF SendChunk, mainVars
  <2>2. response \in [of : Stamp, next : Nat, total : Nat]
    BY DEF Typed, TypeOK
  <2>3. m \in StreamMsg /\ IsChunk(m) /\ m.of = response.of /\ m.part = response.next
    BY <2>2, Kinds DEF Chunk, StreamMsg, IsChunk
  <2>4. response'.of = response.of /\ response'.next = response.next + 1
    BY <2>1, <2>2
  <2> HIDE DEF m
  <2>5. IsChunk(m) => FollowsIn(wire, Now, Ahead(inHand, toStream, Len(toStream) + 1), m.of, m.part)
    BY <2>1, <2>3 DEF LossInv, ResponseFollows
  <2>6. m \in Ahead(inHand, toStream', Len(toStream') + 1)
    BY <2>1, <2>3, AheadAppend
  <2>7. FollowsIn(wire, Now, Ahead(inHand, toStream', Len(toStream') + 1), response'.of, response'.next)
    BY <2>3, <2>4, <2>6 DEF FollowsIn, Of
  <2> QED BY <2>1, <2>3, <2>5, <2>7, LossAppend
<1>7. CASE RunCommand
  <2>1. /\ UNCHANGED <<mainPc, conn, wire, unsent, inHand, toStream>>
        /\ stdinPc' = "respond" /\ response'.of = lastIn' /\ response'.next = 1
    BY <1>7 DEF RunCommand, TakeInput, mainVars
  <2>2. Now' = Now
    BY <2>1 DEF Now
  <2>3. HandNear' /\ ChannelFollows' /\ AnswerGapsBounded'
    BY <2>1, <2>2 DEF LossInv, HandNear, ChannelFollows, AnswerGapsBounded, IsKind, IsChunk
  <2>4. ResponseFollows'
    BY <1>7, <2>1, <2>2, NewAnswer DEF ResponseFollows
  <2> QED BY <2>3, <2>4 DEF LossInv
<1>8. CASE Absorb \/ Resize \/ Restart \/ StdinPanics
  <2>1. UNCHANGED <<mainPc, conn, wire, unsent, inHand, toStream>> /\ (stdinPc' = "respond" => UNCHANGED <<stdinPc, response>>)
    BY <1>8 DEF Absorb, Resize, Restart, StdinPanics, TakeInput, mainVars
  <2> QED BY <1>3, <1>n, <2>1, LossSame
<1>9. CASE Network \/ Exited \/ UNCHANGED vars
  <2>1. UNCHANGED <<mainPc, conn, wire, inHand, toStream, stdinPc, response>> /\ unsent' <= unsent
    BY <1>9, NowTypes DEF Network, ServerSends, Drain, LinkBreaks, Rest, Exited, vars, mainVars, stdinVars
  <2> QED BY <1>3, <2>1, LossSame
<1> QED BY <1>1, <1>2, <1>4, <1>5, <1>6, <1>7, <1>8, <1>9 DEF Next, Stdin

-----------------------------------------------------------------------------
(* How often an output is shown *)

IsShown(w, c, i)   == w[i].conn = c /\ IsOutput(w[i].msg)
Rises(w, c, a, b)  == \A i, j \in a..b : i < j /\ IsShown(w, c, i) /\ IsShown(w, c, j) => w[i].msg.id < w[j].msg.id

\* The outputs on their way rise.
PathRises(hand, ch) ==
  \A j \in 1..Len(ch) :
    IsOutput(ch[j]) =>
      /\ IsOutput(hand) => hand.id < ch[j].id
      /\ \A i \in 1..(j - 1) : IsOutput(ch[i]) => ch[i].id < ch[j].id

\* An output written from the channel is past, and before all on their way.
IsPast(m, hand, ch, sent) ==
  /\ m.id <= sent
  /\ IsOutput(hand) => m.id < hand.id
  /\ \A j \in 1..Len(ch) : IsOutput(ch[j]) => m.id < ch[j].id

\* Up to frame s the replay wrote to the connection, then the loop: two runs that rise.
TwoRuns(w, c, s, hand, ch, sent) ==
  /\ Rises(w, c, 1, s) /\ Rises(w, c, s + 1, Len(w))
  /\ \A i \in (s + 1)..Len(w) : IsShown(w, c, i) => IsPast(w[i].msg, hand, ch, sent)

NothingShown == \A i \in 1..Len(wire) : ~IsShown(wire, conn, i)
ReplayRises ==
  /\ Rises(wire, conn, 1, Len(wire))
  /\ \A i \in 1..Len(wire) : IsShown(wire, conn, i) => wire[i].msg.id <= (Pushed - Len(history)) + replayed
LoopRises == \E s \in 0..Len(wire) : TwoRuns(wire, conn, s, inHand, toStream, Sent)

TwiceInv ==
  /\ OutputAtMostTwice
  /\ PathRises(inHand, toStream)
  /\ mainPc \in {"header", "size"} => NothingShown
  /\ mainPc = "replay" => ReplayRises
  /\ mainPc \in LoopPcs => LoopRises

\* At first nothing is shown.
LEMMA InitTwice == Init => TwiceInv
BY DEF Init, TwiceInv, OutputAtMostTwice, PathRises, LoopPcs

\* An output has a number.
LEMMA OutTypes ==
  ASSUME Typed
  PROVE  /\ \A m \in StreamMsg \cup {Header, NoMsg} : IsOutput(m) => m.id \in Nat
         /\ \A i \in 1..Len(wire) : wire[i].msg \in StreamMsg \cup {Header} /\ wire[i].conn \in Nat
         /\ inHand \in StreamMsg \cup {NoMsg}
         /\ \A i \in 1..Len(toStream) : toStream[i] \in StreamMsg
         /\ Len(wire) \in Nat /\ Len(toStream) \in Nat
<1>1. \A m \in StreamMsg \cup {Header, NoMsg} : IsOutput(m) => m.id \in Nat
  BY DEF StreamMsg, OutputMsg, Header, NoMsg, IsOutput
<1>2. \A i \in 1..Len(wire) : wire[i] \in Frame
  BY DEF Typed, TypeOK
<1>3. \A i \in 1..Len(wire) : wire[i].msg \in StreamMsg \cup {Header} /\ wire[i].conn \in Nat
  BY <1>2 DEF Frame
<1> QED BY <1>1, <1>3 DEF Typed, TypeOK

\* The channel keeps its order.
LEMMA PathStep ==
  ASSUME Typed, OutputInv, TwiceInv, [Next]_vars
  PROVE  PathRises(inHand', toStream')
<1> DEFINE oldPath == PathRises(inHand, toStream)
<1>1. oldPath /\ ~IsOutput(NoMsg)
  BY Kinds DEF TwiceInv, IsOutput
<1>2. CASE toStream' = toStream /\ inHand' \in {inHand, NoMsg}
  BY <1>1, <1>2 DEF PathRises
<1>3. CASE Recv
  <2>1. /\ Len(toStream) \in Nat \ {0} /\ Len(toStream') = Len(toStream) - 1
        /\ \A i \in 1..(Len(toStream) - 1) : toStream'[i] = toStream[i + 1]
        /\ inHand' = toStream[1]
    BY <1>3, RecvTakes
  <2>2. ASSUME NEW j \in 1..Len(toStream'), IsOutput(toStream'[j])
        PROVE  /\ IsOutput(inHand') => inHand'.id < toStream'[j].id
               /\ \A i \in 1..(j - 1) : IsOutput(toStream'[i]) => toStream'[i].id < toStream'[j].id
    <3>1. j + 1 \in 1..Len(toStream) /\ toStream'[j] = toStream[j + 1] /\ 1 \in 1..((j + 1) - 1)
      BY <2>1
    <3>2. \A i \in 1..(j - 1) : toStream'[i] = toStream[i + 1] /\ i + 1 \in 1..((j + 1) - 1)
      BY <2>1
    <3> QED BY <1>1, <2>1, <2>2, <3>1, <3>2 DEF PathRises
  <2> QED BY <2>2 DEF PathRises
<1>4. ASSUME NEW m \in StreamMsg, toStream' = Append(toStream, m), inHand' = inHand,
             IsOutput(m) => /\ IsOutput(inHand) => inHand.id < m.id
                            /\ \A i \in 1..Len(toStream) : IsOutput(toStream[i]) => toStream[i].id < m.id
      PROVE  PathRises(inHand', toStream')
  <2>1. /\ Len(toStream) \in Nat /\ Len(toStream') = Len(toStream) + 1
        /\ \A i \in 1..Len(toStream) : toStream'[i] = toStream[i]
        /\ \A j \in 1..Len(toStream') :
             \/ j \in 1..Len(toStream) /\ toStream'[j] = toStream[j]
             \/ j = Len(toStream) + 1 /\ toStream'[j] = m
    BY <1>4, ChannelGrows
  <2>2. ASSUME NEW j \in 1..Len(toStream'), IsOutput(toStream'[j])
        PROVE  /\ IsOutput(inHand') => inHand'.id < toStream'[j].id
               /\ \A i \in 1..(j - 1) : IsOutput(toStream'[i]) => toStream'[i].id < toStream'[j].id
    <3>1. \A i \in 1..(j - 1) : i \in 1..Len(toStream) /\ toStream'[i] = toStream[i]
      BY <2>1
    <3>2. CASE j \in 1..Len(toStream) /\ toStream'[j] = toStream[j]
      BY <1>1, <1>4, <2>2, <3>1, <3>2 DEF PathRises
    <3>3. CASE j = Len(toStream) + 1 /\ toStream'[j] = m
      BY <1>4, <2>2, <3>1, <3>3
    <3> QED BY <2>1, <3>2, <3>3
  <2> QED BY <2>2 DEF PathRises
<1>5. CASE Main
  <2>1. WriteLive => toStream' = toStream /\ inHand' = NoMsg
    BY DEF WriteLive
  <2>2. Connect => toStream' = toStream /\ inHand' = inHand
    BY DEF Connect
  <2> QED BY <1>2, <1>3, <1>5, <2>1, <2>2, MainMoves
<1>6. CASE SendOutput
  <2>1. /\ Output(produced) \in StreamMsg /\ toStream' = Append(toStream, Output(produced))
        /\ inHand' = inHand /\ outPc = "send" /\ produced \in Nat
    BY <1>6 DEF SendOutput, mainVars, Typed, TypeOK, Output, StreamMsg, OutputMsg
  <2>2. produced > 0 /\ Sent = produced - 1
    BY <2>1 DEF OutputInv, HistoryIsTail, Sent
  <2>3. /\ IsOutput(inHand) => inHand.id < produced
        /\ \A i \in 1..Len(toStream) : IsOutput(toStream[i]) => toStream[i].id < produced
    <3>1. \A k \in 1..Sent : k < produced
      BY <2>1, <2>2
    <3> QED BY <3>1 DEF OutputInv, QueuedIsPast
  <2> QED BY <1>4, <2>1, <2>3, Kinds
<1>7. CASE SendSizeBack
  <2>1. /\ SizeMsg(ptySize) \in StreamMsg /\ toStream' = Append(toStream, SizeMsg(ptySize))
        /\ inHand' = inHand /\ ~IsOutput(SizeMsg(ptySize))
    BY <1>7, Kinds DEF SendSizeBack, mainVars, Typed, TypeOK, SizeMsg, StreamMsg, IsOutput
  <2> QED BY <1>4, <2>1
<1>8. CASE SendChunk
  <2> DEFINE m == Chunk(response.of, response.next)
  <2>1. /\ m \in StreamMsg /\ toStream' = Append(toStream, m)
        /\ inHand' = inHand /\ ~IsOutput(m)
    BY <1>8, Kinds DEF SendChunk, mainVars, Typed, TypeOK, Chunk, StreamMsg, IsOutput
  <2> QED BY <1>4, <2>1
<1>9. CASE ~(Main \/ SendOutput \/ SendSizeBack \/ SendChunk)
  <2>1. UNCHANGED <<toStream, inHand>>
    BY <1>9 DEF Next, Stdout, ReadOutput, PushHistory, ShellExits, ReadOutputFails, Stdin, Absorb, Resize,
       RunCommand, Restart, StdinPanics, TakeInput, Network, ServerSends, Drain, LinkBreaks, Rest, Exited,
       vars, mainVars
  <2> QED BY <1>2, <2>1
<1> QED BY <1>5, <1>6, <1>7, <1>8, <1>9

\* A frame that is written third would make three of one output: there are no two before it.
LEMMA TwiceAppend ==
  ASSUME Typed, Typed', OutputAtMostTwice, NEW m \in StreamMsg \cup {Header}, Write(m),
         IsOutput(m) => \A i, j \in 1..Len(wire) :
           i < j /\ IsShown(wire, conn, i) /\ IsShown(wire, conn, j) => ~(wire[i].msg = m /\ wire[j].msg = m)
  PROVE  OutputAtMostTwice'
<1>1. /\ Len(wire) \in Nat /\ Len(wire') = Len(wire) + 1
      /\ \A i \in 1..Len(wire) : wire'[i] = wire[i]
      /\ wire'[Len(wire) + 1].conn = conn /\ wire'[Len(wire) + 1].msg = m
  BY WireGrows
<1>2. DOMAIN wire = 1..Len(wire) /\ DOMAIN wire' = 1..Len(wire')
  BY DEF Typed, TypeOK
<1>3. ASSUME NEW i \in 1..Len(wire'), NEW j \in 1..Len(wire'), NEW k \in 1..Len(wire'), i < j, j < k,
             wire'[i].msg.kind = "stdout", wire'[i].conn = wire'[k].conn, wire'[j].conn = wire'[k].conn,
             wire'[i].msg = wire'[k].msg, wire'[j].msg = wire'[k].msg
      PROVE  FALSE
  <2>1. i \in 1..Len(wire) /\ j \in 1..Len(wire) /\ wire'[i] = wire[i] /\ wire'[j] = wire[j]
    BY <1>1, <1>3
  <2>2. CASE k \in 1..Len(wire)
    BY <1>1, <1>2, <1>3, <2>1, <2>2 DEF OutputAtMostTwice, IsKind, SameConn
  <2>3. CASE k = Len(wire) + 1
    BY <1>1, <1>3, <2>1, <2>3 DEF IsShown, IsOutput
  <2> QED BY <1>1, <2>2, <2>3
<1>4. \A i, j, k \in 1..Len(wire') :
        i < j /\ j < k /\ wire'[i].msg.kind = "stdout" /\ wire'[i].conn = wire'[k].conn
          /\ wire'[j].conn = wire'[k].conn =>
          ~(wire'[i].msg = wire'[k].msg /\ wire'[j].msg = wire'[k].msg)
  BY <1>3
<1> QED BY <1>2, <1>4 DEF OutputAtMostTwice, IsKind, SameConn

\* What counts as queued grows with a send only, and what counts as recorded with a push only.
LEMMA OutputCounts ==
  ASSUME Typed, [Next]_vars
  PROVE  /\ ~SendOutput => Sent' = Sent
         /\ ~PushHistory => Pushed' = Pushed /\ history' = history
<1>1. produced \in Nat
  BY DEF Typed, TypeOK
<1>2. CASE ReadOutput
  <2>1. outPc = "read" /\ outPc' = "push" /\ produced' = produced + 1 /\ history' = history
    BY <1>2 DEF ReadOutput
  <2>2. Sent' = produced' - 1 /\ Pushed' = produced' - 1 /\ Sent = produced /\ Pushed = produced
    BY <2>1 DEF Sent, Pushed
  <2> QED BY <1>1, <2>1, <2>2
<1>3. CASE SendOutput
  BY <1>3 DEF SendOutput, Pushed
<1>4. CASE PushHistory
  BY <1>4 DEF PushHistory, Sent
<1>5. CASE ShellExits \/ ReadOutputFails
  BY <1>5 DEF ShellExits, ReadOutputFails, Sent, Pushed, stdoutVars
<1>6. CASE Main \/ Stdin \/ Network \/ UNCHANGED vars
  BY <1>6, StdoutOnly DEF Sent, Pushed
<1> QED BY <1>2, <1>3, <1>4, <1>5, <1>6 DEF Next, Stdout, Exited

\* The setup of a connection shows nothing, then the history in order.
LEMMA SetupStep ==
  ASSUME Typed, OutputInv, TwiceInv, [Next]_vars
  PROVE  /\ mainPc' \in {"header", "size"} => NothingShown'
         /\ mainPc' = "replay" => ReplayRises'
<1>1. /\ Len(wire) \in Nat /\ conn \in Nat
      /\ \A i \in 1..Len(wire) : wire[i].conn \in Nat /\ wire[i].conn <= conn
  BY OutTypes DEF Typed, TypeOK, OutputInv, ReplayIsShown
<1>2. ASSUME NEW m \in StreamMsg \cup {Header}, Write(m), ~IsOutput(m), NothingShown, conn' = conn
      PROVE  NothingShown'
  <2>1. \A i \in 1..Len(wire') : (i \in 1..Len(wire) /\ wire'[i] = wire[i]) \/ wire'[i].msg = m
    BY <1>2, WireGrows
  <2> QED BY <1>2, <2>1 DEF NothingShown, IsShown, IsOutput
<1>3. NothingShown' => ReplayRises'
  BY DEF NothingShown, ReplayRises, Rises
<1>4. CASE Connect
  <2>1. /\ conn' = conn + 1 /\ mainPc' = "header"
        /\ \A i \in 1..Len(wire') : i \in 1..Len(wire) /\ wire'[i] = wire[i]
    BY <1>1, <1>4, ConnectCuts DEF Connect
  <2>2. \A i \in 1..Len(wire') : wire'[i].conn # conn'
    BY <1>1, <2>1
  <2> QED BY <2>1, <2>2 DEF NothingShown, IsShown
<1>5. CASE SendHeader
  <2>1. Write(Header) /\ mainPc = "header" /\ mainPc' = "size" /\ conn' = conn /\ ~IsOutput(Header)
    BY <1>5, Kinds DEF SendHeader, IsOutput
  <2> QED BY <1>2, <2>1 DEF TwiceInv
<1>6. CASE SendSize
  <2>1. /\ Write(SizeMsg(ptySize)) /\ mainPc = "size" /\ mainPc' = "replay" /\ conn' = conn
        /\ ~IsOutput(SizeMsg(ptySize)) /\ SizeMsg(ptySize) \in StreamMsg
    BY <1>6, Kinds DEF SendSize, IsOutput, Typed, TypeOK, SizeMsg, StreamMsg
  <2> QED BY <1>2, <1>3, <2>1 DEF TwiceInv
<1>7. CASE Replay
  <2> DEFINE m == history[replayed + 1]
             k == (Pushed - Len(history)) + replayed
  <2>1. /\ Write(m) /\ mainPc = "replay" /\ mainPc' = "replay" /\ conn' = conn /\ replayed' = replayed + 1
        /\ replayed \in Nat /\ Len(history) \in Nat /\ replayed + 1 \in 1..Len(history)
    BY <1>7 DEF Replay, Typed, TypeOK
  <2>2. history' = history /\ Pushed' = Pushed
    BY <1>7, OutputCounts DEF Replay, Rest, Pushed, stdoutVars
  <2>3. m \in StreamMsg \cup {Header}
    BY <2>1 DEF Typed, TypeOK, StreamMsg
  <2>4. m = Output((Pushed - Len(history)) + (replayed + 1))
    BY <2>1 DEF OutputInv, HistoryIsTail
  <2>5. Pushed \in Nat /\ Len(history) <= Pushed
    <3>1. produced \in Nat
      BY DEF Typed, TypeOK
    <3> QED BY <3>1 DEF OutputInv, HistoryIsTail, Pushed
  <2>6. k \in Nat /\ m.id = k + 1 /\ (Pushed' - Len(history')) + replayed' = k + 1
    BY <2>1, <2>2, <2>4, <2>5, Kinds
  <2>7. Rises(wire, conn, 1, Len(wire)) /\ \A i \in 1..Len(wire) : IsShown(wire, conn, i) => wire[i].msg.id <= k
    BY <2>1 DEF TwiceInv, ReplayRises
  <2>8. \A i \in 1..Len(wire) : IsShown(wire, conn, i) => wire[i].msg.id \in Nat
    BY OutTypes DEF IsShown
  <2> HIDE DEF m, k
  <2>9. /\ Len(wire') = Len(wire) + 1
        /\ \A i \in 1..Len(wire) : wire'[i] = wire[i]
        /\ wire'[Len(wire) + 1].conn = conn /\ wire'[Len(wire) + 1].msg = m
    BY <2>1, <2>3, WireGrows
  <2>10. ASSUME NEW i \in 1..Len(wire') , IsShown(wire', conn', i)
         PROVE  \/ i \in 1..Len(wire) /\ wire'[i] = wire[i] /\ IsShown(wire, conn, i)
                \/ i = Len(wire) + 1 /\ wire'[i].msg.id = k + 1
    <3>1. i \in 1..Len(wire) \/ i = Len(wire) + 1
      BY <1>1, <2>9
    <3> QED BY <2>1, <2>6, <2>9, <2>10, <3>1 DEF IsShown
  <2>11. ASSUME NEW i \in 1..Len(wire'), NEW j \in 1..Len(wire'), i < j, IsShown(wire', conn', i), IsShown(wire', conn', j)
         PROVE  wire'[i].msg.id < wire'[j].msg.id
    <3>1. i \in 1..Len(wire) /\ wire'[i] = wire[i] /\ IsShown(wire, conn, i)
      <4>1. i # Len(wire) + 1
        BY <1>1, <2>9, <2>11
      <4> QED BY <2>10, <2>11, <4>1
    <3>2. CASE j \in 1..Len(wire) /\ wire'[j] = wire[j] /\ IsShown(wire, conn, j)
      BY <2>7, <2>11, <3>1, <3>2 DEF Rises
    <3>3. CASE j = Len(wire) + 1 /\ wire'[j].msg.id = k + 1
      <4>1. wire[i].msg.id \in Nat /\ wire[i].msg.id <= k
        BY <2>7, <2>8, <3>1
      <4> QED BY <2>6, <3>1, <3>3, <4>1
    <3> QED BY <2>10, <2>11, <3>2, <3>3
  <2>12. ASSUME NEW i \in 1..Len(wire'), IsShown(wire', conn', i) PROVE wire'[i].msg.id <= k + 1
    <3>1. CASE i \in 1..Len(wire) /\ wire'[i] = wire[i] /\ IsShown(wire, conn, i)
      BY <2>6, <2>7, <2>8, <3>1
    <3>2. CASE i = Len(wire) + 1 /\ wire'[i].msg.id = k + 1
      BY <2>6, <3>2
    <3> QED BY <2>10, <2>12, <3>1, <3>2
  <2>13. ReplayRises'
    <3>1. Rises(wire', conn', 1, Len(wire'))
      BY <2>11 DEF Rises
    <3> QED BY <2>6, <2>12, <3>1 DEF ReplayRises
  <2> QED BY <2>1, <2>13
<1>8. CASE Main /\ ~(Connect \/ SendHeader \/ SendSize \/ Replay)
  <2>1. Disconnect => mainPc' = "connect"
    BY DEF Disconnect
  <2>2. mainPc' \notin {"header", "size", "replay"}
    BY <1>8, <2>1 DEF Main, ConnectFails, HandshakeFails, ReplayDone, SetupFails, Read, ReadNothing, ReadFails,
       Recv, RecvTimeout, WriteLive, WriteLiveFails, KeepAlive, KeepAliveFails, vars, mainVars
  <2> QED BY <2>2
<1>9. CASE Stdout \/ Stdin \/ Network \/ Exited \/ UNCHANGED vars
  <2>1. UNCHANGED <<mainPc, conn, wire, replayed>>
    BY <1>9, MainOnly DEF Exited
  <2>2. NothingShown' <=> NothingShown
    BY <2>1 DEF NothingShown
  <2>3. mainPc = "replay" => UNCHANGED <<Pushed, history>>
    BY OutputCounts DEF PushHistory
  <2>4. mainPc = "replay" => ReplayRises'
    BY <2>1, <2>3 DEF TwiceInv, ReplayRises
  <2> QED BY <2>1, <2>2, <2>4 DEF TwiceInv
<1> QED BY <1>4, <1>5, <1>6, <1>7, <1>8, <1>9 DEF Next

\* The two runs stay what they are when no frame is written and what is past stays past.
LEMMA RunsKeep ==
  ASSUME Typed, LoopRises, UNCHANGED <<wire, conn>>,
         \A m : IsOutput(m) /\ m.id \in Nat /\ IsPast(m, inHand, toStream, Sent) => IsPast(m, inHand', toStream', Sent')
  PROVE  LoopRises'
<1>1. PICK s \in 0..Len(wire) : TwoRuns(wire, conn, s, inHand, toStream, Sent)
  BY DEF LoopRises
<1>2. s \in Nat /\ \A i \in (s + 1)..Len(wire) : i \in 1..Len(wire)
  BY OutTypes
<1>3. \A i \in (s + 1)..Len(wire) :
        IsShown(wire, conn, i) => IsOutput(wire[i].msg) /\ wire[i].msg.id \in Nat
                                    /\ IsPast(wire[i].msg, inHand, toStream, Sent)
  BY <1>1, <1>2, OutTypes DEF TwoRuns, IsShown
<1>4. \A i \in (s + 1)..Len(wire) :
        IsShown(wire, conn, i) => IsPast(wire[i].msg, inHand', toStream', Sent')
  BY <1>3
<1>5. TwoRuns(wire', conn', s, inHand', toStream', Sent')
  BY <1>1, <1>4 DEF TwoRuns
<1> QED BY <1>5 DEF LoopRises

\* An output written from the channel prolongs the second run.
LEMMA LoopWrites ==
  ASSUME Typed, OutputInv, TwiceInv, WriteLive
  PROVE  LoopRises'
<1>1. /\ Write(inHand) /\ inHand \in StreamMsg /\ inHand' = NoMsg /\ toStream' = toStream /\ conn' = conn
      /\ mainPc = "write" /\ UNCHANGED <<produced, outPc>>
  BY DEF WriteLive, Rest, stdoutVars, Typed, TypeOK, HandOK
<1>2. /\ Len(wire) \in Nat /\ Len(wire') = Len(wire) + 1
      /\ \A i \in 1..Len(wire) : wire'[i] = wire[i]
      /\ wire'[Len(wire) + 1].conn = conn /\ wire'[Len(wire) + 1].msg = inHand
  BY <1>1, WireGrows
<1>3. PICK s \in 0..Len(wire) : TwoRuns(wire, conn, s, inHand, toStream, Sent)
  BY <1>1 DEF TwiceInv, LoopPcs, LoopRises
<1>4. s \in Nat /\ s <= Len(wire)
  BY <1>2, <1>3
<1>5. ~IsOutput(NoMsg) /\ Sent' = Sent
  BY <1>1, Kinds DEF IsOutput, Sent
<1>6. IsOutput(inHand) => IsPast(inHand, NoMsg, toStream, Sent)
  <2>1. IsOutput(inHand) => inHand.id <= Sent
    <3>1. \A k \in 1..Sent : k <= Sent
      BY DEF Sent, Typed, TypeOK
    <3> QED BY <3>1 DEF OutputInv, QueuedIsPast
  <2> QED BY <1>5, <2>1 DEF IsPast, TwiceInv, PathRises
<1>7. ASSUME NEW i \in (s + 1)..Len(wire'), IsShown(wire', conn, i)
      PROVE  \/ /\ i \in (s + 1)..Len(wire) /\ wire'[i] = wire[i] /\ IsShown(wire, conn, i)
                /\ IsPast(wire[i].msg, inHand, toStream, Sent)
             \/ i = Len(wire) + 1 /\ wire'[i].msg = inHand /\ IsOutput(inHand)
  <2>1. CASE i = Len(wire) + 1
    BY <1>2, <1>7, <2>1 DEF IsShown
  <2>2. CASE i # Len(wire) + 1
    <3>1. i \in (s + 1)..Len(wire) /\ i \in 1..Len(wire)
      BY <1>2, <1>4, <2>2
    <3>2. wire'[i] = wire[i] /\ IsShown(wire, conn, i)
      BY <1>2, <1>7, <3>1 DEF IsShown
    <3> QED BY <1>3, <3>1, <3>2 DEF TwoRuns
  <2> QED BY <2>1, <2>2
<1>8. ASSUME NEW i \in (s + 1)..Len(wire'), IsShown(wire', conn, i)
      PROVE  IsPast(wire'[i].msg, NoMsg, toStream, Sent)
  BY <1>5, <1>6, <1>7, <1>8 DEF IsPast
<1>9. ASSUME NEW i \in (s + 1)..Len(wire'), NEW j \in (s + 1)..Len(wire'), i < j,
             IsShown(wire', conn, i), IsShown(wire', conn, j)
      PROVE  wire'[i].msg.id < wire'[j].msg.id
  <2>1. i \in (s + 1)..Len(wire) /\ wire'[i] = wire[i] /\ IsShown(wire, conn, i)
        /\ IsPast(wire[i].msg, inHand, toStream, Sent)
    <3>1. i # Len(wire) + 1
      BY <1>2, <1>4, <1>9
    <3> QED BY <1>7, <1>9, <3>1
  <2>2. CASE j \in (s + 1)..Len(wire) /\ wire'[j] = wire[j] /\ IsShown(wire, conn, j)
    BY <1>3, <1>9, <2>1, <2>2 DEF TwoRuns, Rises
  <2>3. CASE j = Len(wire) + 1 /\ wire'[j].msg = inHand /\ IsOutput(inHand)
    BY <2>1, <2>3 DEF IsPast
  <2> QED BY <1>7, <1>9, <2>2, <2>3
<1>10. Rises(wire', conn, 1, s)
  <2>1. \A i \in 1..s : i \in 1..Len(wire) /\ wire'[i] = wire[i]
    BY <1>2, <1>4
  <2> QED BY <1>3, <2>1 DEF TwoRuns, Rises, IsShown
<1>11. TwoRuns(wire', conn, s, NoMsg, toStream, Sent)
  BY <1>8, <1>9, <1>10 DEF TwoRuns, Rises
<1>12. s \in 0..Len(wire')
  BY <1>2, <1>4
<1> QED BY <1>1, <1>5, <1>11, <1>12 DEF LoopRises

\* In the loop there are two runs.
LEMMA LoopStep ==
  ASSUME Typed, OutputInv, TwiceInv, [Next]_vars, mainPc' \in LoopPcs
  PROVE  LoopRises'
<1>1. CASE ReplayDone
  <2>1. mainPc = "replay" /\ UNCHANGED <<wire, conn>>
    BY <1>1 DEF ReplayDone
  <2>2. Rises(wire, conn, 1, Len(wire)) /\ Len(wire) \in Nat
    BY <2>1, OutTypes DEF TwiceInv, ReplayRises
  <2>3. /\ \A i \in (Len(wire) + 1)..Len(wire) : FALSE
        /\ Len(wire) \in 0..Len(wire)
    BY <2>2
  <2>4. TwoRuns(wire, conn, Len(wire), inHand', toStream', Sent')
    BY <2>2, <2>3 DEF TwoRuns, Rises
  <2> QED BY <2>1, <2>3, <2>4 DEF LoopRises
<1>2. CASE WriteLive
  BY <1>2, LoopWrites
<1>3. CASE Recv
  <2>1. /\ Len(toStream) \in Nat \ {0} /\ Len(toStream') = Len(toStream) - 1
        /\ \A i \in 1..(Len(toStream) - 1) : toStream'[i] = toStream[i + 1]
        /\ inHand' = toStream[1] /\ mainPc = "recv"
        /\ UNCHANGED <<wire, conn, produced, outPc>>
    BY <1>3, RecvTakes
  <2>2. LoopRises /\ Sent' = Sent
    BY <2>1 DEF TwiceInv, LoopPcs, Sent
  <2>3. 1 \in 1..Len(toStream) /\ \A j \in 1..Len(toStream') : j + 1 \in 1..Len(toStream) /\ toStream'[j] = toStream[j + 1]
    BY <2>1
  <2>4. \A m : IsPast(m, inHand, toStream, Sent) => IsPast(m, inHand', toStream', Sent')
    BY <2>1, <2>2, <2>3 DEF IsPast
  <2> QED BY <2>1, <2>2, <2>4, RunsKeep
<1>4. CASE Main /\ ~(ReplayDone \/ WriteLive \/ Recv)
  <2>1. Disconnect => mainPc' = "connect"
    BY DEF Disconnect
  <2>2. mainPc \in LoopPcs /\ UNCHANGED <<wire, conn, inHand, toStream>>
    BY <1>4, <2>1 DEF Main, Connect, ConnectFails, HandshakeFails, SendHeader, SendSize, Replay, SetupFails, Read,
       ReadNothing, ReadFails, RecvTimeout, WriteLiveFails, KeepAlive, KeepAliveFails, vars, mainVars, LoopPcs
  <2>3. LoopRises /\ Sent' = Sent
    BY <1>4, <2>2, StdoutOnly DEF TwiceInv, Sent
  <2> QED BY <2>2, <2>3, RunsKeep
<1>5. CASE SendOutput
  <2>1. /\ UNCHANGED <<mainPc, wire, conn, inHand>> /\ toStream' = Append(toStream, Output(produced))
        /\ outPc = "send" /\ outPc' = "read" /\ produced' = produced /\ produced \in Nat
    BY <1>5 DEF SendOutput, mainVars, Typed, TypeOK
  <2>2. Output(produced) \in StreamMsg
    BY <2>1 DEF Output, StreamMsg, OutputMsg
  <2>3. produced > 0 /\ Sent = produced - 1 /\ Sent' = produced
    BY <2>1 DEF OutputInv, HistoryIsTail, Sent
  <2>4. \A j \in 1..Len(toStream') :
             \/ j \in 1..Len(toStream) /\ toStream'[j] = toStream[j]
             \/ toStream'[j] = Output(produced)
    BY <2>1, <2>2, ChannelGrows
  <2>5. ASSUME NEW m, IsOutput(m), m.id \in Nat, IsPast(m, inHand, toStream, Sent)
        PROVE  IsPast(m, inHand', toStream', Sent')
    <3>1. m.id < produced /\ m.id <= Sent'
      BY <2>1, <2>3, <2>5 DEF IsPast
    <3>2. \A j \in 1..Len(toStream') : IsOutput(toStream'[j]) => m.id < toStream'[j].id
      BY <2>4, <2>5, <3>1, Kinds DEF IsPast
    <3> QED BY <2>1, <2>5, <3>1, <3>2 DEF IsPast
  <2> QED BY <2>1, <2>5, RunsKeep DEF TwiceInv
<1>6. ASSUME NEW x \in StreamMsg, ~IsOutput(x), toStream' = Append(toStream, x),
             UNCHANGED <<mainPc, conn, wire, inHand, produced, outPc>>
      PROVE  LoopRises'
  <2>1. \A j \in 1..Len(toStream') :
             \/ j \in 1..Len(toStream) /\ toStream'[j] = toStream[j]
             \/ toStream'[j] = x
    BY <1>6, ChannelGrows
  <2>2. \A m : IsPast(m, inHand, toStream, Sent) => IsPast(m, inHand', toStream', Sent')
    BY <1>6, <2>1 DEF IsPast, Sent
  <2> QED BY <1>6, <2>2, RunsKeep DEF TwiceInv
<1>7. CASE SendSizeBack
  <2>1. /\ SizeMsg(ptySize) \in StreamMsg /\ toStream' = Append(toStream, SizeMsg(ptySize))
        /\ ~IsOutput(SizeMsg(ptySize))
    BY <1>7, Kinds DEF SendSizeBack, Typed, TypeOK, SizeMsg, StreamMsg, IsOutput
  <2> QED BY <1>6, <1>7, <2>1 DEF SendSizeBack, mainVars, stdoutVars
<1>8. CASE SendChunk
  <2> DEFINE x == Chunk(response.of, response.next)
  <2>1. x \in StreamMsg /\ toStream' = Append(toStream, x) /\ ~IsOutput(x)
    BY <1>8, Kinds DEF SendChunk, Typed, TypeOK, Chunk, StreamMsg, IsOutput
  <2> QED BY <1>6, <1>8, <2>1 DEF SendChunk, mainVars, stdoutVars
<1>9. CASE ~(Main \/ SendOutput \/ SendSizeBack \/ SendChunk)
  <2>1. UNCHANGED <<mainPc, wire, conn, toStream, inHand>>
    BY <1>9 DEF Next, Stdout, ReadOutput, PushHistory, ShellExits, ReadOutputFails, Stdin, Absorb, Resize,
       RunCommand, Restart, StdinPanics, TakeInput, Network, ServerSends, Drain, LinkBreaks, Rest, Exited,
       vars, mainVars
  <2>2. Sent' = Sent
    BY <1>9, OutputCounts
  <2> QED BY <2>1, <2>2, RunsKeep DEF TwiceInv
<1> QED BY <1>1, <1>2, <1>3, <1>4, <1>5, <1>7, <1>8, <1>9

\* Every step keeps the promise that no output is shown three times.
LEMMA TwiceStep ==
  ASSUME Typed, Typed', OutputInv, TwiceInv, [Next]_vars
  PROVE  TwiceInv'
<1>1. CASE wire' = wire
  BY <1>1, PathStep, SetupStep, LoopStep DEF TwiceInv, OutputAtMostTwice, IsKind, SameConn
<1>2. CASE WriteLive
  <2>1. Write(inHand) /\ inHand \in StreamMsg /\ mainPc = "write" /\ Len(wire) \in Nat
    BY <1>2, OutTypes DEF WriteLive, Typed, TypeOK, HandOK
  <2>2. PICK s \in 0..Len(wire) : TwoRuns(wire, conn, s, inHand, toStream, Sent)
    BY <2>1 DEF TwiceInv, LoopPcs, LoopRises
  <2>3. ASSUME NEW i \in 1..Len(wire), NEW j \in 1..Len(wire), i < j, IsOutput(inHand),
               IsShown(wire, conn, i), IsShown(wire, conn, j), wire[i].msg = inHand, wire[j].msg = inHand
        PROVE  FALSE
    <3>1. inHand.id \in Nat
      BY <2>1, <2>3, OutTypes
    <3>2. CASE j <= s
      <4>1. i \in 1..s /\ j \in 1..s
        BY <2>1, <2>2, <2>3, <3>2
      <4> QED BY <2>2, <2>3, <3>1, <4>1 DEF TwoRuns, Rises
    <3>3. CASE j > s
      <4>1. j \in (s + 1)..Len(wire)
        BY <2>1, <2>2, <3>3
      <4> QED BY <2>2, <2>3, <3>1, <4>1 DEF TwoRuns, IsPast
    <3> QED BY <2>1, <2>2, <3>2, <3>3
  <2>4. OutputAtMostTwice'
    BY <2>1, <2>3, TwiceAppend DEF TwiceInv
  <2> QED BY <2>4, PathStep, SetupStep, LoopStep DEF TwiceInv
<1>3. CASE Replay
  <2> DEFINE m == history[replayed + 1]
             k == (Pushed - Len(history)) + replayed
  <2>1. /\ Write(m) /\ mainPc = "replay" /\ replayed \in Nat /\ Len(history) \in Nat
        /\ replayed + 1 \in 1..Len(history) /\ Len(wire) \in Nat
    BY <1>3, OutTypes DEF Replay, Typed, TypeOK
  <2>2. m \in StreamMsg \cup {Header}
    <3>1. history \in Seq(OutputMsg)
      BY DEF Typed, TypeOK
    <3>2. m \in OutputMsg
      BY <2>1, <3>1
    <3> QED BY <3>2 DEF StreamMsg
  <2>3. m = Output((Pushed - Len(history)) + (replayed + 1))
    BY <2>1 DEF OutputInv, HistoryIsTail
  <2>4. Pushed \in Nat /\ Len(history) <= Pushed
    <3>1. produced \in Nat
      BY DEF Typed, TypeOK
    <3> QED BY <3>1 DEF OutputInv, HistoryIsTail, Pushed
  <2>5. k \in Nat /\ m.id = k + 1
    BY <2>1, <2>3, <2>4, Kinds
  <2>6. \A i \in 1..Len(wire) : IsShown(wire, conn, i) => wire[i].msg.id <= k
    BY <2>1 DEF TwiceInv, ReplayRises
  <2> HIDE DEF m, k
  <2>7. ~(k + 1 <= k)
    BY <2>5
  <2>8. \A i \in 1..Len(wire) : IsShown(wire, conn, i) => wire[i].msg # m
    BY <2>5, <2>6, <2>7
  <2>9. OutputAtMostTwice'
    BY <2>1, <2>2, <2>8, TwiceAppend DEF TwiceInv
  <2> QED BY <2>9, PathStep, SetupStep, LoopStep DEF TwiceInv
<1>4. CASE SendHeader \/ SendSize
  <2>1. Write(Header) \/ Write(SizeMsg(ptySize))
    BY <1>4 DEF SendHeader, SendSize
  <2>2. SizeMsg(ptySize) \in StreamMsg /\ ~IsOutput(SizeMsg(ptySize)) /\ ~IsOutput(Header)
    BY Kinds DEF Typed, TypeOK, SizeMsg, StreamMsg, IsOutput
  <2>3. OutputAtMostTwice'
    BY <2>1, <2>2, TwiceAppend DEF TwiceInv
  <2> QED BY <2>3, PathStep, SetupStep, LoopStep DEF TwiceInv
<1>c. CASE Connect
  <2>1. \A i \in 1..Len(wire') : i \in 1..Len(wire) /\ wire'[i] = wire[i]
    BY <1>c, ConnectCuts
  <2>2. DOMAIN wire = 1..Len(wire) /\ DOMAIN wire' = 1..Len(wire')
    BY DEF Typed, TypeOK
  <2>3. OutputAtMostTwice'
    BY <2>1, <2>2 DEF TwiceInv, OutputAtMostTwice, IsKind, SameConn
  <2> QED BY <2>3, PathStep, SetupStep, LoopStep DEF TwiceInv
<1>5. Disconnect => wire' = wire
  BY DEF Disconnect
<1>6. Main => wire' = wire \/ WriteLive \/ Replay \/ SendHeader \/ SendSize \/ Connect
  BY <1>5 DEF Main, ConnectFails, HandshakeFails, ReplayDone, SetupFails,
     Read, ReadNothing, ReadFails, Recv, RecvTimeout, WriteLiveFails, KeepAlive, KeepAliveFails, vars, mainVars
<1>7. Stdout \/ Stdin \/ Network \/ Exited \/ UNCHANGED vars => wire' = wire
  BY MainOnly DEF Exited
<1> QED BY <1>1, <1>2, <1>3, <1>4, <1>c, <1>6, <1>7 DEF Next

-----------------------------------------------------------------------------
(* The theorems *)

\* At first there is no size anywhere.
LEMMA InitSize == Init => SizeInv
BY DEF Init, SizeInv, NoSizeAfter, HasSentSize, LoopPcs

OrderInv == InputInv /\ SizeInv /\ ChunkInv /\ LossInv /\ TwiceInv

\* What the session puts in order stays in order, whatever is lost and opened again.
THEOREM OrderInvariant == Spec => [](Typed /\ OutputInv /\ OrderInv)
<1>1. Init => OrderInv
  BY InitInput, InitSize, InitChunk, InitLoss, InitTwice DEF OrderInv
<1>2. Typed /\ Typed' /\ OutputInv /\ OrderInv /\ [Next]_vars => OrderInv'
  BY InputStep, SizeStep, ChunkStep, LossStep, TwiceStep DEF OrderInv
<1> QED BY <1>1, <1>2, OutputInvariant, PTL DEF Spec

\* Input is handled in the order it was sent and without holes: what a lost
\* connection takes with it is the end of that connection's input.
THEOREM InputStaysInOrder == Spec => []InputInOrder
<1>1. OrderInv => InputInOrder
  BY DEF OrderInv, InputInv
<1> QED BY <1>1, OrderInvariant, PTL

\* When no size is on its way, the last one written to the connection is the
\* pty's, whatever resizes and reconnects came in between.
THEOREM SizeStaysFresh == Spec => []SizeFresh
<1>1. Typed /\ OrderInv => SizeFresh
  <2> SUFFICES ASSUME Typed, OrderInv, InLoop, stdinPc # "resized", inHand.kind # "size",
                      \A i \in DOMAIN toStream : toStream[i].kind # "size"
               PROVE  \E i \in DOMAIN wire :
                        /\ wire[i].conn = conn /\ wire[i].msg = SizeMsg(ptySize)
                        /\ \A j \in (i + 1)..Len(wire) : ~IsKind(j, "size")
    BY DEF SizeFresh
  <2>1. DOMAIN wire = 1..Len(wire) /\ DOMAIN toStream = 1..Len(toStream)
    BY DEF Typed, TypeOK
  <2>2. ~SizeQueued /\ HasSentSize /\ ~IsSize(inHand)
    BY <2>1, Kinds DEF SizeQueued, HasSentSize, InLoop, IsSize
  <2> QED BY <2>1, <2>2 DEF OrderInv, SizeInv, SizeWritten
<1> QED BY <1>1, OrderInvariant, PTL

\* Over all connections the chunks of an answer go out in order, each at most once.
THEOREM ChunksStayInOrder == Spec => []ChunksInOrder
<1>1. Typed /\ OrderInv => ChunksInOrder
  <2>1. Typed => DOMAIN wire = 1..Len(wire)
    BY DEF Typed, TypeOK
  <2> QED BY <2>1 DEF OrderInv, ChunkInv, WireInOrder, InOrder, IsChunk, ChunksInOrder, IsKind
<1> QED BY <1>1, OrderInvariant, PTL

\* Within one connection an answer has no gap; from one connection to a later one it
\* lacks at most what the lost ones took: what the socket held, and what was in hand.
THEOREM GapsAreBounded == Spec => []AnswerGapsBounded
<1>1. OrderInv => AnswerGapsBounded
  BY DEF OrderInv, LossInv
<1> QED BY <1>1, OrderInvariant, PTL

\* On one connection no output is shown three times.
THEOREM ShownAtMostTwice == Spec => []OutputAtMostTwice
<1>1. OrderInv => OutputAtMostTwice
  BY DEF OrderInv, TwiceInv
<1> QED BY <1>1, OrderInvariant, PTL

=============================================================================
