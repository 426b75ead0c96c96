------------------------- MODULE ShellSession_proofs -------------------------
(***************************************************************************)
(* Proofs about ShellSession for every value of its constants.             *)
(*                                                                         *)
(*   1. the types are an invariant, with HandOK;                           *)
(*   2. OutputInv is one, shown conjunct by conjunct (HistoryStep,         *)
(*      QueuedStep, ReplayStep, NoSkipStep, ExtendStep), each by the       *)
(*      actions that can disturb it;                                       *)
(*   3. the invariants the runs check, and the refinement of OutputFeed,   *)
(*      follow from it.                                                    *)
(***************************************************************************)
EXTENDS ShellSession, SequenceTheorems, TLAPS

-----------------------------------------------------------------------------
(* Types *)

\* A message in the main thread's hands is a real one exactly while it writes it.
HandOK == (mainPc = "write") <=> (inHand # NoMsg)

Typed == TypeOK /\ HandOK

\* A frame that Write appends is a frame.
LEMMA WriteType ==
  ASSUME TypeOK, NEW m \in StreamMsg \cup {Header}, Write(m)
  PROVE  unsent' \in 0..SendBuf /\ wire' \in Seq(Frame)
<1>1. unsent' \in 0..SendBuf
  BY SessionAssumption DEF TypeOK, Write
<1>2. PICK whole \in BOOLEAN : wire' = Append(wire, [conn |-> conn, msg |-> m, whole |-> whole])
  BY DEF Write
<1>3. [conn |-> conn, msg |-> m, whole |-> whole] \in Frame
  BY DEF TypeOK, Frame
<1> QED BY <1>1, <1>2, <1>3 DEF TypeOK

\* A new connection takes from the frames only their end: at most what the
\* socket still held.
LEMMA ConnectCuts ==
  ASSUME Typed, Connect
  PROVE  /\ wire' \in Seq(Frame)
         /\ Len(wire') <= Len(wire)
         /\ \A i \in 1..Len(wire') : i \in 1..Len(wire) /\ wire'[i] = wire[i]
         /\ \E lost \in 0..unsent : 1..Len(wire') = 1..(Len(wire) - lost)
<1>1. PICK lost \in 0..unsent : wire' = SubSeq(wire, 1, Len(wire) - lost)
  BY DEF Connect
<1>2. /\ wire \in Seq(Frame) /\ Len(wire) \in Nat
      /\ lost \in Nat /\ Len(wire) - lost \in Int /\ Len(wire) - lost <= Len(wire)
  BY SessionAssumption, <1>1 DEF Typed, TypeOK
<1>3. \A i \in 1..(Len(wire) - lost) : wire[i] \in Frame
  BY <1>2
<1>4. /\ wire' \in Seq(Frame)
      /\ Len(wire') = IF 1 <= Len(wire) - lost THEN Len(wire) - lost - 1 + 1 ELSE 0
      /\ \A i \in 1..(Len(wire) - lost - 1 + 1) : wire'[i] = wire[1 + i - 1]
  BY <1>1, <1>2, <1>3, SubSeqProperties
<1>5. Len(wire') <= Len(wire) /\ 1..Len(wire') = 1..(Len(wire) - lost)
  BY <1>2, <1>4
<1>6. \A i \in 1..Len(wire') : i \in 1..Len(wire) /\ wire'[i] = wire[i]
  <2> TAKE i \in 1..Len(wire')
  <2>1. i \in 1..Len(wire) /\ i \in 1..(Len(wire) - lost - 1 + 1) /\ 1 + i - 1 = i
    BY <1>2, <1>4
  <2> QED BY <1>4, <2>1
<1> QED BY <1>1, <1>4, <1>5, <1>6

\* Disconnect keeps the types.
LEMMA DisconnectType ==
  ASSUME Typed, Disconnect
  PROVE  Typed'
<1>1. alive' \in BOOLEAN
  BY SessionAssumption DEF Disconnect
<1>2. inbound' \in Seq(Stamp)
  BY DEF Disconnect
<1>3. HandOK'
  BY DEF Disconnect, HandOK
<1>4. TypeOK'
  BY <1>1, <1>2 DEF Typed, TypeOK, Disconnect, LoopPcs, stdoutVars, stdinVars
<1> QED BY <1>3, <1>4 DEF Typed

\* The initial state has the right types.
LEMMA InitTyped == Init => Typed
<1> SUFFICES ASSUME Init PROVE Typed
  OBVIOUS
<1>1. HandOK
  BY DEF Init, HandOK
<1>2. lastIn \in Stamp
  BY DEF Init, Stamp
<1>3. response \in [of : Stamp, next : Nat, total : Nat]
  BY DEF Init, NoResponse, Stamp
<1>4. /\ wire \in Seq(Frame) /\ inbound \in Seq(Stamp) /\ toStream \in Seq(StreamMsg)
      /\ toCmd \in Seq(Stamp) /\ history \in Seq(OutputMsg)
  BY EmptySeq DEF Init
<1>5. unsent \in 0..SendBuf /\ ptySize \in Sizes
  BY SessionAssumption DEF Init
<1>6. TypeOK
  BY <1>2, <1>3, <1>4, <1>5 DEF Init, TypeOK, LoopPcs
<1> QED BY <1>1, <1>6 DEF Typed

\* Every step of the main thread keeps the types.
LEMMA MainTyped == Typed /\ Main => Typed'
<1> SUFFICES ASSUME Typed, Main PROVE Typed'
  OBVIOUS
<1> USE DEF Typed, TypeOK, HandOK, LoopPcs
<1>1. CASE Connect
  <2>1. inbound' \in Seq(Stamp)
    BY <1>1 DEF Connect
  <2>2. unsent' \in 0..SendBuf
    BY <1>1, SessionAssumption DEF Connect
  <2>3. HandOK'
    BY <1>1 DEF Connect
  <2>4. /\ conn' = conn + 1
        /\ kept' = FALSE
        /\ replayed' = 0 /\ sentIn' = 0
    BY <1>1 DEF Connect
  <2>5. /\ mainPc' = "header" /\ link' = "up"
        /\ UNCHANGED <<alive, inHand, toStream, toCmd, history, stdoutVars, stdinVars>>
        /\ wire' \in Seq(Frame)
    BY <1>1, ConnectCuts DEF Connect
  <2>6. TypeOK'
    <3>1. kept' \in BOOLEAN
      BY <2>4
    <3>2. conn' \in Nat /\ replayed' \in Nat /\ sentIn' \in Nat
      BY <2>4
    <3> QED BY <2>1, <2>2, <2>5, <3>1, <3>2 DEF stdoutVars, stdinVars
  <2> QED BY <2>3, <2>6
<1>2. CASE ConnectFails \/ HandshakeFails
  BY <1>2 DEF ConnectFails, HandshakeFails, vars, mainVars, netVars, stdoutVars, stdinVars
<1>3. CASE SendHeader
  BY <1>3, WriteType DEF SendHeader, Rest, stdoutVars, stdinVars
<1>4. CASE SendSize
  <2>1. SizeMsg(ptySize) \in StreamMsg
    BY DEF SizeMsg, StreamMsg
  <2> QED BY <1>4, <2>1, WriteType DEF SendSize, Rest, stdoutVars, stdinVars
<1>5. CASE Replay
  <2>1. history[replayed + 1] \in StreamMsg
    BY <1>5 DEF Replay, StreamMsg
  <2> QED BY <1>5, <2>1, WriteType DEF Replay, Rest, stdoutVars, stdinVars
<1>6. CASE ReplayDone
  BY <1>6 DEF ReplayDone, Rest, stdoutVars, stdinVars
<1>7. CASE SetupFails \/ ReadFails \/ WriteLiveFails \/ KeepAliveFails
  BY <1>7, DisconnectType DEF SetupFails, ReadFails, WriteLiveFails, KeepAliveFails
<1>8. CASE Read
  <2>1. PICK k \in 1..Len(inbound) :
          /\ toCmd' = toCmd \o SubSeq(inbound, 1, k)
          /\ inbound' = SubSeq(inbound, k + 1, Len(inbound))
    BY <1>8 DEF Read
  <2>2. toCmd' \in Seq(Stamp) /\ inbound' \in Seq(Stamp)
    BY <2>1
  <2> QED BY <1>8, <2>2 DEF Read, stdoutVars, stdinVars
<1>9. CASE ReadNothing
  BY <1>9 DEF ReadNothing, Rest, stdoutVars, stdinVars
<1>10. CASE Recv
  <2>1. inHand' \in StreamMsg /\ toStream' \in Seq(StreamMsg)
    BY <1>10 DEF Recv
  <2>2. NoMsg \notin StreamMsg
    BY DEF NoMsg, StreamMsg, OutputMsg
  <2> QED BY <1>10, <2>1, <2>2 DEF Recv, Rest, stdoutVars, stdinVars
<1>11. CASE RecvTimeout
  BY <1>11 DEF RecvTimeout, Rest, stdoutVars, stdinVars
<1>12. CASE WriteLive
  BY <1>12, WriteType DEF WriteLive, Rest, stdoutVars, stdinVars
<1>13. CASE KeepAlive
  BY <1>13 DEF KeepAlive, Rest, stdoutVars, stdinVars
<1> QED BY <1>1, <1>2, <1>3, <1>4, <1>5, <1>6, <1>7, <1>8, <1>9, <1>10, <1>11, <1>12, <1>13
        DEF Main

\* Every step of the stdout thread keeps the types.
LEMMA StdoutTyped == Typed /\ Stdout => Typed'
<1> SUFFICES ASSUME Typed, Stdout PROVE Typed'
  OBVIOUS
<1> USE DEF Typed, TypeOK, HandOK, mainVars, netVars, stdoutVars, stdinVars
<1>1. Output(produced) \in OutputMsg /\ Output(produced) \in StreamMsg
  BY DEF Output, OutputMsg, StreamMsg
<1>2. CASE ReadOutput
  BY <1>2 DEF ReadOutput
<1>3. CASE PushHistory
  <2>1. Trimmed(history) \in Seq(OutputMsg)
    BY SessionAssumption DEF Trimmed
  <2> QED BY <1>1, <1>3, <2>1 DEF PushHistory
<1>4. CASE SendOutput
  BY <1>1, <1>4 DEF SendOutput
<1>5. CASE ShellExits
  BY <1>5 DEF ShellExits
<1>6. CASE ReadOutputFails
  BY <1>6 DEF ReadOutputFails
<1> QED BY <1>2, <1>3, <1>4, <1>5, <1>6 DEF Stdout

\* Every step of the stdin thread keeps the types.
LEMMA StdinTyped == Typed /\ Stdin => Typed'
<1> SUFFICES ASSUME Typed, Stdin PROVE Typed'
  OBVIOUS
<1> USE DEF Typed, TypeOK, HandOK, mainVars, netVars, stdoutVars, stdinVars
<1>1. ASSUME TakeInput PROVE lastIn' \in Stamp /\ toCmd' \in Seq(Stamp)
  BY <1>1 DEF TakeInput
<1>2. CASE Absorb \/ Resize \/ Restart \/ StdinPanics
  BY <1>1, <1>2 DEF Absorb, Resize, Restart, StdinPanics, TakeInput
<1>3. CASE RunCommand
  <2>1. PICK total \in 1..MaxChunks : response' = [of |-> lastIn', next |-> 1, total |-> total]
    BY <1>3 DEF RunCommand
  <2>2. response' \in [of : Stamp, next : Nat, total : Nat]
    BY <1>1, <1>3, <2>1 DEF RunCommand
  <2> QED BY <1>1, <1>3, <2>2 DEF RunCommand, TakeInput
<1>4. CASE SendSizeBack
  <2>1. SizeMsg(ptySize) \in StreamMsg
    BY DEF SizeMsg, StreamMsg
  <2> QED BY <1>4, <2>1 DEF SendSizeBack
<1>5. CASE SendChunk
  <2>1. Chunk(response.of, response.next) \in StreamMsg
    BY DEF Chunk, StreamMsg
  <2>2. response' = [response EXCEPT !.next = response.next + 1]
    BY <1>5 DEF SendChunk
  <2>3. response.next + 1 \in Nat
    OBVIOUS
  <2>4. response' \in [of : Stamp, next : Nat, total : Nat]
    BY <2>2, <2>3
  <2> QED BY <1>5, <2>1, <2>4 DEF SendChunk
<1> QED BY <1>2, <1>3, <1>4, <1>5 DEF Stdin

\* The network's steps keep the types.
LEMMA NetworkTyped == Typed /\ Network => Typed'
<1> SUFFICES ASSUME Typed, Network PROVE Typed'
  OBVIOUS
<1> USE DEF Typed, TypeOK, HandOK, stdoutVars, stdinVars
<1>1. CASE ServerSends
  <2>1. inbound' \in Seq(Stamp)
    BY <1>1 DEF ServerSends, Stamp
  <2> QED BY <1>1, <2>1 DEF ServerSends, mainVars
<1>2. CASE Drain
  BY <1>2, SessionAssumption DEF Drain, Rest
<1>3. CASE LinkBreaks
  BY <1>3 DEF LinkBreaks, Rest
<1> QED BY <1>1, <1>2, <1>3 DEF Network

\* A step that changes nothing changes no type.
LEMMA StutterTyped == Typed /\ UNCHANGED vars => Typed'
BY DEF Typed, TypeOK, HandOK, vars, mainVars, netVars, stdoutVars, stdinVars

\* Every value the three threads share or keep always has its type, and the
\* main thread holds a message exactly while it writes it.
THEOREM TypeInvariant == Spec => []Typed
<1>1. Typed /\ [Next]_vars => Typed'
  BY MainTyped, StdoutTyped, StdinTyped, NetworkTyped, StutterTyped DEF Next, Exited
<1> QED BY InitTyped, <1>1, PTL DEF Spec

-----------------------------------------------------------------------------
(* Who changes what *)

\* Only the stdout thread counts, records and moves through outputs.
LEMMA StdoutOnly ==
  Main \/ Stdin \/ Network \/ UNCHANGED vars => UNCHANGED <<history, produced, outPc>>
<1> USE DEF stdoutVars
<1>1. Disconnect => UNCHANGED <<history, produced, outPc>>
  BY DEF Disconnect
<1>2. Main => UNCHANGED <<history, produced, outPc>>
  BY <1>1 DEF Main, Connect, ConnectFails, HandshakeFails, SendHeader, SendSize, Replay, ReplayDone,
     SetupFails, Read, ReadNothing, ReadFails, Recv, RecvTimeout, WriteLive, WriteLiveFails,
     KeepAlive, KeepAliveFails, Rest, vars
<1>3. Stdin => UNCHANGED <<history, produced, outPc>>
  BY DEF Stdin, Absorb, Resize, SendSizeBack, RunCommand, SendChunk, Restart, StdinPanics, TakeInput
<1>4. Network => UNCHANGED <<history, produced, outPc>>
  BY DEF Network, ServerSends, Drain, LinkBreaks, Rest
<1> QED BY <1>2, <1>3, <1>4 DEF vars

\* Only the main thread writes frames and moves through a connection.
LEMMA MainOnly ==
  Stdout \/ Stdin \/ Network \/ UNCHANGED vars =>
    UNCHANGED <<mainPc, conn, wire, inHand, replayed>>
<1> USE DEF mainVars
<1>1. Stdout => UNCHANGED <<mainPc, conn, wire, inHand, replayed>>
  BY DEF Stdout, ReadOutput, PushHistory, SendOutput, ShellExits, ReadOutputFails
<1>2. Stdin => UNCHANGED <<mainPc, conn, wire, inHand, replayed>>
  BY DEF Stdin, Absorb, Resize, SendSizeBack, RunCommand, SendChunk, Restart, StdinPanics, TakeInput
<1>3. Network => UNCHANGED <<mainPc, conn, wire, inHand, replayed>>
  BY DEF Network, ServerSends, Drain, LinkBreaks, Rest
<1> QED BY <1>1, <1>2, <1>3 DEF vars

\* What is shown depends on the frames and on the current connection only.
LEMMA ShownSame == UNCHANGED <<wire, conn>> => Shown' = Shown
BY DEF Shown, IsKind

\* A frame written to the current connection shows the output it carries.
LEMMA WriteShows ==
  ASSUME Typed, NEW m \in StreamMsg \cup {Header}, Write(m), conn' = conn
  PROVE  Shown' = IF IsOutput(m) THEN Shown \cup {m.id} ELSE Shown
<1>1. PICK whole \in BOOLEAN : wire' = Append(wire, [conn |-> conn, msg |-> m, whole |-> whole])
  BY DEF Write
<1>2. wire \in Seq(Frame)
  BY DEF Typed, TypeOK
<1>3. /\ Len(wire') = Len(wire) + 1
      /\ \A i \in 1..Len(wire) : wire'[i] = wire[i]
      /\ wire'[Len(wire) + 1].conn = conn /\ wire'[Len(wire) + 1].msg = m
  BY <1>1, <1>2
<1>4. DOMAIN wire' = 1..(Len(wire) + 1) /\ DOMAIN wire = 1..Len(wire) /\ Len(wire) \in Nat
  BY <1>1, <1>2, <1>3
<1> QED BY <1>3, <1>4 DEF Shown, IsKind, IsOutput

\* A frame goes to the current connection, the newest there is.
LEMMA WriteIsNew ==
  ASSUME Typed, NEW m \in StreamMsg \cup {Header}, Write(m), conn' = conn,
         \A i \in 1..Len(wire) : wire[i].conn <= conn
  PROVE  \A i \in 1..Len(wire') : wire'[i].conn <= conn'
<1>1. PICK whole \in BOOLEAN : wire' = Append(wire, [conn |-> conn, msg |-> m, whole |-> whole])
  BY DEF Write
<1>2. wire \in Seq(Frame) /\ conn \in Nat
  BY DEF Typed, TypeOK
<1> QED BY <1>1, <1>2

\* A trimmed history is the end of the history it was made from.
LEMMA TrimmedIsTail ==
  ASSUME NEW h \in Seq(OutputMsg)
  PROVE  LET n == IF Len(h) > MaxHistory THEN MaxHistory ELSE Len(h)
         IN  /\ Trimmed(h) \in Seq(OutputMsg)
             /\ Len(Trimmed(h)) = n
             /\ \A i \in 1..n : Trimmed(h)[i] = h[(Len(h) - n) + i]
<1> DEFINE n == IF Len(h) > MaxHistory THEN MaxHistory ELSE Len(h)
<1>1. CASE Len(h) > MaxHistory
  <2>1. Trimmed(h) = SubSeq(h, Len(h) - MaxHistory + 1, Len(h))
    BY <1>1 DEF Trimmed
  <2>2. Len(h) - MaxHistory + 1 \in 1..Len(h) /\ Len(h) \in Nat /\ MaxHistory \in Nat
    BY <1>1, SessionAssumption
  <2>3. Trimmed(h) \in Seq(OutputMsg) /\ Len(Trimmed(h)) = MaxHistory
    BY <2>1, <2>2
  <2>4. \A i \in 1..MaxHistory : Trimmed(h)[i] = h[(Len(h) - MaxHistory) + i]
    BY <2>1, <2>2
  <2> QED BY <1>1, <2>3, <2>4
<1>2. CASE ~(Len(h) > MaxHistory)
  BY <1>2 DEF Trimmed
<1> QED BY <1>1, <1>2

-----------------------------------------------------------------------------
(* The output side *)

\* The initial state satisfies the invariant of the output side.
LEMMA InitOutput == Init => OutputInv
<1> SUFFICES ASSUME Init PROVE OutputInv
  OBVIOUS
<1>1. Len(history) = 0 /\ Len(toStream) = 0 /\ Len(wire) = 0
  BY DEF Init
<1>2. HistoryIsTail
  BY <1>1, SessionAssumption DEF Init, HistoryIsTail, Pushed
<1>3. QueuedIsPast
  BY <1>1 DEF Init, QueuedIsPast, IsOutput, NoMsg
<1>4. ReplayIsShown
  BY <1>1 DEF Init, ReplayIsShown
<1>5. NoOutputSkipped /\ QueuedExtends
  BY DEF Init, NoOutputSkipped, QueuedExtends, InLoop, LoopPcs
<1> QED BY <1>2, <1>3, <1>4, <1>5 DEF OutputInv

\* The history stays the end of what was recorded.
LEMMA HistoryStep ==
  ASSUME Typed, HistoryIsTail, [Next]_vars
  PROVE  HistoryIsTail'
<1> USE DEF HistoryIsTail, Pushed
<1>0. produced \in Nat /\ history \in Seq(OutputMsg) /\ Len(history) \in Nat /\ MaxHistory \in Nat \ {0}
  BY SessionAssumption DEF Typed, TypeOK
<1>1. CASE Main \/ Stdin \/ Network \/ Exited \/ UNCHANGED vars
  BY <1>1, StdoutOnly DEF Exited
<1>2. CASE ReadOutput
  BY <1>0, <1>2 DEF ReadOutput
<1>3. CASE PushHistory
  <2> DEFINE n == IF Len(history) > MaxHistory THEN MaxHistory ELSE Len(history)
  <2>1. /\ Trimmed(history) \in Seq(OutputMsg)
        /\ Len(Trimmed(history)) = n
        /\ \A i \in 1..n : Trimmed(history)[i] = history[(Len(history) - n) + i]
    BY <1>0, TrimmedIsTail
  <2>2. /\ history' = Append(Trimmed(history), Output(produced))
        /\ outPc = "push" /\ outPc' = "send" /\ produced' = produced /\ produced > 0
    BY <1>3 DEF PushHistory
  <2>3. Len(history') = n + 1 /\ n \in Nat
    BY <1>0, <2>1, <2>2
  <2>4. n + 1 <= produced /\ n <= MaxHistory /\ (n + 1 = produced \/ n = MaxHistory)
    BY <1>0, <2>2
  <2>5. ASSUME NEW i \in 1..(n + 1) PROVE history'[i] = Output((produced - (n + 1)) + i)
    <3>1. CASE i = n + 1
      BY <1>0, <2>1, <2>2, <2>3, <3>1
    <3>2. CASE i \in 1..n
      <4>0. Trimmed(history)[i] = history[(Len(history) - n) + i]
        BY <2>1, <3>2
      <4>1. history'[i] = history[(Len(history) - n) + i]
        BY <2>1, <2>2, <2>3, <3>2, <4>0
      <4>2. (Len(history) - n) + i \in 1..Len(history)
        BY <1>0, <2>3, <3>2
      <4>3. history[(Len(history) - n) + i]
              = Output(((produced - 1) - Len(history)) + ((Len(history) - n) + i))
        BY <2>2, <4>2
      <4>4. ((produced - 1) - Len(history)) + ((Len(history) - n) + i) = (produced - (n + 1)) + i
        BY <1>0, <2>3
      <4> QED BY <4>1, <4>3, <4>4
    <3> QED BY <2>3, <3>1, <3>2
  <2>6. Pushed' = produced
    BY <2>2
  <2> HIDE DEF n
  <2>7. \A i \in 1..Len(history') : history'[i] = Output((Pushed' - Len(history')) + i)
    BY <2>3, <2>5, <2>6
  <2>8. /\ Len(history') <= Pushed' /\ Len(history') <= MaxHistory + 1
        /\ Len(history') = Pushed' \/ Len(history') = MaxHistory + 1
    BY <1>0, <2>3, <2>4, <2>6
  <2> QED BY <2>2, <2>7, <2>8
<1>4. CASE SendOutput
  BY <1>4 DEF SendOutput
<1>5. CASE ShellExits \/ ReadOutputFails
  BY <1>5 DEF ShellExits, ReadOutputFails, stdoutVars
<1> QED BY <1>1, <1>2, <1>3, <1>4, <1>5 DEF Next, Stdout

\* What a thread appends to the channel, apart from outputs, carries no output.
LEMMA AnswersAreNoOutput ==
  \A s, of, part : ~IsOutput(SizeMsg(s)) /\ ~IsOutput(Chunk(of, part)) /\ ~IsOutput(NoMsg)
                     /\ ~IsOutput(Header)
BY DEF IsOutput, SizeMsg, Chunk, NoMsg, Header

\* The outputs on their way stay outputs that were queued before.
LEMMA QueuedStep ==
  ASSUME Typed, HistoryIsTail, QueuedIsPast, [Next]_vars
  PROVE  QueuedIsPast'
<1> USE DEF QueuedIsPast, Sent
<1>0. /\ produced \in Nat /\ toStream \in Seq(StreamMsg) /\ Len(toStream) \in Nat
      /\ outPc \in {"push", "send"} => produced > 0
  BY DEF Typed, TypeOK, HistoryIsTail
<1>1. CASE UNCHANGED <<toStream, inHand>> /\ Sent' = Sent
  BY <1>1
<1>2. ASSUME UNCHANGED <<produced, outPc>> PROVE Sent' = Sent
  BY <1>2
<1>3. CASE Disconnect
  BY <1>3, AnswersAreNoOutput DEF Disconnect, stdoutVars
<1>4. CASE Recv
  <2>1. /\ inHand' = toStream[1] /\ UNCHANGED <<produced, outPc>>
        /\ Len(toStream') = Len(toStream) - 1 /\ Len(toStream) > 0
        /\ \A i \in 1..(Len(toStream) - 1) : toStream'[i] = toStream[i + 1]
    BY <1>0, <1>4 DEF Recv, Rest, stdoutVars
  <2> QED BY <1>0, <2>1
<1>5. CASE WriteLive
  BY <1>5, AnswersAreNoOutput DEF WriteLive, Rest, stdoutVars
<1>6. ASSUME Main PROVE Disconnect \/ Recv \/ WriteLive \/ UNCHANGED <<toStream, inHand>>
  BY <1>6 DEF Main, Connect, ConnectFails, HandshakeFails, SendHeader, SendSize, Replay, ReplayDone,
     SetupFails, Read, ReadNothing, ReadFails, RecvTimeout, WriteLiveFails,
     KeepAlive, KeepAliveFails, Rest, vars, mainVars
<1>7. CASE Main
  BY <1>1, <1>2, <1>3, <1>4, <1>5, <1>6, <1>7, StdoutOnly
<1>8. CASE SendOutput
  <2>1. /\ toStream' = Append(toStream, Output(produced)) /\ inHand' = inHand
        /\ outPc = "send" /\ outPc' = "read" /\ produced' = produced
    BY <1>8 DEF SendOutput, mainVars
  <2>2. Output(produced).id = produced /\ Output(produced) \in StreamMsg
    BY <1>0 DEF Output, StreamMsg, OutputMsg
  <2> QED BY <1>0, <2>1, <2>2
<1>9. CASE ReadOutput \/ PushHistory \/ ShellExits \/ ReadOutputFails
  <2>1. UNCHANGED <<toStream, inHand>>
    BY <1>9 DEF ReadOutput, PushHistory, ShellExits, ReadOutputFails, mainVars
  <2>2. Sent' = Sent
    BY <1>0, <1>9 DEF ReadOutput, PushHistory, ShellExits, ReadOutputFails, stdoutVars
  <2> QED BY <1>1, <2>1, <2>2
<1>10. CASE SendSizeBack \/ SendChunk
  <2>1. PICK m \in StreamMsg : ~IsOutput(m) /\ toStream' = Append(toStream, m)
    <3>1. SizeMsg(ptySize) \in StreamMsg /\ Chunk(response.of, response.next) \in StreamMsg
      BY DEF Typed, TypeOK, SizeMsg, Chunk, StreamMsg
    <3> QED BY <1>10, <3>1, AnswersAreNoOutput DEF SendSizeBack, SendChunk
  <2>2. UNCHANGED <<inHand, produced, outPc>>
    BY <1>10, StdoutOnly, MainOnly DEF Stdin
  <2> QED BY <1>0, <2>1, <2>2
<1>11. CASE Absorb \/ Resize \/ RunCommand \/ Restart \/ StdinPanics
  BY <1>1, <1>2, <1>11, StdoutOnly, MainOnly
     DEF Stdin, Absorb, Resize, RunCommand, Restart, StdinPanics, TakeInput
<1>12. CASE Network \/ Exited \/ UNCHANGED vars
  BY <1>1, <1>2, <1>12, StdoutOnly, MainOnly
     DEF Network, ServerSends, Drain, LinkBreaks, Rest, Exited, vars
<1> QED BY <1>7, <1>8, <1>9, <1>10, <1>11, <1>12 DEF Next, Stdout, Stdin

\* Nothing is shown yet on a connection that was just made.
LEMMA ConnectShows ==
  ASSUME Typed, ReplayIsShown, Connect
  PROVE  Shown' = {}
<1>1. /\ conn \in Nat /\ conn' = conn + 1
      /\ wire' \in Seq(Frame) /\ Len(wire) \in Nat /\ Len(wire') \in Nat /\ Len(wire') <= Len(wire)
      /\ \A i \in 1..Len(wire') : wire'[i] = wire[i]
  <2>1. conn \in Nat /\ wire \in Seq(Frame)
    BY DEF Typed, TypeOK
  <2>2. conn' = conn + 1
    BY DEF Connect
  <2>3. /\ wire' \in Seq(Frame) /\ Len(wire') <= Len(wire)
        /\ \A i \in 1..Len(wire') : wire'[i] = wire[i]
    BY ConnectCuts
  <2>4. Len(wire) \in Nat /\ Len(wire') \in Nat
    BY <2>1, <2>3
  <2> QED BY <2>1, <2>2, <2>3, <2>4
<1>2. ASSUME NEW i \in 1..Len(wire'), wire'[i].conn = conn' PROVE FALSE
  <2>1. i \in 1..Len(wire) /\ wire[i].conn = conn + 1
    BY <1>1, <1>2
  <2>2. wire[i].conn <= conn
    BY <2>1 DEF ReplayIsShown
  <2> QED BY <1>1, <2>1, <2>2
<1>3. DOMAIN wire' = 1..Len(wire')
  BY <1>1
<1> QED BY <1>2, <1>3 DEF Shown

\* The replay keeps showing the history from its start, on a fresh connection.
LEMMA ReplayStep ==
  ASSUME Typed, ReplayIsShown, [Next]_vars
  PROVE  ReplayIsShown'
<1> USE DEF ReplayIsShown
<1>0. conn \in Nat /\ replayed \in Nat /\ wire \in Seq(Frame) /\ history \in Seq(OutputMsg)
  BY DEF Typed, TypeOK
<1>1. CASE Stdout
  <2>1. UNCHANGED <<mainPc, conn, wire, replayed>> /\ Shown' = Shown
    BY <1>1, MainOnly, ShownSame
  <2>2. CASE PushHistory
    BY <2>1, <2>2 DEF PushHistory
  <2>3. CASE history' = history
    BY <2>1, <2>3
  <2> QED BY <1>1, <2>2, <2>3 DEF Stdout, ReadOutput, SendOutput, ShellExits, ReadOutputFails
<1>2. CASE Stdin \/ Network \/ Exited \/ UNCHANGED vars
  BY <1>2, MainOnly, StdoutOnly, ShownSame DEF Exited
<1>3. CASE Connect
  <2>1. /\ conn' = conn + 1 /\ mainPc' = "header" /\ replayed' = 0
        /\ wire' \in Seq(Frame) /\ Len(wire') <= Len(wire)
        /\ \A i \in 1..Len(wire') : wire'[i] = wire[i]
    BY <1>3, ConnectCuts DEF Connect
  <2>2. Shown' = {}
    BY <1>3, ConnectShows
  <2>3. ASSUME NEW i \in 1..Len(wire) PROVE wire[i].conn <= conn + 1
    <3>1. wire[i] \in Frame
      BY <1>0
    <3>2. wire[i].conn \in Nat
      BY <3>1 DEF Frame
    <3> QED BY <1>0, <3>2
  <2> QED BY <2>1, <2>2, <2>3
<1>4. CASE SendHeader
  <2>1. Write(Header) /\ conn' = conn /\ mainPc = "header" /\ mainPc' = "size" /\ replayed' = replayed
    BY <1>4 DEF SendHeader
  <2> QED BY <2>1, WriteShows, WriteIsNew, AnswersAreNoOutput
<1>5. CASE SendSize
  <2>1. /\ Write(SizeMsg(ptySize)) /\ conn' = conn /\ mainPc = "size" /\ mainPc' = "replay"
        /\ replayed' = replayed /\ history' = history
    BY <1>5 DEF SendSize, Rest
  <2>2. SizeMsg(ptySize) \in StreamMsg
    BY DEF Typed, TypeOK, SizeMsg, StreamMsg
  <2>3. Shown' = Shown /\ \A i \in 1..Len(wire') : wire'[i].conn <= conn'
    BY <2>1, <2>2, WriteShows, WriteIsNew, AnswersAreNoOutput
  <2> QED BY <1>0, <2>1, <2>3
<1>6. CASE Replay
  <2> DEFINE m == history[replayed + 1]
  <2>1. /\ Write(m) /\ conn' = conn /\ mainPc = "replay" /\ mainPc' = "replay"
        /\ replayed' = replayed + 1 /\ history' = history /\ replayed < Len(history)
    BY <1>6 DEF Replay, Rest
  <2>2. m \in StreamMsg /\ IsOutput(m)
    <3>1. m \in OutputMsg
      BY <1>0, <2>1
    <3> QED BY <3>1 DEF StreamMsg, OutputMsg, IsOutput
  <2>3. Shown' = Shown \cup {m.id} /\ \A i \in 1..Len(wire') : wire'[i].conn <= conn'
    BY <2>1, <2>2, WriteShows, WriteIsNew
  <2> QED BY <1>0, <2>1, <2>3
<1>7. CASE WriteLive
  <2>1. Write(inHand) /\ conn' = conn /\ mainPc' = "keepalive" /\ inHand \in StreamMsg
    BY <1>7 DEF WriteLive, Typed, TypeOK, HandOK
  <2> QED BY <2>1, WriteIsNew
<1>8. CASE Disconnect
  BY <1>8 DEF Disconnect
<1>9. CASE ReplayDone \/ Read \/ ReadNothing \/ Recv \/ RecvTimeout \/ KeepAlive
  BY <1>9 DEF ReplayDone, Read, ReadNothing, Recv, RecvTimeout, KeepAlive
<1>10. CASE ConnectFails \/ HandshakeFails
  BY <1>10, ShownSame, StdoutOnly DEF ConnectFails, HandshakeFails, vars, mainVars, Main
<1>11. ASSUME Main
       PROVE  \/ Connect \/ SendHeader \/ SendSize \/ Replay \/ WriteLive \/ Disconnect
              \/ ReplayDone \/ Read \/ ReadNothing \/ Recv \/ RecvTimeout \/ KeepAlive
              \/ ConnectFails \/ HandshakeFails
  BY <1>11 DEF Main, SetupFails, ReadFails, WriteLiveFails, KeepAliveFails
<1> QED BY <1>1, <1>2, <1>3, <1>4, <1>5, <1>6, <1>7, <1>8, <1>9, <1>10, <1>11 DEF Next

\* What the channel holds it still holds after an append.
LEMMA AppendKeeps ==
  ASSUME Typed, NEW m \in StreamMsg, toStream' = Append(toStream, m), NEW x
  PROVE  /\ Queued(x) => Queued(x)'
         /\ x = m => Queued(x)'
<1>1. toStream \in Seq(StreamMsg) /\ Len(toStream) \in Nat
  BY DEF Typed, TypeOK
<1>2. /\ DOMAIN toStream = 1..Len(toStream) /\ DOMAIN toStream' = 1..(Len(toStream) + 1)
      /\ \A i \in 1..Len(toStream) : toStream'[i] = toStream[i]
      /\ toStream'[Len(toStream) + 1] = m
  BY <1>1
<1> QED BY <1>1, <1>2 DEF Queued

\* Only the end of a replay enters the loop.
LEMMA EntersLoop ==
  ASSUME Typed, [Next]_vars, InLoop', ~InLoop
  PROVE  ReplayDone
<1> USE DEF InLoop, LoopPcs
<1>1. CASE Stdout
  BY <1>1, MainOnly DEF Stdout, ReadOutput, PushHistory, SendOutput, ShellExits, ReadOutputFails
<1>2. CASE Stdin
  BY <1>2, MainOnly DEF Stdin, Absorb, Resize, SendSizeBack, RunCommand, SendChunk, Restart,
     StdinPanics, TakeInput
<1>3. CASE Network
  BY <1>3, MainOnly DEF Network, ServerSends, Drain, LinkBreaks, Rest
<1>4. CASE Exited \/ UNCHANGED vars
  BY <1>4 DEF Exited, vars, mainVars
<1>5. CASE Main
  BY <1>5 DEF Main, Connect, ConnectFails, HandshakeFails, SendHeader, SendSize, Replay,
     SetupFails, Read, ReadNothing, ReadFails, Recv, RecvTimeout, WriteLive, WriteLiveFails,
     KeepAlive, KeepAliveFails, Disconnect, vars, mainVars
<1> QED BY <1>1, <1>2, <1>3, <1>4, <1>5 DEF Next

\* When the replay is over, all of the history is shown, and with it every
\* output that was recorded and is recent.
LEMMA ReplayShowsAll ==
  ASSUME Typed, HistoryIsTail, ReplayIsShown, ReplayDone
  PROVE  /\ \A k \in 1..Pushed : k + MaxHistory >= Pushed => k \in Shown
         /\ produced \in {Pushed, Pushed + 1} /\ Pushed \in Nat
         /\ produced = Pushed + 1 => outPc = "push"
<1>1. /\ produced \in Nat /\ Len(history) \in Nat
      /\ replayed = Len(history)
      /\ \A i \in 1..Len(history) : history[i].id \in Shown
  BY DEF Typed, TypeOK, ReplayIsShown, ReplayDone
<1>2. Pushed \in Nat /\ produced \in {Pushed, Pushed + 1} /\ (produced = Pushed + 1 => outPc = "push")
  BY <1>1 DEF Pushed, HistoryIsTail
<1>3. ASSUME NEW k \in 1..Pushed, k + MaxHistory >= Pushed
      PROVE  k \in Shown
  <2> DEFINE i == k - (Pushed - Len(history))
  <2>1. i \in 1..Len(history)
    BY <1>1, <1>2, <1>3, SessionAssumption DEF HistoryIsTail
  <2>2. (Pushed - Len(history)) + i = k
    BY <1>1, <1>2
  <2>3. history[i] = Output(k)
    BY <2>1, <2>2 DEF HistoryIsTail
  <2>4. Output(k).id = k
    BY DEF Output
  <2> QED BY <1>1, <2>1, <2>3, <2>4
<1> QED BY <1>2, <1>3

\* No recent output is skipped by any step.
LEMMA NoSkipStep ==
  ASSUME Typed, HistoryIsTail, ReplayIsShown, NoOutputSkipped, [Next]_vars
  PROVE  NoOutputSkipped'
<1> SUFFICES ASSUME InLoop',
                    NEW k \in 1..produced', k + MaxHistory >= produced'
             PROVE  Accounted(k)'
  BY DEF NoOutputSkipped
<1>0. /\ produced \in Nat /\ MaxHistory \in Nat \ {0} /\ toStream \in Seq(StreamMsg)
      /\ k \in Nat /\ k >= 1 /\ Output(k) \in StreamMsg
  BY SessionAssumption DEF Typed, TypeOK, Output, StreamMsg, OutputMsg, ReadOutput, stdoutVars
<1>1. CASE ReplayDone
  <2>1. produced' = produced /\ outPc' = outPc /\ Shown' = Shown
    BY <1>1, ShownSame DEF ReplayDone, Rest, stdoutVars
  <2>2. CASE k \in 1..Pushed
    BY <1>0, <1>1, <2>1, <2>2, ReplayShowsAll DEF Accounted
  <2>3. CASE k = produced /\ outPc = "push"
    BY <2>1, <2>3 DEF Accounted
  <2> QED BY <1>0, <1>1, <2>1, <2>2, <2>3, ReplayShowsAll
<1>2. CASE ~ReplayDone
  <2>1. InLoop
    BY <1>2, EntersLoop
  <2>2. ASSUME produced' = produced PROVE Accounted(k)
    BY <1>0, <2>1, <2>2 DEF NoOutputSkipped
  <2>3. CASE Main
    <3>1. produced' = produced /\ outPc' = outPc /\ Accounted(k)
      BY <2>2, <2>3, StdoutOnly
    <3>2. CASE Recv
      <4>1. /\ inHand = NoMsg /\ inHand' = toStream[1] /\ Shown' = Shown
            /\ \A i \in 1..(Len(toStream) - 1) : toStream'[i] = toStream[i + 1]
            /\ Len(toStream) \in Nat /\ DOMAIN toStream = 1..Len(toStream)
            /\ DOMAIN toStream' = 1..(Len(toStream) - 1)
        BY <1>0, <3>2, ShownSame DEF Recv, Rest, Typed, HandOK
      <4>2. Output(k) # NoMsg
        BY DEF Output, NoMsg
      <4>3. ASSUME NEW i \in 1..Len(toStream), toStream[i] = Output(k)
            PROVE  inHand' = Output(k) \/ Queued(Output(k))'
        <5>1. CASE i = 1
          BY <4>1, <4>3, <5>1
        <5>2. CASE i # 1
          <6>1. i - 1 \in 1..(Len(toStream) - 1) /\ toStream'[i - 1] = toStream[i]
            BY <4>1, <5>2
          <6> QED BY <4>1, <4>3, <6>1 DEF Queued
        <5> QED BY <5>1, <5>2
      <4> QED BY <3>1, <4>1, <4>2, <4>3 DEF Accounted, Queued
    <3>3. CASE WriteLive
      <4>1. /\ Write(inHand) /\ conn' = conn /\ inHand \in StreamMsg /\ toStream' = toStream
        BY <3>3 DEF WriteLive, Typed, TypeOK, HandOK
      <4>2. Shown' = IF IsOutput(inHand) THEN Shown \cup {inHand.id} ELSE Shown
        BY <4>1, WriteShows
      <4>3. IsOutput(Output(k)) /\ Output(k).id = k
        BY DEF Output, IsOutput
      <4> QED BY <3>1, <4>1, <4>2, <4>3 DEF Accounted, Queued
    <3>4. CASE Read \/ ReadNothing \/ RecvTimeout \/ KeepAlive
      <4>1. UNCHANGED <<wire, conn, toStream, inHand>>
        BY <3>4 DEF Read, ReadNothing, RecvTimeout, KeepAlive
      <4> QED BY <3>1, <4>1, ShownSame DEF Accounted, Queued
    <3> QED BY <1>2, <2>1, <2>3, <3>2, <3>3, <3>4
            DEF Main, InLoop, LoopPcs, Connect, ConnectFails, HandshakeFails, SendHeader, SendSize,
                Replay, SetupFails, ReadFails, WriteLiveFails, KeepAliveFails, Disconnect
  <2>4. CASE ReadOutput
    <3>1. produced' = produced + 1 /\ outPc' = "push" /\ outPc = "read" /\ toStream' = toStream
      BY <2>4 DEF ReadOutput
    <3>2. Shown' = Shown /\ inHand' = inHand
      BY <2>4, MainOnly, ShownSame DEF Stdout
    <3>3. CASE k = produced'
      BY <3>1, <3>3 DEF Accounted
    <3>4. CASE k # produced'
      <4>1. Accounted(k)
        BY <1>0, <2>1, <3>1, <3>4 DEF NoOutputSkipped
      <4> QED BY <3>1, <3>2, <4>1 DEF Accounted, Queued
    <3> QED BY <3>3, <3>4
  <2>5. CASE PushHistory \/ ShellExits \/ ReadOutputFails
    <3>1. produced' = produced /\ toStream' = toStream /\ Shown' = Shown /\ inHand' = inHand
      BY <2>5, MainOnly, ShownSame DEF Stdout, PushHistory, ShellExits, ReadOutputFails, stdoutVars
    <3>2. outPc \in {"push", "send"} => outPc' \in {"push", "send"}
      BY <2>5 DEF PushHistory, ShellExits, ReadOutputFails, stdoutVars
    <3> QED BY <2>2, <3>1, <3>2 DEF Accounted, Queued
  <2>6. CASE SendOutput
    <3>1. produced' = produced /\ toStream' = Append(toStream, Output(produced))
      BY <2>6 DEF SendOutput
    <3>2. Shown' = Shown /\ inHand' = inHand
      BY <2>6, MainOnly, ShownSame DEF Stdout
    <3>3. Output(produced) \in StreamMsg
      BY <1>0 DEF Output, StreamMsg, OutputMsg
    <3>4. Queued(Output(k)) => Queued(Output(k))'
      BY <3>1, <3>3, AppendKeeps
    <3>5. k = produced => Queued(Output(k))'
      BY <3>1, <3>3, AppendKeeps
    <3> QED BY <2>2, <3>1, <3>2, <3>4, <3>5 DEF Accounted
  <2>7. CASE Stdin
    <3>1. produced' = produced /\ outPc' = outPc /\ Shown' = Shown /\ inHand' = inHand
      BY <2>7, MainOnly, StdoutOnly, ShownSame
    <3>2. CASE SendSizeBack \/ SendChunk
      <4>1. PICK m \in StreamMsg : toStream' = Append(toStream, m)
        <5>1. SizeMsg(ptySize) \in StreamMsg /\ Chunk(response.of, response.next) \in StreamMsg
          BY DEF Typed, TypeOK, SizeMsg, Chunk, StreamMsg
        <5> QED BY <3>2, <5>1 DEF SendSizeBack, SendChunk
      <4>2. Queued(Output(k)) => Queued(Output(k))'
        BY <4>1, AppendKeeps
      <4> QED BY <2>2, <3>1, <4>2 DEF Accounted
    <3>3. CASE toStream' = toStream
      BY <2>2, <3>1, <3>3 DEF Accounted, Queued
    <3> QED BY <2>7, <3>2, <3>3 DEF Stdin, Absorb, Resize, RunCommand, Restart, StdinPanics, TakeInput
  <2>8. CASE Network \/ Exited \/ UNCHANGED vars
    <3>1. produced' = produced /\ outPc' = outPc /\ Shown' = Shown /\ inHand' = inHand
      BY <2>8, MainOnly, StdoutOnly, ShownSame DEF Exited
    <3>2. toStream' = toStream
      BY <2>8 DEF Network, ServerSends, Drain, LinkBreaks, Rest, Exited, vars
    <3> QED BY <2>2, <3>1, <3>2 DEF Accounted, Queued
  <2> QED BY <2>3, <2>4, <2>5, <2>6, <2>7, <2>8 DEF Next, Stdout
<1> QED BY <1>1, <1>2

\* Appending a message that is no output, or one that follows what is there,
\* keeps the outputs on their way in order.
LEMMA AppendExtends ==
  ASSUME Typed, QueuedExtends, InLoop, NEW m \in StreamMsg, toStream' = Append(toStream, m),
         Shown' = Shown, inHand' = inHand,
         IsOutput(m) =>
           \/ Reaches(m.id)
           \/ IsOutput(inHand) /\ m.id <= inHand.id + 1
           \/ \E h \in 1..Len(toStream) : IsOutput(toStream[h]) /\ m.id <= toStream[h].id + 1
  PROVE  QueuedExtends'
<1>1. toStream \in Seq(StreamMsg) /\ Len(toStream) \in Nat
  BY DEF Typed, TypeOK
<1>2. /\ Len(toStream') = Len(toStream) + 1
      /\ \A i \in 1..Len(toStream) : toStream'[i] = toStream[i]
      /\ toStream'[Len(toStream) + 1] = m
  BY <1>1
<1>3. \A x : Reaches(x)' <=> Reaches(x)
  BY DEF Reaches
<1>4. ASSUME NEW i \in 1..Len(toStream'), IsOutput(toStream'[i]) PROVE FollowsEarlier(i)'
  <2>1. CASE i \in 1..Len(toStream)
    <3>1. FollowsEarlier(i)
      BY <1>2, <1>4, <2>1 DEF QueuedExtends, IsOutput
    <3> QED BY <1>1, <1>2, <1>3, <2>1, <3>1 DEF FollowsEarlier, IsOutput
  <2>2. CASE i = Len(toStream) + 1
    BY <1>1, <1>2, <1>3, <1>4, <2>2 DEF FollowsEarlier, IsOutput
  <2> QED BY <1>1, <1>2, <1>4, <2>1, <2>2
<1>5. (IsOutput(inHand) => Reaches(inHand.id))'
  BY <1>3 DEF QueuedExtends
<1> QED BY <1>4, <1>5 DEF QueuedExtends, IsOutput

\* A step that leaves the channel, the hand and the connection alone.
LEMMA ExtendsSame ==
  ASSUME QueuedExtends, InLoop, UNCHANGED <<toStream, inHand>>, Shown' = Shown
  PROVE  QueuedExtends'
BY DEF QueuedExtends, FollowsEarlier, Reaches, IsOutput

\* The outputs on their way keep extending what is shown.
LEMMA ExtendStep ==
  ASSUME Typed, OutputInv, [Next]_vars
  PROVE  QueuedExtends'
<1> SUFFICES ASSUME InLoop' PROVE QueuedExtends'
  BY DEF QueuedExtends
<1> USE DEF OutputInv
<1>0. /\ produced \in Nat /\ MaxHistory \in Nat \ {0} /\ toStream \in Seq(StreamMsg)
      /\ Len(toStream) \in Nat
  BY SessionAssumption DEF Typed, TypeOK
<1>1. CASE ReplayDone
  <2>1. toStream' = toStream /\ inHand' = inHand /\ Shown' = Shown /\ inHand = NoMsg
    BY <1>1, ShownSame DEF ReplayDone, Typed, HandOK
  <2>2. ASSUME NEW i \in 1..Len(toStream), IsOutput(toStream[i])
        PROVE  \E j \in Shown : toStream[i].id <= j + 1
    <3>1. toStream[i].id \in 1..Pushed
      BY <1>0, <2>2 DEF QueuedIsPast, Sent, Pushed, HistoryIsTail
    <3>2. Pushed \in Shown /\ Pushed \in Nat
      BY <1>0, <1>1, <3>1, ReplayShowsAll
    <3> QED BY <3>1, <3>2
  <2>3. ASSUME NEW i \in 1..Len(toStream'), IsOutput(toStream'[i]) PROVE FollowsEarlier(i)'
    BY <2>1, <2>2, <2>3 DEF FollowsEarlier, Reaches, IsOutput
  <2>4. ~IsOutput(inHand')
    BY <2>1, AnswersAreNoOutput
  <2> QED BY <2>3, <2>4 DEF QueuedExtends, IsOutput
<1>2. CASE ~ReplayDone
  <2>1. InLoop
    BY <1>2, EntersLoop
  <2>2. CASE Main
    <3>1. CASE Recv
      <4>1. /\ ~IsOutput(inHand) /\ inHand' = toStream[1] /\ Shown' = Shown /\ Len(toStream) > 0
            /\ Len(toStream') = Len(toStream) - 1
            /\ \A i \in 1..(Len(toStream) - 1) : toStream'[i] = toStream[i + 1]
        BY <1>0, <3>1, ShownSame, AnswersAreNoOutput DEF Recv, Rest, Typed, HandOK
      <4>2. \A x : Reaches(x)' <=> Reaches(x)
        BY <4>1 DEF Reaches
      <4>3. (IsOutput(inHand) => Reaches(inHand.id))'
        BY <1>0, <2>1, <4>1, <4>2 DEF QueuedExtends, FollowsEarlier, IsOutput
      <4>4. ASSUME NEW i \in 1..Len(toStream'), IsOutput(toStream'[i]) PROVE FollowsEarlier(i)'
        <5>1. i + 1 \in 1..Len(toStream) /\ toStream'[i] = toStream[i + 1]
          BY <1>0, <4>1
        <5>2. FollowsEarlier(i + 1)
          BY <2>1, <4>4, <5>1 DEF QueuedExtends, IsOutput
        <5>3. CASE Reaches(toStream[i + 1].id)
          BY <4>2, <5>1, <5>3 DEF FollowsEarlier
        <5>4. ASSUME NEW h \in 1..i, IsOutput(toStream[h]), toStream[i + 1].id <= toStream[h].id + 1
              PROVE  FollowsEarlier(i)'
          <6>1. CASE h = 1
            BY <4>1, <5>1, <5>4, <6>1 DEF FollowsEarlier, IsOutput
          <6>2. CASE h # 1
            <7>1. h - 1 \in 1..(i - 1) /\ toStream'[h - 1] = toStream[h]
              BY <1>0, <4>1, <5>1, <6>2
            <7> QED BY <5>1, <5>4, <7>1 DEF FollowsEarlier, IsOutput
          <6> QED BY <6>1, <6>2
        <5> QED BY <4>1, <5>2, <5>3, <5>4 DEF FollowsEarlier
      <4> QED BY <4>3, <4>4 DEF QueuedExtends, IsOutput
    <3>2. CASE WriteLive
      <4>1. /\ Write(inHand) /\ conn' = conn /\ inHand \in StreamMsg /\ toStream' = toStream
            /\ inHand' = NoMsg
        BY <3>2 DEF WriteLive, Typed, TypeOK, HandOK
      <4>2. Shown' = IF IsOutput(inHand) THEN Shown \cup {inHand.id} ELSE Shown
        BY <4>1, WriteShows
      <4>3. \A x : Reaches(x) => Reaches(x)'
        BY <4>2 DEF Reaches
      <4>4. IsOutput(inHand) => \A x : x <= inHand.id + 1 => Reaches(x)'
        BY <4>2 DEF Reaches
      <4>5. ~IsOutput(inHand')
        BY <4>1, AnswersAreNoOutput
      <4>6. ASSUME NEW i \in 1..Len(toStream'), IsOutput(toStream'[i]) PROVE FollowsEarlier(i)'
        <5>1. FollowsEarlier(i)
          BY <2>1, <4>1, <4>6 DEF QueuedExtends, IsOutput
        <5> QED BY <4>1, <4>3, <4>4, <5>1 DEF FollowsEarlier, IsOutput
      <4> QED BY <4>5, <4>6 DEF QueuedExtends, IsOutput
    <3>3. CASE Read \/ ReadNothing \/ RecvTimeout \/ KeepAlive
      <4>1. UNCHANGED <<wire, conn, toStream, inHand>>
        BY <3>3 DEF Read, ReadNothing, RecvTimeout, KeepAlive
      <4> QED BY <2>1, <4>1, ShownSame, ExtendsSame
    <3> QED BY <1>2, <2>1, <2>2, <3>1, <3>2, <3>3
            DEF Main, InLoop, LoopPcs, Connect, ConnectFails, HandshakeFails, SendHeader, SendSize,
                Replay, SetupFails, ReadFails, WriteLiveFails, KeepAliveFails, Disconnect
  <2>3. CASE SendOutput
    <3> DEFINE m == Output(produced)
    <3>1. /\ toStream' = Append(toStream, m) /\ Shown' = Shown /\ inHand' = inHand
          /\ outPc = "send" /\ produced > 0
      BY <2>3, MainOnly, ShownSame DEF SendOutput, Stdout, HistoryIsTail
    <3>2. m \in StreamMsg /\ m.id = produced
      BY <1>0 DEF Output, StreamMsg, OutputMsg
    <3>3. CASE produced = 1
      <4>1. Reaches(m.id)
        BY <3>2, <3>3 DEF Reaches
      <4> QED BY <2>1, <3>1, <3>2, <4>1, AppendExtends
    <3>4. CASE produced # 1
      <4>1. Accounted(produced - 1)
        BY <1>0, <2>1, <3>1, <3>4 DEF NoOutputSkipped
      <4>2. CASE produced - 1 \in Shown
        <5>1. Reaches(m.id)
          BY <1>0, <3>2, <4>2 DEF Reaches
        <5> QED BY <2>1, <3>1, <3>2, <5>1, AppendExtends
      <4>3. CASE Queued(Output(produced - 1))
        <5>1. PICK h \in 1..Len(toStream) : toStream[h] = Output(produced - 1)
          BY <1>0, <4>3 DEF Queued
        <5>2. IsOutput(toStream[h]) /\ m.id <= toStream[h].id + 1
          BY <1>0, <3>2, <5>1 DEF Output, IsOutput
        <5> QED BY <2>1, <3>1, <3>2, <5>2, AppendExtends
      <4>4. CASE inHand = Output(produced - 1)
        <5>1. IsOutput(inHand) /\ m.id <= inHand.id + 1
          BY <1>0, <3>2, <4>4 DEF Output, IsOutput
        <5> QED BY <2>1, <3>1, <3>2, <5>1, AppendExtends
      <4> QED BY <1>0, <4>1, <4>2, <4>3, <4>4 DEF Accounted
    <3> QED BY <3>3, <3>4
  <2>4. CASE ReadOutput \/ PushHistory \/ ShellExits \/ ReadOutputFails
    <3>1. toStream' = toStream /\ Shown' = Shown /\ inHand' = inHand
      BY <2>4, MainOnly, ShownSame DEF Stdout, ReadOutput, PushHistory, ShellExits, ReadOutputFails
    <3> QED BY <2>1, <3>1, ExtendsSame
  <2>5. CASE SendSizeBack \/ SendChunk
    <3>1. PICK m \in StreamMsg : ~IsOutput(m) /\ toStream' = Append(toStream, m)
      <4>1. SizeMsg(ptySize) \in StreamMsg /\ Chunk(response.of, response.next) \in StreamMsg
        BY DEF Typed, TypeOK, SizeMsg, Chunk, StreamMsg
      <4> QED BY <2>5, <4>1, AnswersAreNoOutput DEF SendSizeBack, SendChunk
    <3>2. Shown' = Shown /\ inHand' = inHand
      BY <2>5, MainOnly, ShownSame DEF Stdin
    <3> QED BY <2>1, <3>1, <3>2, AppendExtends
  <2>6. CASE Absorb \/ Resize \/ RunCommand \/ Restart \/ StdinPanics
    <3>1. toStream' = toStream /\ Shown' = Shown /\ inHand' = inHand
      BY <2>6, MainOnly, ShownSame
         DEF Stdin, Absorb, Resize, RunCommand, Restart, StdinPanics, TakeInput
    <3> QED BY <2>1, <3>1, ExtendsSame
  <2>7. CASE Network \/ Exited \/ UNCHANGED vars
    <3>1. toStream' = toStream /\ Shown' = Shown /\ inHand' = inHand
      BY <2>7, MainOnly, ShownSame DEF Network, ServerSends, Drain, LinkBreaks, Rest, Exited, vars
    <3> QED BY <2>1, <3>1, ExtendsSame
  <2> QED BY <2>2, <2>3, <2>4, <2>5, <2>6, <2>7 DEF Next, Stdout, Stdin
<1> QED BY <1>1, <1>2

\* The invariant of the output side is inductive: at every moment the history
\* is the end of what was recorded, the channel holds outputs that extend what
\* the connection shows, and no recent output is missing.
THEOREM OutputInvariant == Spec => [](Typed /\ OutputInv)
<1>1. Init => Typed /\ OutputInv
  BY InitTyped, InitOutput
<1>2. Typed /\ OutputInv /\ [Next]_vars => (Typed /\ OutputInv)'
  <2> SUFFICES ASSUME Typed, OutputInv, [Next]_vars PROVE (Typed /\ OutputInv)'
    OBVIOUS
  <2>1. Typed'
    BY MainTyped, StdoutTyped, StdinTyped, NetworkTyped, StutterTyped DEF Next, Exited
  <2>2. OutputInv'
    BY HistoryStep, QueuedStep, ReplayStep, NoSkipStep, ExtendStep DEF OutputInv
  <2> QED BY <2>1, <2>2
<1> QED BY <1>1, <1>2, PTL DEF Spec

\* The types of connect.rs and run_shell.rs hold in every state of every run.
THEOREM TypeCorrect == Spec => []TypeOK
BY TypeInvariant, PTL DEF Typed

\* However long the shell runs, its history never holds more than one entry
\* above MAX_MESSAGE_HISTORY_SIZE.
THEOREM HistoryStaysBounded == Spec => []HistoryBounded
<1>1. OutputInv => HistoryBounded
  BY DEF OutputInv, HistoryIsTail, HistoryBounded
<1> QED BY <1>1, OutputInvariant, PTL

\* However the threads interleave and however often the connection is lost,
\* the connection that is open misses no recent output.
THEOREM NothingSkipped == Spec => []NoOutputSkipped
<1>1. OutputInv => NoOutputSkipped
  BY DEF OutputInv
<1> QED BY <1>1, OutputInvariant, PTL

\* A step that writes an output shows one that begins or extends the feed.
LEMMA ShowStep ==
  ASSUME Typed, OutputInv, NEW m \in StreamMsg, IsOutput(m), Write(m), conn' = conn,
         produced' = produced, m.id \in 1..produced,
         \/ Reaches(m.id)
         \/ Shown = {} /\ m.id + MaxHistory <= produced
  PROVE  Feed!Next
<1>1. Shown' = Shown \cup {m.id}
  BY WriteShows
<1>2. Feed!Begins(m.id) \/ Feed!Extends(m.id)
  <2>1. CASE m.id = 1 /\ Shown # {}
    <3>1. PICK j \in Shown : TRUE
      BY <2>1
    <3>2. j \in Nat
      <4>1. PICK i \in DOMAIN wire : j = wire[i].msg.id /\ IsKind(i, "stdout")
        BY <3>1 DEF Shown
      <4>2. wire[i].msg \in StreamMsg \cup {Header}
        <5>1. wire[i] \in Frame
          BY <4>1 DEF Typed, TypeOK
        <5> QED BY <5>1 DEF Frame
      <4>3. wire[i].msg \in OutputMsg
        BY <4>1, <4>2 DEF IsKind, StreamMsg, Header
      <4> QED BY <4>1, <4>3 DEF OutputMsg
    <3> QED BY <2>1, <3>1, <3>2 DEF Feed!Extends
  <2> QED BY <2>1 DEF Reaches, Feed!Begins, Feed!Extends
<1> QED BY <1>1, <1>2 DEF Feed!Next, Feed!Show

\* The first output a replay shows is the first there was, or old enough.
LEMMA ReplayShows ==
  ASSUME Typed, OutputInv, Replay
  PROVE  Feed!Next
<1> DEFINE m == history[replayed + 1]
<1> DEFINE k == (Pushed - Len(history)) + (replayed + 1)
<1>1. /\ Write(m) /\ conn' = conn /\ mainPc = "replay" /\ produced' = produced
      /\ replayed < Len(history) /\ replayed \in Nat /\ Len(history) \in Nat /\ produced \in Nat
      /\ MaxHistory \in Nat \ {0}
  BY SessionAssumption DEF Replay, Rest, stdoutVars, Typed, TypeOK
<1>2. replayed + 1 \in 1..Len(history)
  BY <1>1
<1>3. m = Output(k)
  BY <1>2 DEF OutputInv, HistoryIsTail
<1>4. m \in StreamMsg /\ IsOutput(m) /\ m.id = k
  <2>1. m \in OutputMsg
    BY <1>2 DEF Typed, TypeOK
  <2> QED BY <1>3, <2>1 DEF StreamMsg, OutputMsg, IsOutput, Output
<1>5. /\ Pushed \in Nat /\ Pushed <= produced /\ Len(history) <= Pushed
      /\ Len(history) = Pushed \/ Len(history) = MaxHistory + 1
  BY <1>1 DEF OutputInv, HistoryIsTail, Pushed
<1>6. k \in 1..produced
  BY <1>1, <1>5
<1>7. CASE replayed = 0
  <2>1. Shown = {}
    BY <1>1, <1>7 DEF OutputInv, ReplayIsShown
  <2>2. k = 1 \/ k + MaxHistory <= produced
    BY <1>1, <1>5, <1>7
  <2> QED BY <1>1, <1>4, <1>6, <2>1, <2>2, ShowStep DEF Reaches
<1>8. CASE replayed > 0
  <2>1. history[replayed].id \in Shown
    BY <1>1, <1>8 DEF OutputInv, ReplayIsShown
  <2>2. history[replayed].id = (Pushed - Len(history)) + replayed
    <3>1. replayed \in 1..Len(history)
      BY <1>1, <1>8
    <3>2. history[replayed] = Output((Pushed - Len(history)) + replayed)
      BY <3>1 DEF OutputInv, HistoryIsTail
    <3> QED BY <3>2 DEF Output
  <2>3. Reaches(m.id)
    BY <1>1, <1>4, <1>5, <2>1, <2>2 DEF Reaches
  <2> QED BY <1>1, <1>4, <1>6, <2>3, ShowStep
<1> QED BY <1>1, <1>7, <1>8

\* A message from the channel that carries an output extends the feed.
LEMMA LiveShows ==
  ASSUME Typed, OutputInv, WriteLive, IsOutput(inHand)
  PROVE  Feed!Next
<1>1. /\ Write(inHand) /\ conn' = conn /\ produced' = produced /\ inHand \in StreamMsg /\ InLoop
  BY DEF WriteLive, Rest, stdoutVars, Typed, TypeOK, HandOK, InLoop, LoopPcs
<1>2. inHand.id \in 1..produced
  BY DEF OutputInv, QueuedIsPast, Sent, HistoryIsTail, Typed, TypeOK
<1>3. Reaches(inHand.id)
  BY <1>1 DEF OutputInv, QueuedExtends
<1> QED BY <1>1, <1>2, <1>3, ShowStep

\* Every step of the session is a step of the feed, or none.
LEMMA FeedStep ==
  ASSUME Typed, OutputInv, [Next]_vars
  PROVE  Feed!Next \/ UNCHANGED <<produced, Shown>>
<1>1. CASE Stdout
  <2>1. Shown' = Shown
    BY <1>1, MainOnly, ShownSame
  <2> QED BY <1>1, <2>1 DEF Stdout, ReadOutput, PushHistory, SendOutput, ShellExits,
             ReadOutputFails, stdoutVars, Feed!Next, Feed!Produce
<1>2. CASE Stdin \/ Network \/ Exited \/ UNCHANGED vars
  BY <1>2, MainOnly, StdoutOnly, ShownSame DEF Exited
<1>3. CASE Main
  <2>1. produced' = produced
    BY <1>3, StdoutOnly
  <2>2. CASE Connect
    <3>1. Shown' = {}
      BY <2>2, ConnectShows DEF OutputInv
    <3> QED BY <2>1, <3>1 DEF Feed!Next, Feed!Reopen
  <2>3. CASE Replay
    BY <2>3, ReplayShows
  <2>4. CASE WriteLive /\ IsOutput(inHand)
    BY <2>4, LiveShows
  <2>5. CASE WriteLive /\ ~IsOutput(inHand)
    BY <2>1, <2>5, WriteShows DEF WriteLive, Typed, TypeOK, HandOK
  <2>6. CASE SendHeader
    BY <2>1, <2>6, WriteShows, AnswersAreNoOutput DEF SendHeader
  <2>7. CASE SendSize
    <3>1. SizeMsg(ptySize) \in StreamMsg
      BY DEF Typed, TypeOK, SizeMsg, StreamMsg
    <3> QED BY <2>1, <2>7, <3>1, WriteShows, AnswersAreNoOutput DEF SendSize
  <2>8. CASE UNCHANGED <<wire, conn>>
    BY <2>1, <2>8, ShownSame
  <2> QED BY <1>3, <2>2, <2>3, <2>4, <2>5, <2>6, <2>7, <2>8
          DEF Main, ConnectFails, HandshakeFails, ReplayDone, SetupFails, Read, ReadNothing, ReadFails,
              Recv, RecvTimeout, WriteLiveFails, KeepAlive, KeepAliveFails, Disconnect, vars, mainVars
<1> QED BY <1>1, <1>2, <1>3 DEF Next

\* What a server reads of the output on one connection is a feed: it starts at
\* the beginning or far enough back, and it never jumps ahead.
THEOREM SessionImplementsFeed == Spec => ImplementsFeed
<1>1. Init => Feed!Init
  BY DEF Init, Feed!Init, Shown
<1>2. Typed /\ OutputInv /\ [Next]_vars => [Feed!Next]_<<produced, Shown>>
  BY FeedStep
<1> QED BY <1>1, <1>2, OutputInvariant, PTL DEF Spec, ImplementsFeed, Feed!Spec

=============================================================================
