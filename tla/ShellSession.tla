---------------------------- MODULE ShellSession ----------------------------
(***************************************************************************)
(* `hopo connect`: a shell in a pseudo terminal, shared over one TCP       *)
(* connection that is opened again whenever it is lost.                    *)
(*                                                                         *)
(* Three threads of one process, joined by two unbounded channels:         *)
(*                                                                         *)
(*   main    connect.rs    owns the socket: connects, replays the history, *)
(*                         then reads / forwards / keeps alive in a loop   *)
(*   stdin   run_shell.rs  takes what the server sent, writes the pty or   *)
(*                         runs a command and queues the answer            *)
(*   stdout  run_shell.rs  reads the pty, records and queues the output    *)
(*                                                                         *)
(* One action is one step of one thread between two points where another   *)
(* thread, or the network, can be seen to act.  Messages are abstract: an  *)
(* output is its number, an answer to a command is a run of numbered       *)
(* chunks, and what an input asks for is chosen when it is handled.        *)
(***************************************************************************)
EXTENDS Naturals, Sequences

CONSTANTS
  MaxHistory,     \* MAX_MESSAGE_HISTORY_SIZE: a longer history is trimmed before a push
  SendBuf,        \* frames the socket buffers before a write would block
  Sizes,          \* the terminal sizes a server can ask for
  DefaultSize,    \* the size the pty is opened with
  AutoReconnect,  \* args.auto_reconnect
  UseSsl,         \* args.use_ssl
  MaxOut,         \* bound: outputs the shell produces
  MaxIn,          \* bound: messages the server sends on one connection
  MaxConn,        \* bound: connections opened
  MaxChunks       \* bound: chunks of one response

ASSUME SessionAssumption ==
  /\ MaxHistory \in Nat \ {0}
  /\ SendBuf \in Nat \ {0}
  /\ DefaultSize \in Sizes
  /\ AutoReconnect \in BOOLEAN
  /\ UseSsl \in BOOLEAN
  /\ MaxOut \in Nat
  /\ MaxIn \in Nat
  /\ MaxConn \in Nat
  /\ MaxChunks \in Nat

VARIABLES
  alive,     \* the process has not exited
  mainPc,    \* where the main thread is
  conn,      \* number of the current connection, 0 before the first
  link,      \* "up", or "broken" once the network has dropped the connection
  unsent,    \* frames in the socket's send buffer
  wire,      \* the frames the server got of each connection, or can still get
  inHand,    \* the message the main thread took off the channel and is writing
  replayed,  \* history entries already replayed on this connection
  kept,      \* last_keep_alive is Some
  inbound,   \* messages of the server that wait to be read from the stream
  sentIn,    \* how many messages the server sent on this connection
  toStream,  \* tx_to_stream / rx_stream
  toCmd,     \* tx_to_cmd / rx_cmd
  history,   \* history_of_messages_to_stream
  produced,  \* outputs read from the pty
  outPc,     \* where the stdout thread is
  stdinPc,   \* where the stdin thread is
  lastIn,    \* the last message the stdin thread took
  response,  \* the response it is sending: chunks [next .. total] remain
  ptySize    \* the size of the pty

mainVars   == <<mainPc, conn, link, unsent, wire, inHand, replayed, kept>>
netVars    == <<inbound, sentIn>>
stdinVars  == <<stdinPc, lastIn, response, ptySize>>
stdoutVars == <<produced, outPc>>
vars == <<alive, mainVars, netVars, toStream, toCmd, history, stdoutVars, stdinVars>>

-----------------------------------------------------------------------------
(* Messages *)

Header         == [kind |-> "header"]
Output(k)      == [kind |-> "stdout", id |-> k]
SizeMsg(s)     == [kind |-> "size", size |-> s]
Chunk(of, i)   == [kind |-> "chunk", of |-> of, part |-> i]
NoMsg          == [kind |-> "none"]

Stamp          == [conn : Nat, n : Nat]      \* the n-th input of a connection
OutputMsg      == [kind : {"stdout"}, id : Nat]
StreamMsg      == OutputMsg
                    \cup [kind : {"size"}, size : Sizes]
                    \cup [kind : {"chunk"}, of : Stamp, part : Nat]
Frame          == [conn : Nat, msg : StreamMsg \cup {Header}, whole : BOOLEAN]
NoResponse     == [of |-> [conn |-> 0, n |-> 0], next |-> 1, total |-> 0]

LoopPcs == {"read", "recv", "write", "keepalive"}
InLoop  == alive /\ mainPc \in LoopPcs

TypeOK ==
  /\ alive \in BOOLEAN
  /\ mainPc \in {"connect", "header", "size", "replay"} \cup LoopPcs
  /\ conn \in Nat
  /\ link \in {"up", "broken"}
  /\ unsent \in 0..SendBuf
  /\ wire \in Seq(Frame)
  /\ inHand \in StreamMsg \cup {NoMsg}
  /\ replayed \in Nat
  /\ kept \in BOOLEAN
  /\ inbound \in Seq(Stamp)
  /\ sentIn \in Nat
  /\ toStream \in Seq(StreamMsg)
  /\ toCmd \in Seq(Stamp)
  /\ history \in Seq(OutputMsg)
  /\ produced \in Nat
  /\ outPc \in {"read", "push", "send", "dead"}
  /\ stdinPc \in {"recv", "resized", "respond", "dead"}
  /\ lastIn \in Stamp
  /\ response \in [of : Stamp, next : Nat, total : Nat]
  /\ ptySize \in Sizes

Init ==
  /\ alive = TRUE
  /\ mainPc = "connect"
  /\ conn = 0
  /\ link = "broken"
  /\ unsent = 0
  /\ wire = <<>>
  /\ inHand = NoMsg
  /\ replayed = 0
  /\ kept = FALSE
  /\ inbound = <<>>
  /\ sentIn = 0
  /\ toStream = <<>>
  /\ toCmd = <<>>
  /\ history = <<>>
  /\ produced = 0
  /\ outPc = "read"
  /\ stdinPc = "recv"
  /\ lastIn = [conn |-> 0, n |-> 0]
  /\ response = NoResponse
  /\ ptySize = DefaultSize

-----------------------------------------------------------------------------
(* The socket.  It is non-blocking: a write into a full buffer would block  *)
(* and one into the last free slot may be cut short, which the caller takes *)
(* for a success.  A broken link is noticed by a read or a write, sooner or *)
(* later; until then writes go on into the buffer.  Of what is in it when   *)
(* the stream is dropped the end is lost: all of it, a part or nothing.     *)

\* Mutant: the frame is queued even when the buffer has no room.
WriteWithoutRoom(m) ==
  /\ unsent' = unsent + 1
  /\ wire' = Append(wire, [conn |-> conn, msg |-> m, whole |-> unsent' <= SendBuf])

Write(m) ==
  /\ unsent < SendBuf
  /\ unsent' = unsent + 1
  /\ \E whole \in BOOLEAN :
       /\ whole \/ unsent' = SendBuf
       /\ wire' = Append(wire, [conn |-> conn, msg |-> m, whole |-> whole])

WouldBlock  == unsent = SendBuf
WriteError  == link = "broken"

\* Mutant: the channel to the stdin thread is made anew for each connection.
DisconnectClearsInput ==
  /\ mainPc' = "connect"
  /\ alive' = AutoReconnect
  /\ inHand' = NoMsg
  /\ inbound' = <<>>
  /\ toCmd' = <<>>
  /\ UNCHANGED <<conn, link, unsent, wire, replayed, kept, sentIn,
                 toStream, history, stdoutVars, stdinVars>>

\* handle_connection returned: the stream is dropped, with what waits in it.
Disconnect ==
  /\ mainPc' = "connect"
  /\ alive' = AutoReconnect
  /\ inHand' = NoMsg
  /\ inbound' = <<>>
  /\ UNCHANGED <<conn, link, unsent, wire, replayed, kept, sentIn,
                 toStream, toCmd, history, stdoutVars, stdinVars>>

Rest == <<alive, inbound, sentIn, toCmd, history, stdoutVars, stdinVars>>

-----------------------------------------------------------------------------
(* The main thread: main_connect and handle_connection *)

\* From here on what the last connection did not deliver is lost.
Connect ==
  /\ alive /\ mainPc = "connect"
  /\ conn < MaxConn
  /\ mainPc' = "header"
  /\ conn' = conn + 1
  /\ link' = "up"
  /\ \E lost \in 0..unsent : wire' = SubSeq(wire, 1, Len(wire) - lost)
  /\ unsent' = 0
  /\ replayed' = 0
  /\ kept' = FALSE
  /\ inbound' = <<>>
  /\ sentIn' = 0
  /\ UNCHANGED <<alive, inHand, toStream, toCmd, history, stdoutVars, stdinVars>>

\* TcpStream::connect failed: sleep a second and try again.
ConnectFails ==
  /\ alive /\ mainPc = "connect"
  /\ UNCHANGED vars

\* ssl_connector.connect(..).unwrap() panics and the process ends.
HandshakeFails ==
  /\ alive /\ mainPc = "connect"
  /\ UseSsl
  /\ alive' = FALSE
  /\ UNCHANGED <<mainVars, netVars, toStream, toCmd, history, stdoutVars, stdinVars>>

SendHeader ==
  /\ alive /\ mainPc = "header"
  /\ Write(Header)
  /\ mainPc' = "size"
  /\ UNCHANGED <<conn, link, inHand, replayed, kept, toStream, Rest>>

\* Mutant: the size the pty was opened with is sent, not the one it has now.
SendFirstSize ==
  /\ alive /\ mainPc = "size"
  /\ stdinPc # "resized"
  /\ Write(SizeMsg(DefaultSize))
  /\ mainPc' = "replay"
  /\ UNCHANGED <<conn, link, inHand, replayed, kept, toStream, Rest>>

\* make_size_message under the lock on the pty, which a resize also holds.
SendSize ==
  /\ alive /\ mainPc = "size"
  /\ stdinPc # "resized"
  /\ Write(SizeMsg(ptySize))
  /\ mainPc' = "replay"
  /\ UNCHANGED <<conn, link, inHand, replayed, kept, toStream, Rest>>

\* The history stays locked from the first entry to the last.
Replay ==
  /\ alive /\ mainPc = "replay"
  /\ replayed < Len(history)
  /\ Write(history[replayed + 1])
  /\ replayed' = replayed + 1
  /\ UNCHANGED <<mainPc, conn, link, inHand, kept, toStream, Rest>>

\* Mutant: the loop starts before the replay is over.
ReplayCutShort ==
  /\ alive /\ mainPc = "replay"
  /\ mainPc' = "read"
  /\ UNCHANGED <<conn, link, unsent, wire, inHand, replayed, kept, toStream, Rest>>

ReplayDone ==
  /\ alive /\ mainPc = "replay"
  /\ replayed >= Len(history)
  /\ mainPc' = "read"
  /\ UNCHANGED <<conn, link, unsent, wire, inHand, replayed, kept, toStream, Rest>>

\* Before the loop any error ends the connection, "would block" included.
SetupFails ==
  /\ alive
  /\ \/ mainPc = "header"
     \/ mainPc = "size" /\ stdinPc # "resized"
     \/ mainPc = "replay" /\ replayed < Len(history)
  /\ WouldBlock \/ WriteError
  /\ Disconnect

\* Mutant: only the last message of a batch is passed on.
ReadLastOnly ==
  /\ alive /\ mainPc = "read"
  /\ \E k \in 1..Len(inbound) :
       /\ toCmd' = Append(toCmd, inbound[k])
       /\ inbound' = SubSeq(inbound, k + 1, Len(inbound))
  /\ mainPc' = "recv"
  /\ UNCHANGED <<alive, conn, link, unsent, wire, inHand, replayed, kept, sentIn,
                 toStream, history, stdoutVars, stdinVars>>

\* One read can return several messages; all go to the stdin thread.
Read ==
  /\ alive /\ mainPc = "read"
  /\ \E k \in 1..Len(inbound) :
       /\ toCmd' = toCmd \o SubSeq(inbound, 1, k)
       /\ inbound' = SubSeq(inbound, k + 1, Len(inbound))
  /\ mainPc' = "recv"
  /\ UNCHANGED <<alive, conn, link, unsent, wire, inHand, replayed, kept, sentIn,
                 toStream, history, stdoutVars, stdinVars>>

\* Nothing has arrived yet, or not the end of a message.
ReadNothing ==
  /\ alive /\ mainPc = "read"
  /\ link = "up"
  /\ mainPc' = "recv"
  /\ UNCHANGED <<conn, link, unsent, wire, inHand, replayed, kept, toStream, Rest>>

ReadFails ==
  /\ alive /\ mainPc = "read"
  /\ link = "broken"
  /\ Disconnect

Recv ==
  /\ alive /\ mainPc = "recv"
  /\ toStream # <<>>
  /\ inHand' = Head(toStream)
  /\ toStream' = Tail(toStream)
  /\ mainPc' = "write"
  /\ UNCHANGED <<conn, link, unsent, wire, replayed, kept, Rest>>

RecvTimeout ==
  /\ alive /\ mainPc = "recv"
  /\ toStream = <<>>
  /\ mainPc' = "keepalive"
  /\ UNCHANGED <<conn, link, unsent, wire, inHand, replayed, kept, toStream, Rest>>

\* Mutant: a write that would block is not tried again.
WriteLiveOnce ==
  /\ alive /\ mainPc = "write"
  /\ Write(inHand) \/ (WouldBlock /\ UNCHANGED <<unsent, wire>>)
  /\ inHand' = NoMsg
  /\ mainPc' = "keepalive"
  /\ UNCHANGED <<conn, link, replayed, kept, toStream, Rest>>

\* A write that would block is tried again until there is room: no step.
WriteLive ==
  /\ alive /\ mainPc = "write"
  /\ Write(inHand)
  /\ inHand' = NoMsg
  /\ mainPc' = "keepalive"
  /\ UNCHANGED <<conn, link, replayed, kept, toStream, Rest>>

\* Mutant: after the write error the message is put back, at the end.
WriteLiveRequeues ==
  /\ alive /\ mainPc = "write"
  /\ WriteError
  /\ mainPc' = "connect"
  /\ alive' = AutoReconnect
  /\ inHand' = NoMsg
  /\ inbound' = <<>>
  /\ toStream' = Append(toStream, inHand)
  /\ UNCHANGED <<conn, link, unsent, wire, replayed, kept, sentIn,
                 toCmd, history, stdoutVars, stdinVars>>

WriteLiveFails ==
  /\ alive /\ mainPc = "write"
  /\ WriteError
  /\ Disconnect

\* The first pass always sends, a later one only when the delay is over.  Four
\* bytes fit wherever a frame does; they are not counted in unsent.
KeepAlive ==
  /\ alive /\ mainPc = "keepalive"
  /\ kept \/ ~WouldBlock
  /\ kept' = TRUE
  /\ mainPc' = "read"
  /\ UNCHANGED <<conn, link, unsent, wire, inHand, replayed, toStream, Rest>>

KeepAliveFails ==
  /\ alive /\ mainPc = "keepalive"
  /\ WouldBlock \/ WriteError
  /\ Disconnect

-----------------------------------------------------------------------------
(* The stdout thread: the second thread::spawn of run_shell *)

ReadOutput ==
  /\ alive /\ outPc = "read"
  /\ produced < MaxOut
  /\ produced' = produced + 1
  /\ outPc' = "push"
  /\ UNCHANGED <<alive, mainVars, netVars, toStream, toCmd, history, stdinVars>>

\* Mutant: the trim keeps one entry too many.
TrimmedLate(h) ==
  IF Len(h) > MaxHistory + 1 THEN SubSeq(h, Len(h) - MaxHistory, Len(h)) ELSE h

Trimmed(h) == IF Len(h) > MaxHistory THEN SubSeq(h, Len(h) - MaxHistory + 1, Len(h)) ELSE h

\* Mutant: the history is not locked for the whole replay.
PushHistoryAnyTime ==
  /\ alive /\ outPc = "push"
  /\ history' = Append(Trimmed(history), Output(produced))
  /\ outPc' = "send"
  /\ UNCHANGED <<alive, mainVars, netVars, toStream, toCmd, produced, stdinVars>>

\* Waits for the lock on the history, which a replay holds.
PushHistory ==
  /\ alive /\ outPc = "push"
  /\ mainPc # "replay"
  /\ history' = Append(Trimmed(history), Output(produced))
  /\ outPc' = "send"
  /\ UNCHANGED <<alive, mainVars, netVars, toStream, toCmd, produced, stdinVars>>

\* Mutant: the send is tried again although it succeeded.
SendOutputTwice ==
  /\ alive /\ outPc = "send"
  /\ toStream' = toStream \o <<Output(produced), Output(produced)>>
  /\ outPc' = "read"
  /\ UNCHANGED <<alive, mainVars, netVars, toCmd, history, produced, stdinVars>>

SendOutput ==
  /\ alive /\ outPc = "send"
  /\ toStream' = Append(toStream, Output(produced))
  /\ outPc' = "read"
  /\ UNCHANGED <<alive, mainVars, netVars, toCmd, history, produced, stdinVars>>

\* End of file on the pty: the shell died and the process exits.
ShellExits ==
  /\ alive /\ outPc = "read"
  /\ alive' = FALSE
  /\ UNCHANGED <<mainVars, netVars, toStream, toCmd, history, stdoutVars, stdinVars>>

\* A read error ends this thread only.
ReadOutputFails ==
  /\ alive /\ outPc = "read"
  /\ outPc' = "dead"
  /\ UNCHANGED <<alive, mainVars, netVars, toStream, toCmd, history, produced, stdinVars>>

-----------------------------------------------------------------------------
(* The stdin thread: the first thread::spawn of run_shell *)

TakeInput ==
  /\ alive /\ stdinPc = "recv"
  /\ toCmd # <<>>
  /\ lastIn' = Head(toCmd)
  /\ toCmd' = Tail(toCmd)
  /\ UNCHANGED <<mainVars, netVars, toStream, history, stdoutVars>>

\* Keystrokes go to the pty; a bad resize, an invalid command or a chunk
\* that is not the last of its request is dropped without an answer.
Absorb == TakeInput /\ UNCHANGED <<alive, stdinPc, response, ptySize>>

\* A resize that succeeds keeps the pty locked until the answer is queued.
Resize ==
  /\ TakeInput
  /\ ptySize' \in Sizes
  /\ stdinPc' = "resized"
  /\ UNCHANGED <<alive, response>>

SendSizeBack ==
  /\ alive /\ stdinPc = "resized"
  /\ toStream' = Append(toStream, SizeMsg(ptySize))
  /\ stdinPc' = "recv"
  /\ UNCHANGED <<alive, mainVars, netVars, toCmd, history, stdoutVars,
                 lastIn, response, ptySize>>

RunCommand ==
  /\ TakeInput
  /\ \E total \in 1..MaxChunks :
       response' = [of |-> lastIn', next |-> 1, total |-> total]
  /\ stdinPc' = "respond"
  /\ UNCHANGED <<alive, ptySize>>

SendChunk ==
  /\ alive /\ stdinPc = "respond"
  /\ toStream' = Append(toStream, Chunk(response.of, response.next))
  /\ response' = [response EXCEPT !.next = @ + 1]
  /\ stdinPc' = IF response.next = response.total THEN "recv" ELSE "respond"
  /\ UNCHANGED <<alive, mainVars, netVars, toCmd, history, stdoutVars, lastIn, ptySize>>

Restart == TakeInput /\ alive' = FALSE /\ UNCHANGED <<stdinPc, response, ptySize>>

\* unwrap on a failed pty write, or on a refused connection of a tcp command.
StdinPanics ==
  /\ TakeInput
  /\ stdinPc' = "dead"
  /\ UNCHANGED <<alive, response, ptySize>>

-----------------------------------------------------------------------------
(* The network and the server *)

ServerSends ==
  /\ alive /\ mainPc # "connect"
  /\ link = "up"
  /\ sentIn < MaxIn
  /\ sentIn' = sentIn + 1
  /\ inbound' = Append(inbound, [conn |-> conn, n |-> sentIn + 1])
  /\ UNCHANGED <<alive, mainVars, toStream, toCmd, history, stdoutVars, stdinVars>>

Drain ==
  /\ alive /\ mainPc # "connect"
  /\ link = "up"
  /\ unsent > 0
  /\ unsent' = unsent - 1
  /\ UNCHANGED <<mainPc, conn, link, wire, inHand, replayed, kept, toStream, Rest>>

LinkBreaks ==
  /\ alive /\ mainPc # "connect"
  /\ link = "up"
  /\ conn < MaxConn
  /\ link' = "broken"
  /\ UNCHANGED <<mainPc, conn, unsent, wire, inHand, replayed, kept, toStream, Rest>>

Exited == ~alive /\ UNCHANGED vars

-----------------------------------------------------------------------------
Main ==
  \/ Connect \/ ConnectFails \/ HandshakeFails
  \/ SendHeader \/ SendSize \/ Replay \/ ReplayDone \/ SetupFails
  \/ Read \/ ReadNothing \/ ReadFails
  \/ Recv \/ RecvTimeout \/ WriteLive \/ WriteLiveFails
  \/ KeepAlive \/ KeepAliveFails

Stdout == ReadOutput \/ PushHistory \/ SendOutput \/ ShellExits \/ ReadOutputFails

Stdin ==
  Absorb \/ Resize \/ SendSizeBack \/ RunCommand \/ SendChunk \/ Restart \/ StdinPanics

Network == ServerSends \/ Drain \/ LinkBreaks

Next == Main \/ Stdout \/ Stdin \/ Network \/ Exited

Spec == Init /\ [][Next]_vars

\* Every thread that can go on does, and the peer keeps taking bytes.  The
\* shell need not produce output and the server need not send anything.
Fairness ==
  /\ WF_vars(Main)
  /\ WF_vars(PushHistory \/ SendOutput)
  /\ WF_vars(Stdin)
  /\ WF_vars(Drain)

LiveSpec == Spec /\ Fairness

-----------------------------------------------------------------------------
(* Safety *)

SameConn(i, j) == wire[i].conn = wire[j].conn
IsKind(i, kind) == wire[i].msg.kind = kind

Wrote(c, m) == \E i \in DOMAIN wire : wire[i].conn = c /\ wire[i].msg = m
Queued(m)   == \E i \in DOMAIN toStream : toStream[i] = m

\* The outputs written to the current connection.
Shown == {wire[i].msg.id : i \in {j \in DOMAIN wire : wire[j].conn = conn /\ IsKind(j, "stdout")}}

\* No frame of the current connection was cut by a short write.
Intact == \A i \in DOMAIN wire : wire[i].conn = conn => wire[i].whole

\* The history trims before it pushes, so it holds one entry more than the
\* constant of constants.rs says, and never more than that one.
HistoryBounded == Len(history) <= MaxHistory + 1

\* A reconnect skips no recent output: once the replay is over, each of the
\* last MaxHistory outputs has been written to the current connection (whole,
\* or cut by a full buffer), or waits in the channel, or is in the hands of
\* one of the two threads.  The replay runs under the history's lock and the
\* stdout thread records an output before it queues it; without either of
\* them there would be a hole.
Accounted(k) ==
  \/ k \in Shown
  \/ Queued(Output(k))
  \/ inHand = Output(k)
  \/ k = produced /\ outPc \in {"push", "send"}

NoOutputSkipped ==
  InLoop => \A k \in 1..produced : k + MaxHistory >= produced => Accounted(k)

\* What a reader sees of the output is a feed as OutputFeed promises it: on
\* each connection a run that starts far enough back and never jumps ahead.
\* The replay and the channel are two runs that overlap or touch.
Feed == INSTANCE OutputFeed WITH Recent <- MaxHistory, shown <- Shown
ImplementsFeed == Feed!Spec

\* The overlap repeats an output once (replayed, then taken off the
\* channel) and never a second time on the same connection.
OutputAtMostTwice ==
  \A i, j, k \in DOMAIN wire :
    i < j /\ j < k /\ IsKind(i, "stdout") /\ SameConn(i, k) /\ SameConn(j, k) =>
      ~(wire[i].msg = wire[k].msg /\ wire[j].msg = wire[k].msg)

\* A response is not in the history: over all connections its chunks reach
\* the server in order and each at most once, so a reconnect never repeats an
\* answer.
ChunksInOrder ==
  \A i, j \in DOMAIN wire :
    i < j /\ IsKind(i, "chunk") /\ IsKind(j, "chunk") /\ wire[i].msg.of = wire[j].msg.of =>
      wire[i].msg.part < wire[j].msg.part

\* A connection that is lost costs the end of what was written to it: the frames
\* its socket held, and the one in the main thread's hands.
LostWithConnection == SendBuf + 1

\* No chunk of an answer is missing between two that one connection carries,
\* and between two connections, or before the first chunk that arrives, no more
\* than the connections lost in between can have taken.  (A chunk cut by a short
\* write counts as carried: Write is where it is damaged.)
AnswerGapsBounded ==
  \A j \in DOMAIN wire :
    IsKind(j, "chunk") =>
      LET of == wire[j].msg.of
          Part(i) == wire[i].msg.part
          Earlier == {i \in 1..(j - 1) : IsKind(i, "chunk") /\ wire[i].msg.of = of}
          Cost(from) == LostWithConnection * (wire[j].conn - from)
      IN \/ Earlier = {} /\ Part(j) <= 1 + Cost(of.conn)
         \/ \E i \in Earlier : Part(j) <= Part(i) + 1 + Cost(wire[i].conn)

\* The server's last word on the terminal's size is right: when no size is
\* on its way through the channel, the last one written to the connection
\* is the pty's, whatever resizes and reconnects came in between.
SizeFresh ==
  /\ InLoop /\ Intact /\ stdinPc # "resized" /\ inHand.kind # "size"
  /\ \A i \in DOMAIN toStream : toStream[i].kind # "size"
  => \E i \in DOMAIN wire :
       /\ wire[i].conn = conn /\ wire[i].msg = SizeMsg(ptySize)
       /\ \A j \in (i + 1)..Len(wire) : ~IsKind(j, "size")

\* Input is handled in the order the server sent it and without holes: what
\* a lost connection takes with it is always the end of that connection's
\* input, never something before a message that is handled.
Follows(a, b) ==
  \/ b.conn = a.conn /\ b.n = a.n + 1
  \/ b.conn > a.conn /\ b.n = 1

Pending == <<lastIn>> \o toCmd \o inbound
InputInOrder == \A i \in 1..(Len(Pending) - 1) : Follows(Pending[i], Pending[i + 1])

-----------------------------------------------------------------------------
(* The inductive invariant behind NoOutputSkipped and ImplementsFeed *)

Pushed == IF outPc = "push" THEN produced - 1 ELSE produced              \* recorded
Sent   == IF outPc \in {"push", "send"} THEN produced - 1 ELSE produced  \* queued

IsOutput(m) == m.kind = "stdout"

\* The history is the end of what was recorded, without a gap: all of it, or
\* MaxHistory + 1 entries.
HistoryIsTail ==
  /\ outPc \in {"push", "send"} => produced > 0
  /\ Len(history) <= Pushed /\ Len(history) <= MaxHistory + 1
  /\ Len(history) = Pushed \/ Len(history) = MaxHistory + 1
  /\ \A i \in 1..Len(history) : history[i] = Output((Pushed - Len(history)) + i)

\* The outputs on their way were queued before.
QueuedIsPast ==
  /\ \A i \in 1..Len(toStream) : IsOutput(toStream[i]) => toStream[i].id \in 1..Sent
  /\ IsOutput(inHand) => inHand.id \in 1..Sent

\* What the setup of a connection has shown is what it has replayed.
ReplayIsShown ==
  /\ \A i \in 1..Len(wire) : wire[i].conn <= conn
  /\ mainPc \in {"header", "size"} => Shown = {} /\ replayed = 0
  /\ mainPc = "replay" =>
       /\ replayed <= Len(history)
       /\ replayed = 0 => Shown = {}
       /\ \A i \in 1..replayed : history[i].id \in Shown

\* In the loop, an output on its way extends what is shown or on its way before it.
Reaches(k) == k = 1 \/ \E j \in Shown : k <= j + 1

FollowsEarlier(i) ==
  \/ Reaches(toStream[i].id)
  \/ IsOutput(inHand) /\ toStream[i].id <= inHand.id + 1
  \/ \E h \in 1..(i - 1) :
       IsOutput(toStream[h]) /\ toStream[i].id <= toStream[h].id + 1

QueuedExtends ==
  InLoop =>
    /\ IsOutput(inHand) => Reaches(inHand.id)
    /\ \A i \in 1..Len(toStream) : IsOutput(toStream[i]) => FollowsEarlier(i)

\* No output is lost between the pty and the connection, and none is shown
\* too early: the invariant that explains both promises about the output.
OutputInv ==
  HistoryIsTail /\ QueuedIsPast /\ ReplayIsShown /\ NoOutputSkipped /\ QueuedExtends

-----------------------------------------------------------------------------
(* Liveness *)

\* Whatever the shell prints is written, for good, to the connection that is
\* open in the end, through the channel or through the replay, as long as the
\* process lives and no more than MaxHistory newer outputs pushed it out.
OutputIsWritten ==
  \A k \in 1..MaxOut :
    produced >= k ~>
      [](~alive \/ Wrote(conn, Output(k)) \/ produced > k + MaxHistory)

\* What the main thread read is handled, unless the process ends or the
\* stdin thread died: that death goes unnoticed and strands all later input.
InputIsHandled ==
  \A c \in 1..MaxConn, n \in 1..MaxIn :
    (\E i \in DOMAIN toCmd : toCmd[i] = [conn |-> c, n |-> n]) ~>
      (~alive \/ stdinPc = "dead" \/ lastIn = [conn |-> c, n |-> n])
=============================================================================
