------------------------------ MODULE ForwardTcp ------------------------------
(***************************************************************************)
(* forward-tcp: a loop that accepts one caller at a time, reads from it    *)
(* once, has a shell pass on what was read with a tcp command, and writes  *)
(* the answer back.                                                        *)
(*                                                                         *)
(* What a command does between its request and its answer is the business  *)
(* of CommandExchange; here it is a request that can be lost, lose chunks, *)
(* be run late or be left without an answer, and an answer that can come   *)
(* when nobody waits for it any more.                                      *)
(*                                                                         *)
(* The request is JSON with the buffer as a list of numbers.  It is longer *)
(* than a chunk, and what a lost connection leaves of it can be JSON still.*)
(***************************************************************************)
EXTENDS FiniteSets, Naturals, Sequences, SequencesExt

CONSTANTS
  Callers,     \* those who connect to the local port, once each
  BufSize,     \* BUF_SIZE
  MaxSize      \* the most bytes a caller sends (a bound)

VARIABLES
  caller,      \* caller -> "out", "queued", "served" or "closed"
  size,        \* caller -> the number of bytes it sends
  gone,        \* the callers that have closed their end
  backlog,     \* the queue of the listening socket
  pc,          \* where the loop is
  cur,         \* the caller it serves
  buf,         \* its buffer
  id,          \* the number of the last request, for its random id
  up,          \* the requests on their way to the shell
  cut,         \* history: the requests that lost chunks on their way
  down,        \* the answers on their way back
  stdinAlive,  \* the shell's stdin thread has not panicked
  target,      \* history: the connections the target got, each what it received
  got          \* history: caller -> the answers it was written

vars == <<caller, size, gone, backlog, pc, cur, buf, id, up, cut, down, stdinAlive, target, got>>

None == "none"

ASSUME ForwardAssumption ==
  /\ BufSize \in Nat \ {0} /\ MaxSize \in Nat
  /\ None \notin Callers

Zero == <<None, 0>>
Bytes(c) == [i \in 1..size[c] |-> <<c, i>>]      \* every byte is its caller's

-----------------------------------------------------------------------------
(* The callers: the programs that use the local port *)

Init ==
  /\ caller = [c \in Callers |-> "out"]
  /\ size \in [Callers -> 0..MaxSize]
  /\ gone = {}
  /\ backlog = <<>>
  /\ pc = "accept" /\ cur = None
  /\ buf = [i \in 1..BufSize |-> Zero]
  /\ id = 0
  /\ up = <<>> /\ cut = {} /\ down = {}
  /\ stdinAlive = TRUE
  /\ target = <<>>
  /\ got = [c \in Callers |-> <<>>]

Call(c) ==
  /\ caller[c] = "out" /\ pc # "exited"
  /\ caller' = [caller EXCEPT ![c] = "queued"]
  /\ backlog' = Append(backlog, c)
  /\ UNCHANGED <<size, gone, pc, cur, buf, id, up, cut, down, stdinAlive, target, got>>

Leave(c) ==
  /\ caller[c] \in {"queued", "served"} /\ c \notin gone
  /\ gone' = gone \cup {c}
  /\ UNCHANGED <<caller, size, backlog, pc, cur, buf, id, up, cut, down, stdinAlive, target, got>>

-----------------------------------------------------------------------------
(* The loop of main_forward_tcp *)

\* Mutant: the next one is accepted before the last one is served.
AcceptWhileServing ==
  /\ backlog # <<>>
  /\ cur' = Head(backlog) /\ backlog' = Tail(backlog)
  /\ caller' = [caller EXCEPT ![Head(backlog)] = "served"]
  /\ pc' = "read"
  /\ UNCHANGED <<size, gone, buf, id, up, cut, down, stdinAlive, target, got>>

Accept ==
  /\ pc = "accept" /\ backlog # <<>>
  /\ cur' = Head(backlog) /\ backlog' = Tail(backlog)
  /\ caller' = [caller EXCEPT ![Head(backlog)] = "served"]
  /\ pc' = "read"
  /\ UNCHANGED <<size, gone, buf, id, up, cut, down, stdinAlive, target, got>>

\* `continue`, or the end of the loop's body: the stream is dropped.
Continue ==
  /\ caller' = [caller EXCEPT ![cur] = "closed"]
  /\ pc' = "accept" /\ cur' = None

\* Mutant: the buffer is made once, before the loop.
BufferOfBefore == buf

NewBuffer == [i \in 1..BufSize |-> Zero]

\* One read gives a part of what the caller has sent, or nothing when it has
\* left without sending.
ReadSome ==
  /\ pc = "read"
  /\ \E k \in 0..size[cur] :
       /\ k <= BufSize
       /\ k = 0 => size[cur] = 0 /\ cur \in gone
       /\ buf' = [i \in 1..BufSize |-> IF i <= k THEN Bytes(cur)[i] ELSE NewBuffer[i]]
  /\ pc' = "send"
  /\ UNCHANGED <<caller, size, gone, backlog, cur, id, up, cut, down, stdinAlive, target, got>>

\* Mutant: after the timeout it reads again.
ReadAgain ==
  /\ pc = "read"
  /\ cur \in gone
  /\ Continue
  /\ UNCHANGED <<size, gone, backlog, buf, id, up, cut, down, stdinAlive, target, got>>

\* Nothing came within a second, or the caller has reset the connection.
ReadFails ==
  /\ pc = "read"
  /\ Continue
  /\ UNCHANGED <<size, gone, backlog, buf, id, up, cut, down, stdinAlive, target, got>>

\* Mutant: make_id is called once, before the loop.
SameId == 1

NewId == id + 1

\* connect_to_hoposhell, and the chunks of the request: together they carry the
\* whole buffer.
Send ==
  /\ pc = "send"
  /\ id' = NewId
  /\ up' = Append(up, [id |-> NewId, of |-> cur, data |-> buf])
  /\ pc' = "wait"
  /\ UNCHANGED <<caller, size, gone, backlog, cur, buf, cut, down, stdinAlive, target, got>>

\* connect_to_hoposhell ends the process when it cannot load the credentials
\* or reach the server, and a failed handshake is unwrapped.
Exit ==
  /\ pc = "send"
  /\ pc' = "exited" /\ cur' = None /\ backlog' = <<>>
  /\ caller' = [c \in Callers |-> IF caller[c] = "out" THEN "out" ELSE "closed"]
  /\ UNCHANGED <<size, gone, buf, id, up, cut, down, stdinAlive, target, got>>

\* The request the loop waits for is the last that was sent.
WithoutOwn == IF up # <<>> /\ Last(up).id = id THEN Front(up) ELSE up

\* Mutant: what failed is tried again.
ConnectionLostRetry ==
  /\ pc = "wait"
  /\ up' \in {up, WithoutOwn}
  /\ pc' = "send"
  /\ UNCHANGED <<caller, size, gone, backlog, cur, buf, id, cut, down, stdinAlive, target, got>>

\* send_request_and_get_response fails; the request may be on its way all the same.
ConnectionLost ==
  /\ pc = "wait"
  /\ up' \in {up, WithoutOwn}
  /\ Continue
  /\ UNCHANGED <<size, gone, backlog, buf, id, cut, down, stdinAlive, target, got>>

\* write_all: the whole answer, to a caller that is there.
TakeAnswer ==
  /\ pc = "wait"
  /\ \E a \in down :
       /\ a.id = id
       /\ down' = down \ {a}
       /\ got' = IF a.ok /\ cur \notin gone THEN [got EXCEPT ![cur] = Append(@, a)] ELSE got
  /\ Continue
  /\ UNCHANGED <<size, gone, backlog, buf, id, up, cut, stdinAlive, target>>

-----------------------------------------------------------------------------
(* The shell: process_tcp_command; and the links to it *)

\* What is left of a request with a hole need not be JSON.
MayBeNoJson(r) == r.id \in cut

\* What the target takes of a request and how it answers: it may refuse the
\* connection (a panic), take a part, or not close its end within a second.
ShellRuns ==
  /\ stdinAlive /\ up # <<>>
  /\ LET r == Head(up) IN
     \/ /\ stdinAlive' = FALSE
        /\ UNCHANGED <<down, target>>
     \/ \E n \in 0..Len(r.data), ok \in BOOLEAN :
          /\ ok => n = Len(r.data)
          /\ target' = Append(target, [id |-> r.id, of |-> r.of,
                                       data |-> SubSeq(r.data, 1, n), left |-> Len(r.data) - n])
          /\ down' = down \cup {[id |-> r.id, of |-> r.of, ok |-> ok]}
          /\ UNCHANGED stdinAlive
     \/ /\ MayBeNoJson(r)
        /\ down' = down \cup {[id |-> r.id, of |-> r.of, ok |-> FALSE]}
        /\ UNCHANGED <<stdinAlive, target>>
  /\ up' = Tail(up)
  /\ UNCHANGED <<caller, size, gone, backlog, pc, cur, buf, id, cut, got>>

\* The server has no connection to give an answer to, once its own is closed.
DropLateAnswer ==
  /\ \E a \in down :
       /\ pc # "wait" \/ a.id # id
       /\ down' = down \ {a}
  /\ UNCHANGED <<caller, size, gone, backlog, pc, cur, buf, id, up, cut, stdinAlive, target, got>>

\* The shell's connection is lost with what is on it: a request without its last
\* chunk is never run.
LoseRequest ==
  /\ \E r \in DOMAIN up : up' = RemoveAt(up, r)
  /\ UNCHANGED <<caller, size, gone, backlog, pc, cur, buf, id, cut, down, stdinAlive, target, got>>

Seam(c) == <<c, 0>>    \* a number made of digits from both sides of a hole

AroundHole(d, i, seam, j) == SubSeq(d, 1, i) \o seam \o SubSeq(d, j, Len(d))

\* One that has lost other chunks is: numbers are missing, and where they were
\* there may be one that nobody sent.
LoseChunks ==
  /\ \E r \in DOMAIN up :
     \E i \in 0..Len(up[r].data), j \in 1..(Len(up[r].data) + 1), seam \in {<<>>, <<Seam(up[r].of)>>} :
       /\ i + Len(seam) + 1 < j
       /\ up' = [up EXCEPT ![r].data = AroundHole(@, i, seam, j)]
       /\ cut' = cut \cup {up[r].id}
  /\ UNCHANGED <<caller, size, gone, backlog, pc, cur, buf, id, down, stdinAlive, target, got>>

LoseAnswer ==
  /\ pc = "wait"
  /\ \E a \in down : a.id = id /\ down' = down \ {a}
  /\ UNCHANGED <<caller, size, gone, backlog, pc, cur, buf, id, up, cut, stdinAlive, target, got>>

Forwarder == Accept \/ ReadSome \/ ReadFails \/ Send \/ Exit \/ ConnectionLost \/ TakeAnswer

Next ==
  \/ \E c \in Callers : Call(c) \/ Leave(c)
  \/ Forwarder
  \/ ShellRuns \/ DropLateAnswer \/ LoseRequest \/ LoseChunks \/ LoseAnswer

Spec == Init /\ [][Next]_vars

\* Nothing makes a connection break; the loop goes on when it can, the read has
\* its timeout, and a caller that is there takes what it is written.
Fairness ==
  /\ WF_vars(Accept) /\ WF_vars(ReadSome \/ ReadFails) /\ WF_vars(Send \/ Exit)
  /\ WF_vars(TakeAnswer) /\ WF_vars(ShellRuns)

LiveSpec == Spec /\ Fairness

-----------------------------------------------------------------------------
(* Properties *)

\* Types; the loop serves a caller exactly when it is between accept and the end.
TypeOK ==
  /\ \A c \in Callers : (caller[c] = "served") <=> (c = cur)
  /\ pc \in {"accept", "read", "send", "wait", "exited"}
  /\ (cur = None) <=> (pc \in {"accept", "exited"})
  /\ DOMAIN buf = 1..BufSize
  /\ \A a \in down : a.id <= id
  /\ cut \subseteq 0..id
  /\ gone \subseteq Callers /\ stdinAlive \in BOOLEAN

\* Of the n bytes that c sends those from the first on, and zeros behind them.
IsPadded(d, c, n) == \E k \in 0..n : \A j \in DOMAIN d : d[j] = IF j <= k THEN <<c, j>> ELSE Zero

\* What holes can leave of that: some of the bytes, in their order and none of
\* them twice, then some of the zeros, and between them what a hole makes.
IsHoled(d, c, n) ==
  /\ \A j \in DOMAIN d : d[j] = Zero \/ \E k \in 0..n : d[j] = <<c, k>>
  /\ \A i, j \in DOMAIN d : i < j /\ d[j][2] > 0 => d[i] # Zero /\ d[i][2] < d[j][2]

\* What a target receives on one connection is the beginning of what one caller
\* sent, and zeros behind it; if the request lost chunks on its way, parts of
\* that in their order.  It is never a byte of the caller before, whatever failed
\* in between (forward_tcp.rs:23, a buffer of its own for each connection).
TargetGetsOneCallersBytes ==
  \A i \in DOMAIN target :
    LET r == target[i] IN
    IF r.id \in cut THEN IsHoled(r.data, r.of, size[r.of]) ELSE IsPadded(r.data, r.of, size[r.of])

\* A caller is written one answer at most, to its own request and not to one a
\* connection was lost over, and only after the target took everything that the
\* shell had of it: the whole buffer, unless chunks were lost on the way.
AnswerIsTheCallers ==
  \A c \in Callers :
    /\ Len(got[c]) <= 1
    /\ \A i \in DOMAIN got[c] :
         /\ got[c][i].of = c
         /\ \E j \in DOMAIN target :
              /\ target[j].id = got[c][i].id
              /\ target[j].left = 0
              /\ Len(target[j].data) = BufSize \/ target[j].id \in cut

\* Nothing is forwarded twice: the targets of one caller's bytes are one at most,
\* though its connection may be lost after its request is on its way.
ForwardedOnce ==
  \A i, j \in DOMAIN target : target[i].of = target[j].of => i = j

\* Whoever is accepted or waits in the queue is served to an end, unless the
\* loop has ended with an unreachable server, or waits for an answer that cannot
\* come any more: the shell's stdin thread is dead or a connection of the shell
\* was lost.  A silent caller holds the others up for a second only.
Stuck == pc = "wait" /\ (~stdinAlive \/ ((\A i \in DOMAIN up : up[i].id # id) /\ \A a \in down : a.id # id))

CallersAreServed ==
  \A c \in Callers : (caller[c] \in {"queued", "served"}) ~> (caller[c] = "closed" \/ Stuck)

\* "Create a server that forwards all access to a port to a remote shell"
\* (forward_tcp.rs:6): a target receives what was sent, or its beginning, and
\* nothing else.
TargetGetsWhatWasSent ==
  \A i \in DOMAIN target : IsPrefix(target[i].data, Bytes(target[i].of))
=============================================================================
