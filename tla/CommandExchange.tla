--------------------------- MODULE CommandExchange ---------------------------
(***************************************************************************)
(* `hopo command`: one request, cut into chunks, goes through the server   *)
(* to a shell; the shell puts requests together by their message id, runs  *)
(* them and sends the answers back, cut into chunks as well.               *)
(*                                                                         *)
(*   client   send_command_handler.rs   one process, one connection and    *)
(*                                      one request each                   *)
(*   shell    command_history.rs and command_processor.rs, called by the   *)
(*            stdin thread of run_shell.rs                                 *)
(*   server   not in the repository: it carries messages in the order in   *)
(*            which they were sent, routes an answer by its message id,    *)
(*            and can hand a client messages that are not for it           *)
(*                                                                         *)
(* A payload is the sequence of its bytes, and byte i is the number i, so  *)
(* that holes, repetitions and wrong orders show.  What a shell loses with *)
(* its connection is what ShellSession says: the end of what was on its    *)
(* way to the shell, and of the answers what its socket held and the chunk *)
(* in the main thread's hands.                                             *)
(***************************************************************************)
EXTENDS Naturals, Sequences

CONSTANTS
  Clients,      \* the command processes; each one's request has its own message id
  ReqLen,       \* [Clients -> Nat]: the length of each request's payload
  ChunkSize,    \* COMMAND_PAYLOAD_SIZE
  MaxRes,       \* bound: length of a (compressed) answer
  MaxBreaks,    \* bound: connections lost, the shell's and the clients' together
  MaxForeign    \* bound: messages handed to a client that are not for it

ASSUME ExchangeAssumption ==
  /\ ReqLen \in [Clients -> Nat]
  /\ ChunkSize \in Nat \ {0}
  /\ MaxRes \in Nat \ {0}
  /\ MaxBreaks \in Nat
  /\ MaxForeign \in Nat

VARIABLES
  pc,         \* pc[c]: where client c is
  sent,       \* sent[c]: request chunks client c has written
  up,         \* up[c]: the connection of client c is open
  late,       \* late[c]: command_timeout has passed since start_time
  received,   \* received[c]: the payloads in all_res, joined
  batch,      \* batch[c]: the messages of one read, those still to be looked at
  toShell,    \* toShell[c]: request chunks of c on their way to the shell's stdin thread
  past,       \* past[c]: the payload of c's entry in past_requests
  pending,    \* the clients that have an entry in past_requests
  runs,       \* runs[c]: the payloads of the requests run for c, in order
  answer,     \* answer[c]: the payload of the answer made for c
  toServer,   \* answer chunks in the shell's channel
  toClient,   \* toClient[c]: messages that client c can read
  running,    \* the stdin thread has not panicked
  breaks,     \* connections lost so far
  foreign,    \* messages misrouted so far
  reqLost,    \* the clients whose request lost a chunk with a connection
  ansLost,    \* the clients whose answer lost a chunk with the shell's connection
  dropped     \* the clients that dropped a chunk of their answer with a batch

clientVars == <<pc, sent, late, received, batch, dropped>>
shellVars  == <<past, pending, runs, answer, running>>
netVars    == <<up, breaks, foreign, ansLost>>
vars == <<clientVars, shellVars, netVars, toShell, toServer, toClient, reqLost>>

-----------------------------------------------------------------------------
(* Payloads and chunks *)

Bytes(n) == [i \in 1..n |-> i]

\* slice::chunks: pieces of size bytes, the last one may be shorter.
NumChunks(n)   == (n + (ChunkSize - 1)) \div ChunkSize
ChunkEnd(n, i) == IF i * ChunkSize < n THEN i * ChunkSize ELSE n
Piece(p, i)    == SubSeq(p, (i - 1) * ChunkSize + 1, ChunkEnd(Len(p), i))

\* Mutant: every chunk is created with ChunkType::Last.
RequestChunkAllLast(c, i) ==
  [id |-> c, data |-> Piece(Bytes(ReqLen[c]), i), last |-> TRUE]

\* Mutant: the last chunk is told by being short.
RequestChunkShortIsLast(c, i) ==
  [id |-> c, data |-> Piece(Bytes(ReqLen[c]), i), last |-> i * ChunkSize > ReqLen[c]]

\* Request::chunk makes no chunk at all of an empty payload.
RequestChunk(c, i) ==
  [id   |-> c,
   data |-> Piece(Bytes(ReqLen[c]), i),
   last |-> i = NumChunks(ReqLen[c])]

\* Response::chunk makes one empty chunk of an empty payload.
NumAnswerChunks(n) == IF n = 0 THEN 1 ELSE NumChunks(n)

AnswerChunks(c, status, p) ==
  [i \in 1..NumAnswerChunks(Len(p)) |->
     [kind |-> "answer", id |-> c, status |-> status,
      data |-> Piece(p, i), last |-> i = NumAnswerChunks(Len(p))]]

Foreign == [kind |-> "foreign"]     \* another id, a request, or not decodable
Input   == [kind |-> "input"]       \* not a COMMAND message

Answers ==
  [kind : {"answer"}, id : Clients, status : {"ok", "bad"}, data : Seq(Nat), last : BOOLEAN]

TypeOK ==
  /\ pc \in [Clients -> {"header", "send", "check", "read", "parse", "ok", "failed"}]
  /\ sent \in [Clients -> Nat] /\ \A c \in Clients : sent[c] <= NumChunks(ReqLen[c])
  /\ up \in [Clients -> BOOLEAN]
  /\ late \in [Clients -> BOOLEAN]
  /\ received \in [Clients -> Seq(Nat)]
  /\ batch \in [Clients -> Seq(Answers \cup {Foreign, Input})]
  /\ toShell \in [Clients -> Seq([id : Clients, data : Seq(Nat), last : BOOLEAN])]
  /\ past \in [Clients -> Seq(Nat)]
  /\ pending \in SUBSET Clients
  /\ runs \in [Clients -> Seq(Seq(Nat))]
  /\ answer \in [Clients -> Seq(Nat)]
  /\ toServer \in Seq(Answers)
  /\ toClient \in [Clients -> Seq(Answers \cup {Foreign, Input})]
  /\ running \in BOOLEAN
  /\ breaks \in 0..MaxBreaks
  /\ foreign \in 0..MaxForeign
  /\ reqLost \in SUBSET Clients
  /\ ansLost \in SUBSET Clients
  /\ dropped \in SUBSET Clients

Init ==
  /\ pc = [c \in Clients |-> "header"]
  /\ sent = [c \in Clients |-> 0]
  /\ up = [c \in Clients |-> TRUE]
  /\ late = [c \in Clients |-> FALSE]
  /\ received = [c \in Clients |-> <<>>]
  /\ batch = [c \in Clients |-> <<>>]
  /\ toShell = [c \in Clients |-> <<>>]
  /\ past = [c \in Clients |-> <<>>]
  /\ pending = {}
  /\ runs = [c \in Clients |-> <<>>]
  /\ answer = [c \in Clients |-> <<>>]
  /\ toServer = <<>>
  /\ toClient = [c \in Clients |-> <<>>]
  /\ running = TRUE
  /\ breaks = 0
  /\ foreign = 0
  /\ reqLost = {}
  /\ ansLost = {}
  /\ dropped = {}

-----------------------------------------------------------------------------
(* The client: send_request_and_get_response *)

Go(c, where) == pc' = [pc EXCEPT ![c] = where]

SendHeader(c) ==
  /\ pc[c] = "header"
  /\ up[c] /\ Go(c, "send")
  /\ UNCHANGED <<sent, late, received, batch, dropped, shellVars, netVars, toShell, toServer, toClient, reqLost>>

HeaderFails(c) ==
  /\ pc[c] = "header"
  /\ ~up[c] /\ Go(c, "failed")
  /\ UNCHANGED <<sent, late, received, batch, dropped, shellVars, netVars, toShell, toServer, toClient, reqLost>>

\* Mutant: the loop over the chunks makes one step too many.
SendRequestChunkTooMany(c) ==
  /\ pc[c] = "send"
  /\ sent[c] <= NumChunks(ReqLen[c])
  /\ sent' = [sent EXCEPT ![c] = @ + 1]
  /\ IF up[c]
     THEN toShell' = [toShell EXCEPT ![c] = Append(@, RequestChunk(c, sent[c] + 1))] /\ UNCHANGED reqLost
     ELSE reqLost' = reqLost \cup {c} /\ UNCHANGED toShell
  /\ UNCHANGED <<pc, late, received, batch, dropped, shellVars, netVars, toServer, toClient>>

\* A chunk that cannot be written is reported and the next one is tried.
SendRequestChunk(c) ==
  /\ pc[c] = "send"
  /\ sent[c] < NumChunks(ReqLen[c])
  /\ sent' = [sent EXCEPT ![c] = @ + 1]
  /\ IF up[c]
     THEN toShell' = [toShell EXCEPT ![c] = Append(@, RequestChunk(c, sent[c] + 1))] /\ UNCHANGED reqLost
     ELSE reqLost' = reqLost \cup {c} /\ UNCHANGED toShell
  /\ UNCHANGED <<pc, late, received, batch, dropped, shellVars, netVars, toServer, toClient>>

RequestSent(c) ==
  /\ pc[c] = "send"
  /\ sent[c] >= NumChunks(ReqLen[c])
  /\ Go(c, "check")
  /\ UNCHANGED <<sent, late, received, batch, dropped, shellVars, netVars, toShell, toServer, toClient, reqLost>>

\* The timeout is looked at between two reads and never during one.
CheckTimeout(c) ==
  /\ pc[c] = "check"
  /\ Go(c, IF late[c] THEN "failed" ELSE "read")
  /\ UNCHANGED <<sent, late, received, batch, dropped, shellVars, netVars, toShell, toServer, toClient, reqLost>>

TimePasses(c) ==
  /\ pc[c] \in {"check", "read"}
  /\ late' = [late EXCEPT ![c] = TRUE]
  /\ UNCHANGED <<pc, sent, received, batch, dropped, shellVars, netVars, toShell, toServer, toClient, reqLost>>

\* The socket blocks: a read returns with data and only then.
ReadBatch(c) ==
  /\ pc[c] = "read"
  /\ \E k \in 1..Len(toClient[c]) :
       /\ batch' = [batch EXCEPT ![c] = SubSeq(toClient[c], 1, k)]
       /\ toClient' = [toClient EXCEPT ![c] = SubSeq(@, k + 1, Len(@))]
  /\ late' = [late EXCEPT ![c] = FALSE]
  /\ Go(c, "parse")
  /\ UNCHANGED <<sent, received, dropped, shellVars, netVars, toShell, toServer, reqLost>>

\* Nor does one that ends inside a message: nothing comes of it yet.
ReadPart(c) ==
  /\ pc[c] = "read"
  /\ toClient[c] # <<>>
  /\ late' = [late EXCEPT ![c] = FALSE]
  /\ Go(c, "check")
  /\ UNCHANGED <<sent, received, batch, dropped, shellVars, netVars, toShell, toServer, toClient, reqLost>>

ReadFails(c) ==
  /\ pc[c] = "read"
  /\ ~up[c] /\ Go(c, "failed")
  /\ UNCHANGED <<sent, late, received, batch, dropped, shellVars, netVars, toShell, toServer, toClient, reqLost>>

(* parse_command_response_message looks at the messages of a batch in order. *)

BatchDone(c) ==
  /\ pc[c] = "parse"
  /\ batch[c] = <<>>
  /\ Go(c, "check")
  /\ UNCHANGED <<sent, late, received, batch, dropped, shellVars, netVars, toShell, toServer, toClient, reqLost>>

IsOwn(c, m) == m.kind = "answer" /\ m.id = c

\* A message that is not for this client ends the whole batch.
MeetForeign(c) ==
  /\ pc[c] = "parse"
  /\ batch[c] # <<>>
  /\ Head(batch[c]) = Foreign
  /\ batch' = [batch EXCEPT ![c] = <<>>]
  /\ dropped' = IF \E i \in DOMAIN batch[c] : IsOwn(c, batch[c][i])
                THEN dropped \cup {c} ELSE dropped
  /\ Go(c, "check")
  /\ UNCHANGED <<sent, late, received, shellVars, netVars, toShell, toServer, toClient, reqLost>>

\* So does one that is no command message, or an answer with an error status;
\* the command then fails.
MeetError(c) ==
  /\ pc[c] = "parse"
  /\ batch[c] # <<>>
  /\ Head(batch[c]) = Input \/ (IsOwn(c, Head(batch[c])) /\ Head(batch[c]).status = "bad")
  /\ batch' = [batch EXCEPT ![c] = <<>>]
  /\ Go(c, "failed")
  /\ UNCHANGED <<sent, late, received, dropped, shellVars, netVars, toShell, toServer, toClient, reqLost>>

\* zstd::decode_all takes the chunks as they came.  The stream has no checksum:
\* what is made of one with a hole, an error or other bytes, is up to its data.
Decode(c, p) == IF p = answer[c] THEN {"ok"} ELSE {"ok", "failed"}

\* Mutant: the last chunk is recognised before it is kept.
KeepChunkButLast(c) ==
  /\ pc[c] = "parse"
  /\ batch[c] # <<>>
  /\ LET m == Head(batch[c]) IN
       /\ IsOwn(c, m) /\ m.status = "ok"
       /\ IF m.last
          THEN /\ batch' = [batch EXCEPT ![c] = <<>>]
               /\ \E result \in Decode(c, received[c]) : Go(c, result)
               /\ UNCHANGED received
          ELSE /\ received' = [received EXCEPT ![c] = @ \o m.data]
               /\ batch' = [batch EXCEPT ![c] = Tail(@)]
               /\ UNCHANGED pc
  /\ UNCHANGED <<sent, late, dropped, shellVars, netVars, toShell, toServer, toClient, reqLost>>

KeepChunk(c) ==
  /\ pc[c] = "parse"
  /\ batch[c] # <<>>
  /\ LET m == Head(batch[c]) IN
       /\ IsOwn(c, m) /\ m.status = "ok"
       /\ received' = [received EXCEPT ![c] = @ \o m.data]
       /\ IF m.last
          THEN /\ batch' = [batch EXCEPT ![c] = <<>>]
               /\ \E result \in Decode(c, received'[c]) : Go(c, result)
          ELSE /\ batch' = [batch EXCEPT ![c] = Tail(@)]
               /\ UNCHANGED pc
  /\ UNCHANGED <<sent, late, dropped, shellVars, netVars, toShell, toServer, toClient, reqLost>>

-----------------------------------------------------------------------------
(* The shell's stdin thread: CommandProcessor and CommandHistory *)

\* Mutant: any pending request is taken, whatever its message id.
AppendedToAny(m) ==
  (IF pending # {} THEN past[CHOOSE c \in pending : TRUE] ELSE <<>>) \o m.data

\* Mutant: the payload of the chunk is put in front.
AppendedInFront(m) == m.data \o (IF m.id \in pending THEN past[m.id] ELSE <<>>)

\* CommandHistory::append of the chunk at the head.
Appended(m) == (IF m.id \in pending THEN past[m.id] ELSE <<>>) \o m.data

\* The server passes on what it gets: the chunks of one client in their order,
\* those of several in any.
TakeChunk(c) ==
  /\ running
  /\ toShell[c] # <<>>
  /\ toShell' = [toShell EXCEPT ![c] = Tail(@)]
  /\ UNCHANGED <<clientVars, netVars, toClient, reqLost>>

StoreChunk(c) ==
  /\ TakeChunk(c)
  /\ LET m == Head(toShell[c]) IN
       /\ ~m.last
       /\ pending' = pending \cup {m.id}
       /\ past' = [past EXCEPT ![m.id] = Appended(m)]
  /\ UNCHANGED <<runs, answer, running, toServer>>

\* Mutant: the completed request is copied, and stays in past_requests.
RunRequestKeepsIt(c) ==
  /\ TakeChunk(c)
  /\ LET m == Head(toShell[c]) IN
       /\ m.last
       /\ runs' = [runs EXCEPT ![m.id] = Append(@, Appended(m))]
       /\ \E n \in 1..MaxRes, status \in {"ok", "bad"} :
            /\ answer' = [answer EXCEPT ![m.id] = Bytes(n)]
            /\ toServer' = toServer \o AnswerChunks(m.id, status, Bytes(n))
  /\ UNCHANGED <<running, pending, past>>

\* The last chunk completes the request; it is run and all of its answer queued.
RunRequest(c) ==
  /\ TakeChunk(c)
  /\ LET m == Head(toShell[c]) IN
       /\ m.last
       /\ pending' = pending \ {m.id}
       /\ past' = [past EXCEPT ![m.id] = <<>>]
       /\ runs' = [runs EXCEPT ![m.id] = Append(@, Appended(m))]
       /\ \E n \in 0..MaxRes, status \in {"ok", "bad"} :
            /\ status = "ok" => n > 0          \* a compressed answer is never empty
            /\ answer' = [answer EXCEPT ![m.id] = Bytes(n)]
            /\ toServer' = toServer \o AnswerChunks(m.id, status, Bytes(n))
  /\ UNCHANGED running

\* The thread panics while it runs the request, and nobody notices.
RunPanics(c) ==
  /\ TakeChunk(c)
  /\ LET m == Head(toShell[c]) IN
       /\ m.last
       /\ pending' = pending \ {m.id}
       /\ past' = [past EXCEPT ![m.id] = <<>>]
       /\ runs' = [runs EXCEPT ![m.id] = Append(@, Appended(m))]
  /\ running' = FALSE
  /\ UNCHANGED <<answer, toServer>>

-----------------------------------------------------------------------------
(* The server and the network *)

RouteAnswer ==
  /\ toServer # <<>>
  /\ LET m == Head(toServer) IN
       toClient' = IF up[m.id] THEN [toClient EXCEPT ![m.id] = Append(@, m)] ELSE toClient
  /\ toServer' = Tail(toServer)
  /\ UNCHANGED <<clientVars, shellVars, netVars, toShell, reqLost>>

Returned(c) == pc[c] \in {"ok", "failed"}

Misroute(c) ==
  /\ up[c] /\ ~Returned(c)
  /\ foreign < MaxForeign
  /\ foreign' = foreign + 1
  /\ \E m \in {Foreign, Input} : toClient' = [toClient EXCEPT ![c] = Append(@, m)]
  /\ UNCHANGED <<clientVars, shellVars, up, breaks, ansLost, toShell, toServer, reqLost>>

\* The connection of a client is lost, and with it the end of its request that
\* was on its way; what the client has received can still be read.
ClientLinkBreaks(c) ==
  /\ up[c] /\ ~Returned(c)
  /\ breaks < MaxBreaks
  /\ breaks' = breaks + 1
  /\ up' = [up EXCEPT ![c] = FALSE]
  /\ \E k \in 0..Len(toShell[c]) :
       /\ toShell' = [toShell EXCEPT ![c] = SubSeq(@, 1, k)]
       /\ reqLost' = IF k < Len(toShell[c]) THEN reqLost \cup {c} ELSE reqLost
  /\ UNCHANGED <<clientVars, shellVars, foreign, ansLost, toServer, toClient>>

\* The connection of the shell is lost: with it the end of what was on its way
\* to the shell, and the next chunks of answers, however many its socket and the
\* main thread held.  (Chunks spoiled by a short write are lost the same way,
\* with nothing else.)
ShellLinkBreaks ==
  /\ breaks < MaxBreaks
  /\ breaks' = breaks + 1
  /\ \E k \in [Clients -> UNION {0..Len(toShell[c]) : c \in Clients}] :
       /\ \A c \in Clients : k[c] <= Len(toShell[c])
       /\ toShell' = [c \in Clients |-> SubSeq(toShell[c], 1, k[c])]
       /\ reqLost' = reqLost \cup {c \in Clients : k[c] < Len(toShell[c])}
  /\ \E n \in 0..Len(toServer) :
       /\ toServer' = SubSeq(toServer, n + 1, Len(toServer))
       /\ ansLost' = ansLost \cup {toServer[i].id : i \in 1..n}
  /\ UNCHANGED <<clientVars, shellVars, up, foreign, toClient>>

Done == (\A c \in Clients : Returned(c)) /\ UNCHANGED vars

-----------------------------------------------------------------------------
Client(c) ==
  \/ SendHeader(c) \/ HeaderFails(c) \/ SendRequestChunk(c) \/ RequestSent(c)
  \/ CheckTimeout(c) \/ ReadBatch(c) \/ ReadPart(c) \/ ReadFails(c)
  \/ BatchDone(c) \/ MeetForeign(c) \/ MeetError(c) \/ KeepChunk(c)

Shell == \E c \in Clients : StoreChunk(c) \/ RunRequest(c) \/ RunPanics(c)

Network ==
  \/ RouteAnswer
  \/ ShellLinkBreaks
  \/ \E c \in Clients : Misroute(c) \/ ClientLinkBreaks(c)

Next ==
  \/ \E c \in Clients : Client(c) \/ TimePasses(c)
  \/ Shell \/ Network \/ Done

Spec == Init /\ [][Next]_vars

\* Clients, the shell and the server go on as long as they can.  A message is
\* finite, so a client that goes on reading gets to its end.  Connections need
\* not break, and no message needs to be misrouted.
Fairness ==
  /\ \A c \in Clients : WF_vars(Client(c)) /\ SF_vars(ReadBatch(c))
  /\ WF_vars(Shell)
  /\ WF_vars(RouteAnswer)

LiveSpec == Spec /\ Fairness

-----------------------------------------------------------------------------
(* Safety *)

Payload(c) == Bytes(ReqLen[c])

\* A request is run as it was sent, byte for byte, however the chunks of
\* several requests interleave, unless a connection lost one of its chunks.
RunsWhatWasSent ==
  \A c \in Clients \ reqLost : runs[c] \in {<<>>, <<Payload(c)>>}

\* What a lost connection can do to a request that is run is to leave chunks
\* out: nothing is swapped, repeated or taken from another request, and the
\* end is always there.
RunsPartsInOrder ==
  \A c \in Clients : \A k \in DOMAIN runs[c] :
    LET p == runs[c][k] IN
      /\ \A i, j \in DOMAIN p : i < j => p[i] < p[j]
      /\ p # <<>> /\ p[Len(p)] = ReqLen[c]

\* Losses never make the shell run a request twice.
RunsOnce == \A c \in Clients : Len(runs[c]) <= 1

\* A request is kept in past_requests only while a chunk of it is still to
\* come; when none was lost, none is kept for ever.
NoStaleRequest ==
  \A c \in pending \ reqLost :
    \/ sent[c] < NumChunks(ReqLen[c])
    \/ toShell[c] # <<>>

\* A command that succeeds returns the answer the shell made for it, whole and
\* in order, unless a chunk was lost with the shell's connection or dropped by
\* the client with the rest of a batch.
AnswerIsTheShells ==
  \A c \in Clients \ (ansLost \cup dropped) :
    pc[c] = "ok" => received[c] = answer[c] /\ answer[c] # <<>>

\* What the client says it does with a message that is not for it ("Ignore..."):
\* only that message is ignored.  So a client that has read the whole answer
\* does not wait for more.
ForeignIsIgnored ==
  \A c \in Clients \ ansLost :
    pc[c] = "read" /\ answer[c] # <<>> /\ toClient[c] = <<>> =>
      \/ ~up[c]
      \/ \E i \in DOMAIN toServer : toServer[i].id = c

-----------------------------------------------------------------------------
(* Liveness *)

\* A command returns, with or without success, when no connection is lost, no
\* message is misrouted, the shell's thread survives, and there is something
\* to send: an empty request has no chunk, so no answer either.
CommandReturns ==
  <>(\A c \in Clients : Returned(c) \/ breaks > 0 \/ foreign > 0 \/ ~running \/ ReqLen[c] = 0)

\* What the timeout of a command promises: a command that waits longer than
\* command_timeout gives up.
CommandTimesOut ==
  \A c \in Clients : (pc[c] = "read" /\ late[c]) ~> Returned(c)
=============================================================================
