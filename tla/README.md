# Verification of the hoposhell client

`hopo` shares a shell with a server: `hopo connect` runs a shell in a pseudo
terminal and carries it over one TCP (or TLS) connection, and `hopo command`
sends a request through the server to such a shell and waits for its answer.
`hopo forward-tcp` does so for every caller of a local port, and `hopo setup`
fetches the key of a shell. This directory holds TLA+ models of the program
from its command line to what it shows, the TLC configurations that check them,
and TLAPS proofs of every safety property they check. Paths below are relative to `src/src/` of
the repository.

## 1. The system

| Part | Source | State | Operations |
|---|---|---|---|
| Main thread of `connect` | `connect.rs` | connection, `buf_str`, `last_keep_alive`, the message being written | connect, header, size, replay, then a loop of read, forward one message, keep alive |
| stdout thread | `run_shell.rs:116-153` | history of outputs | read the pty, trim and push the history, send to the channel |
| stdin thread | `run_shell.rs:63-114` | pty, its size, the answer being queued | write the pty; resize; restart; run a command and send its answer chunk by chunk |
| Channels and locks | `run_shell.rs`, `connect.rs` | two unbounded mpsc channels; mutexes on the history and the pty | |
| Framing | `message.rs`, `connect.rs:301-355` | characters left over by a read | cut the stream into messages; write one message |
| Command client | `commands/send_command_handler.rs` | chunks received, time of the last read | send header and chunks, read batches, assemble the answer |
| Command processor | `commands/command_history.rs`, `commands/command_processor.rs` | requests that wait for their last chunk | reassemble by message id, run, answer |
| Chunking | `commands/request_or_response.rs` | none | cut a payload, mark the last chunk |
| TCP forwarding | `forward_tcp.rs`, `commands/tcp.rs` | one caller, one buffer, one request at a time | accept, read once, one command, write the answer |
| Commands | `commands/{ls,glob,http,tcp,scripts,download}.rs`, `commands/send_command_handler.rs` | the client's files | words to a request, run it, answer, show or save |
| Messages of commands | `commands/request_or_response.rs` | none | join fields with a separator, take them apart |
| Arguments, environment, credentials | `args.rs`, `main.rs`, `connect.rs:45-83, 107-161` | environment of a terminal, files of the hoposhell folder | parse, setup, pick a key, hand an environment to the shell, load the credentials |
| Populate | `populate.rs` | a folder | download one program |

How they interact: the main thread and the stdin thread share the channel *to
the command*; the stdin and stdout threads and the main thread share the
channel *to the stream*; the main thread reads the history under its lock at
the beginning of every connection, while the stdout thread pushes to it; the
main and the stdin thread share the lock on the pty. The command client talks
to the stdin thread of another process, through the server. A forwarder is such
a client, once for each caller of its port. Processes started in the shell of a
session get the session's id from its environment, and all processes of a user
share the hoposhell folder. The server is not in the repository: the models say
what they assume of it.

What is hard to test here:

* *order* — an output reaches the reader by two ways, the replay of the
  history and the channel, and a reconnect can fall between any two steps;
* *loss* — what a socket took and did not deliver is lost with its connection, as
  is the message in the main thread's hands; a batch of messages can be lost in
  the middle of a request, and what is left of the request is run;
* *back-pressure* — the socket is non-blocking: before the loop a full buffer
  ends the connection, in the loop the write is retried, and a write into
  nearly full buffer can be cut short without anybody noticing;
* *silent death* — the stdin thread can panic, and everything else goes on;
* *cuts* — a read ends anywhere in a frame;
* *waiting* — a command waits in a read without a timeout, and a forwarder
  serves one caller at a time;
* *separators* — the fields of a message are joined by the character that
  separates paths, and errors travel in another form than results;
* *identity* — an id and a key are found by an argument, an environment or a
  folder that a setup is rewriting, and have to agree;
* *panics of one thread* — some requests of a client end the stdin thread of the
  shell, for every other client as well.

The list with a source line for each is under `hazards` in `PROJECT.json`,
with the properties that cover it or the reason why none does. Several are named
there and *not* caught, among them what follows from a dead stdin thread (`InputIsHandled`,
`CommandReturns`, `WaitsOnlyWhen` and `CallersAreServed` except it;
`StdinSurvives` says what causes it), an empty request, an answer a forwarder
waits for and that cannot come any more, and the end of what a caller of a
forwarded port says, of which only a beginning is promised.

## 2. The modules

| Module | What it is |
|---|---|
| `ShellSession` | `hopo connect`: the three threads, the channels, the history, the locks, the socket and the loss of connections |
| `OutputFeed` | abstract: what a reader of the shell's output can rely on |
| `ShellSession_proofs` | theorems about `ShellSession`: types, the history, the outputs, the refinement |
| `ShellSessionOrder_proofs` | theorems about `ShellSession`: the order of input, sizes, chunks and outputs |
| `CommandExchange` | `hopo command` and the shell's side of it, for several clients |
| `CommandExchange_proofs` | the theorems about `CommandExchange` |
| `MCCommandExchange` | two clients and the lengths of their requests |
| `Framing` | cutting the stream into messages |
| `MessagePipe` | abstract: an ordered pipe of messages that a new connection empties |
| `MCFraming` | the contents of the messages |
| `SequenceRecursion` | lemmas about functions computed along a sequence, for any step |
| `Framing_proofs` | the theorems about `Framing` |
| `Commands` | one command from its words to its output: flags, the message, the handlers, the answer, where a download goes |
| `MCCommands` | the command lines and the machines |
| `Commands_proofs` | the theorems about `Commands` |
| `ForwardTcp` | `hopo forward-tcp` and the `tcp` command behind it |
| `ForwardTcp_proofs` | the theorems about `ForwardTcp` |
| `Launch` | processes in terminals, their environments, the credentials in the folder |
| `MCLaunch` | a folder with two keys and backups |
| `Launch_proofs` | the theorems about `Launch` |

`Framing` implements `MessagePipe`, and that is what the other two take for
granted of a stream: messages come whole, in order, and the end of them is
lost with the connection. `CommandExchange` takes from `ShellSession` what the
loss of a shell's connection does: it drops the end of the input that was on
its way (`InputInOrder`) and of an answer the chunks its socket and the main
thread held (`AnswerGapsBounded`). `Commands` looks inside the messages that
`CommandExchange` moves, for one command whose messages arrive; `ForwardTcp`
takes of a command only that its request may be lost, lose chunks, run late or be
left without an answer. `Launch` says who a process is before any of that begins.

### ShellSession

One action is one step of one thread between two points where another thread
or the network can act. `mainPc` follows the main thread through
`main_connect` (`connect`), the three writes at the start of
`handle_connection` (`header`, `size`, `replay`) and the loop (`read`, `recv`,
`write`, `keepalive`); `outPc` and `stdinPc` do the same for the two threads of
`run_shell`. Details that matter:

* Locks are guards. A replay holds the history from its first entry to its last
  (`connect.rs:206`), so `PushHistory` waits while `mainPc = "replay"`; a resize
  holds the pty until its size message is queued (`resize.rs`), so `SendSize`
  waits while `stdinPc = "resized"`.
* The socket is a counter of buffered frames, `unsent`. `Write` needs room and
  may cut the frame that takes the last of it. The same full buffer means
  *disconnect* in `SetupFails` and `KeepAliveFails`, and *wait* in `WriteLive`.
* `LinkBreaks` can happen at any moment; the main thread notices at its next
  read or write, and until then goes on writing into the socket's buffer. When the
  stream is dropped the end of what the buffer holds is lost: `Connect` takes up to
  `unsent` frames off the `wire`. What was in `inbound` is lost
  with the stream; what was forwarded to `toCmd` is not. A message in `inHand`
  is lost.
* What the server asks for is chosen when the stdin thread takes the message:
  keystrokes, a resize, a command, a restart, or something that makes the
  thread panic.
* `wire` records the frames the server got or can still get, with the number of the
  connection. It is a history variable: no guard reads it.

### CommandExchange

Clients run `send_request_and_get_response`; the shell's stdin thread runs
`CommandProcessor::process_msg` and queues the whole answer. Payloads are
sequences of byte numbers, cut as `slice::chunks` does. A batch of messages is
what one read returns; `parse_command_response_message` looks at them one by
one and each early return of it is an action. Decompression succeeds on the
shell's own payload; of a payload with a hole it may fail or return something
else, since the compressed stream carries no checksum. The server keeps the
order of messages, routes an answer by its id, and may hand a client messages
it did not ask for. A lost client connection takes with it the end of the
request that was on its way, a lost shell connection the end of everything on
its way to the shell and any number of the next chunks of answers. A read that
ends inside a message is `ReadPart`.

### Framing

Here the stream is a sequence of characters, because a read may end inside the
base64, the mark (`-iii`, `-ccc`) or the separator (`---\n`). A base64 group has
two characters, enough to have an inside. `Separate` is `separate_messages`
with its peculiarities: a message is handed on as soon as its mark is complete,
even before its separator, and the last part is recognised by its *value*.

### Commands

A text is a sequence of tokens. The separator of fields, of paths and of URLs is
one token, `"/"`, so that what a path does to a message is what it does in the
code: `Remaining` is what `splitn(6, ...)` has left at each part, and `Field` and
`Rest` are its parts. `world` holds what the machines
are like and is chosen at the start: the file to download and the files and
folders on the client, the matches of a pattern, what a web server or a peer
does, what a script does. Handlers are functions of `world` and of the request
the shell took apart, never of the words the client was given; a handler can
panic. What a client may do with an answer follows `send_command_handler.rs`
and the handler of each command: print it in a format, or, for a download,
compute a destination (`Destination`, with `is_dir`, `is_file` and
`Path::parent`) and write it, which may fail and leave a cut file. A download to
`-` is one write to standard output that may take less than all (`ShowDownload`).
A match of a pattern may be gone, have a name that is not UTF-8, or a time before
1970, which panics in both handlers that list. The exit code
of a script is four tokens in front of its output.

### ForwardTcp

`pc` follows the body of the loop: `accept`, `read`, `send`, `wait`; `Continue`
is every `continue` and the end of the body, where the stream is dropped. A
byte is a pair of its caller and its place, so that one caller's bytes can be
told from another's. `ReadSome` takes any part of what was sent, up to the size
of the buffer, or nothing from a caller that has closed its end; `ReadFails` is
the timeout of one second or a reset. The request holds the buffer, not the part
that was read (`forward_tcp.rs:40`). `ShellRuns` is `process_tcp_command`: the
target may refuse the connection (a panic of the shell's stdin thread), take a
part of the data, or keep its end open. A request is JSON of several chunks:
`LoseRequest` is the loss of its last one (or of all), `LoseChunks` that of others,
after which the shell runs what is left. Numbers of the list are missing then,
and where the hole was the digits of two of them may make a third (`Seam`), or the
rest is no JSON (`MayBeNoJson`) and is refused. `cut`, `target` and `got` are history.

### Launch

`term` holds the environment of each terminal, `proc` the process of hoposhell
in it. `Run` is `parse_args` and the choice of `main`; `Name`, `KeyPath` and
`Key` are how an id and a key are found. `OpenShell` opens a terminal with the
environment `run_shell` makes, before the credentials are loaded, as in the code;
`Ends` closes the terminals a session has opened, with what runs in them, and is
what a failed `LoadCrt` or `LoadKey` does. A file is written in two steps, as
`fs::write` does (empty, then fill); `hurt` records the files whose setup ended
in between. `alone` is history.

## 3. The runs

| Run | Bounds | What it shows |
|---|---|---|
| `ShellSessionOutput` | history limit 1, buffer of 4 frames, 3 outputs, no input, 2 connections, TLS | types; the inductive invariant; the history's bound; no output is skipped; none is shown three times on a connection; refinement of `OutputFeed`; every output is written for good, unless newer ones pushed it out of the history or the process ended |
| `ShellSessionInput` | buffer of 4, 2 sizes, 2 inputs per connection, no chunks, 2 connections | the last size written is the terminal's; input is handled in order and without holes but at the end of a connection; what was read is handled, unless the stdin thread died |
| `ShellSessionAnswer` | buffer of 1, answers up to 3 chunks, 1 input per connection, 2 connections | answers go out in order and once; no chunk is missing inside a connection, and a lost connection costs no more of them than its socket and the main thread held (`SendBuf + 1`) |
| `Command` | requests of 3 and 2 bytes, chunks of 2, answers up to 3, 1 lost connection, 1 misrouted message | the shell runs what was sent, or with chunks lost what is left of it in order, once; nothing stale stays; a successful command has the whole answer; every command returns when nothing was lost or misrouted, unless its request is empty or the shell's thread died |
| `Commands` | 8 commands with and without flags, paths and ids with and without separators, every kind of machine | the shell runs what was typed; the client shows what the machine had to say; a download lands where it was sent and nowhere else; when a command waits; what ends the stdin thread |
| `Launch` | 2 windows and 1 terminal of a session, 3 environments, 2 names, 4 key files | types; no session in a session; a command in a session is the session's; a connected client has its own key; when files are cut, and that a setup mends them |
| `Forward` | 2 callers, buffer of 3, up to 3 bytes | types; a target gets one caller's bytes, in order, or what holes left of them; a caller gets its own answer, after the target took all the shell had of its request; nothing is forwarded twice; every caller is served to an end |
| `Framing` | 3 messages of 3 types, 2 contents, reads of 1 to 9 characters, 2 connections | refinement of `MessagePipe`; no message is held back; no cut makes the decoder panic |
| `CommandIgnoresForeign` | 1 misrouted message, no lost connection | **violated**: see Findings |
| `CommandTimeout` | answers of 1 byte, no loss | **violated**: see Findings |
| `CommandsBareName` | a download to a file name without a folder | **violated**: see Findings |
| `ForwardPadding` | 1 caller, buffer of 2, 1 byte | **violated**: see Findings |

Why the bounds are enough. A history limit of 1 with 3 outputs makes the history
overflow, hold its extra entry, and be trimmed. Two connections contain one
reconnect with everything that can be on its way at that time. A buffer
of 4 frames is filled by the header, the size and a replay. Two inputs make
a batch that is read in one or two pieces. The requests of 3 and 2 bytes are a
whole chunk with a shorter one, and exactly one chunk. Reads of at most 9
characters are longer than the shortest frame (8) and shorter than two.
A buffer of 1 with answers of 3 chunks lets a dead link swallow two of them, one in
the socket and one in hand, and shows every chunk that is missing inside a
connection; that no third is lost with a link takes answers of 4 chunks, ten
million states, and is left to the theorem `GapsAreBounded`. A request of 3 numbers is the shortest in which a hole
has a number on each side and one in the middle; callers of no, one, two and three
bytes leave it empty, partly filled and full, and two callers are what one can leave
to the next. A caller that has more to say than the buffer holds is in the
theorems, which are for any sizes. A terminal for
a session, with two windows beside it, holds a session with a command, a setup or
a second session in it while another setup or session runs outside; a session in
a session would need one more, and `Launch_proofs` shows for any number of
terminals that there is none. The four files are a key that is listed, one that is
not, a backup that is taken for a key, and the file such a backup makes commands
look for.

Configurations bound the counters in guards: `MaxOut`, `MaxIn`, `MaxConn`,
`MaxChunks`, `MaxRes`, `MaxBreaks`, `MaxForeign`, `MaxMsgs`. The last connection
of a run does not break (`LinkBreaks` needs `conn < MaxConn`). In `ForwardTcp` each
caller calls once, with at most `MaxSize` bytes; in `Launch` the bound is the
number of terminals. The deadlock check is off where the system may stop:
in `Framing`, when the bounded server has nothing more to send and its reader
waits; in `Commands`, when the command has ended or waits for an answer that does
not come; in `ForwardTcp`, when all callers were served or the process has ended,
and in `CommandsBareName` and `ForwardPadding` for the same reasons.

**Fairness.** `ShellSession`: weak fairness of the main thread, of the stdin
thread, of the stdout thread once it has an output in hand, and of the peer
draining the socket. They are operating-system threads that nothing but the
locks above holds up, and the locks are released by the same fair steps. Fairness of the
stdin thread also says that a command it runs comes to an end and that the pty
takes what is written to it; a command that hangs, or a shell that reads no
more, holds up all later input. No fairness is assumed of the pty producing
output or of the server sending.
`CommandExchange`: weak fairness of every client, of the
shell's thread, and of the server forwarding answers; strong fairness of a client
reading to the end of a message (`ReadBatch`), since a message is finite and reads
that end inside it (`ReadPart`) cannot go on for ever.
`ForwardTcp`: weak fairness of each step of the loop and of the shell's thread.
The read has a timeout of one second (`forward_tcp.rs:25`), so one of `ReadSome`
and `ReadFails` happens; the write of an answer has none, so `TakeAnswer` says
that a caller that is there takes what it is written. Nothing makes a connection
break: `CallersAreServed` excepts a loop that waits for an answer that cannot come
any more, which is the hazard of `CommandTimesOut` seen from here.

That the buffer of 4 frames in `ShellSessionOutput` holds a header, a size and a
whole replay matters: a replay that does
not fit the buffer can fail on every connection, because a full buffer ends the
connection before the loop. That is a property of the program, listed as a
hazard; nothing in the repository promises otherwise.

## 4. What is proved

`ShellSession_proofs`, for every history limit above zero, every buffer, every
set of sizes and any number of outputs, inputs and connections
(`SessionAssumption`):

* `TypeCorrect`: `Spec => []TypeOK`;
* `HistoryStaysBounded`: the history has `MaxHistory + 1` entries at most;
* `NothingSkipped`: `Spec => []NoOutputSkipped`;
* `SessionImplementsFeed`: `Spec => ImplementsFeed`, the refinement of
  `OutputFeed` with `shown` mapped to the outputs written to the present
  connection.

The argument. `NoOutputSkipped` is not inductive: to know that the end of a
replay leaves no hole one has to know what the history holds. `OutputInv` says
it: the history is the gapless end of what was recorded (`HistoryIsTail`); what
is in the channel was queued before (`QueuedIsPast`); during the setup of a
connection exactly the replayed entries have been shown (`ReplayIsShown`); in
the loop every output in the channel extends what is shown or what is before it
in the channel (`QueuedExtends`). The push-before-send order of the stdout
thread and the lock held by the replay are each used once and needed: without
either, the run finds a hole. `OutputInvariant` proves `OutputInv` conjunct by
conjunct, each by the actions that can disturb it; the refinement follows, since a `WriteLive` is a `Show` by
`QueuedExtends` and a `Replay` is one by `HistoryIsTail` and `ReplayIsShown`.

`ShellSessionOrder_proofs`, for the same constants: `InputStaysInOrder`
(`InputInOrder`), `SizeStaysFresh` (`SizeFresh`), `ChunksStayInOrder`
(`ChunksInOrder`), `GapsAreBounded` (`AnswerGapsBounded`) and
`ShownAtMostTwice` (`OutputAtMostTwice`). Each has an invariant of its own, and
`OrderInvariant` proves them together. `InputInv`: what waits to be handled ends
with the last message of the present connection, if that has sent any. `SizeInv`:
the last size in the channel is the pty's; if there is none, the one being
written is, and else the last one written, which is why the lock must be held
from the resize to the queueing of its message. `ChunkInv`: from the wire to the end of the
channel the chunks of an answer rise (`WireInOrder`), and none answers a later
input than the last that was taken. `LossInv` counts: a chunk still on its way
follows its predecessor if any of its answer is ahead of it, and between the last
one on the wire and the next as many are missing at most as the connections opened
since have cost, `LostWithConnection` each: the frames the lost socket held and the
one in hand (`NearIn`, `FollowsIn`). `TwiceInv`: a connection's outputs are two rising runs, the replay's and the
loop's (`TwoRuns`), and a number occurs in a rising run once.

`CommandExchange_proofs`, for any clients, requests, chunk sizes and numbers of
losses: `TypeCorrect` (`TypeOK`), `RequestRunsOnce` (`RunsOnce`),
`RequestRunsInOrder` (`RunsPartsInOrder`), `RequestRunsWhole`
(`RunsWhatWasSent`), `RequestNotStale` (`NoStaleRequest`) and `AnswerIsWhole`
(`AnswerIsTheShells`). The request has one invariant, for each client apart
(`RequestInv`): the bytes kept and the chunks in the client's queue are stretches
of the request that follow each other (`Kept`, `Queued`); a request that was run
has been sent to its end and has nothing left (`Run`), so that the chunk that
completes a request is the last there is, and it is not run twice; while nothing
was lost there is no gap (`NoGap`). The answer has another (`AnswerInv`): what a client has, what
it can read and what can still be routed to it are, in this order, chunks of the
one answer the shell made for it (`Arrived`, `MadeOf`), and nothing is missing between
them unless a loss is on record (`Connected`). Most steps only shorten that path,
which `Stays` says once for all of them.

`Framing_proofs`, for any contents, any size of the read buffer, and any number
of messages and connections (`FramingAssumption`): `TypeCorrect` (`TypeOK`),
`NoCutPanics` (`NeverPanics`), `AllHandedOn` (`NothingHeldBack`) and
`FramingIsAPipe`, the refinement of `MessagePipe`. The argument is about positions. The stream is
the frames of the messages sent, one after the other; so many messages and so
many characters of the next have been read (`Streams`). `Holds` then says what
the client has: what is left over is a beginning of the next frame (`IsPart`) or
the end of one that was recognised by its mark (`IsTail`), and the messages
handed on are the known ones of the first `k`, or one more, because a message is
handed on when its mark is complete and before its separator is. The peculiarity
that the last part is found by its value needs `Handled`: complete parts give
their messages whatever the last part is, except when the last one has the mark of an
unknown type, and then what stays behind is harmless. A read is scanned
character by character (`Scanned`).

That is an induction over the characters of a read, and the library's induction
theorems cannot be used here, since they take an operator as a parameter.
`SequenceRecursion` has it in another form: a set of numbers that is not empty has a
least one (`LeastNumber`, from the well-foundedness of `<`), so a set with 0 and all
successors has every number (`SetInduction`), and a function computed along a
sequence exists, is unique, and takes one step for one element more (`RunExists`,
`RunResult`, `ResultSteps`). The recursive functions of `Framing`, `MessagePipe`
and `Commands` are each shown to be such a computation once, and their proofs use only
these steps.

`Commands_proofs`, for any command lines and any machines a `World` describes
(`CommandsAssumption`): `TypeCorrect` (`TypeOK`), `AnswersAreShown`
(`ShowsTheShellsAnswer`), `DownloadsLand` (`DownloadLands`), `WaitsForAReason`
(`WaitsOnlyWhen`), `ThreadSurvives` (`StdinSurvives`), and, for a plain line,
`RunsTheTyped` (`RunsWhatWasTyped`). The fields come first: a field without a
separator is taken off as it was put on (`TakenOff`), so a message whose fields hold
none makes the round trip (`RoundTrip`), and a field that was taken off holds none
(`FieldsAre`), so an answer always makes it. Of a request, the command always
arrives. When an id holds a separator, the mark of the last chunk is looked for among
the tokens of the ids (`Shifted`): the message is dropped or kept for ever unless
an id has a part called `last`. The invariant `CommandInv` ties the state to the
line: what is on its way is the message of the words; what was run is what the shell
makes of it; an answer on its way and the payload a client shows are those of what
was run. What a client prints depends on the command and the machine only, which is why
`AnswersAreShown` needs nothing of the ids.

*A plain line* (`PlainLine`) is the hypothesis of `RunsTheTyped`: no id has a part
called `last`, and the first parameter is not itself an output flag, which it is
when a flag is given twice, since `consume_extra_arg` takes the first of each
away. Both hold of all lines of the run `Commands`. Without them the statement is false: the
request for a shell `team/last` is run with the rest of its own header in front of its
payload, and
`hopo command s ls --json --json` lists a file called `--json`. The assumptions on
constants say besides that the tokens are strings, that the bytes of a code differ,
and that nothing typed or stored is the token that stands for compressed bytes.

`ForwardTcp_proofs`, for any set of callers, any buffer and any number of bytes
(`ForwardAssumption`): `BytesApart` (`TargetGetsOneCallersBytes`),
`NothingTwice` (`ForwardedOnce`) and `OwnAnswer` (`AnswerIsTheCallers`). None of
the three is inductive, since each speaks of what has arrived. `Clean` adds what
the buffer holds between a read and a send, and what is on its way: padded, or
holed once it has lost chunks. That a hole in what is padded or holed leaves it
holed is `HoledAround`; that a new request is not taken for one with a hole needs
`Numbers`, since no number is given before its request is made. `Once` adds
that a caller whose request is on its way, or has arrived, is past its send; it
rests on `Queue`: a caller waits once, and the one that is served is not waiting.
`Tied` adds that the number of a request or an answer, when it is the present
one, belongs to the present caller (`Owned`), and that an answer that says success
is to a request whose target took all there was of it (`Took`): numbers only grow, and a loop that
waits sent its own last. That an answer that is late never reaches the next
caller follows from that alone, not from anything the links do.

`TypeCorrect` is `TypeOK`, from an invariant of its own.

`Launch_proofs`, for any terminals, names, environments and folder
(`LaunchAssumption`: a file `<name>.pem` has the stem `name`, and at first holds
the key of that name if it holds one): `TypeCorrect` (`TypeOK`),
`SessionsDoNotNest` (`NoNestedSession`), `SetupsRepair` (`SetupRepairs`),
`CutsAreExcused` (`CutOnlyInWriting`), `KeysAreOwn` (`HoldsItsOwnKey`) and
`CommandsAreTheSessions` (`CommandIsTheSessions`). The first two share an invariant: what runs, runs in an open terminal
(`RunsInOpen`); a terminal that a session has opened says so (`SessionIsTold`); a
session runs where nothing says so (`NotTold`). The first is needed because
terminals are opened anew. The third adds that a setup counted as alone has no
other beside it (`AloneIsAlone`), so that the files are as far as it is
(`Progress`).

The next two hold while no terminal has a key variable, which is a statement
about all terminals at once: closing the last one that has it must not make it
true, after setups have written where they pleased. `Inherits` says why it does
not: the terminal of a session has the variable of the window the session is in,
and the window outlives it. With that, a setup writes the file of its own name
(`OwnFiles`), and while it writes its key the file is cut or holds that key
(`Filling`), which leaves `CutOnlyInWriting`. For the keys, who has a name has the
file of that name (`KeyOfName`), and a file that is no backup holds its own key
(`KeyInPlace`); so a key that is loaded, or picked first and then rewritten by a
setup, is that of the shell the client takes itself for (`HoldOwn`).

For a command in a session, `Later` says that the session that opened a terminal
is there, past the choice of its key, and has given the terminal its id; the key it
has is that of its environment, or that of its id or a backup (`KeyOfSession`); and
a command in such a terminal has the terminal's id and the key that goes with it
(`OfItsTerminal`). With
`Inherits` the two are the same key: a session's key is chosen before its shell
can be typed in, and is not chosen again.

Only model-checked: the four liveness properties, `OutputIsWritten` and
`InputIsHandled` of `ShellSession`, `CommandReturns` of `CommandExchange` and
`CallersAreServed` of `ForwardTcp`, since fairness and `ENABLED` are outside the
prover. Every invariant and both refinements of the passing runs are proved.

## 5. Findings

* *A foreign message is not just ignored.* `send_command_handler.rs:316` says
  "Got a response with a unexpected message_id ... Ignore...", and the code then
  returns from the loop over the batch: every message of the same read is
  dropped. In the run `CommandIgnoresForeign` the dropped message is the
  command's whole answer, and it waits for ever.
* *A command does not time out.* `send_command_handler.rs:229-231` compares the
  elapsed time between two reads, but the socket blocks and has no read timeout
  (`connect_to_hoposhell`, lines 156-163). In the run `CommandTimeout` the
  shell's thread has panicked and the command waits for ever.

* *A download to a bare file name is refused.* `Path::parent` of a name without a
  folder is the empty path, and that is no directory (`download.rs:109-116`), so
  `hopo command s download r/f new` says that `new` "is inside a non-existing
  folder" (`download.rs:117`), in a folder that exists. The run
  `CommandsBareName` shows it; `./new` works.
* *A forwarded port pads what it forwards.* The request is made of the whole
  buffer of 16K (`forward_tcp.rs:40`), so the target receives zeros behind what
  the caller sent, or only zeros from a caller that closed without sending. In the
  run `ForwardPadding` the target gets more than the caller's bytes.

Also seen, with no run of their own: the usage in `args.rs:94-97` lists
`hopo upload` and `hopo download`, which `parse_args` takes for names of shells, and the
usage of `forward_tcp.rs:9` disagrees with the arguments `args.rs` reads; a
refused connection (`tcp.rs:45`), a file name that is not UTF-8 (`ls.rs:35`) and a
time before 1970 (`file_list.rs:32`, `glob.rs:46`)
end the stdin thread of the shell, for every client; a download to `-` is one
`write` whose count is ignored (`download.rs:44`), so it can be cut and end well; a setup that is run inside
a session can be ended by that session, when it cannot load the certificate the
setup is writing; `shell_.*\.pem` is not anchored, so a backup of a key counts as
a key with another id.

Also seen, with no text in the repository to hold against them: the history
holds one entry more than its constant; after a reconnect outputs can be shown
twice, and ones older than the history can be shown after newer ones, which is
why `OutputFeed` promises a growing end and not a sorted sequence; a request
that lost a chunk in the middle is run with a hole, which for a forwarded port can
mean an answer to a caller whose target got less than the caller sent; a link that
is dead goes on accepting frames, so that several chunks of an answer can be lost
with one connection; a request with an empty
payload sends no chunk at all and waits for an answer (`CommandReturns` excepts
it).

## 6. What is not modelled

* `ShellSession`: a read timeout other than zero; the bytes of a keep-alive
  (four, not counted in the buffer); the server's view of a frame that was cut;
  a poisoned lock (the panics of the stdin thread happen outside the locks
  other threads use); reading of certificates.
* `CommandExchange`: two commands with the same random id; a failure of the
  compressor, which works in memory; the part of `CommandHistory` that
  assembles responses, whose result `process_msg` drops; the header message,
  beyond whether it can be written.
* `Framing`: content that is not UTF-8 or not base64, which the server does not
  send.
* `Commands`: losses, chunks and other commands (they are `CommandExchange`'s); a
  standard output that refuses what is printed; folders outside the one the client
  works in; the
  wording of errors and of tables; a script's arguments and directory; the order
  of bytes on two machines that differ in it; HTTP status codes and headers.
* `ForwardTcp`: a caller that closes only its sending half; a caller that never
  reads its answer, which would hold up the loop; messages for somebody else,
  which are `CommandExchange`'s; a listening port that cannot be bound.
* `Launch`: the variables and options that are copied into a record without a
  decision (addresses, durations, sizes, folders); the network half of setup;
  certificates that are there but out of date.
* `populate.rs`: a straight sequence of downloads and file operations that no
  other part reads.

## 7. Plan

1. Done: `ShellSession`, `CommandExchange`, `Framing`, `Commands`, `ForwardTcp` and
   `Launch` with their runs, proofs of all their safety properties, and the refinements
   of `OutputFeed` and `MessagePipe`.
2. What a short write costs: the frames of a connection as bytes, and the same for the
   pty, so that the two hazards of an ignored count have a property.
3. An abstract specification of a command (asked, run at most once, answered or
   failed) that `CommandExchange` implements, with a proof that starts from
   `RequestInv` and `AnswerInv`, and that `ForwardTcp` can be composed with in
   place of its own requests and answers.
