------------------------------- MODULE Framing -------------------------------
(***************************************************************************)
(* How the client cuts the stream from the server into messages:           *)
(* read_messages_from_stream (connect.rs) and separate_messages            *)
(* (message.rs).  A message travels as                                     *)
(*                                                                         *)
(*     <base64 of its content> -iii ---\n         (STDIN)                  *)
(*     <base64 of its content> -ccc ---\n         (COMMAND)                *)
(*                                                                         *)
(* and a read returns any number of bytes of the stream, so a read may end *)
(* inside the base64, inside the mark or inside the separator.  What a     *)
(* read leaves over waits in buf_str.                                      *)
(*                                                                         *)
(* The stream is a sequence of characters, because the cuts are what the   *)
(* properties are about.  A group of base64 has two characters here and    *)
(* not four; a dash is never one of them.  The server may also send a      *)
(* message of a type this client does not know.                            *)
(***************************************************************************)
EXTENDS Naturals, Sequences, SequencesExt

CONSTANTS
  Contents,     \* the base64 texts of the messages: sequences of whole groups
  BufSize,      \* BUF_SIZE: the most characters a read returns
  MaxMsgs,      \* bound: messages sent on one connection
  MaxConn       \* bound: connections

ASSUME FramingAssumption ==
  /\ \A t \in Contents : t \in Seq({"a", "b"}) /\ Len(t) % 2 = 0
  /\ BufSize \in Nat \ {0}
  /\ MaxMsgs \in Nat
  /\ MaxConn \in Nat \ {0}

VARIABLES
  sent,       \* the messages sent on this connection
  wire,       \* the characters sent and not yet read
  buf_str,    \* what earlier reads left over
  got,        \* the messages separated on this connection
  panicked,   \* BASE64.decode(..).unwrap() has failed
  conns       \* connections so far

vars == <<sent, wire, buf_str, got, panicked, conns>>

-----------------------------------------------------------------------------
(* Messages on the wire *)

Mark == [iii |-> <<"-", "i", "i", "i">>,       \* STDIN
         ccc |-> <<"-", "c", "c", "c">>,       \* COMMAND
         hhh |-> <<"-", "h", "h", "h">>]       \* unknown to this client

Messages == [mtype : DOMAIN Mark, content : Contents]
Known(m) == m.mtype \in {"iii", "ccc"}

Dashes == <<"-", "-", "-">>
Frame(m) == m.content \o Mark[m.mtype] \o Dashes \o <<"nl">>

\* str::split("---\n"): the parts between the separators, the last one may be
\* empty.  A character goes to the last part, or ends it.
Goes(parts, ch) ==
  LET part == Last(parts) IN
  IF ch = "nl" /\ IsSuffix(Dashes, part)
  THEN Front(parts) \o << SubSeq(part, 1, Len(part) - 3), <<>> >>
  ELSE Front(parts) \o << Append(part, ch) >>

Split(s) ==
  LET parts[n \in 0..Len(s)] == IF n = 0 THEN << <<>> >> ELSE Goes(parts[n - 1], s[n])
  IN parts[Len(s)]

\* Whether BASE64.decode accepts a text.
Decodes(text) == Len(text) % 2 = 0 /\ \A i \in DOMAIN text : text[i] \in {"a", "b"}

\* Mutant: the mark of a message to the server is taken for a known one.
MarkOfAny(part) == {k \in DOMAIN Mark : IsSuffix(Mark[k], part)}

MarkOf(part) == {k \in {"iii", "ccc"} : IsSuffix(Mark[k], part)}

\* Mutant: the dash of the mark is left on the text.
TextAndDash(part) == SubSeq(part, 1, Len(part) - 3)

Text(part) == SubSeq(part, 1, Len(part) - 4)

Message(part) == [mtype |-> CHOOSE k \in MarkOf(part) : TRUE, content |-> Text(part)]

\* The body of the loop over the parts: a message is found, or the rest of the
\* buffer, which is recognised by its value, is left over; another part is bad.
Sorted(acc, part, last) ==
  IF part = <<>> THEN acc
  ELSE IF MarkOf(part) # {} THEN [acc EXCEPT !.messages = Append(@, Message(part))]
  ELSE IF part = last THEN [acc EXCEPT !.left = @ \o part]
  ELSE acc

Swept(parts, last) ==
  LET loop[n \in 0..Len(parts)] ==
        IF n = 0 THEN [messages |-> <<>>, left |-> <<>>]
        ELSE Sorted(loop[n - 1], parts[n], last)
  IN loop[Len(parts)]

\* Mutant: buf_str is cleared after the loop instead of before it.
SeparateAndForget(s) == [Swept(Split(s), Last(Split(s))) EXCEPT !.left = <<>>]

\* separate_messages: the messages found in s, and what is left over.
Separate(s) == Swept(Split(s), Last(Split(s)))

-----------------------------------------------------------------------------
Chars == {"a", "b", "-", "i", "c", "h", "nl"}

TypeOK ==
  /\ sent \in Seq(Messages)
  /\ wire \in Seq(Chars)
  /\ buf_str \in Seq(Chars)
  /\ got \in Seq([mtype : {"iii", "ccc"}, content : Contents])
  /\ panicked \in BOOLEAN
  /\ conns \in 1..MaxConn

Init ==
  /\ sent = <<>>
  /\ wire = <<>>
  /\ buf_str = <<>>
  /\ got = <<>>
  /\ panicked = FALSE
  /\ conns = 1

ServerSends ==
  /\ Len(sent) < MaxMsgs
  /\ \E m \in Messages : sent' = Append(sent, m) /\ wire' = wire \o Frame(m)
  /\ UNCHANGED <<buf_str, got, panicked, conns>>

\* One read returns the first n characters; the messages found are handed on
\* unless one of them does not decode.
Read ==
  /\ ~panicked
  /\ \E n \in 1..Len(wire) :
       /\ n <= BufSize
       /\ LET found == Separate(buf_str \o SubSeq(wire, 1, n))
              sound == \A i \in DOMAIN found.messages : Decodes(found.messages[i].content)
          IN /\ wire' = SubSeq(wire, n + 1, Len(wire))
             /\ panicked' = ~sound
             /\ got' = IF sound THEN got \o found.messages ELSE got
             /\ buf_str' = found.left
  /\ UNCHANGED <<sent, conns>>

\* Mutant: buf_str belongs to the process, not to the connection.
ReconnectKeepsBuffer ==
  /\ ~panicked
  /\ conns < MaxConn
  /\ conns' = conns + 1
  /\ sent' = <<>>
  /\ wire' = <<>>
  /\ got' = <<>>
  /\ UNCHANGED <<buf_str, panicked>>

\* The connection is lost; handle_connection starts the next one with an empty
\* buf_str.
Reconnect ==
  /\ ~panicked
  /\ conns < MaxConn
  /\ conns' = conns + 1
  /\ sent' = <<>>
  /\ wire' = <<>>
  /\ buf_str' = <<>>
  /\ got' = <<>>
  /\ UNCHANGED panicked

Next == ServerSends \/ Read \/ Reconnect

Spec == Init /\ [][Next]_vars

-----------------------------------------------------------------------------
(* However the stream is cut, what is read is an ordered pipe of messages: *)
(* none is lost, doubled, split or joined with its neighbour.              *)
Pipe == INSTANCE MessagePipe

ImplementsPipe == Pipe!Spec

\* Once every character of a message has been read, the message has been handed
\* on: none waits in buf_str for more data to arrive.
NothingHeldBack == wire = <<>> /\ ~panicked => got = Pipe!KnownIn(sent)

\* No cut makes the client decode a text that is not whole base64 groups, which
\* would end the process.
NeverPanics == ~panicked
=============================================================================
