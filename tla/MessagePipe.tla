---------------------------- MODULE MessagePipe ----------------------------
(***************************************************************************)
(* What the protocol on top of the stream relies on: on one connection the *)
(* messages that are received are the first ones that were sent, in order, *)
(* each once, those of an unknown type left out.  A new connection starts  *)
(* with nothing, whatever the old one had not delivered.                   *)
(***************************************************************************)
EXTENDS Naturals, Sequences, SequencesExt

CONSTANTS Messages, Known(_)

VARIABLES sent, got       \* on the present connection

\* The messages of s that are known, in order.
KnownIn(s) ==
  LET known[n \in 0..Len(s)] ==
        IF n = 0 THEN <<>>
        ELSE IF Known(s[n]) THEN Append(known[n - 1], s[n]) ELSE known[n - 1]
  IN known[Len(s)]

Init == sent = <<>> /\ got = <<>>

Send ==
  /\ \E m \in Messages : sent' = Append(sent, m)
  /\ UNCHANGED got

Deliver ==
  /\ got' \in Prefixes(KnownIn(sent))
  /\ IsPrefix(got, got')
  /\ UNCHANGED sent

NewConnection == sent' = <<>> /\ got' = <<>>

Next == Send \/ Deliver \/ NewConnection

Spec == Init /\ [][Next]_<<sent, got>>
=============================================================================
