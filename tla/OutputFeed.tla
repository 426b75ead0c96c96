------------------------------ MODULE OutputFeed ------------------------------
(***************************************************************************)
(* What a shared shell promises about its output, whatever threads,        *)
(* channels, history and reconnects stand behind it: on any one connection *)
(* the reader sees a run of outputs that starts at the shell's first       *)
(* output, or at least Recent outputs back, and never jumps ahead: it      *)
(* grows at its end by one output at a time.  An output may be shown       *)
(* again, and one older than the start may be shown late, out of place.    *)
(***************************************************************************)
EXTENDS Naturals

CONSTANT Recent    \* how far back a new connection starts

VARIABLES
  produced,        \* how many outputs the shell has produced: 1 .. produced
  shown            \* those shown on the current connection

Init == produced = 0 /\ shown = {}

Produce ==
  /\ produced' = produced + 1
  /\ UNCHANGED shown

Begins(k)  == shown = {} /\ (k = 1 \/ k + Recent <= produced)
Extends(k) == \E j \in shown : k <= j + 1

Show(k) ==
  /\ Begins(k) \/ Extends(k)
  /\ shown' = shown \cup {k}
  /\ UNCHANGED produced

Reopen == shown' = {} /\ UNCHANGED produced

Next == Produce \/ Reopen \/ \E k \in 1..produced : Show(k)

Spec == Init /\ [][Next]_<<produced, shown>>

=============================================================================
