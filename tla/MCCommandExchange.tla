-------------------------- MODULE MCCommandExchange --------------------------
(* CommandExchange with two clients: the chunks of one request are a whole one *)
(* and a shorter one, the other request is exactly one chunk.                  *)
EXTENDS CommandExchange

CONSTANTS c1, c2

MCReqLen == [c \in Clients |-> IF c = c1 THEN 3 ELSE 2]
=============================================================================
