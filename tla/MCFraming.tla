------------------------------ MODULE MCFraming ------------------------------
(* Framing with an empty content and one of a single group. *)
EXTENDS Framing

MCContents == { <<>>, <<"a", "b">> }
=============================================================================
