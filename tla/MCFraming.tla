----------------------------- MODULE MCFraming -----------------------------
(***************************************************************************)
(* An instance of Framing: octets are bits, so that a length takes both    *)
(* octets of a prefix and a body can be taken for one.                     *)
(***************************************************************************)
EXTENDS Framing

MCMessage == {<<>>, <<1>>, <<0, 1>>, <<1, 0, 1>>}
=============================================================================
