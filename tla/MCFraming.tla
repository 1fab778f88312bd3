------------------------------ MODULE MCFraming ------------------------------
(***************************************************************************)
(* Three messages: one that needs three chunks at either end, one made of  *)
(* the bytes of both tags, and one of a single byte.                       *)
(***************************************************************************)
EXTENDS Framing

MCPayloads == {<<1, 2, 3>>, <<253, 252>>, <<7>>}
=============================================================================
