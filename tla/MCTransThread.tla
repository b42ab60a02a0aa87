--------------------------- MODULE MCTransThread ----------------------------
(* Instances of TransThread for TLC: the sizes of messages.                *)
EXTENDS TransThread

\* A piece, and two pieces and a rest.
PieceAndMore == {2, 5}
=============================================================================
