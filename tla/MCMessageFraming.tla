-------------------------- MODULE MCMessageFraming --------------------------
(* Instances of MessageFraming for TLC: the lengths of data.               *)
EXTENDS MessageFraming

NoneShortAndLong == {0, 1, 4}
=============================================================================
