---------------------------- MODULE MCNetEngine -----------------------------
(* Instances of NetEngine for TLC: the listeners and what they listen for. *)
EXTENDS NetEngine

OnePlain == {"plain"}
OnlyPlain == {FALSE}
=============================================================================
