------------------------------ MODULE MCRelay -------------------------------
(* Instances of Relay for TLC: senders are only compared.                  *)
EXTENDS Relay, TLC

SenderSymmetry == Permutations(Senders)
=============================================================================
