---------------------------- MODULE MCClientTable ---------------------------
(* Instances of ClientTable for TLC: nodes, sockets and users are each     *)
(* interchangeable among themselves.                                       *)
EXTENDS ClientTable, TLC

TableSymmetry ==
  Permutations(Tasks) \cup Permutations(Socks) \cup Permutations(Users)
=============================================================================
