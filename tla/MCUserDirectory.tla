-------------------------- MODULE MCUserDirectory ---------------------------
(* Instances of UserDirectory for TLC: users and sessions are only         *)
(* compared, and so are the two servers that tell the third.               *)
EXTENDS UserDirectory, TLC

CONSTANTS s1, s2, s3

\* The third server is the one whose directory the others fill.
Star == {{s1, s3}, {s2, s3}}

Tellers == {s1, s2}

DirectorySymmetry ==
  Permutations(Tellers) \cup Permutations(Users) \cup Permutations(Sessions)
=============================================================================
