------------------------------ MODULE MCServer ------------------------------
(* Instances of Server for TLC.                                            *)
EXTENDS Server, TLC

CONSTANTS p1, p2, f1, f2

OneByOne == {{f1}, {f2}}
ServerSymmetry == Permutations({p1, p2}) \cup Permutations({f1, f2})
=============================================================================
