----------------------------- MODULE MCCluster ------------------------------
(* Instances of Cluster for TLC: which server joins which.                 *)
EXTENDS Cluster

\* The greater server joins the other, which may dial back: a broadcast that names
\* the greater one can overtake its hello.
JoinLower == {<<2, 1>>}
JoinLowerAndSelf == JoinLower \cup {<<2, 2>>}
=============================================================================
