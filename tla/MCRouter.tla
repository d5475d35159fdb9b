------------------------------ MODULE MCRouter ------------------------------
(* A small instance of the four stateful routers for TLC. *)
EXTENDS ConsistentHash, TLC

CONSTANTS s1, s2, s3      \* server ids

MCServers  == {s1, s2, s3}
MCTypes    == {"rr", "wrr", "la", "ch"}
MCWeights  == {0, 1, 2}
MCSymmetry == Permutations(MCServers)
=============================================================================
