--------------------------- MODULE MCMailStation ---------------------------
(* Instances of MailStation for TLC: model values for the servers, the      *)
(* symmetry of their names, and groups of transports.                       *)
EXTENDS MailStation, TLC

CONSTANTS s1, s2

MCServers == {s1, s2}
MCOne     == {s1}
MCSymmetry == Permutations(MCServers)

MCAll  == AllKinds
MCMqtt == {"mqtt", "mqtt2"}
MCTcp  == {"tcp"}
=============================================================================
