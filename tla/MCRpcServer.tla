----------------------------- MODULE MCRpcServer -----------------------------
(* Small instances of RpcServer for TLC. *)
EXTENDS RpcServer

CONSTANTS n1, n2      \* namespaces

MCNamespaces == {n1, n2}
MCModes      == BOOLEAN
=============================================================================
