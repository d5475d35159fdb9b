---------------------------- MODULE MCRpcClient ----------------------------
EXTENDS RpcClient

CONSTANTS s1, s2
MCServers == {s1, s2}
MCModes == {"failfast", "failover"}
=============================================================================
