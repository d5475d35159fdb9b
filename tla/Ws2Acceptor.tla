---------------------------- MODULE Ws2Acceptor ----------------------------
(***************************************************************************)
(* The acceptor over the ws library                                         *)
(* (lib/rpc-server/acceptors/ws2-acceptor.ts).  Connections are numbered by *)
(* gid.  A connection in its closing handshake is still registered, and     *)
(* writing to it throws.                                                    *)
(***************************************************************************)
EXTENDS AcceptorBase

Listen     == Inited
Close      == Closed
Connection == Register(born + 1) /\ asked' = asked \cup {born + 1}

SocketClose(c) == Gone(c, c) /\ UNCHANGED uncaught

(* The client starts a closing handshake, or answers one; no event tells of   *)
(* it.                                                                      *)
PeerCloses(c) ==
    /\ c \in open
    /\ open' = open \ {c} /\ ending' = ending \cup {c}
    /\ UNCHANGED <<confVars, lifeVars, uncaught, born, asked, introduced, sockets, outVars, reqVars>>

(* The whitelist answers for c; sock.close() starts the closing handshake,   *)
(* during which messages still come.                                        *)
IpFilter(c) ==
    /\ c \in asked /\ asked' = asked \ {c}
    /\ \/ UNCHANGED ending
       \/ sockets[c] # 0 /\ c \in open /\ ending' = ending \cup {c}
    /\ UNCHANGED <<confVars, lifeVars, uncaught, born, open, introduced, sockets, outVars, reqVars>>

(* An arrow function: `arguments` are those of processMsg. *)
ReplyArgs == "internals"

Flush             == FlushQueues
Message(c, fates) == Packet(c, c, fates, ReplyArgs, TRUE)
Settle(r)         == Settled(r, from[r], ReplyArgs)

Next ==
    \/ Listen
    \/ Close
    \/ Connection
    \/ Flush
    \/ \E c \in Connections : SocketClose(c) \/ PeerCloses(c) \/ IpFilter(c)
                                \/ \E fates \in Batches : Message(c, fates)
    \/ \E r \in Requests : Settle(r)
=============================================================================
