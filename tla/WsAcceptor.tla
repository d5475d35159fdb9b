----------------------------- MODULE WsAcceptor -----------------------------
(***************************************************************************)
(* The acceptor over socket.io (lib/rpc-server/acceptors/ws-acceptor.ts).   *)
(* The whitelist is a function that answers later; its answer may find the  *)
(* connection gone.                                                         *)
(***************************************************************************)
EXTENDS AcceptorBase

Listen     == Inited
Close      == Closed
Connection == Register(born + 1) /\ asked' = asked \cup {born + 1}

SocketClose(c) == Gone(c, c) /\ UNCHANGED uncaught   \* 'disconnect'

(* The whitelist answers for c: it fails or names the address of c, or it    *)
(* does not name it and a socket still filed under c is disconnected.        *)
IpFilter(c) ==
    /\ c \in asked /\ asked' = asked \ {c}
    /\ \/ UNCHANGED <<open, sockets, msgQueues, entries>>
       \/ sockets[c] # 0 /\ open' = open \ {c} /\ Forget(c)
    /\ UNCHANGED <<confVars, lifeVars, uncaught, born, ending, introduced, written, reqVars>>

(* An arrow function: `arguments` are those of processMsg. *)
ReplyArgs == "internals"

Flush             == FlushQueues
Message(c, fates) == Packet(c, c, fates, ReplyArgs, TRUE)
Settle(r)         == Settled(r, from[r], ReplyArgs)

Next ==
    \/ Listen
    \/ Close
    \/ Connection
    \/ Flush
    \/ \E c \in Connections : SocketClose(c) \/ IpFilter(c)
                                \/ \E fates \in Batches : Message(c, fates)
    \/ \E r \in Requests : Settle(r)
=============================================================================
