---------------------------- MODULE TcpAcceptor ----------------------------
(***************************************************************************)
(* The acceptor over plain tcp (lib/rpc-server/acceptors/tcp-acceptor.ts).  *)
(* A net socket has no id, so every connection is filed under one key.      *)
(***************************************************************************)
EXTENDS AcceptorBase

Key(c) == 0

Listen     == Inited
Close      == Closed
Connection == Register(Key(born + 1)) /\ UNCHANGED asked

(* 'close', perhaps after an 'error', which nobody listens to. *)
SocketClose(c) == Gone(c, Key(c)) /\ (uncaught' = TRUE \/ UNCHANGED uncaught)

(* The callback given to the dispatcher is an arrow function: `arguments`   *)
(* are those of processMsg, the socket, the acceptor and the request.        *)
ReplyArgs == "internals"

Flush           == FlushQueues
Data(c, fates)  == Packet(c, Key(c), fates, ReplyArgs, FALSE)
Settle(r)       == Settled(r, Key(from[r]), ReplyArgs)

Next ==
    \/ Listen
    \/ Close
    \/ Connection
    \/ Flush
    \/ \E c \in Connections : SocketClose(c) \/ \E fates \in Batches : Data(c, fates)
    \/ \E r \in Requests : Settle(r)
=============================================================================
