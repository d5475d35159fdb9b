--------------------------- MODULE Mqtt2Acceptor ---------------------------
(***************************************************************************)
(* The acceptor over mqtt with encoded messages                             *)
(* (lib/rpc-server/acceptors/mqtt2-acceptor.ts).  Its servicesMap is set by *)
(* the first handshake; a packet is one request, decoded with that map.     *)
(* A traced reply, which is an object and not encoded, is left out.         *)
(***************************************************************************)
EXTENDS AcceptorBase

Listen     == Inited
Close      == Closed
Connection == Register(born + 1) /\ UNCHANGED asked

SocketClose(c) == Gone(c, c) /\ UNCHANGED uncaught   \* 'close', 'error' then 'close'

(* A DISCONNECT packet: the connection is forgotten, its stream stays up.    *)
Disconnect(c) ==
    /\ c \in open /\ sockets[c] # 0
    /\ Forget(c)
    /\ UNCHANGED <<confVars, lifeVars, uncaught, born, open, ending, asked, introduced,
                   written, reqVars>>

(* A CONNECT packet: the services are announced and kept, if they are given  *)
(* as JSON text; the object that the gateway passes makes JSON.parse throw.  *)
SendHandshake(c) ==
    /\ c \in open
    /\ \/ introduced' = TRUE /\ UNCHANGED uncaught
       \/ uncaught' = TRUE /\ UNCHANGED introduced
    /\ UNCHANGED <<confVars, lifeVars, born, open, ending, asked, sockets, outVars, reqVars>>

(* An arrow function: its rest arguments are overwritten by `arguments`,     *)
(* which are those of processMsg.                                            *)
ReplyArgs == "internals"

(* Each queue is published as one payload, an array, which the library may    *)
(* throw at, and which no mailbox can decode when it goes out.               *)
Flush == FlushQueues

(* What throws in the try is encoded, logged, and not sent. *)
Publish(c, fate) == introduced /\ Packet(c, c, <<fate>>, ReplyArgs, TRUE)

(* A packet the decoder throws at, outside the try: any before a handshake,  *)
(* and the empty one that encodeClient makes (Coder.tla).                    *)
PublishUnreadable(c) ==
    /\ c \in open /\ Len(from) < MaxRequests
    /\ from' = Append(from, c)
    /\ failed' = failed \cup {Len(from) + 1}
    /\ uncaught' = TRUE
    /\ UNCHANGED <<confVars, lifeVars, connVars, outVars, running, carried>>

Settle(r) == Settled(r, from[r], ReplyArgs)

Next ==
    \/ Listen
    \/ Close
    \/ Connection
    \/ Flush
    \/ \E c \in Connections : SocketClose(c) \/ Disconnect(c) \/ SendHandshake(c)
                                \/ PublishUnreadable(c)
                                \/ \E fate \in Fates : Publish(c, fate)
    \/ \E r \in Requests : Settle(r)
=============================================================================
