----------------------------- MODULE Acceptors -----------------------------
(***************************************************************************)
(* One acceptor of the tcp, ws, ws2 or mqtt2 transport, as the server is    *)
(* configured, and what the four have to keep.                              *)
(***************************************************************************)
EXTENDS AcceptorBase

Tcp   == INSTANCE TcpAcceptor
Ws    == INSTANCE WsAcceptor
Ws2   == INSTANCE Ws2Acceptor
Mqtt2 == INSTANCE Mqtt2Acceptor

Kinds == {"tcp", "ws", "ws2", "mqtt2"}

AcceptorsInit == Init /\ kind \in Kinds /\ (kind = "mqtt2" \/ bulk)

AcceptorsNext ==
    \/ kind = "tcp"   /\ Tcp!Next
    \/ kind = "ws"    /\ Ws!Next
    \/ kind = "ws2"   /\ Ws2!Next
    \/ kind = "mqtt2" /\ Mqtt2!Next

Spec == AcceptorsInit /\ [][AcceptorsNext]_vars

(* The interval fires, and a closing handshake of ws2 comes to its end.      *)
FairSpec ==
    /\ Spec
    /\ WF_vars(FlushQueues)
    /\ \A c \in Connections : WF_vars(kind = "ws2" /\ c \in ending /\ Ws2!SocketClose(c))

-----------------------------------------------------------------------------
(* PROPERTIES *)

(* Two tcp connections and a buffer: they share one entry and one queue.     *)
Shared == kind = "tcp" /\ bufferMsg /\ born > 1

Keyed(c) == IF kind = "tcp" THEN 0 ELSE c

(* A reply is written at most once, and on the connection its request came   *)
(* on, through buffering, flushes, closed sockets and late promises; except  *)
(* over tcp with a buffer, where connections share a queue.                  *)
OneReplyHome ==
    \A c \in Connections, r \in DOMAIN from :
        /\ written[c][r] <= 1
        /\ written[c][r] > 0 => from[r] = c \/ Shared

(* While a connection is registered no request of it gets lost: it runs, its *)
(* reply is buffered or written, or an exception has prevented it; except    *)
(* for the shared queue of tcp, which goes with any of its connections.      *)
NoReplyLost ==
    \A r \in DOMAIN from :
        LET c == from[r] IN
        sockets[Keyed(c)] = c /\ c \in open /\ ~Shared =>
            \/ r \in running \/ r \in failed
            \/ r \in msgQueues[Keyed(c)]
            \/ written[c][r] > 0

(* What is buffered is written, or freed with its connection, in the end,    *)
(* although the flush of one queue may throw and keep those behind it        *)
(* waiting; unless the acceptor is closed, replies cannot be serialised, or  *)
(* mqtt2 cannot publish an array.                                           *)
QueuesDrain ==
    \A k \in Keys :
        msgQueues[k] # {} ~> msgQueues[k] = {} \/ closed \/ ~plain \/ (kind = "mqtt2" /\ ~bulk)

(* "should invoke the callback function with the same msg and return         *)
(* response to remote client by cb" (test/rpc-server/acceptor.js:57): a      *)
(* reply carries what the remote method has returned.                        *)
RepliesCarryResults == \A r \in Requests : carried[r] \in {"nothing", "result"}
=============================================================================
