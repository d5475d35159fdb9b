---------------------------- MODULE AcceptorBase ----------------------------
(***************************************************************************)
(* What the tcp, ws, ws2 and mqtt2 acceptors have in common: the fields of  *)
(* the class, the queues of replies, the flush, and the processing of a     *)
(* packet.  TcpAcceptor, WsAcceptor, Ws2Acceptor and Mqtt2Acceptor say      *)
(* when; Acceptors runs them.                                               *)
(*                                                                         *)
(* A request is the number of its arrival.  Replies carry the id of their   *)
(* request, so a queue is a set.  The maps sockets and msgQueues have a key *)
(* per socket.id; a tcp socket has none, so that all tcp connections share  *)
(* the key "undefined", which is 0 here.                                    *)
(***************************************************************************)
EXTENDS Naturals, Sequences, FiniteSets

CONSTANTS
    MaxSockets,      \* bound: connections accepted
    MaxRequests,     \* bound: requests received
    MaxBatch         \* bound: requests in one packet

ASSUME BaseAssumption == MaxSockets \in Nat /\ MaxRequests \in Nat /\ MaxBatch \in Nat

Connections == 1..MaxSockets
Requests    == 1..MaxRequests
Keys        == 0..MaxSockets

VARIABLES
    kind,        \* the transport in use
    bufferMsg,   \* the field: are replies queued and flushed?
    plain,       \* can what a reply carries be serialised?
    bulk,        \* mqtt2: does publish take an array, as the flush gives it?
    inited, closed,   \* the fields of the same names
    uncaught,    \* an exception has left a handler or the interval
    born,        \* connections accepted so far
    open,        \* connections that can be read
    ending,      \* ws2: connections in their closing handshake, not to be written
    asked,       \* ws, ws2: connections the whitelist has not answered for
    introduced,  \* mqtt2: a handshake has set the servicesMap
    sockets,     \* sockets[k]: the connection at key k, or 0
    msgQueues,   \* msgQueues[k]: the replies buffered at key k
    entries,     \* keys of the msgQueues map
    from,        \* from[r]: the connection request r came on
    running,     \* requests whose promise is not settled
    failed,      \* requests whose answer an exception has prevented
    written,     \* written[c][r]: times the reply to r was written on c
    carried      \* carried[r]: what the reply to r carries

confVars == <<kind, bufferMsg, plain, bulk>>
lifeVars == <<inited, closed>>
connVars == <<born, open, ending, asked, introduced, sockets>>
outVars  == <<msgQueues, entries, written>>
reqVars  == <<from, running, failed, carried>>
vars     == <<confVars, lifeVars, uncaught, connVars, outVars, reqVars>>

Init ==
    /\ bufferMsg \in BOOLEAN /\ plain \in BOOLEAN /\ bulk \in BOOLEAN
    /\ inited = FALSE /\ closed = FALSE /\ uncaught = FALSE
    /\ born = 0 /\ open = {} /\ ending = {} /\ asked = {} /\ introduced = FALSE
    /\ sockets = [k \in Keys |-> 0]
    /\ msgQueues = [k \in Keys |-> {}] /\ entries = {}
    /\ from = << >> /\ running = {} /\ failed = {}
    /\ written = [c \in Connections |-> [r \in Requests |-> 0]]
    /\ carried = [r \in Requests |-> "nothing"]

-----------------------------------------------------------------------------
(* life of the acceptor and of its connections *)

Inited ==
    /\ ~inited                     \* otherwise the callback gets an error
    /\ inited' = TRUE
    /\ UNCHANGED <<confVars, closed, uncaught, connVars, outVars, reqVars>>

(* No connection is accepted any more and the interval is cleared; what is   *)
(* open or buffered stays.                                                   *)
Closed ==
    /\ inited /\ ~closed
    /\ closed' = TRUE
    /\ UNCHANGED <<confVars, inited, uncaught, connVars, outVars, reqVars>>

(* A new connection is filed under key k. *)
Register(k) ==
    /\ inited /\ ~closed /\ born < MaxSockets
    /\ born' = born + 1
    /\ open' = open \cup {born + 1}
    /\ sockets' = [sockets EXCEPT ![k] = born + 1]
    /\ UNCHANGED <<confVars, lifeVars, uncaught, ending, introduced, outVars, reqVars>>

(* What is kept at key k is deleted. *)
Forget(k) ==
    /\ sockets' = [sockets EXCEPT ![k] = 0]
    /\ msgQueues' = [msgQueues EXCEPT ![k] = {}]
    /\ entries' = entries \ {k}

(* 'close' of connection c, filed under k. *)
Gone(c, k) ==
    /\ c \in open \cup ending
    /\ open' = open \ {c} /\ ending' = ending \ {c}
    /\ Forget(k)
    /\ UNCHANGED <<confVars, lifeVars, born, asked, introduced, written, reqVars>>

-----------------------------------------------------------------------------
(* replies *)

Unsendable(c) == ~plain \/ c \in ending      \* writing throws

(* The reply callback throws: mqtt2 encodes at once, the others serialise     *)
(* what they write.                                                         *)
ReplyThrows(c) == IF kind = "mqtt2" THEN ~plain ELSE ~bufferMsg /\ Unsendable(c)

(* The flush throws: mqtt2 has encoded its replies, and publishes the array of *)
(* them as one payload.                                                     *)
FlushThrows(c) == IF kind = "mqtt2" THEN ~bulk ELSE Unsendable(c)

(* written after the replies to the requests out[c] have gone out on c;      *)
(* writing to a connection that is down has no effect.                       *)
Written(out) ==
    [c \in Connections |-> [r \in Requests |->
        IF c \in open /\ r \in out[c] THEN written[c][r] + 1 ELSE written[c][r]]]

(* Mutant: a reply waits in a queue that replaces the one there is. *)
ReplyAnew(c, k, S) ==
    IF S = {} THEN UNCHANGED outVars
    ELSE IF bufferMsg
    THEN /\ msgQueues' = [msgQueues EXCEPT ![k] = S]
         /\ entries' = entries \cup {k}
         /\ UNCHANGED written
    ELSE /\ written' = Written([d \in Connections |-> IF d = c THEN S ELSE {}])
         /\ UNCHANGED <<msgQueues, entries>>

(* The replies to S: to the queue at key k, or at once to connection c. *)
Reply(c, k, S) ==
    IF S = {} THEN UNCHANGED outVars
    ELSE IF bufferMsg
    THEN /\ msgQueues' = [msgQueues EXCEPT ![k] = @ \cup S]
         /\ entries' = entries \cup {k}
         /\ UNCHANGED written
    ELSE /\ written' = Written([d \in Connections |-> IF d = c THEN S ELSE {}])
         /\ UNCHANGED <<msgQueues, entries>>

(* Queues the flush throws at: it ends there and keeps them.                 *)
Blocked == {k \in entries : sockets[k] # 0 /\ msgQueues[k] # {} /\ FlushThrows(sockets[k])}

(* Keys the flush gets to, in ascending order. *)
Reached == {k \in entries : \A b \in Blocked : k < b}

(* Mutants: the queues written are not emptied; the queue of a connection    *)
(* that is gone is passed over.                                              *)
FlushKeepsQueues ==
    /\ inited /\ ~closed /\ bufferMsg
    /\ written' = Written([c \in Connections |->
                     UNION {msgQueues[k] : k \in {k \in Reached : sockets[k] = c}}])
    /\ uncaught' = (uncaught \/ Blocked # {})
    /\ UNCHANGED <<confVars, lifeVars, connVars, msgQueues, entries, reqVars>>

FlushSkipsDead ==
    /\ inited /\ ~closed /\ bufferMsg
    /\ written' = Written([c \in Connections |->
                     UNION {msgQueues[k] : k \in {k \in Reached : sockets[k] = c}}])
    /\ msgQueues' = [k \in Keys |->
                       IF k \in Reached /\ sockets[k] # 0 THEN {} ELSE msgQueues[k]]
    /\ uncaught' = (uncaught \/ Blocked # {})
    /\ UNCHANGED <<confVars, lifeVars, connVars, entries, reqVars>>

(* The flush interval. *)
FlushQueues ==
    /\ inited /\ ~closed /\ bufferMsg
    /\ written' = Written([c \in Connections |->
                     UNION {msgQueues[k] : k \in {k \in Reached : sockets[k] = c}}])
    /\ msgQueues' = [k \in Keys |-> IF k \in Reached THEN {} ELSE msgQueues[k]]
    /\ entries' = {k \in entries : k \in Reached => sockets[k] # 0}
    /\ uncaught' = (uncaught \/ Blocked # {})
    /\ UNCHANGED <<confVars, lifeVars, connVars, reqVars>>

-----------------------------------------------------------------------------
(* requests *)

(* What the dispatcher makes of a request (RpcServer.tla): an error at once, *)
(* a promise, or an exception of the method.                                 *)
Fates == {"refused", "runs", "throws"}

(* Members of a packet at which processMsgs throws: the method does, or the  *)
(* reply callback of an immediate answer.                                   *)
Stops(c, fates) ==
    {i \in DOMAIN fates : \/ fates[i] = "throws"
                          \/ fates[i] = "refused" /\ ReplyThrows(c)}

(* A packet of requests on connection c, filed under k; their replies carry  *)
(* `what`; an exception leaves the handler unless it is `guarded`.           *)
Packet(c, k, fates, what, guarded) ==
    LET stops == Stops(c, fates)
        done  == {i \in DOMAIN fates : \A j \in stops : i < j}
        these(S) == {Len(from) + i : i \in S}
        refused  == these({i \in done : fates[i] = "refused"})
    IN
    /\ c \in open /\ Len(from) + Len(fates) <= MaxRequests
    /\ from' = from \o [i \in DOMAIN fates |-> c]
    /\ running' = running \cup these({i \in done : fates[i] = "runs"})
    /\ failed' = failed \cup these(DOMAIN fates \ done)
    /\ carried' = [r \in Requests |-> IF r \in refused THEN what ELSE carried[r]]
    /\ Reply(c, k, refused)
    /\ uncaught' = (uncaught \/ (stops # {} /\ ~guarded))
    /\ UNCHANGED <<confVars, lifeVars, connVars>>

(* The promise of request r is settled; what throws in its reply callback is *)
(* an unhandled rejection.                                                   *)
Settled(r, k, what) ==
    LET c == from[r]
        throws == ReplyThrows(c)
    IN
    /\ r \in running
    /\ running' = running \ {r}
    /\ failed' = IF throws THEN failed \cup {r} ELSE failed
    /\ carried' = [carried EXCEPT ![r] = IF throws THEN @ ELSE what]
    /\ Reply(c, k, IF throws THEN {} ELSE {r})
    /\ UNCHANGED <<confVars, lifeVars, uncaught, connVars, from>>

Batches == UNION {[1..n -> Fates] : n \in 1..MaxBatch}
=============================================================================
