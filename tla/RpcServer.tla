----------------------------- MODULE RpcServer -----------------------------
(***************************************************************************)
(* The server side: the gateway (gateway.ts) owns the dispatcher            *)
(* (dispatcher.ts) and the mqtt acceptor (acceptors/mqtt-acceptor.ts).      *)
(*                                                                         *)
(* The acceptor keeps one entry per connection in `sockets` and, when it    *)
(* buffers, one queue of replies per connection in `msgQueues`, written by  *)
(* an interval.  Each request of a packet is routed at once; a remote       *)
(* method answers by a promise, any time later and on any state of the      *)
(* connection it came from.                                                 *)
(*                                                                         *)
(* A request is the number of its arrival.  Replies carry the id of their   *)
(* request, so their order says nothing and a queue is a set.  The reply    *)
(* without an id that a throwing packet provokes (mqtt-acceptor.ts:104-107, *)
(* pkg is an array) matches no request of a client and is left out.         *)
(***************************************************************************)
EXTENDS Naturals, Sequences, FiniteSets

CONSTANTS
    Namespaces,   \* namespaces of opts.paths
    BufferModes,  \* the values of opts.bufferMsg
    Reloads,      \* opts.reloadRemotes: are the service files watched?
    MaxSockets,   \* bound: connections accepted
    MaxRequests,  \* bound: requests received
    MaxBatch      \* bound: requests in one packet

ASSUME FlagsAssumption  == BufferModes \subseteq BOOLEAN /\ Reloads \in BOOLEAN
ASSUME BoundsAssumption == MaxSockets \in Nat /\ MaxRequests \in Nat /\ MaxBatch \in Nat

Sockets  == 1..MaxSockets       \* socket.id = curId++
Requests == 1..MaxRequests

VARIABLES
    bufferMsg,         \* the acceptor's field, set by the constructor
    started, stoped,   \* the gateway's fields; the acceptor is inited and closed with them
    services,          \* keys of the dispatcher's services map
    born,              \* connections accepted so far
    open,              \* connections whose stream is up
    sockets,           \* keys of the acceptor's sockets map
    msgQueues,         \* msgQueues[c]: the replies buffered for c
    entries,           \* keys of the msgQueues map
    from,              \* from[r]: the connection request r came on
    running,           \* requests whose promise is not settled
    skipped,           \* requests at or behind a throwing one in their packet
    unfit,             \* requests whose result JSON.stringify throws at
    written            \* written[c][r]: times the reply to r was written on c

gateVars == <<bufferMsg, started, stoped, services>>
connVars == <<born, open, sockets>>
outVars  == <<msgQueues, entries, written>>
reqVars  == <<from, running, skipped, unfit>>
vars     == <<gateVars, connVars, outVars, reqVars>>

Init ==
    /\ bufferMsg \in BufferModes
    /\ started = FALSE /\ stoped = FALSE
    /\ services = Namespaces
    /\ born = 0 /\ open = {} /\ sockets = {}
    /\ msgQueues = [c \in Sockets |-> {}] /\ entries = {}
    /\ from = << >> /\ running = {} /\ skipped = {} /\ unfit = {}
    /\ written = [c \in Sockets |-> [r \in Requests |-> 0]]

-----------------------------------------------------------------------------
(* gateway *)

Start ==
    /\ ~started                 \* otherwise start throws
    /\ started' = TRUE
    /\ UNCHANGED <<bufferMsg, stoped, services, connVars, outVars, reqVars>>

(* The server stops listening and the flush interval is cleared; the open   *)
(* connections and what is buffered for them stay.                          *)
Stop ==
    /\ started /\ ~stoped
    /\ stoped' = TRUE
    /\ UNCHANGED <<bufferMsg, started, services, connVars, outVars, reqVars>>

(* A file of a path with namespace ns has changed: its modules become the   *)
(* dispatcher's services, none when the loader returns nothing.             *)
Reload(ns) ==
    /\ Reloads
    /\ services' \in {{ns}, {}}
    /\ UNCHANGED <<bufferMsg, started, stoped, connVars, outVars, reqVars>>

-----------------------------------------------------------------------------
(* connections *)

Connection ==
    /\ started /\ ~stoped /\ born < MaxSockets
    /\ born' = born + 1
    /\ open' = open \cup {born + 1}
    /\ sockets' = sockets \cup {born + 1}
    /\ UNCHANGED <<gateVars, outVars, reqVars>>

(* onSocketClose(c). *)
Forget(c) ==
    /\ sockets' = sockets \ {c}
    /\ entries' = IF c \in sockets THEN entries \ {c} ELSE entries
    /\ msgQueues' = IF c \in sockets THEN [msgQueues EXCEPT ![c] = {}] ELSE msgQueues

(* 'close', or 'error' and then 'close'. *)
SocketClose(c) ==
    /\ c \in open
    /\ open' = open \ {c}
    /\ Forget(c)
    /\ UNCHANGED <<gateVars, born, written, reqVars>>

(* A DISCONNECT packet: the connection is forgotten, its stream stays up. *)
Disconnect(c) ==
    /\ c \in open
    /\ Forget(c)
    /\ UNCHANGED <<gateVars, born, open, written, reqVars>>

-----------------------------------------------------------------------------
(* replies *)

(* Mutant: all sockets share one queue, as when socket.id is not set.         *)
EnqueueShared(c, S) ==
    /\ msgQueues' = [msgQueues EXCEPT ![born] = @ \cup S]
    /\ entries' = entries \cup {born}
    /\ UNCHANGED written

Enqueue(c, S) ==
    /\ msgQueues' = [msgQueues EXCEPT ![c] = @ \cup S]
    /\ entries' = entries \cup {c}
    /\ UNCHANGED written

(* written after the replies to the requests out[c] have gone out on c. *)
Written(out) ==
    [c \in Sockets |-> [r \in Requests |-> IF r \in out[c] THEN written[c][r] + 1
                                           ELSE written[c][r]]]

(* doSend; writing to a stream that is down has no effect. *)
DoSend(c, S) ==
    /\ written' = Written([d \in Sockets |-> IF d = c /\ c \in open THEN S ELSE {}])
    /\ UNCHANGED <<msgQueues, entries>>

(* The reply callback of the requests S of connection c. *)
Reply(c, S) ==
    IF S = {} THEN UNCHANGED outVars
    ELSE IF bufferMsg THEN Enqueue(c, S) ELSE DoSend(c, S)

(* Queues that JSON.stringify throws at: the flush ends there, keeping them  *)
(* and what is behind them, and does so again at the next interval.         *)
Blocked == {c \in entries \cap sockets : msgQueues[c] \cap unfit # {}}

(* Queues the flush gets to: the keys are integers, hence in their order.    *)
Reached == {c \in entries : \A b \in Blocked : c < b}

(* Mutants: the queues of sockets that are gone stay; a queue is replaced    *)
(* before it is written.                                                    *)
FlushKeepsDead ==
    /\ bufferMsg /\ started /\ ~stoped
    /\ written' = Written([c \in Sockets |-> IF c \in Reached \cap sockets THEN msgQueues[c] ELSE {}])
    /\ msgQueues' = [c \in Sockets |-> IF c \in Reached \cap sockets THEN {} ELSE msgQueues[c]]
    /\ UNCHANGED <<gateVars, connVars, reqVars, entries>>

FlushReplacesFirst ==
    /\ bufferMsg /\ started /\ ~stoped
    /\ written' = Written([c \in Sockets |-> IF c \in Reached \cap sockets THEN msgQueues[c] ELSE {}])
    /\ msgQueues' = [c \in Sockets |-> IF \A b \in Blocked : c <= b THEN {} ELSE msgQueues[c]]
    /\ entries' = entries \ (Reached \ sockets)
    /\ UNCHANGED <<gateVars, connVars, reqVars>>

(* The flush interval.  What it throws is an uncaught exception, which the   *)
(* application has to survive for the interval to come again.               *)
Flush ==
    /\ bufferMsg /\ started /\ ~stoped
    /\ written' = Written([c \in Sockets |-> IF c \in Reached \cap sockets THEN msgQueues[c] ELSE {}])
    /\ msgQueues' = [c \in Sockets |-> IF c \in Reached THEN {} ELSE msgQueues[c]]
    /\ entries' = entries \ (Reached \ sockets)
    /\ UNCHANGED <<gateVars, connVars, reqVars>>

-----------------------------------------------------------------------------
(* requests *)

(* What route makes of a message: it calls back with an error at once (no   *)
(* such namespace, service or method, or not an async method), the method   *)
(* returns a promise, or it throws.                                         *)
Fates(ns) == IF ns \in services THEN {"refused", "runs", "throws"} ELSE {"refused"}

Message == [ns : Namespaces, fate : {"refused", "runs", "throws"}]

New(k) == Len(from) + k      \* the k-th request of the packet at hand

Routed(fate, msgs, n) == {New(k) : k \in {i \in 1..n : msgs[i].fate = fate}}

(* 'publish' with an array: processMsgs stops at the first method that      *)
(* throws, when n requests are done.                                        *)
PublishBatch(c, msgs) ==
    LET threw == {i \in DOMAIN msgs : msgs[i].fate = "throws"} IN
    /\ c \in open /\ Len(from) + Len(msgs) <= MaxRequests
    /\ \A i \in DOMAIN msgs : msgs[i].fate \in Fates(msgs[i].ns)
    /\ from' = from \o [i \in DOMAIN msgs |-> c]
    /\ \E n \in 0..Len(msgs) :
          /\ \A i \in threw : n < i
          /\ n = Len(msgs) \/ (n + 1) \in threw
          /\ running' = running \cup Routed("runs", msgs, n)
          /\ skipped' = skipped \cup {New(k) : k \in (n + 1)..Len(msgs)}
          /\ Reply(c, Routed("refused", msgs, n))
    /\ UNCHANGED <<gateVars, connVars, unfit>>

(* 'publish' with a single message; a method that throws is answered with   *)
(* the error, past the buffer.                                              *)
PublishOne(c, msg) ==
    LET r == Len(from) + 1 IN
    /\ c \in open /\ r <= MaxRequests
    /\ msg.fate \in Fates(msg.ns)
    /\ from' = Append(from, c)
    /\ \/ msg.fate = "runs" /\ running' = running \cup {r} /\ UNCHANGED outVars
       \/ msg.fate = "refused" /\ Reply(c, {r}) /\ UNCHANGED running
       \/ msg.fate = "throws" /\ DoSend(c, {r}) /\ UNCHANGED running
    /\ UNCHANGED <<gateVars, connVars, skipped, unfit>>

(* The promise of request r is settled, with a result that fits into JSON or *)
(* not.  Without a buffer doSend throws at one that does not, inside the    *)
(* handler of the promise: nothing is sent, and an unhandled rejection is    *)
(* all there is.  A buffered one makes the flush throw.                     *)
Settle(r, fits) ==
    /\ r \in running
    /\ running' = running \ {r}
    /\ unfit' = IF fits THEN unfit ELSE unfit \cup {r}
    /\ Reply(from[r], IF fits \/ bufferMsg THEN {r} ELSE {})
    /\ UNCHANGED <<gateVars, connVars, from, skipped>>

-----------------------------------------------------------------------------
Batches == UNION {[1..n -> Message] : n \in 1..MaxBatch}

Publish(c) ==
    \/ \E msg \in Message : PublishOne(c, msg)
    \/ \E msgs \in Batches : PublishBatch(c, msgs)

Next ==
    \/ Start
    \/ Stop
    \/ \E ns \in Namespaces : Reload(ns)
    \/ Connection
    \/ \E c \in Sockets : SocketClose(c) \/ Disconnect(c) \/ Publish(c)
    \/ Flush
    \/ \E r \in Requests, fits \in BOOLEAN : Settle(r, fits)

Spec == Init /\ [][Next]_vars

(* The interval fires; nothing is assumed of the remote methods. *)
FairSpec == Spec /\ WF_vars(Flush)

-----------------------------------------------------------------------------
(* PROPERTIES *)

(* The state has its shape. *)
TypeOK ==
    /\ bufferMsg \in BufferModes /\ started \in BOOLEAN /\ stoped \in BOOLEAN
    /\ services \subseteq Namespaces
    /\ born \in 0..MaxSockets
    /\ open \subseteq 1..born /\ sockets \subseteq open
    /\ entries \subseteq 1..born
    /\ msgQueues \in [Sockets -> SUBSET DOMAIN from]
    /\ \A c \in Sockets : msgQueues[c] # {} => bufferMsg /\ c \in entries
    /\ from \in Seq(1..born) /\ Len(from) <= MaxRequests
    /\ running \subseteq DOMAIN from /\ skipped \subseteq DOMAIN from
    /\ unfit \subseteq DOMAIN from
    /\ written \in [Sockets -> [Requests -> Nat]]

(* A reply is written at most once, and on the connection its request came  *)
(* on, through buffering, flushes, closed sockets and late promises.        *)
OneReplyHome ==
    \A c \in Sockets, r \in Requests :
       written[c][r] <= (IF r \in DOMAIN from /\ from[r] = c THEN 1 ELSE 0)

(* Results that doSend has thrown away. *)
Unsent == IF bufferMsg THEN {} ELSE unfit

(* While a connection is registered no request of it gets lost: it runs,    *)
(* its reply is buffered or written, or it was skipped behind a method that *)
(* throws.  A flush that throws half way loses nothing, whatever it has met; *)
(* only without a buffer a result that does not fit into JSON is gone.      *)
NoReplyLost ==
    \A r \in DOMAIN from :
       from[r] \in sockets =>
          \/ r \in running \/ r \in skipped
          \/ r \in msgQueues[from[r]]
          \/ written[from[r]][r] > 0
          \/ r \in Unsent

(* What is buffered is written or, for a connection that is gone, freed,    *)
(* also when a late promise makes the queue again after onSocketClose has   *)
(* deleted it; unless the gateway is stopped, or the flush throws at this   *)
(* queue or one before it.                                                  *)
Stuck(c) == \E b \in Blocked : b <= c

QueuesDrain ==
    \A c \in Sockets :
       c \in entries /\ (c \notin sockets \/ msgQueues[c] # {})
          ~> (c \notin entries \/ msgQueues[c] = {} \/ stoped \/ Stuck(c))
=============================================================================
