--------------------------- MODULE RpcServerProofs ---------------------------
(* Proofs about RpcServer for any number of connections, requests and       *)
(* packet sizes, buffered or not.                                           *)
EXTENDS RpcServer, SequenceTheorems, TLAPS

(* A request that runs has no reply anywhere; a buffered reply is in the     *)
(* queue of its own connection and has not been written.                    *)
Untouched(r) == \A c \in Sockets : r \notin msgQueues[c] /\ written[c][r] = 0

Fresh ==
    /\ \A r \in running : Untouched(r)
    /\ \A c \in Sockets : \A r \in msgQueues[c] : from[r] = c /\ written[c][r] = 0

IInv == TypeOK /\ Fresh /\ OneReplyHome /\ NoReplyLost

LEMMA Params ==
    /\ MaxSockets \in Nat /\ MaxRequests \in Nat
    /\ Sockets = 1..MaxSockets /\ Requests = 1..MaxRequests
    /\ BufferModes \subseteq BOOLEAN
  BY FlagsAssumption, BoundsAssumption
     DEF FlagsAssumption, BoundsAssumption, Sockets, Requests

(* The shape of the buffers and of the history of writes, over a set D of   *)
(* requests that have arrived.                                              *)
OutShape(D) ==
    /\ entries \subseteq 1..born
    /\ msgQueues \in [Sockets -> SUBSET D]
    /\ \A c \in Sockets : msgQueues[c] # {} => bufferMsg /\ c \in entries
    /\ written \in [Sockets -> [Requests -> Nat]]

LEMMA InitInv == Init => IInv
<1> SUFFICES ASSUME Init PROVE IInv
  OBVIOUS
<1> USE Params DEF Init
<1>1. TypeOK
  <2>1. from \in Seq(1..born) /\ Len(from) <= MaxRequests
    OBVIOUS
  <2>2. written \in [Sockets -> [Requests -> Nat]]
    OBVIOUS
  <2>3. /\ msgQueues \in [Sockets -> SUBSET DOMAIN from]
        /\ \A c \in Sockets : msgQueues[c] = {}
    OBVIOUS
  <2>4. born \in 0..MaxSockets /\ open \subseteq 1..born /\ sockets \subseteq open
    OBVIOUS
  <2>5. /\ bufferMsg \in BufferModes /\ started \in BOOLEAN /\ stoped \in BOOLEAN
        /\ services \subseteq Namespaces /\ entries = {}
        /\ running = {} /\ skipped = {} /\ unfit = {}
    OBVIOUS
  <2> HIDE DEF Init
  <2> QED
    BY <2>1, <2>2, <2>3, <2>4, <2>5 DEF TypeOK
<1>2. Fresh /\ OneReplyHome
  BY DEF Fresh, Untouched, OneReplyHome
<1>3. NoReplyLost
  BY DEF NoReplyLost
<1> QED
  BY <1>1, <1>2, <1>3 DEF IInv

-----------------------------------------------------------------------------
(* What doSend and the buffered reply do to the buffers and the writes: only *)
(* the replies of S move, only on c, and they are queued or written, not     *)
(* both.                                                                    *)
LEMMA DoSendEffect ==
    ASSUME written \in [Sockets -> [Requests -> Nat]],
           NEW c \in Sockets, NEW S, DoSend(c, S)
    PROVE  /\ msgQueues' = msgQueues /\ entries' = entries
           /\ written' \in [Sockets -> [Requests -> Nat]]
           /\ \A d \in Sockets, r \in Requests :
                 written'[d][r] = (IF d = c /\ c \in open /\ r \in S
                                   THEN written[d][r] + 1 ELSE written[d][r])
<1> USE Params
<1>1. written' = [d \in Sockets |-> [r \in Requests |->
                    IF r \in (IF d = c /\ c \in open THEN S ELSE {})
                    THEN written[d][r] + 1 ELSE written[d][r]]]
  BY DEF DoSend, Written
<1>2. \A d \in Sockets, r \in Requests :
         written'[d][r] = (IF d = c /\ c \in open /\ r \in S
                           THEN written[d][r] + 1 ELSE written[d][r])
  BY <1>1
<1>3. written' \in [Sockets -> [Requests -> Nat]]
  <2>1. \A d \in Sockets : \A r \in Requests : written[d][r] \in Nat
    OBVIOUS
  <2> QED
    BY <1>1, <2>1
<1> QED
  BY <1>2, <1>3 DEF DoSend

LEMMA EnqueueEffect ==
    ASSUME NEW D, OutShape(D), NEW c \in Sockets, NEW S, Enqueue(c, S)
    PROVE  /\ entries' = entries \cup {c} /\ written' = written
           /\ \A d \in Sockets :
                 msgQueues'[d] = (IF d = c THEN msgQueues[d] \cup S ELSE msgQueues[d])
           /\ DOMAIN msgQueues' = Sockets
           /\ msgQueues' = [msgQueues EXCEPT ![c] = @ \cup S]
  BY DEF OutShape, Enqueue

(* The reply callback keeps the shape when the requests have arrived.        *)
LEMMA ReplyShape ==
    ASSUME NEW D, NEW E, OutShape(D), D \subseteq E, born \in 0..MaxSockets,
           NEW c \in 1..born, NEW S \in SUBSET E,
           Reply(c, S) \/ DoSend(c, S), UNCHANGED <<born, bufferMsg>>
    PROVE  OutShape(E)'
<1> USE Params
<1>0. c \in Sockets
  OBVIOUS
<1>1. CASE UNCHANGED outVars
  BY <1>1 DEF outVars, OutShape
<1>2. CASE bufferMsg /\ Enqueue(c, S)
  <2>2. /\ entries' = entries \cup {c} /\ written' = written
        /\ msgQueues' = [msgQueues EXCEPT ![c] = @ \cup S]
        /\ \A d \in Sockets :
              msgQueues'[d] = (IF d = c THEN msgQueues[d] \cup S ELSE msgQueues[d])
    BY <1>0, <1>2, EnqueueEffect
  <2>3. msgQueues' \in [Sockets -> SUBSET E]
    BY <1>0, <2>2 DEF OutShape
  <2>4. \A d \in Sockets : msgQueues'[d] # {} => bufferMsg' /\ d \in entries'
    BY <1>2, <2>2 DEF OutShape
  <2> QED
    BY <2>2, <2>3, <2>4 DEF OutShape
<1>3. CASE DoSend(c, S)
  <2>2. /\ msgQueues' = msgQueues /\ entries' = entries
        /\ written' \in [Sockets -> [Requests -> Nat]]
    BY <1>0, <1>3, DoSendEffect DEF OutShape
  <2> QED
    BY <2>2 DEF OutShape
<1> QED
  BY <1>1, <1>2, <1>3 DEF Reply

(* Where the replies of S are afterwards: queued or written, not both, and   *)
(* nothing else has moved.                                                  *)
Delivered(c, S) ==
    /\ \A d \in Sockets, r \in Requests : d # c \/ r \notin S =>
          /\ r \in msgQueues'[d] <=> r \in msgQueues[d]
          /\ written'[d][r] = written[d][r]
    /\ \A r \in S :
          \/ r \in msgQueues'[c] /\ written'[c][r] = written[c][r]
          \/ /\ r \in msgQueues'[c] <=> r \in msgQueues[c]
             /\ written'[c][r] = (IF c \in open THEN written[c][r] + 1
                                  ELSE written[c][r])

LEMMA ReplyEffect ==
    ASSUME NEW D, OutShape(D), NEW c \in Sockets, NEW S \in SUBSET Requests,
           Reply(c, S) \/ DoSend(c, S)
    PROVE  Delivered(c, S)
<1> USE Params DEF Delivered
<1>1. CASE S = {} /\ UNCHANGED outVars
  BY <1>1 DEF outVars
<1>2. CASE Enqueue(c, S)
  <2>1. /\ written' = written
        /\ \A d \in Sockets :
              msgQueues'[d] = (IF d = c THEN msgQueues[d] \cup S ELSE msgQueues[d])
    BY <1>2, EnqueueEffect
  <2> QED
    BY <2>1
<1>3. CASE DoSend(c, S)
  <2>1. msgQueues' = msgQueues /\ written \in [Sockets -> [Requests -> Nat]]
    BY <1>3 DEF DoSend, OutShape
  <2>2. \A d \in Sockets, r \in Requests :
           written'[d][r] = (IF d = c /\ c \in open /\ r \in S
                             THEN written[d][r] + 1 ELSE written[d][r])
    <3> HIDE DEF Delivered
    <3> QED
      BY <1>3, <2>1, DoSendEffect
  <2> HIDE DEF Delivered
  <2>3. \A d \in Sockets, r \in Requests : d # c \/ r \notin S =>
           /\ r \in msgQueues'[d] <=> r \in msgQueues[d]
           /\ written'[d][r] = written[d][r]
    BY <2>1, <2>2
  <2>4. \A r \in S : /\ r \in msgQueues'[c] <=> r \in msgQueues[c]
                     /\ written'[c][r] = (IF c \in open THEN written[c][r] + 1
                                          ELSE written[c][r])
    BY <2>1, <2>2
  <2> QED
    BY <2>3, <2>4 DEF Delivered
<1> QED
  BY <1>1, <1>2, <1>3 DEF Reply

LEMMA Arrived ==
    ASSUME TypeOK
    PROVE  /\ Len(from) \in Nat /\ DOMAIN from = 1..Len(from)
           /\ DOMAIN from \subseteq Requests
           /\ running \subseteq DOMAIN from /\ skipped \subseteq DOMAIN from
           /\ OutShape(DOMAIN from)
           /\ open \subseteq Sockets /\ sockets \subseteq open
<1> USE Params
<1>1. Len(from) \in Nat /\ DOMAIN from = 1..Len(from) /\ Len(from) <= MaxRequests
  BY DEF TypeOK
<1>2. DOMAIN from \subseteq Requests
  BY <1>1
<1>3. OutShape(DOMAIN from)
  BY DEF TypeOK, OutShape
<1>4. open \subseteq Sockets
  BY DEF TypeOK
<1> QED
  BY <1>1, <1>2, <1>3, <1>4 DEF TypeOK

LEMMA NewUntouched ==
    ASSUME TypeOK, OneReplyHome, NEW r \in Requests \ DOMAIN from
    PROVE  Untouched(r)
  BY DEF TypeOK, OneReplyHome, Untouched

(* A step that hands the replies S of connection c to the reply callback     *)
(* keeps the invariant, when nothing has been done about these requests and *)
(* about those that run.                                                    *)
LEMMA DeliverStep ==
    ASSUME IInv, TypeOK', NEW c \in Sockets, NEW S \in SUBSET DOMAIN from',
           Delivered(c, S), UNCHANGED <<open, sockets>>,
           \A r \in DOMAIN from : r \in DOMAIN from' /\ from'[r] = from[r],
           \A r \in S : from'[r] = c /\ r \notin running' /\ Untouched(r),
           \A r \in running' : Untouched(r),
           running \subseteq running' \cup S \cup Unsent', skipped \subseteq skipped',
           Unsent \subseteq Unsent',
           DOMAIN from' \subseteq DOMAIN from \cup S \cup running' \cup skipped'
    PROVE  IInv'
<1> USE Params
<1>0. /\ S \subseteq Requests /\ running' \subseteq Requests
      /\ DOMAIN from' \subseteq Requests /\ DOMAIN from \subseteq Requests
  <2>1. Len(from') \in Nat /\ DOMAIN from' = 1..Len(from') /\ Len(from') <= MaxRequests
    BY DEF TypeOK
  <2>2. DOMAIN from' \subseteq Requests
    BY <2>1
  <2>3. DOMAIN from \subseteq DOMAIN from'
    OBVIOUS
  <2>4. running' \subseteq DOMAIN from'
    BY DEF TypeOK
  <2> QED
    BY <2>2, <2>3, <2>4
<1>1. Fresh'
  <2>1. ASSUME NEW r \in running', NEW d \in Sockets
        PROVE  r \notin msgQueues'[d] /\ written'[d][r] = 0
    <3>1. r \in Requests /\ r \notin S /\ Untouched(r)
      BY <1>0
    <3> QED
      BY <3>1 DEF Delivered, Untouched
  <2>2. ASSUME NEW d \in Sockets, NEW r \in msgQueues'[d]
        PROVE  from'[r] = d /\ written'[d][r] = 0
    <3>1. r \in Requests
      BY <1>0 DEF TypeOK
    <3>2. CASE d # c \/ r \notin S
      <4>1. r \in msgQueues[d] /\ written'[d][r] = written[d][r]
        BY <3>1, <3>2 DEF Delivered
      <4>2. r \in DOMAIN from /\ from[r] = d /\ written[d][r] = 0
        BY <4>1 DEF IInv, Fresh, TypeOK
      <4> QED
        BY <4>1, <4>2
    <3>3. CASE d = c /\ r \in S
      <4>1. from'[r] = c /\ r \notin msgQueues[c] /\ written[c][r] = 0
        BY <3>3 DEF Untouched
      <4> QED
        BY <3>3, <4>1 DEF Delivered
    <3> QED
      BY <3>2, <3>3
  <2> QED
    BY <2>1, <2>2 DEF Fresh, Untouched
<1>2. OneReplyHome'
  <2> SUFFICES ASSUME NEW d \in Sockets, NEW r \in Requests
               PROVE  written'[d][r] <= (IF r \in DOMAIN from' /\ from'[r] = d THEN 1 ELSE 0)
    BY DEF OneReplyHome
  <2>1. CASE d # c \/ r \notin S
    <3>1. written'[d][r] = written[d][r]
      BY <2>1 DEF Delivered
    <3>2. written[d][r] <= (IF r \in DOMAIN from /\ from[r] = d THEN 1 ELSE 0)
      BY DEF IInv, OneReplyHome
    <3>3. written[d][r] \in Nat
      BY DEF IInv, TypeOK
    <3> QED
      BY <3>1, <3>2, <3>3
  <2>2. CASE d = c /\ r \in S
    <3>1. r \in DOMAIN from' /\ from'[r] = d /\ written[d][r] = 0
      BY <2>2 DEF Untouched
    <3>2. written'[d][r] = 0 \/ written'[d][r] = 1
      BY <2>2, <3>1 DEF Delivered
    <3> QED
      BY <3>1, <3>2
  <2> QED
    BY <2>1, <2>2
<1>3. NoReplyLost'
  <2> SUFFICES ASSUME NEW r \in DOMAIN from', from'[r] \in sockets'
               PROVE  \/ r \in running' \/ r \in skipped'
                      \/ r \in msgQueues'[from'[r]]
                      \/ written'[from'[r]][r] > 0
                      \/ r \in Unsent'
    BY DEF NoReplyLost
  <2> DEFINE d == from'[r]
  <2>0. d \in sockets /\ d \in open /\ d \in Sockets /\ r \in Requests
    <3>1. d \in sockets /\ r \in Requests
      BY <1>0
    <3>2. sockets \subseteq open /\ open \subseteq Sockets
      BY Arrived DEF IInv
    <3> HIDE DEF d
    <3> QED
      BY <3>1, <3>2
  <2>1. CASE r \in running' \cup skipped' \cup Unsent'
    BY <2>1
  <2>2. CASE r \in S
    <3>1. d = c /\ written[c][r] = 0
      BY <2>2 DEF Untouched
    <3> QED
      BY <2>0, <2>2, <3>1 DEF Delivered
  <2>3. CASE r \in DOMAIN from /\ r \notin S /\ r \notin running' /\ r \notin skipped' /\ r \notin Unsent'
    <3>1. from[r] = d /\ r \notin running /\ r \notin skipped /\ r \notin Unsent
      BY <2>3
    <3>2. r \in msgQueues[d] \/ written[d][r] > 0
      BY <2>0, <2>3, <3>1 DEF IInv, NoReplyLost
    <3> QED
      BY <2>0, <2>3, <3>2 DEF Delivered
  <2> QED
    BY <2>1, <2>2, <2>3
<1> QED
  BY <1>1, <1>2, <1>3 DEF IInv

-----------------------------------------------------------------------------
(* Steps that answer nothing. *)

LEMMA GateStep ==
    ASSUME IInv, Start \/ Stop \/ \E ns \in Namespaces : Reload(ns)
    PROVE  IInv'
<1>1. UNCHANGED <<bufferMsg, connVars, outVars, reqVars>>
  BY DEF Start, Stop, Reload
<1>2. /\ started' \in BOOLEAN /\ stoped' \in BOOLEAN
      /\ services' \subseteq Namespaces
  BY DEF Start, Stop, Reload, IInv, TypeOK
<1> USE DEF IInv, connVars, outVars, reqVars
<1>3. TypeOK'
  BY <1>1, <1>2 DEF TypeOK
<1>4. Fresh'
  BY <1>1 DEF Fresh, Untouched
<1>5. OneReplyHome' /\ NoReplyLost'
  BY <1>1 DEF OneReplyHome, NoReplyLost, Unsent
<1> QED
  BY <1>3, <1>4, <1>5

LEMMA ConnectionStep ==
    ASSUME IInv, Connection
    PROVE  IInv'
<1> USE Params DEF IInv, Connection, gateVars, outVars, reqVars
<1>1. TypeOK'
  <2>1. born' \in 0..MaxSockets /\ 1..born \subseteq 1..born'
    BY DEF TypeOK
  <2>2. open' \subseteq 1..born' /\ sockets' \subseteq open'
    BY <2>1 DEF TypeOK
  <2>3. from' \in Seq(1..born')
    BY <2>1 DEF TypeOK
  <2> QED
    BY <2>1, <2>2, <2>3 DEF TypeOK
<1>2. Fresh' /\ OneReplyHome'
  BY DEF Fresh, Untouched, OneReplyHome
<1>3. \A r \in DOMAIN from : from[r] # born + 1
  BY DEF TypeOK
<1>4. NoReplyLost'
  BY <1>3 DEF NoReplyLost, Unsent
<1> QED
  BY <1>1, <1>2, <1>4

(* A connection that is forgotten loses its queue. *)
LEMMA ForgetStep ==
    ASSUME IInv, NEW c \in Sockets, SocketClose(c) \/ Disconnect(c)
    PROVE  IInv'
<1> USE Params DEF IInv
<1>1. /\ sockets' = sockets \ {c}
      /\ open' \subseteq open /\ open \ {c} \subseteq open'
      /\ UNCHANGED <<gateVars, born, written, reqVars>>
  BY DEF SocketClose, Disconnect, Forget
<1>2. /\ entries' = (IF c \in sockets THEN entries \ {c} ELSE entries)
      /\ msgQueues' = (IF c \in sockets THEN [msgQueues EXCEPT ![c] = {}] ELSE msgQueues)
  BY DEF SocketClose, Disconnect, Forget
<1>3. /\ msgQueues' \in [Sockets -> SUBSET DOMAIN from]
      /\ \A d \in Sockets :
            /\ msgQueues'[d] \subseteq msgQueues[d]
            /\ d # c => msgQueues'[d] = msgQueues[d]
            /\ msgQueues'[d] # {} => bufferMsg /\ d \in entries'
  BY <1>2 DEF TypeOK
<1> USE DEF gateVars, reqVars
<1>4. TypeOK'
  <2>1. entries' \subseteq 1..born
    BY <1>2 DEF TypeOK
  <2>2. open' \subseteq 1..born /\ sockets' \subseteq open'
    BY <1>1 DEF TypeOK
  <2> QED
    BY <1>1, <1>3, <2>1, <2>2 DEF TypeOK
<1>5. Fresh' /\ OneReplyHome'
  BY <1>1, <1>3 DEF Fresh, Untouched, OneReplyHome
<1>6. NoReplyLost'
  <2>1. \A r \in DOMAIN from : from[r] \in Sockets
    <3>1. \A r \in DOMAIN from : from[r] \in 1..born
      <4>1. from \in Seq(1..born)
        BY DEF TypeOK
      <4>2. ASSUME NEW r \in DOMAIN from PROVE from[r] \in 1..born
        BY <4>1, Arrived, ElementOfSeq
      <4> QED
        BY <4>2
    <3>2. 1..born \subseteq Sockets
      BY DEF TypeOK
    <3> QED
      BY <3>1, <3>2
  <2> QED
    BY <1>1, <1>3, <2>1 DEF NoReplyLost, Unsent
<1> QED
  BY <1>4, <1>5, <1>6

(* The flush writes and empties the queues it gets to, and keeps the rest.   *)
LEMMA FlushStep ==
    ASSUME IInv, Flush
    PROVE  IInv'
<1> USE Params DEF IInv, gateVars, connVars, reqVars
<1>0. UNCHANGED <<gateVars, connVars, reqVars>> /\ entries' = entries \ (Reached \ sockets)
  BY DEF Flush
<1>1. written' = [c \in Sockets |-> [r \in Requests |->
                    IF r \in (IF c \in Reached \cap sockets THEN msgQueues[c] ELSE {})
                    THEN written[c][r] + 1 ELSE written[c][r]]]
  BY DEF Flush, Written
<1>2. \A c \in Sockets, r \in Requests :
         written'[c][r] = (IF c \in Reached \cap sockets /\ r \in msgQueues[c]
                           THEN written[c][r] + 1 ELSE written[c][r])
  BY <1>1
<1>3. msgQueues' = [c \in Sockets |-> IF c \in Reached THEN {} ELSE msgQueues[c]]
  BY DEF Flush
<1>4. TypeOK'
  <2>1. \A c \in Sockets : \A r \in Requests : written[c][r] \in Nat
    BY DEF TypeOK
  <2>2. written' \in [Sockets -> [Requests -> Nat]]
    BY <1>1, <2>1
  <2>3. /\ msgQueues' \in [Sockets -> SUBSET DOMAIN from]
        /\ \A c \in Sockets : msgQueues'[c] # {} => bufferMsg /\ c \in entries'
    BY <1>0, <1>3 DEF TypeOK
  <2>4. entries' \subseteq 1..born
    BY <1>0 DEF TypeOK
  <2> QED
    BY <1>0, <2>2, <2>3, <2>4 DEF TypeOK
<1>5. running \subseteq Requests /\ DOMAIN from \subseteq Requests
  <2>1. Len(from) \in Nat /\ DOMAIN from = 1..Len(from) /\ Len(from) <= MaxRequests
    BY DEF TypeOK
  <2>2. DOMAIN from \subseteq Requests
    BY <2>1
  <2>3. running \subseteq DOMAIN from
    BY DEF TypeOK
  <2> QED
    BY <2>2, <2>3
<1>6. Fresh'
  <2>1. ASSUME NEW r \in running, NEW c \in Sockets
        PROVE  r \notin msgQueues'[c] /\ written'[c][r] = 0
    BY <1>2, <1>3, <1>5, <2>1 DEF Fresh, Untouched
  <2>2. ASSUME NEW c \in Sockets, NEW r \in msgQueues'[c]
        PROVE  from[r] = c /\ written'[c][r] = 0
    <3>1. c \notin Reached /\ r \in msgQueues[c] /\ r \in Requests
      BY <1>3, <1>5, <2>2 DEF TypeOK
    <3> QED
      BY <1>2, <3>1 DEF Fresh
  <2> QED
    BY <1>0, <2>1, <2>2 DEF Fresh, Untouched
<1>7. OneReplyHome'
  <2> SUFFICES ASSUME NEW c \in Sockets, NEW r \in Requests
               PROVE  written'[c][r] <= (IF r \in DOMAIN from /\ from[r] = c THEN 1 ELSE 0)
    BY <1>0 DEF OneReplyHome
  <2>1. CASE c \in Reached \cap sockets /\ r \in msgQueues[c]
    <3>1. written[c][r] = 0 /\ from[r] = c /\ r \in DOMAIN from
      BY <2>1 DEF Fresh, TypeOK
    <3> QED
      BY <1>2, <2>1, <3>1
  <2>2. CASE ~(c \in Reached \cap sockets /\ r \in msgQueues[c])
    BY <1>2, <2>2 DEF OneReplyHome
  <2> QED
    BY <2>1, <2>2
<1>8. NoReplyLost'
  <2> SUFFICES ASSUME NEW r \in DOMAIN from, from[r] \in sockets
               PROVE  \/ r \in running \/ r \in skipped
                      \/ r \in msgQueues'[from[r]] \/ written'[from[r]][r] > 0
                      \/ r \in Unsent
    BY <1>0 DEF NoReplyLost, Unsent
  <2>1. r \in Requests /\ from[r] \in Sockets
    <3>1. from[r] \in 1..born /\ born \in 0..MaxSockets
      BY DEF TypeOK
    <3>2. from[r] \in Sockets
      BY <3>1
    <3> QED
      BY <1>5, <3>2
  <2>2. written[from[r]][r] \in Nat
    BY <2>1 DEF TypeOK
  <2>3. \/ r \in running \/ r \in skipped
        \/ r \in msgQueues[from[r]] \/ written[from[r]][r] > 0
        \/ r \in Unsent
    BY DEF NoReplyLost
  <2> QED
    BY <1>2, <1>3, <2>1, <2>2, <2>3
<1> QED
  BY <1>4, <1>6, <1>7, <1>8

-----------------------------------------------------------------------------
(* Steps that receive or settle requests. *)

(* The type invariant after a step that changes the requests and the         *)
(* buffers only.                                                            *)
LEMMA RequestType ==
    ASSUME TypeOK, UNCHANGED <<gateVars, connVars>>,
           from' \in Seq(1..born), Len(from') <= MaxRequests,
           running' \subseteq DOMAIN from', skipped' \subseteq DOMAIN from',
           unfit' \subseteq DOMAIN from',
           NEW c \in 1..born, NEW S \in SUBSET DOMAIN from',
           DOMAIN from \subseteq DOMAIN from', Reply(c, S) \/ DoSend(c, S)
    PROVE  TypeOK'
<1> USE DEF gateVars, connVars
<1>1. born \in 0..MaxSockets
  BY DEF TypeOK
<1>2. PICK D : D = DOMAIN from'
  OBVIOUS
<1>3. OutShape(D)'
  BY <1>1, <1>2, Arrived, ReplyShape
<1>4. /\ bufferMsg' \in BufferModes /\ started' \in BOOLEAN /\ stoped' \in BOOLEAN
      /\ services' \subseteq Namespaces /\ born' \in 0..MaxSockets
      /\ open' \subseteq 1..born' /\ sockets' \subseteq open'
  BY DEF TypeOK
<1>5. /\ entries' \subseteq 1..born' /\ msgQueues' \in [Sockets -> SUBSET DOMAIN from']
      /\ \A d \in Sockets : msgQueues'[d] # {} => bufferMsg' /\ d \in entries'
      /\ written' \in [Sockets -> [Requests -> Nat]]
  BY <1>2, <1>3 DEF OutShape
<1> QED
  BY <1>4, <1>5 DEF TypeOK

LEMMA SettleStep ==
    ASSUME IInv, NEW r \in Requests, NEW fits \in BOOLEAN, Settle(r, fits)
    PROVE  IInv'
<1> DEFINE c == from[r]
           S == IF fits \/ bufferMsg THEN {r} ELSE {}
<1>1. /\ r \in running /\ running' = running \ {r} /\ Reply(c, S)
      /\ unfit' = (IF fits THEN unfit ELSE unfit \cup {r})
      /\ UNCHANGED <<gateVars, connVars, from, skipped>>
  BY DEF Settle
<1>2. /\ r \in DOMAIN from /\ c \in 1..born /\ c \in Sockets
      /\ from \in Seq(1..born) /\ Len(from) <= MaxRequests
      /\ skipped \subseteq DOMAIN from /\ running \subseteq DOMAIN from
      /\ unfit \subseteq DOMAIN from
  <2>1. r \in DOMAIN from /\ from \in Seq(1..born) /\ born \in 0..MaxSockets
    BY <1>1 DEF IInv, TypeOK
  <2>2. c \in 1..born
    BY <2>1
  <2>3. c \in Sockets
    BY <2>1, <2>2, Params
  <2> QED
    BY <2>1, <2>2, <2>3 DEF IInv, TypeOK
<1>3. /\ S \in SUBSET DOMAIN from' /\ S \in SUBSET Requests /\ S \subseteq {r}
      /\ running \subseteq running' \cup S \cup Unsent' /\ Unsent \subseteq Unsent'
  BY <1>1, <1>2 DEF Unsent, gateVars
<1> HIDE DEF c, S
<1>4. TypeOK'
  BY <1>1, <1>2, <1>3, RequestType DEF IInv
<1>5. Delivered(c, S)
  BY <1>1, <1>2, <1>3, Arrived, ReplyEffect DEF IInv
<1>6. \A x \in running : Untouched(x)
  BY DEF IInv, Fresh
<1> QED
  BY <1>1, <1>2, <1>3, <1>4, <1>5, <1>6, DeliverStep DEF connVars, c

LEMMA PublishOneStep ==
    ASSUME IInv, NEW c \in Sockets, NEW msg \in Message, PublishOne(c, msg)
    PROVE  IInv'
<1> DEFINE r == Len(from) + 1
           S == IF msg.fate = "runs" THEN {} ELSE {r}
<1>1. /\ c \in open /\ r <= MaxRequests /\ from' = Append(from, c)
      /\ UNCHANGED <<gateVars, connVars, skipped, unfit>>
      /\ running' = (IF msg.fate = "runs" THEN running \cup {r} ELSE running)
  BY DEF PublishOne
<1>2. Reply(c, S) \/ DoSend(c, S)
  BY DEF PublishOne, Reply
<1>3. /\ Len(from) \in Nat /\ DOMAIN from = 1..Len(from) /\ DOMAIN from \subseteq Requests
      /\ running \subseteq DOMAIN from /\ skipped \subseteq DOMAIN from
      /\ unfit \subseteq DOMAIN from
      /\ c \in 1..born /\ from \in Seq(1..born)
  BY <1>1, Arrived DEF IInv, TypeOK
<1>4. /\ from' \in Seq(1..born) /\ DOMAIN from' = DOMAIN from \cup {r}
      /\ Len(from') = r /\ from'[r] = c
      /\ \A x \in DOMAIN from : from'[x] = from[x]
      /\ r \in Requests /\ r \notin DOMAIN from
  BY <1>1, <1>3, Params
<1> HIDE DEF r
<1>5. S \in SUBSET DOMAIN from' /\ S \in SUBSET Requests
  BY <1>4
<1>6. TypeOK'
  <2>1. running' \subseteq DOMAIN from' /\ skipped' \subseteq DOMAIN from'
    BY <1>1, <1>3, <1>4
  <2>2. unfit' \subseteq DOMAIN from'
    BY <1>1, <1>3, <1>4
  <2> HIDE DEF S
  <2> QED
    BY <1>1, <1>2, <1>3, <1>4, <1>5, <2>1, <2>2, RequestType DEF IInv
<1>7. Delivered(c, S)
  <2> HIDE DEF S
  <2> QED
    BY <1>2, <1>5, Arrived, ReplyEffect DEF IInv
<1>8. Untouched(r)
  BY <1>4, NewUntouched DEF IInv
<1>9. \A x \in running' : Untouched(x)
  BY <1>1, <1>8 DEF IInv, Fresh
<1>10. \A x \in S : from'[x] = c /\ x \notin running' /\ Untouched(x)
  BY <1>1, <1>3, <1>4, <1>8
<1>11. /\ running \subseteq running' \cup S /\ skipped \subseteq skipped' /\ Unsent' = Unsent
       /\ DOMAIN from' \subseteq DOMAIN from \cup S \cup running' \cup skipped'
  BY <1>1, <1>4 DEF Unsent, gateVars
<1> HIDE DEF S
<1> QED
  BY <1>1, <1>4, <1>5, <1>6, <1>7, <1>9, <1>10, <1>11, DeliverStep DEF connVars

LEMMA PublishBatchStep ==
    ASSUME IInv, NEW c \in Sockets, NEW msgs \in Batches, PublishBatch(c, msgs)
    PROVE  IInv'
<1> DEFINE fresh == {New(k) : k \in 1..Len(msgs)}
<1>0. /\ Len(msgs) \in Nat /\ DOMAIN msgs = 1..Len(msgs)
      /\ \A i \in 1..Len(msgs) : msgs[i].fate \in {"refused", "runs", "throws"}
  BY DEF Batches, Message
<1>1. PICK n \in 0..Len(msgs) :
         /\ n = Len(msgs) \/ msgs[n + 1].fate = "throws"
         /\ \A i \in 1..Len(msgs) : msgs[i].fate = "throws" => n < i
         /\ running' = running \cup Routed("runs", msgs, n)
         /\ skipped' = skipped \cup {New(k) : k \in (n + 1)..Len(msgs)}
         /\ Reply(c, Routed("refused", msgs, n))
  BY <1>0 DEF PublishBatch
<1> DEFINE S == Routed("refused", msgs, n)
           R == Routed("runs", msgs, n)
<1>2. /\ c \in open /\ Len(from) + Len(msgs) <= MaxRequests
      /\ from' = from \o [i \in DOMAIN msgs |-> c]
      /\ UNCHANGED <<gateVars, connVars, unfit>>
  BY DEF PublishBatch
<1>3. /\ Len(from) \in Nat /\ DOMAIN from = 1..Len(from) /\ DOMAIN from \subseteq Requests
      /\ running \subseteq DOMAIN from /\ skipped \subseteq DOMAIN from
      /\ unfit \subseteq DOMAIN from
      /\ c \in 1..born /\ from \in Seq(1..born)
  BY <1>2, Arrived DEF IInv, TypeOK
<1>5. /\ from' \in Seq(1..born) /\ Len(from') = Len(from) + Len(msgs)
      /\ DOMAIN from' = 1..(Len(from) + Len(msgs))
      /\ \A x \in DOMAIN from : from'[x] = from[x]
      /\ \A x \in DOMAIN from' : x \notin DOMAIN from => from'[x] = c
  <2> DEFINE q == [i \in 1..Len(msgs) |-> c]
  <2>1. q \in Seq(1..born) /\ Len(q) = Len(msgs) /\ \A i \in 1..Len(msgs) : q[i] = c
    BY <1>0, <1>3
  <2>2. from' = from \o q
    BY <1>0, <1>2
  <2> HIDE DEF q
  <2>3. /\ from' \in Seq(1..born) /\ Len(from') = Len(from) + Len(msgs)
        /\ \A i \in 1..(Len(from) + Len(msgs)) :
              from'[i] = (IF i <= Len(from) THEN from[i] ELSE q[i - Len(from)])
    <3>1. from \in Seq(1..born) /\ q \in Seq(1..born)
      BY <1>3, <2>1
    <3>2. /\ from \o q \in Seq(1..born) /\ Len(from \o q) = Len(from) + Len(q)
          /\ \A i \in 1..(Len(from) + Len(q)) :
                (from \o q)[i] = (IF i <= Len(from) THEN from[i] ELSE q[i - Len(from)])
      BY <3>1, ConcatProperties, Zenon
    <3> QED
      BY <2>1, <2>2, <3>2
  <2>4. DOMAIN from' = 1..(Len(from) + Len(msgs))
    BY <2>3
  <2>5. \A x \in 1..Len(from) : x \in 1..(Len(from) + Len(msgs)) /\ x <= Len(from)
    BY <1>0, <1>3
  <2>6. \A x \in 1..(Len(from) + Len(msgs)) :
           x \notin 1..Len(from) => x - Len(from) \in 1..Len(msgs) /\ ~(x <= Len(from))
    BY <1>0, <1>3
  <2> QED
    BY <1>3, <2>1, <2>3, <2>4, <2>5, <2>6
<1>6. /\ fresh \cap DOMAIN from = {} /\ fresh \subseteq Requests
      /\ DOMAIN from' = DOMAIN from \cup fresh
      /\ \A x \in fresh : from'[x] = c
  <2>1. \A k \in 1..Len(msgs) : New(k) = Len(from) + k
    BY DEF New
  <2>2. \A x \in 1..(Len(from) + Len(msgs)) :
           x \notin 1..Len(from) => x - Len(from) \in 1..Len(msgs) /\ x = New(x - Len(from))
    BY <1>0, <1>3 DEF New
  <2>3. fresh \cap DOMAIN from = {} /\ fresh \subseteq 1..(Len(from) + Len(msgs))
    BY <1>0, <1>3, <2>1
  <2>4. 1..(Len(from) + Len(msgs)) \subseteq DOMAIN from \cup fresh
    BY <1>3, <2>2
  <2>5. DOMAIN from' = DOMAIN from \cup fresh
    BY <1>0, <1>3, <1>5, <2>3, <2>4
  <2>6. 1..(Len(from) + Len(msgs)) \subseteq Requests
    BY <1>0, <1>2, <1>3, Params
  <2> QED
    BY <1>5, <2>3, <2>5, <2>6
<1>7. /\ S \subseteq fresh /\ R \subseteq fresh /\ S \cap R = {}
      /\ fresh \subseteq S \cup R \cup {New(k) : k \in (n + 1)..Len(msgs)}
      /\ {New(k) : k \in (n + 1)..Len(msgs)} \subseteq fresh
  <2>1. \A j, k \in 1..Len(msgs) : New(j) = New(k) => j = k
    BY <1>0, <1>3 DEF New
  <2>0. n \in Nat /\ n <= Len(msgs)
    BY <1>0
  <2>2. \A k \in 1..n : k \in 1..Len(msgs) /\ msgs[k].fate \in {"refused", "runs"}
    BY <1>0, <1>1
  <2>3. \A k \in 1..Len(msgs) : k \in 1..n \/ k \in (n + 1)..Len(msgs)
    BY <1>0, <2>0
  <2>4. \A k \in (n + 1)..Len(msgs) : k \in 1..Len(msgs)
    BY <1>0, <2>0
  <2>5. S \subseteq fresh /\ R \subseteq fresh
    BY <2>2 DEF Routed
  <2>6. S \cap R = {}
    BY <2>1, <2>2 DEF Routed
  <2>7. ASSUME NEW k \in 1..Len(msgs)
        PROVE  New(k) \in S \cup R \cup {New(j) : j \in (n + 1)..Len(msgs)}
    BY <2>2, <2>3 DEF Routed
  <2> QED
    BY <2>4, <2>5, <2>6, <2>7
<1> HIDE DEF fresh, S, R
<1>8. /\ S \in SUBSET DOMAIN from' /\ S \in SUBSET Requests
      /\ running' = running \cup R /\ running' \subseteq DOMAIN from'
      /\ skipped \subseteq skipped' /\ skipped' \subseteq DOMAIN from'
      /\ DOMAIN from' \subseteq DOMAIN from \cup S \cup running' \cup skipped'
      /\ unfit' \subseteq DOMAIN from' /\ Unsent' = Unsent
  BY <1>1, <1>2, <1>3, <1>6, <1>7 DEF R, Unsent, gateVars
<1>9. Reply(c, S)
  BY <1>1 DEF S
<1>10. TypeOK'
  BY <1>2, <1>3, <1>5, <1>6, <1>8, <1>9, RequestType DEF IInv
<1>11. Delivered(c, S)
  BY <1>8, <1>9, Arrived, ReplyEffect DEF IInv
<1>12. \A x \in fresh : Untouched(x)
  BY <1>6, NewUntouched DEF IInv
<1>13. \A x \in running' : Untouched(x)
  BY <1>7, <1>8, <1>12 DEF IInv, Fresh
<1>14. \A x \in S : from'[x] = c /\ x \notin running' /\ Untouched(x)
  BY <1>3, <1>6, <1>7, <1>8, <1>12
<1> QED
  BY <1>2, <1>5, <1>6, <1>8, <1>10, <1>11, <1>13, <1>14, DeliverStep DEF connVars

LEMMA StepInv == IInv /\ [Next]_vars => IInv'
<1> SUFFICES ASSUME IInv, [Next]_vars PROVE IInv'
  OBVIOUS
<1>1. CASE Start \/ Stop \/ \E ns \in Namespaces : Reload(ns)
  BY <1>1, GateStep
<1>2. CASE Connection
  BY <1>2, ConnectionStep
<1>3. CASE \E c \in Sockets : SocketClose(c) \/ Disconnect(c)
  BY <1>3, ForgetStep
<1>4. CASE \E c \in Sockets : Publish(c)
  BY <1>4, PublishOneStep, PublishBatchStep DEF Publish
<1>5. CASE Flush
  BY <1>5, FlushStep
<1>6. CASE \E r \in Requests, fits \in BOOLEAN : Settle(r, fits)
  BY <1>6, SettleStep
<1>7. CASE UNCHANGED vars
  BY <1>7 DEF vars, gateVars, connVars, outVars, reqVars, IInv, TypeOK, Fresh,
              Untouched, OneReplyHome, NoReplyLost, Unsent
<1> QED
  BY <1>1, <1>2, <1>3, <1>4, <1>5, <1>6, <1>7 DEF Next

THEOREM Invariance == Spec => []IInv
  BY InitInv, StepInv, PTL DEF Spec

(* The state of the server keeps its shape.                                  *)
THEOREM TypeCorrect == Spec => []TypeOK
<1>1. IInv => TypeOK
  BY DEF IInv
<1> QED
  BY <1>1, Invariance, PTL

(* For any number of connections, requests and packets, whatever is buffered *)
(* or forgotten meanwhile, a reply is written at most once and only on the   *)
(* connection of its request (mqtt-acceptor.ts, processMsg to doSend).       *)
THEOREM RepliesGoHome == Spec => []OneReplyHome
<1>1. IInv => OneReplyHome
  BY DEF IInv
<1> QED
  BY <1>1, Invariance, PTL

(* No request of a registered connection is forgotten by the server: not by  *)
(* a flush that ends in an exception, nor by one of onSocketClose; only      *)
(* doSend at once, without a buffer, throws away a result that does not fit  *)
(* into JSON (mqtt-acceptor.ts, enqueue, flush and doSend against            *)
(* onSocketClose).                                                          *)
THEOREM RepliesKept == Spec => []NoReplyLost
<1>1. IInv => NoReplyLost
  BY DEF IInv
<1> QED
  BY <1>1, Invariance, PTL
=============================================================================
