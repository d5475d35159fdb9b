-------------------------- MODULE AcceptorsProofs --------------------------
(* Proofs about the acceptors of the tcp, ws, ws2 and mqtt2 transports, for *)
(* any number of connections, requests and packet sizes.                    *)
EXTENDS Acceptors, TLAPS

Came == 1..Len(from)        \* the requests that have come
Conns == 1..born            \* the connections accepted

Shape ==
    /\ kind \in Kinds /\ bufferMsg \in BOOLEAN
    /\ born \in Nat /\ born <= MaxSockets
    /\ open \subseteq Conns
    /\ sockets \in [Keys -> 0..born]
    /\ msgQueues \in [Keys -> SUBSET Came] /\ entries \subseteq Keys
    /\ from \in Seq(Conns) /\ Len(from) <= MaxRequests
    /\ running \subseteq Came
    /\ written \in [Connections -> [Requests -> Nat]]

(* Sockets and replies are under the key of their connection. *)
Homes ==
    /\ \A k \in Keys : sockets[k] # 0 => Keyed(sockets[k]) = k
    /\ \A k \in Keys : \A r \in msgQueues[k] : Keyed(from[r]) = k

Unwritten(r) == \A c \in Connections : written[c][r] = 0

(* What runs or waits in a queue has not been written, and nothing does both. *)
Places ==
    /\ \A r \in running : Unwritten(r) /\ \A k \in Keys : r \notin msgQueues[k]
    /\ \A k \in Keys : \A r \in msgQueues[k] : Unwritten(r)
    /\ \A r \in Requests : r > Len(from) => Unwritten(r)

IInv == Shape /\ Homes /\ Places /\ OneReplyHome /\ NoReplyLost

LEMMA Params ==
    /\ MaxSockets \in Nat /\ MaxRequests \in Nat
    /\ Connections = 1..MaxSockets /\ Requests = 1..MaxRequests /\ Keys = 0..MaxSockets
  BY BaseAssumption DEF BaseAssumption, Connections, Requests, Keys

LEMMA InShape ==
    ASSUME Shape
    PROVE  /\ Conns \subseteq Connections /\ Conns \subseteq Keys /\ Came \subseteq Requests
           /\ DOMAIN from = Came /\ Len(from) \in Nat
           /\ \A r \in Came : from[r] \in Conns
           /\ \A c \in Conns : Keyed(c) \in Keys /\ c # 0
<1>1. Conns \subseteq Connections /\ Conns \subseteq Keys /\ Came \subseteq Requests
  BY Params DEF Shape, Conns, Came
<1>2. DOMAIN from = Came /\ Len(from) \in Nat
  BY DEF Shape, Came
<1>3. \A r \in Came : from[r] \in Conns
  BY <1>2 DEF Shape
<1>4. \A c \in Conns : Keyed(c) \in Keys /\ c # 0
  BY <1>1, Params DEF Conns, Keyed
<1> QED
  BY <1>1, <1>2, <1>3, <1>4

LEMMA InitInv == AcceptorsInit => IInv
<1> SUFFICES ASSUME AcceptorsInit PROVE IInv
  OBVIOUS
<1>1. /\ kind \in Kinds /\ bufferMsg \in BOOLEAN /\ born = 0 /\ open = {} /\ from = << >>
      /\ sockets = [k \in Keys |-> 0] /\ msgQueues = [k \in Keys |-> {}] /\ running = {} /\ entries = {}
      /\ written = [c \in Connections |-> [r \in Requests |-> 0]]
  BY DEF AcceptorsInit, Init
<1>2. Len(from) = 0 /\ DOMAIN from = {} /\ Came = {} /\ from \in Seq(Conns)
  BY <1>1 DEF Came
<1>3. written \in [Connections -> [Requests -> Nat]]
  BY <1>1
<1>4. Shape
  BY <1>1, <1>2, <1>3, Params DEF Shape
<1>5. \A c \in Connections, r \in Requests : written[c][r] = 0
  BY <1>1
<1>6. Homes /\ Places
  BY <1>1, <1>5 DEF Homes, Places, Unwritten
<1>7. OneReplyHome /\ NoReplyLost
  BY <1>2 DEF OneReplyHome, NoReplyLost
<1> QED
  BY <1>4, <1>6, <1>7 DEF IInv

LEMMA WrittenOut ==
    ASSUME Shape, NEW out, written' = Written(out)
    PROVE  /\ written' \in [Connections -> [Requests -> Nat]]
           /\ \A c \in Connections, r \in Requests :
                 /\ written[c][r] \in Nat
                 /\ written'[c][r] = IF c \in open /\ r \in out[c]
                                     THEN written[c][r] + 1 ELSE written[c][r]
<1>1. \A c \in Connections, r \in Requests : written[c][r] \in Nat
  BY DEF Shape
<1> QED
  BY <1>1 DEF Written

-----------------------------------------------------------------------------
(* The steps of the base module in general terms.                           *)

(* Connections are lost or only the life of the acceptor moves. *)
LEMMA OpenStep ==
    ASSUME IInv, open' \subseteq open,
           UNCHANGED <<kind, bufferMsg, born, sockets, msgQueues, entries,
                       written, from, running, failed>>
    PROVE  IInv'
<1>1. Shape'
  BY DEF IInv, Shape, Conns, Came
<1>2. Homes' /\ Places'
  BY DEF IInv, Homes, Places, Keyed, Unwritten
<1>3. OneReplyHome' /\ NoReplyLost'
  BY DEF IInv, OneReplyHome, NoReplyLost, Keyed, Shared
<1> QED
  BY <1>1, <1>2, <1>3 DEF IInv

(* A connection is accepted. *)
LEMMA RegisterStep ==
    ASSUME IInv, NEW k, k = Keyed(born + 1), born < MaxSockets,
           born' = born + 1, open' = open \cup {born + 1},
           sockets' = [sockets EXCEPT ![k] = born + 1],
           UNCHANGED <<kind, bufferMsg, msgQueues, entries,
                       written, from, running, failed>>
    PROVE  IInv'
<1> USE Params
<1>0. /\ born \in Nat /\ born + 1 \in Keys /\ k \in Keys
      /\ \A x \in Keys : sockets'[x] = IF x = k THEN born + 1 ELSE sockets[x]
  BY DEF IInv, Shape, Keyed
<1>1. Shape'
  <2>1. from \in Seq(1..(born + 1))
    BY <1>0 DEF IInv, Shape, Conns
  <2>2. sockets' \in [Keys -> 0..(born + 1)]
    BY <1>0 DEF IInv, Shape
  <2>3. open' \subseteq 1..(born + 1)
    BY <1>0 DEF IInv, Shape, Conns
  <2>4. Conns' = 1..(born + 1) /\ Came' = Came /\ born' <= MaxSockets /\ born' \in Nat
    BY <1>0 DEF Conns, Came
  <2> QED
    BY <2>1, <2>2, <2>3, <2>4 DEF IInv, Shape
<1>2. Homes'
  BY <1>0 DEF IInv, Homes, Keyed
<1>3. Places'
  BY DEF IInv, Places, Unwritten
<1>4. OneReplyHome'
  <2>1. Shared => Shared'
    BY <1>0 DEF Shared
  <2> QED
    BY <2>1 DEF IInv, OneReplyHome
<1>5. NoReplyLost'
  <2> SUFFICES ASSUME NEW r \in DOMAIN from,
                      sockets'[Keyed(from[r])] = from[r], from[r] \in open', ~Shared'
               PROVE  r \in running \/ r \in failed
                      \/ r \in msgQueues[Keyed(from[r])] \/ written[from[r]][r] > 0
    BY DEF NoReplyLost, Keyed
  <2>1. from[r] \in Conns /\ from[r] # born + 1 /\ Keyed(from[r]) \in Keys
    BY <1>0, InShape DEF IInv, Conns
  <2>2. sockets[Keyed(from[r])] = from[r] /\ from[r] \in open /\ ~Shared
    BY <1>0, <2>1 DEF Shared
  <2> QED
    BY <2>2 DEF IInv, NoReplyLost
<1> QED
  BY <1>1, <1>2, <1>3, <1>4, <1>5 DEF IInv

(* What is kept at a key is deleted. *)
LEMMA ForgetStep ==
    ASSUME IInv, NEW k, open' \subseteq open,
           sockets' = [sockets EXCEPT ![k] = 0], msgQueues' = [msgQueues EXCEPT ![k] = {}],
           entries' \subseteq entries,
           UNCHANGED <<kind, bufferMsg, born, written, from, running, failed>>
    PROVE  IInv'
<1>0. \A x \in Keys : /\ sockets'[x] = IF x = k THEN 0 ELSE sockets[x]
                      /\ msgQueues'[x] = IF x = k THEN {} ELSE msgQueues[x]
  BY DEF IInv, Shape
<1>1. Shape'
  <2>1. sockets' \in [Keys -> 0..born]
    <3>1. 0 \in 0..born /\ sockets \in [Keys -> 0..born]
      BY DEF IInv, Shape
    <3> QED
      BY <3>1
  <2>2. msgQueues' \in [Keys -> SUBSET Came]
    <3>1. {} \in SUBSET Came /\ msgQueues \in [Keys -> SUBSET Came]
      BY DEF IInv, Shape
    <3> QED
      BY <3>1
  <2>3. UNCHANGED <<Conns, Came>>
    BY DEF Conns, Came
  <2> QED
    BY <2>1, <2>2, <2>3 DEF IInv, Shape
<1>2. Homes'
  BY <1>0 DEF IInv, Homes, Keyed
<1>3. Places'
  BY <1>0 DEF IInv, Places, Unwritten
<1>4. OneReplyHome'
  BY DEF IInv, OneReplyHome, Shared
<1>5. NoReplyLost'
  <2> SUFFICES ASSUME NEW r \in DOMAIN from,
                      sockets'[Keyed(from[r])] = from[r], from[r] \in open', ~Shared
               PROVE  r \in running \/ r \in failed
                      \/ r \in msgQueues'[Keyed(from[r])] \/ written[from[r]][r] > 0
    BY DEF NoReplyLost, Keyed, Shared
  <2>1. from[r] # 0 /\ Keyed(from[r]) \in Keys
    BY InShape DEF IInv
  <2>2. Keyed(from[r]) # k /\ sockets[Keyed(from[r])] = from[r]
    BY <1>0, <2>1
  <2> QED
    BY <1>0, <2>1, <2>2 DEF IInv, NoReplyLost
<1> QED
  BY <1>1, <1>2, <1>3, <1>4, <1>5 DEF IInv

(* The flush interval writes what is in reached queues and empties them. *)
LEMMA FlushStep ==
    ASSUME IInv, NEW R, R \subseteq Keys, bufferMsg,
           written' = Written([c \in Connections |->
                         UNION {msgQueues[k] : k \in {k \in R : sockets[k] = c}}]),
           msgQueues' = [k \in Keys |-> IF k \in R THEN {} ELSE msgQueues[k]],
           entries' \subseteq entries,
           UNCHANGED <<kind, bufferMsg, born, open, sockets, from, running, failed>>
    PROVE  IInv'
<1> DEFINE out == [c \in Connections |->
                      UNION {msgQueues[k] : k \in {k \in R : sockets[k] = c}}]
<1>1. \A c \in Connections : \A r : r \in out[c] <=> \E k \in R : sockets[k] = c /\ r \in msgQueues[k]
  OBVIOUS
<1> HIDE DEF out
<1>2. /\ written' \in [Connections -> [Requests -> Nat]]
      /\ \A c \in Connections, r \in Requests :
            /\ written[c][r] \in Nat
            /\ written'[c][r] = IF c \in open /\ r \in out[c]
                                THEN written[c][r] + 1 ELSE written[c][r]
  BY WrittenOut DEF IInv, out
<1>3. \A k \in Keys : msgQueues'[k] = IF k \in R THEN {} ELSE msgQueues[k]
  OBVIOUS
<1>4. Shape'
  <2>1. msgQueues' \in [Keys -> SUBSET Came]
    BY DEF IInv, Shape
  <2>2. UNCHANGED <<Conns, Came>>
    BY DEF Conns, Came
  <2> QED
    BY <1>2, <2>1, <2>2 DEF IInv, Shape
<1>5. Homes'
  BY <1>3 DEF IInv, Homes, Keyed
(* What is written was queued under the key of its connection. *)
<1>6. \A c \in Connections : \A r \in out[c] :
         /\ r \in Came /\ Unwritten(r) /\ r \notin running
         /\ Keyed(c) = Keyed(from[r]) /\ Keyed(c) \in R /\ sockets[Keyed(c)] = c
         /\ r \in msgQueues[Keyed(c)]
  <2> SUFFICES ASSUME NEW c \in Connections, NEW r \in out[c]
               PROVE  /\ r \in Came /\ Unwritten(r) /\ r \notin running
                      /\ Keyed(c) = Keyed(from[r]) /\ Keyed(c) \in R /\ sockets[Keyed(c)] = c
                      /\ r \in msgQueues[Keyed(c)]
    OBVIOUS
  <2>1. PICK k \in R : sockets[k] = c /\ r \in msgQueues[k]
    BY <1>1
  <2>2. c # 0
    BY Params
  <2>3. Keyed(c) = k /\ Keyed(from[r]) = k
    BY <2>1, <2>2 DEF IInv, Homes
  <2>4. r \in Came
    BY <2>1 DEF IInv, Shape
  <2>5. Unwritten(r) /\ r \notin running
    BY <2>1 DEF IInv, Places
  <2> QED
    BY <2>1, <2>3, <2>4, <2>5
<1>7. Places'
  <2>1. ASSUME NEW r \in Requests, Unwritten(r), \A c \in Connections : r \notin out[c]
        PROVE  Unwritten(r)'
    BY <1>2, <2>1 DEF Unwritten
  <2>2. ASSUME NEW r \in running
        PROVE  Unwritten(r)' /\ \A k \in Keys : r \notin msgQueues'[k]
    <3>1. r \in Requests /\ Unwritten(r) /\ \A c \in Connections : r \notin out[c]
      BY <1>6, InShape DEF IInv, Shape, Places
    <3> QED
      BY <1>3, <2>1, <3>1 DEF IInv, Places
  <2>3. ASSUME NEW k \in Keys, NEW r \in msgQueues'[k] PROVE Unwritten(r)'
    <3>1. k \notin R /\ r \in msgQueues[k] /\ r \in Came /\ r \in Requests
      BY <1>3, InShape DEF IInv, Shape
    <3>2. Unwritten(r) /\ Keyed(from[r]) = k
      BY <3>1 DEF IInv, Places, Homes
    <3>3. \A c \in Connections : r \notin out[c]
      BY <1>6, <3>1, <3>2
    <3> QED
      BY <2>1, <3>1, <3>2, <3>3
  <2>4. ASSUME NEW r \in Requests, r > Len(from) PROVE Unwritten(r)'
    <3>1. r \notin Came
      BY <2>4, InShape DEF IInv, Came
    <3>2. Unwritten(r) /\ \A c \in Connections : r \notin out[c]
      BY <1>6, <2>4, <3>1 DEF IInv, Places
    <3> QED
      BY <2>1, <3>2
  <2> QED
    BY <2>2, <2>3, <2>4 DEF Places
<1>8. OneReplyHome'
  <2> SUFFICES ASSUME NEW c \in Connections, NEW r \in DOMAIN from
               PROVE  /\ written'[c][r] <= 1
                      /\ written'[c][r] > 0 => from[r] = c \/ Shared
    BY DEF OneReplyHome, Shared
  <2>0. r \in Came /\ r \in Requests /\ from[r] \in Conns
    BY InShape DEF IInv
  <2>1. CASE r \in out[c] /\ c \in open
    <3>1. written[c][r] = 0
      BY <1>6, <2>1 DEF Unwritten
    <3>2. Keyed(c) = Keyed(from[r]) /\ c \in Conns
      BY <1>6, <2>1 DEF IInv, Shape
    <3>3. from[r] = c \/ Shared
      <4>1. CASE kind = "tcp"
        BY <2>0, <3>2, <4>1 DEF Shared, Conns, IInv, Shape
      <4>2. CASE kind # "tcp"
        BY <3>2, <4>2 DEF Keyed
      <4> QED
        BY <4>1, <4>2
    <3> QED
      BY <1>2, <2>0, <2>1, <3>1, <3>3
  <2>2. CASE ~(r \in out[c] /\ c \in open)
    <3>1. written'[c][r] = written[c][r]
      BY <1>2, <2>0, <2>2
    <3> QED
      BY <3>1 DEF IInv, OneReplyHome
  <2> QED
    BY <2>1, <2>2
<1>9. NoReplyLost'
  <2> SUFFICES ASSUME NEW r \in DOMAIN from,
                      sockets[Keyed(from[r])] = from[r], from[r] \in open, ~Shared
               PROVE  r \in running \/ r \in failed
                      \/ r \in msgQueues'[Keyed(from[r])] \/ written'[from[r]][r] > 0
    BY DEF NoReplyLost, Keyed, Shared
  <2>0. /\ r \in Requests /\ from[r] \in Conns /\ from[r] \in Connections
        /\ Keyed(from[r]) \in Keys
    BY InShape DEF IInv
  <2>1. \/ r \in running \/ r \in failed
        \/ r \in msgQueues[Keyed(from[r])] \/ written[from[r]][r] > 0
    BY DEF IInv, NoReplyLost
  <2>2. CASE r \in msgQueues[Keyed(from[r])] /\ Keyed(from[r]) \in R
    <3>1. r \in out[from[r]]
      BY <1>1, <2>0, <2>2
    <3> QED
      BY <1>2, <2>0, <3>1
  <2>3. CASE r \in msgQueues[Keyed(from[r])] /\ Keyed(from[r]) \notin R
    BY <1>3, <2>0, <2>3
  <2>4. CASE written[from[r]][r] > 0
    BY <1>2, <2>0, <2>4
  <2> QED
    BY <2>1, <2>2, <2>3, <2>4
<1> QED
  BY <1>4, <1>5, <1>7, <1>8, <1>9 DEF IInv

(* Requests come, run, fail or are answered: `grown` is the new `from`, S are *)
(* the requests answered, all of them on connection c.                       *)
LEMMA AnswerStep ==
    ASSUME IInv, NEW c \in Conns, NEW S,
           from' \in Seq(Conns), Len(from') >= Len(from), Len(from') <= MaxRequests,
           \A r \in Came : from'[r] = from[r],
           running' \subseteq 1..Len(from'), S \subseteq 1..Len(from'),
           \A r \in S : r \notin running' /\ from'[r] = c,
           \A r \in S \cup running' : r \in running \/ r > Len(from),
           failed \subseteq failed',
           \A r \in 1..Len(from') : r \in running \/ r > Len(from) =>
               r \in running' \/ r \in failed' \/ r \in S,
           Reply(c, Keyed(c), S),
           UNCHANGED <<kind, bufferMsg, born, open, sockets>>
    PROVE  IInv'
<1>0. /\ Len(from) \in Nat /\ Len(from') \in Nat /\ DOMAIN from' = 1..Len(from')
      /\ Came \subseteq 1..Len(from') /\ 1..Len(from') \subseteq Requests
      /\ Keyed(c) \in Keys /\ c \in Connections /\ Shared' = Shared
      /\ \A r \in 1..Len(from') : r \notin Came => r > Len(from)
      /\ \A r \in Came : ~(r > Len(from))
  <2>1. Len(from) \in Nat /\ Len(from') \in Nat /\ DOMAIN from' = 1..Len(from')
    BY InShape DEF IInv
  <2>2. Keyed(c) \in Keys /\ c \in Connections
    BY InShape DEF IInv
  <2>3. Shared' = Shared
    BY DEF Shared
  <2> QED
    BY <2>1, <2>2, <2>3, Params DEF Came
<1>1. \A r \in S \cup running' : /\ r \in Requests /\ Unwritten(r)
                                 /\ \A k \in Keys : r \notin msgQueues[k]
  <2> SUFFICES ASSUME NEW r \in S \cup running'
               PROVE  /\ r \in Requests /\ Unwritten(r)
                      /\ \A k \in Keys : r \notin msgQueues[k]
    OBVIOUS
  <2>1. r \in Requests
    BY <1>0
  <2>2. CASE r \in running
    BY <2>1, <2>2 DEF IInv, Places
  <2>3. CASE r > Len(from)
    <3>1. r \notin Came
      BY <1>0, <2>3
    <3> QED
      BY <2>1, <2>3, <3>1 DEF IInv, Places, Shape
  <2> QED
    BY <2>1, <2>2, <2>3
(* What the answers do to the queues and to what is written. *)
<1>2. /\ written' \in [Connections -> [Requests -> Nat]]
      /\ msgQueues' \in [Keys -> SUBSET (1..Len(from'))]
      /\ \A k \in Keys : \A r : r \in msgQueues'[k] =>
            r \in msgQueues[k] \/ (bufferMsg /\ k = Keyed(c) /\ r \in S)
      /\ \A k \in Keys : msgQueues[k] \subseteq msgQueues'[k]
      /\ \A d \in Connections, r \in Requests :
            /\ written'[d][r] = IF ~bufferMsg /\ d = c /\ d \in open /\ r \in S
                                THEN written[d][r] + 1 ELSE written[d][r]
      /\ bufferMsg => S \subseteq msgQueues'[Keyed(c)]
  <2>0. /\ msgQueues \in [Keys -> SUBSET Came] /\ msgQueues \in [Keys -> SUBSET (1..Len(from'))]
        /\ written \in [Connections -> [Requests -> Nat]]
    BY <1>0 DEF IInv, Shape
  <2>1. CASE S = {}
    <3>1. msgQueues' = msgQueues /\ written' = written
      BY <2>1 DEF Reply, outVars
    <3> QED
      BY <2>0, <2>1, <3>1
  <2>2. CASE S # {} /\ bufferMsg
    <3>1. /\ msgQueues' = [msgQueues EXCEPT ![Keyed(c)] = @ \cup S] /\ written' = written
      BY <2>2 DEF Reply
    <3>2. \A k \in Keys : msgQueues'[k] = IF k = Keyed(c) THEN msgQueues[k] \cup S
                                          ELSE msgQueues[k]
      BY <2>0, <3>1
    <3>3. msgQueues' \in [Keys -> SUBSET (1..Len(from'))]
      <4>1. msgQueues[Keyed(c)] \cup S \in SUBSET (1..Len(from'))
        BY <1>0, <2>0
      <4> QED
        BY <2>0, <3>1, <4>1
    <3> QED
      BY <1>0, <2>0, <2>2, <3>1, <3>2, <3>3
  <2>3. CASE S # {} /\ ~bufferMsg
    <3> DEFINE out == [d \in Connections |-> IF d = c THEN S ELSE {}]
    <3>1. msgQueues' = msgQueues /\ written' = Written(out)
      BY <2>3 DEF Reply
    <3>2. \A d \in Connections : \A r : r \in out[d] <=> d = c /\ r \in S
      OBVIOUS
    <3> HIDE DEF out
    <3>3. /\ written' \in [Connections -> [Requests -> Nat]]
          /\ \A d \in Connections, r \in Requests :
                written'[d][r] = IF d \in open /\ r \in out[d]
                                 THEN written[d][r] + 1 ELSE written[d][r]
      BY <3>1, WrittenOut DEF IInv
    <3> QED
      BY <2>0, <2>3, <3>1, <3>2, <3>3
  <2> QED
    BY <2>1, <2>2, <2>3
<1>3. Shape'
  <2>1. UNCHANGED Conns /\ Came' = 1..Len(from')
    BY DEF Conns, Came
  <2>2. entries' \subseteq Keys
    BY <1>0 DEF Reply, outVars, IInv, Shape
  <2> QED
    BY <1>0, <1>2, <2>1, <2>2 DEF IInv, Shape
<1>4. Homes'
  <2>1. \A k \in Keys : sockets[k] # 0 => Keyed(sockets[k])' = k
    BY DEF IInv, Homes, Keyed
  <2>2. ASSUME NEW k \in Keys, NEW r \in msgQueues'[k] PROVE Keyed(from[r])' = k
    <3>1. CASE r \in msgQueues[k]
      <4>1. r \in Came /\ Keyed(from[r]) = k
        BY <3>1 DEF IInv, Homes, Shape
      <4> QED
        BY <4>1 DEF Keyed
    <3>2. CASE k = Keyed(c) /\ r \in S
      BY <3>2 DEF Keyed
    <3> QED
      BY <1>2, <3>1, <3>2
  <2> QED
    BY <2>1, <2>2 DEF Homes
<1>5. Places'
  <2>1. ASSUME NEW r \in Requests, Unwritten(r), r \notin S \/ bufferMsg PROVE Unwritten(r)'
    BY <1>2, <2>1 DEF Unwritten
  <2>2. ASSUME NEW r \in running'
        PROVE  Unwritten(r)' /\ \A k \in Keys : r \notin msgQueues'[k]
    BY <1>1, <1>2, <2>1
  <2>3. ASSUME NEW k \in Keys, NEW r \in msgQueues'[k] PROVE Unwritten(r)'
    <3>1. CASE r \in msgQueues[k]
      <4>1. r \in Requests /\ Unwritten(r) /\ r \notin S
        BY <1>0, <1>1, <1>2, <3>1 DEF IInv, Places
      <4> QED
        BY <2>1, <4>1
    <3>2. CASE bufferMsg /\ r \in S
      BY <1>1, <2>1, <3>2
    <3> QED
      BY <1>2, <3>1, <3>2
  <2>4. ASSUME NEW r \in Requests, r > Len(from') PROVE Unwritten(r)'
    <3>1. r \notin S /\ r > Len(from)
      BY <1>0, <2>4, Params
    <3> QED
      BY <2>1, <3>1 DEF IInv, Places
  <2> QED
    BY <2>2, <2>3, <2>4 DEF Places
<1>6. OneReplyHome'
  <2> SUFFICES ASSUME NEW d \in Connections, NEW r \in DOMAIN from'
               PROVE  /\ written'[d][r] <= 1
                      /\ written'[d][r] > 0 => from'[r] = d \/ Shared
    BY <1>0 DEF OneReplyHome
  <2>1. CASE r \in S /\ d = c /\ written'[d][r] = written[d][r] + 1
    <3>1. written[d][r] = 0 /\ from'[r] = d
      BY <1>1, <2>1 DEF Unwritten
    <3> QED
      BY <2>1, <3>1
  <2>2. CASE written'[d][r] = written[d][r] /\ r \in Came
    BY <2>2, <1>0, InShape DEF IInv, OneReplyHome
  <2>3. CASE written'[d][r] = written[d][r] /\ r \notin Came
    <3>1. Unwritten(r)
      BY <1>0, <2>3 DEF IInv, Places
    <3> QED
      BY <2>3, <3>1 DEF Unwritten
  <2> QED
    BY <1>0, <1>2, <2>1, <2>2, <2>3
<1>7. NoReplyLost'
  <2> SUFFICES ASSUME NEW r \in DOMAIN from',
                      sockets[Keyed(from'[r])] = from'[r], from'[r] \in open, ~Shared
               PROVE  r \in running' \/ r \in failed'
                      \/ r \in msgQueues'[Keyed(from'[r])] \/ written'[from'[r]][r] > 0
    BY <1>0 DEF NoReplyLost, Keyed
  <2>0. r \in 1..Len(from') /\ r \in Requests /\ from'[r] \in Connections /\ Keyed(from'[r]) \in Keys
    BY <1>0, InShape DEF IInv
  <2>1. CASE r \in S
    <3>1. from'[r] = c /\ written[c][r] = 0
      BY <1>0, <1>1, <2>1 DEF Unwritten
    <3> QED
      BY <1>2, <2>0, <2>1, <3>1
  <2>2. CASE r \in running \/ r > Len(from)
    BY <2>0, <2>1, <2>2
  <2>3. CASE r \in Came /\ r \notin running /\ r \notin S
    <3>1. from'[r] = from[r] /\ r \in DOMAIN from
      BY <2>3, InShape DEF IInv
    <3>2. r \in failed \/ r \in msgQueues[Keyed(from[r])] \/ written[from[r]][r] > 0
      BY <2>3, <3>1 DEF IInv, NoReplyLost
    <3> QED
      BY <1>2, <2>0, <2>3, <3>1, <3>2
  <2> QED
    BY <1>0, <2>0, <2>1, <2>2, <2>3
<1> QED
  BY <1>3, <1>4, <1>5, <1>6, <1>7 DEF IInv

(* A promise is settled. *)
LEMMA SettledStep ==
    ASSUME IInv, NEW r, NEW what, Settled(r, Keyed(from[r]), what)
    PROVE  IInv'
<1> DEFINE c == from[r]
           throws == ReplyThrows(c)
           S == IF throws THEN {} ELSE {r}
<1>1. /\ r \in running /\ running' = running \ {r}
      /\ failed' = (IF throws THEN failed \cup {r} ELSE failed)
      /\ Reply(c, Keyed(c), S)
      /\ UNCHANGED <<kind, bufferMsg, born, open, sockets, from>>
  BY DEF Settled, confVars, connVars
<1>2. /\ from \in Seq(Conns) /\ Len(from) \in Nat /\ Len(from) <= MaxRequests
      /\ running \subseteq 1..Len(from) /\ c \in Conns
  BY <1>1, InShape DEF IInv, Shape, Came
<1>3. S \subseteq {r} /\ (r \in S \/ r \in failed') /\ failed \subseteq failed'
  BY <1>1
<1> HIDE DEF S, throws
<1>4. S \subseteq 1..Len(from') /\ \A x \in S : x = r
  BY <1>1, <1>2, <1>3
<1>5. /\ from' \in Seq(Conns) /\ Len(from') >= Len(from) /\ Len(from') <= MaxRequests
      /\ \A x \in Came : from'[x] = from[x]
      /\ running' \subseteq 1..Len(from')
      /\ \A x \in S : x \notin running' /\ from'[x] = c
  BY <1>1, <1>2, <1>4
<1>6. /\ \A x \in S \cup running' : x \in running \/ x > Len(from)
      /\ \A x \in 1..Len(from') : x \in running \/ x > Len(from) =>
            x \in running' \/ x \in failed' \/ x \in S
  BY <1>1, <1>2, <1>3, <1>4
<1> QED
  BY <1>1, <1>2, <1>3, <1>4, <1>5, <1>6, AnswerStep

(* A packet of requests comes. *)
LEMMA PacketStep ==
    ASSUME IInv, NEW c, NEW fates, fates \in Seq(Fates), NEW what, NEW guarded,
           Packet(c, Keyed(c), fates, what, guarded)
    PROVE  IInv'
<1> DEFINE stops == Stops(c, fates)
           done == {i \in DOMAIN fates : \A j \in stops : i < j}
           n == Len(from)
           refused == {n + i : i \in {i \in done : fates[i] = "refused"}}
           runs == {n + i : i \in {i \in done : fates[i] = "runs"}}
           lost == {n + i : i \in DOMAIN fates \ done}
<1>1. /\ c \in open /\ n + Len(fates) <= MaxRequests
      /\ from' = from \o [i \in DOMAIN fates |-> c]
      /\ running' = running \cup runs /\ failed' = failed \cup lost
      /\ Reply(c, Keyed(c), refused)
      /\ UNCHANGED <<kind, bufferMsg, born, open, sockets>>
  BY DEF Packet, confVars, connVars
<1>2. /\ n \in Nat /\ Len(fates) \in Nat /\ DOMAIN fates = 1..Len(fates)
      /\ c \in Conns /\ from \in Seq(Conns) /\ running \subseteq 1..n /\ MaxRequests \in Nat
  <2>1. n \in Nat /\ Len(fates) \in Nat /\ DOMAIN fates = 1..Len(fates)
    BY InShape DEF IInv
  <2>2. c \in Conns /\ from \in Seq(Conns) /\ running \subseteq 1..n /\ MaxRequests \in Nat
    BY <1>1, Params DEF IInv, Shape, Came
  <2> QED
    BY <2>1, <2>2
<1>3. [i \in DOMAIN fates |-> c] \in Seq(Conns) /\ Len([i \in DOMAIN fates |-> c]) = Len(fates)
  BY <1>2
<1>4. /\ from' \in Seq(Conns) /\ Len(from') = n + Len(fates)
      /\ \A r \in 1..n : from'[r] = from[r]
      /\ \A r \in (n + 1)..(n + Len(fates)) : from'[r] = c
  BY <1>1, <1>2, <1>3
<1>5. done \subseteq 1..Len(fates)
      /\ \A i \in done : fates[i] \in Fates /\ fates[i] # "throws"
  <2>1. ASSUME NEW i \in done PROVE fates[i] \in Fates /\ fates[i] # "throws"
    <3>1. i \in DOMAIN fates /\ i \in Nat /\ i \notin stops
      BY <1>2
    <3> QED
      BY <3>1 DEF Stops
  <2> QED
    BY <1>2, <2>1
<1> HIDE DEF done
<1>6. \A i \in done : fates[i] = "refused" \/ fates[i] = "runs"
  BY <1>5 DEF Fates
<1>7. /\ refused \cup runs \cup lost \subseteq (n + 1)..(n + Len(fates))
      /\ \A r \in refused : r \notin runs
      /\ \A r \in (n + 1)..(n + Len(fates)) : r \in refused \/ r \in runs \/ r \in lost
  <2>1. refused \cup runs \cup lost \subseteq (n + 1)..(n + Len(fates))
    BY <1>2, <1>5
  <2>2. ASSUME NEW r \in refused PROVE r \notin runs
    <3>1. PICK i \in done : r = n + i /\ fates[i] = "refused"
      OBVIOUS
    <3>2. ASSUME NEW j \in done, r = n + j, fates[j] = "runs" PROVE FALSE
      <4>1. i = j
        BY <1>2, <1>5, <3>1, <3>2
      <4> QED
        BY <3>1, <3>2, <4>1
    <3> QED
      BY <3>2
  <2>3. ASSUME NEW r \in (n + 1)..(n + Len(fates)) PROVE r \in refused \/ r \in runs \/ r \in lost
    <3>1. r - n \in 1..Len(fates) /\ n + (r - n) = r
      BY <1>2
    <3> QED
      BY <1>2, <1>6, <3>1
  <2> QED
    BY <2>1, <2>2, <2>3
<1> HIDE DEF refused, runs, lost
<1>8. /\ refused \subseteq 1..Len(from') /\ running' \subseteq 1..Len(from')
      /\ \A r \in refused \cup runs : r > n
      /\ \A r \in refused : r \notin running' /\ from'[r] = c
  <2>1. \A r \in refused \cup runs : r \in 1..Len(from') /\ r > n /\ r \notin 1..n
    BY <1>2, <1>4, <1>7
  <2>2. 1..n \subseteq 1..Len(from')
    BY <1>2, <1>4
  <2>3. \A r \in refused : r \notin running' /\ from'[r] = c
    BY <1>1, <1>2, <1>4, <1>7, <2>1
  <2> QED
    BY <1>1, <1>2, <2>1, <2>2, <2>3
<1>9. \A r \in 1..Len(from') : r \in running \/ r > n =>
          r \in running' \/ r \in failed' \/ r \in refused
  BY <1>1, <1>2, <1>4, <1>7
<1>10. Len(from') >= n /\ Len(from') <= MaxRequests /\ \A r \in Came : from'[r] = from[r]
  BY <1>1, <1>2, <1>4 DEF Came
<1> QED
  BY <1>1, <1>2, <1>4, <1>8, <1>9, <1>10, AnswerStep

LEMMA LifeStep == ASSUME IInv, Inited \/ Closed PROVE IInv'
<1>1. UNCHANGED <<kind, bufferMsg, born, open, sockets, msgQueues, entries,
                  written, from, running, failed>>
  BY DEF Inited, Closed, confVars, connVars, outVars, reqVars
<1> QED
  BY <1>1, OpenStep

LEMMA ConnectionStep == ASSUME IInv, Register(Keyed(born + 1)) PROVE IInv'
<1>1. /\ born < MaxSockets /\ born' = born + 1 /\ open' = open \cup {born + 1}
      /\ sockets' = [sockets EXCEPT ![Keyed(born + 1)] = born + 1]
      /\ UNCHANGED <<kind, bufferMsg, msgQueues, entries, written, from, running, failed>>
  BY DEF Register, confVars, outVars, reqVars
<1> QED
  BY <1>1, RegisterStep

LEMMA GoneStep == ASSUME IInv, NEW c, NEW k, Gone(c, k) PROVE IInv'
<1>1. /\ open' \subseteq open
      /\ sockets' = [sockets EXCEPT ![k] = 0] /\ msgQueues' = [msgQueues EXCEPT ![k] = {}]
      /\ entries' \subseteq entries
      /\ UNCHANGED <<kind, bufferMsg, born, written, from, running, failed>>
  BY DEF Gone, Forget, confVars, reqVars
<1> QED
  BY <1>1, ForgetStep

LEMMA IntervalStep == ASSUME IInv, FlushQueues PROVE IInv'
<1>1. Reached \subseteq Keys
  BY DEF Reached, IInv, Shape
<1>2. /\ bufferMsg
      /\ written' = Written([c \in Connections |->
                       UNION {msgQueues[k] : k \in {k \in Reached : sockets[k] = c}}])
      /\ msgQueues' = [k \in Keys |-> IF k \in Reached THEN {} ELSE msgQueues[k]]
      /\ entries' \subseteq entries
      /\ UNCHANGED <<kind, bufferMsg, born, open, sockets, from, running, failed>>
  BY DEF FlushQueues, confVars, connVars, reqVars
<1> QED
  BY <1>1, <1>2, FlushStep

LEMMA PacketsFit == /\ \A fates \in Batches : fates \in Seq(Fates)
                    /\ \A fate \in Fates : <<fate>> \in Seq(Fates)
<1>1. ASSUME NEW n \in 1..MaxBatch, NEW fates \in [1..n -> Fates] PROVE fates \in Seq(Fates)
  BY BaseAssumption DEF BaseAssumption
<1> QED
  BY <1>1 DEF Batches

-----------------------------------------------------------------------------
(* The steps of the transports, each of which names the base operations of  *)
(* its own instance.                                                         *)

LEMMA TcpBase ==
    /\ Tcp!Inited <=> Inited
    /\ Tcp!Closed <=> Closed
    /\ Tcp!FlushQueues <=> FlushQueues
    /\ Tcp!Connections = Connections /\ Tcp!Requests = Requests
  BY DEF Tcp!Inited, Inited, Tcp!Closed, Closed, Tcp!FlushQueues, FlushQueues,
         Tcp!Written, Written, Tcp!Unsendable, Unsendable, Tcp!FlushThrows, FlushThrows,
         Tcp!Blocked, Blocked,
         Tcp!Reached, Reached, Tcp!Connections, Connections, Tcp!Requests, Requests,
         Tcp!Keys, Keys, Tcp!confVars, confVars, Tcp!lifeVars, lifeVars,
         Tcp!connVars, connVars, Tcp!outVars, outVars, Tcp!reqVars, reqVars

LEMMA TcpOps ==
    ASSUME NEW c, NEW k, NEW S, NEW what, NEW r
    PROVE  /\ Tcp!Register(k) <=> Register(k)
           /\ Tcp!Forget(k) <=> Forget(k)
           /\ Tcp!Gone(c, k) <=> Gone(c, k)
           /\ Tcp!Reply(c, k, S) <=> Reply(c, k, S)
           /\ Tcp!Settled(r, k, what) <=> Settled(r, k, what)
  BY DEF Tcp!Register, Register, Tcp!Forget, Forget, Tcp!Gone, Gone, Tcp!Reply, Reply,
         Tcp!Settled, Settled, Tcp!Written, Written, Tcp!Unsendable, Unsendable,
         Tcp!ReplyThrows, ReplyThrows, Tcp!Connections, Connections, Tcp!Requests, Requests,
         Tcp!Keys, Keys, Tcp!confVars, confVars, Tcp!lifeVars, lifeVars,
         Tcp!connVars, connVars, Tcp!outVars, outVars, Tcp!reqVars, reqVars

LEMMA TcpPackets ==
    ASSUME NEW c, NEW k, NEW fates, NEW what, NEW guarded
    PROVE  Tcp!Packet(c, k, fates, what, guarded) <=> Packet(c, k, fates, what, guarded)
<1>1. \A S : Tcp!Reply(c, k, S) <=> Reply(c, k, S)
  BY TcpOps
<1> QED
  BY <1>1 DEF Tcp!Packet, Packet, Tcp!Stops, Stops, Tcp!Unsendable, Unsendable,
              Tcp!ReplyThrows, ReplyThrows, Tcp!Requests, Requests, Tcp!confVars, confVars, Tcp!lifeVars, lifeVars,
              Tcp!connVars, connVars

LEMMA TcpStep == ASSUME IInv, kind = "tcp", Tcp!Next PROVE IInv'
<1>0. \A c : Keyed(c) = 0
  BY DEF Keyed
<1>1. CASE Tcp!Listen \/ Tcp!Close
  BY <1>1, TcpBase, LifeStep DEF Tcp!Listen, Tcp!Close
<1>2. CASE Tcp!Connection
  BY <1>0, <1>2, TcpOps, ConnectionStep DEF Tcp!Connection, Tcp!Key
<1>3. CASE Tcp!Flush
  BY <1>3, TcpBase, IntervalStep DEF Tcp!Flush
<1>4. ASSUME NEW c, Tcp!SocketClose(c) PROVE IInv'
  BY <1>4, TcpOps, GoneStep DEF Tcp!SocketClose, Tcp!Key
<1>5. ASSUME NEW c, NEW fates \in Tcp!Batches, Tcp!Data(c, fates) PROVE IInv'
  <2>1. fates \in Batches
    BY <1>5 DEF Tcp!Batches, Batches, Tcp!Fates, Fates
  <2>2. Packet(c, Keyed(c), fates, Tcp!ReplyArgs, FALSE)
    BY <1>0, <1>5, TcpPackets DEF Tcp!Data, Tcp!Key
  <2> QED
    BY <2>1, <2>2, PacketsFit, PacketStep
<1>6. ASSUME NEW r, Tcp!Settle(r) PROVE IInv'
  BY <1>0, <1>6, TcpOps, SettledStep DEF Tcp!Settle, Tcp!Key
<1> QED
  BY <1>1, <1>2, <1>3, <1>4, <1>5, <1>6 DEF Tcp!Next

LEMMA WsBase ==
    /\ Ws!Inited <=> Inited
    /\ Ws!Closed <=> Closed
    /\ Ws!FlushQueues <=> FlushQueues
    /\ Ws!Connections = Connections /\ Ws!Requests = Requests
  BY DEF Ws!Inited, Inited, Ws!Closed, Closed, Ws!FlushQueues, FlushQueues,
         Ws!Written, Written, Ws!Unsendable, Unsendable, Ws!FlushThrows, FlushThrows,
         Ws!Blocked, Blocked,
         Ws!Reached, Reached, Ws!Connections, Connections, Ws!Requests, Requests,
         Ws!Keys, Keys, Ws!confVars, confVars, Ws!lifeVars, lifeVars,
         Ws!connVars, connVars, Ws!outVars, outVars, Ws!reqVars, reqVars

LEMMA WsOps ==
    ASSUME NEW c, NEW k, NEW S, NEW what, NEW r
    PROVE  /\ Ws!Register(k) <=> Register(k)
           /\ Ws!Forget(k) <=> Forget(k)
           /\ Ws!Gone(c, k) <=> Gone(c, k)
           /\ Ws!Reply(c, k, S) <=> Reply(c, k, S)
           /\ Ws!Settled(r, k, what) <=> Settled(r, k, what)
  BY DEF Ws!Register, Register, Ws!Forget, Forget, Ws!Gone, Gone, Ws!Reply, Reply,
         Ws!Settled, Settled, Ws!Written, Written, Ws!Unsendable, Unsendable,
         Ws!ReplyThrows, ReplyThrows, Ws!Connections, Connections, Ws!Requests, Requests,
         Ws!Keys, Keys, Ws!confVars, confVars, Ws!lifeVars, lifeVars,
         Ws!connVars, connVars, Ws!outVars, outVars, Ws!reqVars, reqVars

LEMMA WsPackets ==
    ASSUME NEW c, NEW k, NEW fates, NEW what, NEW guarded
    PROVE  Ws!Packet(c, k, fates, what, guarded) <=> Packet(c, k, fates, what, guarded)
<1>1. \A S : Ws!Reply(c, k, S) <=> Reply(c, k, S)
  BY WsOps
<1> QED
  BY <1>1 DEF Ws!Packet, Packet, Ws!Stops, Stops, Ws!Unsendable, Unsendable,
              Ws!ReplyThrows, ReplyThrows, Ws!Requests, Requests, Ws!confVars, confVars, Ws!lifeVars, lifeVars,
              Ws!connVars, connVars

LEMMA WsStep == ASSUME IInv, kind = "ws", Ws!Next PROVE IInv'
<1>0. \A c : Keyed(c) = c
  BY DEF Keyed
<1>1. CASE Ws!Listen \/ Ws!Close
  BY <1>1, WsBase, LifeStep DEF Ws!Listen, Ws!Close
<1>2. CASE Ws!Connection
  BY <1>0, <1>2, WsOps, ConnectionStep DEF Ws!Connection
<1>3. CASE Ws!Flush
  BY <1>3, WsBase, IntervalStep DEF Ws!Flush
<1>4. ASSUME NEW c, Ws!SocketClose(c) PROVE IInv'
  BY <1>4, WsOps, GoneStep DEF Ws!SocketClose
<1>5. ASSUME NEW c, NEW fates \in Ws!Batches, Ws!Message(c, fates) PROVE IInv'
  <2>1. fates \in Batches
    BY <1>5 DEF Ws!Batches, Batches, Ws!Fates, Fates
  <2>2. Packet(c, Keyed(c), fates, Ws!ReplyArgs, TRUE)
    BY <1>0, <1>5, WsPackets DEF Ws!Message
  <2> QED
    BY <2>1, <2>2, PacketsFit, PacketStep
<1>6. ASSUME NEW r, Ws!Settle(r) PROVE IInv'
  BY <1>0, <1>6, WsOps, SettledStep DEF Ws!Settle
<1>7. ASSUME NEW c, Ws!IpFilter(c) PROVE IInv'
  <2>0. UNCHANGED <<kind, bufferMsg, born, written, from, running, failed>>
    BY <1>7 DEF Ws!IpFilter, Ws!confVars, Ws!reqVars
  <2>1. CASE UNCHANGED <<open, sockets, msgQueues, entries>>
    BY <2>0, <2>1, OpenStep
  <2>2. CASE open' = open \ {c} /\ Ws!Forget(c)
    BY <2>0, <2>2, WsOps, ForgetStep DEF Forget
  <2> QED
    BY <1>7, <2>1, <2>2 DEF Ws!IpFilter
<1> QED
  BY <1>1, <1>2, <1>3, <1>4, <1>5, <1>6, <1>7 DEF Ws!Next

LEMMA Ws2Base ==
    /\ Ws2!Inited <=> Inited
    /\ Ws2!Closed <=> Closed
    /\ Ws2!FlushQueues <=> FlushQueues
    /\ Ws2!Connections = Connections /\ Ws2!Requests = Requests
  BY DEF Ws2!Inited, Inited, Ws2!Closed, Closed, Ws2!FlushQueues, FlushQueues,
         Ws2!Written, Written, Ws2!Unsendable, Unsendable, Ws2!FlushThrows, FlushThrows,
         Ws2!Blocked, Blocked,
         Ws2!Reached, Reached, Ws2!Connections, Connections, Ws2!Requests, Requests,
         Ws2!Keys, Keys, Ws2!confVars, confVars, Ws2!lifeVars, lifeVars,
         Ws2!connVars, connVars, Ws2!outVars, outVars, Ws2!reqVars, reqVars

LEMMA Ws2Ops ==
    ASSUME NEW c, NEW k, NEW S, NEW what, NEW r
    PROVE  /\ Ws2!Register(k) <=> Register(k)
           /\ Ws2!Forget(k) <=> Forget(k)
           /\ Ws2!Gone(c, k) <=> Gone(c, k)
           /\ Ws2!Reply(c, k, S) <=> Reply(c, k, S)
           /\ Ws2!Settled(r, k, what) <=> Settled(r, k, what)
  BY DEF Ws2!Register, Register, Ws2!Forget, Forget, Ws2!Gone, Gone, Ws2!Reply, Reply,
         Ws2!Settled, Settled, Ws2!Written, Written, Ws2!Unsendable, Unsendable,
         Ws2!ReplyThrows, ReplyThrows, Ws2!Connections, Connections, Ws2!Requests, Requests,
         Ws2!Keys, Keys, Ws2!confVars, confVars, Ws2!lifeVars, lifeVars,
         Ws2!connVars, connVars, Ws2!outVars, outVars, Ws2!reqVars, reqVars

LEMMA Ws2Packets ==
    ASSUME NEW c, NEW k, NEW fates, NEW what, NEW guarded
    PROVE  Ws2!Packet(c, k, fates, what, guarded) <=> Packet(c, k, fates, what, guarded)
<1>1. \A S : Ws2!Reply(c, k, S) <=> Reply(c, k, S)
  BY Ws2Ops
<1> QED
  BY <1>1 DEF Ws2!Packet, Packet, Ws2!Stops, Stops, Ws2!Unsendable, Unsendable,
              Ws2!ReplyThrows, ReplyThrows, Ws2!Requests, Requests, Ws2!confVars, confVars, Ws2!lifeVars, lifeVars,
              Ws2!connVars, connVars

LEMMA Ws2Step == ASSUME IInv, kind = "ws2", Ws2!Next PROVE IInv'
<1>0. \A c : Keyed(c) = c
  BY DEF Keyed
<1>1. CASE Ws2!Listen \/ Ws2!Close
  BY <1>1, Ws2Base, LifeStep DEF Ws2!Listen, Ws2!Close
<1>2. CASE Ws2!Connection
  BY <1>0, <1>2, Ws2Ops, ConnectionStep DEF Ws2!Connection
<1>3. CASE Ws2!Flush
  BY <1>3, Ws2Base, IntervalStep DEF Ws2!Flush
<1>4. ASSUME NEW c, Ws2!SocketClose(c) PROVE IInv'
  BY <1>4, Ws2Ops, GoneStep DEF Ws2!SocketClose
<1>5. ASSUME NEW c, NEW fates \in Ws2!Batches, Ws2!Message(c, fates) PROVE IInv'
  <2>1. fates \in Batches
    BY <1>5 DEF Ws2!Batches, Batches, Ws2!Fates, Fates
  <2>2. Packet(c, Keyed(c), fates, Ws2!ReplyArgs, TRUE)
    BY <1>0, <1>5, Ws2Packets DEF Ws2!Message
  <2> QED
    BY <2>1, <2>2, PacketsFit, PacketStep
<1>6. ASSUME NEW r, Ws2!Settle(r) PROVE IInv'
  BY <1>0, <1>6, Ws2Ops, SettledStep DEF Ws2!Settle
<1>7. ASSUME NEW c, Ws2!PeerCloses(c) \/ Ws2!IpFilter(c) PROVE IInv'
  <2>1. /\ open' \subseteq open
        /\ UNCHANGED <<kind, bufferMsg, born, sockets, msgQueues, entries,
                       written, from, running, failed>>
    BY <1>7 DEF Ws2!PeerCloses, Ws2!IpFilter, Ws2!confVars, Ws2!outVars, Ws2!reqVars
  <2> QED
    BY <2>1, OpenStep
<1> QED
  BY <1>1, <1>2, <1>3, <1>4, <1>5, <1>6, <1>7 DEF Ws2!Next

LEMMA Mqtt2Base ==
    /\ Mqtt2!Inited <=> Inited
    /\ Mqtt2!Closed <=> Closed
    /\ Mqtt2!FlushQueues <=> FlushQueues
    /\ Mqtt2!Connections = Connections /\ Mqtt2!Requests = Requests
  BY DEF Mqtt2!Inited, Inited, Mqtt2!Closed, Closed, Mqtt2!FlushQueues, FlushQueues,
         Mqtt2!Written, Written, Mqtt2!Unsendable, Unsendable, Mqtt2!FlushThrows, FlushThrows,
         Mqtt2!Blocked, Blocked,
         Mqtt2!Reached, Reached, Mqtt2!Connections, Connections, Mqtt2!Requests, Requests,
         Mqtt2!Keys, Keys, Mqtt2!confVars, confVars, Mqtt2!lifeVars, lifeVars,
         Mqtt2!connVars, connVars, Mqtt2!outVars, outVars, Mqtt2!reqVars, reqVars

LEMMA Mqtt2Ops ==
    ASSUME NEW c, NEW k, NEW S, NEW what, NEW r
    PROVE  /\ Mqtt2!Register(k) <=> Register(k)
           /\ Mqtt2!Forget(k) <=> Forget(k)
           /\ Mqtt2!Gone(c, k) <=> Gone(c, k)
           /\ Mqtt2!Reply(c, k, S) <=> Reply(c, k, S)
           /\ Mqtt2!Settled(r, k, what) <=> Settled(r, k, what)
  BY DEF Mqtt2!Register, Register, Mqtt2!Forget, Forget, Mqtt2!Gone, Gone, Mqtt2!Reply, Reply,
         Mqtt2!Settled, Settled, Mqtt2!Written, Written, Mqtt2!Unsendable, Unsendable,
         Mqtt2!ReplyThrows, ReplyThrows, Mqtt2!Connections, Connections, Mqtt2!Requests, Requests,
         Mqtt2!Keys, Keys, Mqtt2!confVars, confVars, Mqtt2!lifeVars, lifeVars,
         Mqtt2!connVars, connVars, Mqtt2!outVars, outVars, Mqtt2!reqVars, reqVars

LEMMA Mqtt2Packets ==
    ASSUME NEW c, NEW k, NEW fates, NEW what, NEW guarded
    PROVE  Mqtt2!Packet(c, k, fates, what, guarded) <=> Packet(c, k, fates, what, guarded)
<1>1. \A S : Mqtt2!Reply(c, k, S) <=> Reply(c, k, S)
  BY Mqtt2Ops
<1> QED
  BY <1>1 DEF Mqtt2!Packet, Packet, Mqtt2!Stops, Stops, Mqtt2!Unsendable, Unsendable,
              Mqtt2!ReplyThrows, ReplyThrows, Mqtt2!Requests, Requests, Mqtt2!confVars, confVars, Mqtt2!lifeVars, lifeVars,
              Mqtt2!connVars, connVars

LEMMA Mqtt2Step == ASSUME IInv, kind = "mqtt2", Mqtt2!Next PROVE IInv'
<1>0. \A c : Keyed(c) = c
  BY DEF Keyed
<1>1. CASE Mqtt2!Listen \/ Mqtt2!Close
  BY <1>1, Mqtt2Base, LifeStep DEF Mqtt2!Listen, Mqtt2!Close
<1>2. CASE Mqtt2!Connection
  BY <1>0, <1>2, Mqtt2Ops, ConnectionStep DEF Mqtt2!Connection
<1>3. CASE Mqtt2!Flush
  BY <1>3, Mqtt2Base, IntervalStep DEF Mqtt2!Flush
<1>4. ASSUME NEW c, Mqtt2!SocketClose(c) PROVE IInv'
  BY <1>4, Mqtt2Ops, GoneStep DEF Mqtt2!SocketClose
<1>5. ASSUME NEW c, NEW fate \in Mqtt2!Fates, Mqtt2!Publish(c, fate) PROVE IInv'
  <2>1. fate \in Fates /\ <<fate>> \in Seq(Fates)
    BY PacketsFit DEF Mqtt2!Fates, Fates
  <2> QED
    BY <1>0, <1>5, <2>1, Mqtt2Packets, PacketStep DEF Mqtt2!Publish
<1>6. ASSUME NEW r, Mqtt2!Settle(r) PROVE IInv'
  BY <1>0, <1>6, Mqtt2Ops, SettledStep DEF Mqtt2!Settle
<1>7. ASSUME NEW c, Mqtt2!Disconnect(c) PROVE IInv'
  <2>1. Forget(c) /\ UNCHANGED <<kind, bufferMsg, born, open,
                                 written, from, running, failed>>
    BY <1>7, Mqtt2Ops DEF Mqtt2!Disconnect, Mqtt2!confVars, Mqtt2!reqVars
  <2> QED
    BY <2>1, ForgetStep DEF Forget
<1>8. ASSUME NEW c, Mqtt2!SendHandshake(c) PROVE IInv'
  <2>1. UNCHANGED <<kind, bufferMsg, born, open, sockets, msgQueues, entries,
                    written, from, running, failed>>
    BY <1>8 DEF Mqtt2!SendHandshake, Mqtt2!confVars, Mqtt2!outVars, Mqtt2!reqVars
  <2> QED
    BY <2>1, OpenStep
<1>9. ASSUME NEW c, Mqtt2!PublishUnreadable(c) PROVE IInv'
  <2>1. /\ c \in open /\ Len(from) < MaxRequests /\ from' = Append(from, c)
        /\ failed' = failed \cup {Len(from) + 1}
        /\ UNCHANGED <<kind, bufferMsg, born, open, sockets, msgQueues, entries,
                       written, running>>
    BY <1>9 DEF Mqtt2!PublishUnreadable, Mqtt2!confVars, Mqtt2!connVars, Mqtt2!outVars
  <2>2. /\ c \in Conns /\ from \in Seq(Conns) /\ Len(from) \in Nat /\ MaxRequests \in Nat
        /\ running \subseteq 1..Len(from)
    BY <2>1, InShape, Params DEF IInv, Shape, Came
  <2>3. /\ from' \in Seq(Conns) /\ Len(from') = Len(from) + 1
        /\ \A r \in Came : from'[r] = from[r]
    BY <2>1, <2>2 DEF Came
  <2>4. /\ Len(from') >= Len(from) /\ Len(from') <= MaxRequests
        /\ running' \subseteq 1..Len(from')
        /\ \A r \in running' : r \in running
        /\ \A r \in 1..Len(from') : r \in running \/ r > Len(from) =>
              r \in running' \/ r \in failed'
    BY <2>1, <2>2, <2>3
  <2> DEFINE none == {}
  <2>5. Reply(c, Keyed(c), none) /\ none \subseteq 1..Len(from') /\ failed \subseteq failed'
    BY <2>1 DEF Reply, outVars
  <2>6. /\ \A r \in none : r \notin running' /\ from'[r] = c
        /\ \A r \in none \cup running' : r \in running \/ r > Len(from)
        /\ \A r \in 1..Len(from') : r \in running \/ r > Len(from) =>
              r \in running' \/ r \in failed' \/ r \in none
    BY <2>4
  <2> HIDE DEF none
  <2> QED
    BY <2>1, <2>2, <2>3, <2>4, <2>5, <2>6, AnswerStep
<1> QED
  BY <1>1, <1>2, <1>3, <1>4, <1>5, <1>6, <1>7, <1>8, <1>9 DEF Mqtt2!Next

-----------------------------------------------------------------------------

LEMMA StepInv == IInv /\ [AcceptorsNext]_vars => IInv'
<1> SUFFICES ASSUME IInv, [AcceptorsNext]_vars PROVE IInv'
  OBVIOUS
<1>1. CASE UNCHANGED vars
  BY <1>1, OpenStep DEF vars, confVars, connVars, outVars, reqVars
<1> QED
  BY <1>1, TcpStep, WsStep, Ws2Step, Mqtt2Step DEF AcceptorsNext

(* The queues and maps of the four acceptors keep requests and connections  *)
(* apart: each reply is written at most once and to its own connection.     *)
THEOREM RepliesGoHome == Spec => []OneReplyHome
<1>1. IInv => OneReplyHome
  BY DEF IInv
<1> QED
  BY <1>1, InitInv, StepInv, PTL DEF Spec

(* No reply of a connection still registered is lost between the dispatcher, *)
(* the queue and the socket.                                                 *)
THEOREM RepliesKept == Spec => []NoReplyLost
<1>1. IInv => NoReplyLost
  BY DEF IInv
<1> QED
  BY <1>1, InitInv, StepInv, PTL DEF Spec
=============================================================================
