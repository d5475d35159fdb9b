------------------------- MODULE MqttMailboxProofs -------------------------
(* Proofs about MqttMailbox for any number of sends, buffered or not.       *)
EXTENDS MqttMailbox, TLAPS

(* The part of the type invariant the proofs need. *)
Shape ==
    /\ dialed \in BOOLEAN /\ hooked \in BOOLEAN /\ connected \in BOOLEAN
    /\ closed \in BOOLEAN /\ cut \in BOOLEAN
    /\ made \in 0..MaxSends
    /\ requests \subseteq 1..made
    /\ answers \in [Sends -> Nat]

(* Every waiting request has an armed timer and no timer is left without    *)
(* its request, through replies, timeouts, disconnects and close: the two   *)
(* maps requests and timeout never drift apart.                             *)
TimersMatchRequests == requests = timeouts

(* A waiting request has not been called back, except by a DISCONNECT that  *)
(* has closed the mailbox; a request needs a hooked mailbox.                *)
Waiting ==
    /\ connected => hooked
    /\ hooked /\ ~closed => connected
    /\ requests # {} => hooked
    /\ \A n \in requests : ~closed \/ ~cut => answers[n] = 0
    /\ \A n \in requests : answers[n] <= 1
    /\ \A n \in Sends : n > made => answers[n] = 0

IInv == Shape /\ TimersMatchRequests /\ Waiting /\ TwiceOnlyAfterDisconnect

LEMMA Params == MaxSends \in Nat /\ Sends = 1..MaxSends
  BY SendsAssumption DEF Sends, SendsAssumption

LEMMA InitInv == Init => IInv
<1> SUFFICES ASSUME Init PROVE IInv
  OBVIOUS
<1> USE Params DEF Init
<1>1. /\ dialed \in BOOLEAN /\ hooked \in BOOLEAN /\ connected \in BOOLEAN
      /\ closed \in BOOLEAN /\ cut \in BOOLEAN
  OBVIOUS
<1>2. /\ made \in 0..MaxSends /\ requests \subseteq 1..made
       /\ answers \in [Sends -> Nat]
  OBVIOUS
<1>3. Shape
  BY <1>1, <1>2 DEF Shape
<1>4. TimersMatchRequests /\ Waiting /\ TwiceOnlyAfterDisconnect
  BY DEF Waiting, TimersMatchRequests, TwiceOnlyAfterDisconnect
<1> QED
  BY <1>3, <1>4 DEF IInv

(* The actions that leave the requests alone and only move the connection. *)
LEMMA ConnectionStep ==
    ASSUME IInv, Connection, ~PeerDisconnect
    PROVE  IInv'
<1> USE Params DEF IInv, Shape, Waiting, TimersMatchRequests, TwiceOnlyAfterDisconnect
<1>1. UNCHANGED reqVars /\ UNCHANGED cut
  BY DEF Connection, Connect, ConnectCallback, ConnectTimesOut, SocketError,
         KeepAliveFails, Close
<1>2. closed => closed'
  BY DEF Connection, Connect, ConnectCallback, ConnectTimesOut, SocketError,
         KeepAliveFails, Close, EmitClose
<1>3. /\ dialed' \in BOOLEAN /\ hooked' \in BOOLEAN /\ connected' \in BOOLEAN
      /\ closed' \in BOOLEAN /\ (hooked => hooked')
  BY DEF Connection, Connect, ConnectCallback, ConnectTimesOut, SocketError,
         KeepAliveFails, Close, EmitClose, connVars
<1>4. (connected' => hooked') /\ (hooked' /\ ~closed' => connected')
  BY DEF Connection, Connect, ConnectCallback, ConnectTimesOut, SocketError,
         KeepAliveFails, Close, EmitClose
<1> QED
  BY <1>1, <1>2, <1>3, <1>4 DEF reqVars

LEMMA DisconnectStep ==
    ASSUME IInv, PeerDisconnect
    PROVE  IInv'
<1> USE Params DEF IInv, Shape, Waiting, TimersMatchRequests, TwiceOnlyAfterDisconnect
<1>1. /\ cut' = TRUE /\ ~closed
      /\ UNCHANGED <<dialed, hooked, made, requests, timeouts>>
  BY DEF PeerDisconnect, Listening
<1>2. \A n \in requests : answers[n] = 0
  BY <1>1
<1>3. answers' = [n \in Sends |-> IF n \in requests THEN answers[n] + 1 ELSE answers[n]]
  BY DEF PeerDisconnect, CallBack
<1>4. /\ connected' \in BOOLEAN /\ closed' \in BOOLEAN
      /\ connected' => hooked'
      /\ hooked' /\ ~closed' => connected'
      /\ hooked => closed'
  <2>1. CASE hooked
    BY <1>1, <2>1 DEF PeerDisconnect, EmitClose
  <2>2. CASE ~hooked
    BY <1>1, <2>2 DEF PeerDisconnect, EmitClose
  <2> QED
    BY <2>1, <2>2
<1>5. \A n \in requests : n \in Sends /\ answers'[n] = 1
  BY <1>2, <1>3
<1>6. \A n \in Sends : answers'[n] <= 2 /\ (n > made => answers'[n] = 0)
  <2> SUFFICES ASSUME NEW n \in Sends PROVE answers'[n] <= 2 /\ (n > made => answers'[n] = 0)
    OBVIOUS
  <2> QED
    BY <1>2, <1>3
<1>7. answers' \in [Sends -> Nat]
  BY <1>3
<1> QED
  BY <1>1, <1>4, <1>5, <1>6, <1>7

LEMMA StepInv == IInv /\ [Next]_vars => IInv'
<1> SUFFICES ASSUME IInv, [Next]_vars PROVE IInv'
  OBVIOUS
<1> USE Params DEF IInv, Shape, Waiting, TimersMatchRequests, TwiceOnlyAfterDisconnect
<1>1. CASE Connection
  BY <1>1, ConnectionStep, DisconnectStep
<1>2. CASE SendRefused
  BY <1>2 DEF SendRefused, CallBack, connVars, Open
<1>3. CASE Send
  BY <1>3 DEF Send, connVars, Open
<1>4. CASE Flush
  BY <1>4 DEF Flush, connVars
<1>5. ASSUME NEW S \in SUBSET Sends, Replies(S) PROVE IInv'
  <2>1. UNCHANGED <<connVars, made>> /\ requests' = requests \ S /\ timeouts' = timeouts \ S
    BY <1>5 DEF Replies
  <2>2. answers' = [n \in Sends |-> IF n \in S \cap requests THEN answers[n] + 1 ELSE answers[n]]
    BY <1>5 DEF Replies, CallBack
  <2>3. ~closed
    BY <1>5 DEF Replies, Listening
  <2>4. \A n \in requests' : answers'[n] = answers[n] /\ n \in requests
    BY <2>1, <2>2
  <2>5. \A n \in Sends : /\ answers'[n] <= IF cut THEN 2 ELSE 1
                         /\ n > made => answers'[n] = 0
    BY <2>2, <2>3
  <2>6. answers' \in [Sends -> Nat]
    BY <2>2
  <2> QED
    BY <2>1, <2>3, <2>4, <2>5, <2>6 DEF connVars
<1>6. ASSUME NEW m \in Sends, RequestTimesOut(m) PROVE IInv'
  <2>1. UNCHANGED <<connVars, made>> /\ requests' = requests \ {m} /\ timeouts' = timeouts \ {m}
    BY <1>6 DEF RequestTimesOut
  <2>2. answers' = [n \in Sends |-> IF n \in {m} THEN answers[n] + 1 ELSE answers[n]]
    BY <1>6 DEF RequestTimesOut, CallBack
  <2>3. m \in requests
    BY <1>6 DEF RequestTimesOut
  <2>4. \A n \in requests' : answers'[n] = answers[n] /\ n \in requests
    BY <2>1, <2>2
  <2>5. \A n \in Sends : /\ answers'[n] <= IF cut THEN 2 ELSE 1
                         /\ n > made => answers'[n] = 0
    BY <2>2, <2>3
  <2>6. answers' \in [Sends -> Nat]
    BY <2>2
  <2> QED
    BY <2>1, <2>4, <2>5, <2>6 DEF connVars
<1>7. CASE UNCHANGED vars
  BY <1>7 DEF vars, connVars, reqVars
<1> QED
  BY <1>1, <1>2, <1>3, <1>4, <1>5, <1>6, <1>7 DEF Next

(* Every waiting request keeps its timer (mqtt-mailbox.ts:212-213, 315-321,  *)
(* 337-349): TimersMatchRequests for any number of sends.                    *)
THEOREM Timers == Spec => []TimersMatchRequests
<1>1. IInv => TimersMatchRequests
  BY DEF IInv
<1> QED
  BY InitInv, StepInv, <1>1, PTL DEF Spec

(* No callback is invoked twice without a DISCONNECT, and never three times. *)
THEOREM CallbackCount == Spec => []TwiceOnlyAfterDisconnect
<1>1. IInv => TwiceOnlyAfterDisconnect
  BY DEF IInv
<1> QED
  BY InitInv, StepInv, <1>1, PTL DEF Spec

-----------------------------------------------------------------------------
(* The refinement. *)

LEMMA InitRefines == Init => Contract!Init
  BY DEF Init, Contract!Init, Called

(* Callbacks of the requests in S run, those in T stop waiting: some of S    *)
(* have waited in the terms of the contract, the others have been called     *)
(* before.                                                                   *)
LEMMA CalledBack ==
    ASSUME IInv, NEW S \in SUBSET requests, NEW T \in SUBSET S,
           UNCHANGED hooked,
           requests' = requests \ T,
           answers' = [n \in Sends |-> IF n \in S THEN answers[n] + 1 ELSE answers[n]]
    PROVE  /\ Called' = Called \cup (S \ Called)
           /\ (requests \ Called)' = (requests \ Called) \ (S \ Called)
<1> USE Params DEF IInv, Shape
<1>1. S \subseteq Sends
  OBVIOUS
<1>2. \A n \in Sends : answers'[n] > 0 <=> answers[n] > 0 \/ n \in S
  BY <1>1
<1>3. Called' = Called \cup S
  BY <1>1, <1>2 DEF Called
<1> QED
  BY <1>3

LEMMA StepRefines ==
    ASSUME IInv, [Next]_vars
    PROVE  [Contract!Next]_(Contract!contractVars)
<1> USE Params DEF IInv, Shape, Waiting, Contract!contractVars
<1> DEFINE Quiet == UNCHANGED <<hooked, closed, requests, answers>>
<1>0. Quiet => UNCHANGED Contract!contractVars
  BY DEF Called
<1>1. CASE Connection /\ ~PeerDisconnect
  <2>1. UNCHANGED <<requests, answers>>
    BY <1>1 DEF Connection, Connect, ConnectCallback, ConnectTimesOut, SocketError,
                KeepAliveFails, Close, reqVars
  <2>2. Quiet \/ (hooked' = TRUE /\ UNCHANGED closed) \/ (closed' = TRUE /\ UNCHANGED hooked)
    BY <1>1, <2>1 DEF Connection, Connect, ConnectCallback, ConnectTimesOut, SocketError,
                      KeepAliveFails, Close, EmitClose
  <2>3. UNCHANGED Called
    BY <2>1 DEF Called
  <2> QED
    BY <1>0, <2>1, <2>2, <2>3 DEF Contract!Next, Contract!Open, Contract!Close
<1>2. CASE PeerDisconnect
  <2>1. /\ ~closed /\ UNCHANGED <<hooked, requests>>
        /\ answers' = [n \in Sends |-> IF n \in requests THEN answers[n] + 1 ELSE answers[n]]
    BY <1>2 DEF PeerDisconnect, Listening, CallBack
  <2>2. Called' = Called \cup (requests \ Called) /\ (requests \ Called)' = {}
    <3>1. requests' = requests \ {} /\ requests \in SUBSET requests /\ {} \in SUBSET requests
      BY <2>1
    <3>2. /\ Called' = Called \cup (requests \ Called)
          /\ (requests \ Called)' = (requests \ Called) \ (requests \ Called)
      BY <2>1, <3>1, CalledBack
    <3> QED
      BY <3>2
  <2>3. CASE hooked
    <3>1. closed' = TRUE
      BY <1>2, <2>3 DEF PeerDisconnect, EmitClose
    <3> QED
      BY <2>1, <2>2, <3>1 DEF Contract!Next, Contract!Lose
  <2>4. CASE ~hooked
    <3>1. requests = {} /\ UNCHANGED closed
      BY <1>2, <2>4 DEF PeerDisconnect, EmitClose
    <3> QED
      BY <2>1, <2>2, <3>1
  <2> QED
    BY <2>3, <2>4
<1>3. CASE SendRefused
  <2>1. /\ UNCHANGED <<hooked, closed, requests>> /\ (~hooked \/ closed) /\ made + 1 \in Sends
        /\ answers' = [n \in Sends |-> IF n \in {made + 1} THEN answers[n] + 1 ELSE answers[n]]
    BY <1>3 DEF SendRefused, CallBack, connVars, Open
  <2>2. made + 1 \notin Called /\ made + 1 \notin requests
    BY DEF Called
  <2>3. \A n \in Sends : answers'[n] > 0 <=> answers[n] > 0 \/ n = made + 1
    BY <2>1
  <2>4. Called' = Called \cup {made + 1}
    BY <2>1, <2>3 DEF Called
  <2>5. UNCHANGED (requests \ Called)
    BY <2>1, <2>2, <2>4
  <2> QED
    BY <2>1, <2>2, <2>4, <2>5 DEF Contract!Next, Contract!Refuse, Contract!New
<1>4. CASE Send
  <2>1. /\ UNCHANGED <<hooked, closed, answers>> /\ hooked /\ ~closed /\ made + 1 \in Sends
        /\ requests' = requests \cup {made + 1}
    BY <1>4 DEF Send, connVars, Open
  <2>2. made + 1 \notin requests /\ made + 1 \notin Called /\ UNCHANGED Called
    BY <2>1 DEF Called
  <2>3. (requests \ Called)' = (requests \ Called) \cup {made + 1}
    BY <2>1, <2>2
  <2> QED
    BY <2>1, <2>2, <2>3 DEF Contract!Next, Contract!Accept, Contract!New
<1>5. CASE Flush
  BY <1>0, <1>5 DEF Flush, connVars
<1>6. ASSUME NEW S \in SUBSET requests,
             UNCHANGED <<hooked, closed>>,
             requests' = requests \ S,
             answers' = [n \in Sends |-> IF n \in S THEN answers[n] + 1 ELSE answers[n]]
      PROVE  [Contract!Next]_(Contract!contractVars)
  <2> DEFINE first == S \ Called
  <2>1. /\ Called' = Called \cup first
        /\ (requests \ Called)' = (requests \ Called) \ first
    BY <1>6, CalledBack
  <2>2. CASE first = {}
    BY <1>6, <2>1, <2>2
  <2>3. CASE first # {}
    <3>1. Contract!Settle(first)
      BY <1>6, <2>1, <2>3 DEF Contract!Settle
    <3>2. first \in SUBSET Sends
      <4>1. requests \subseteq Sends
        OBVIOUS
      <4> QED
        BY <4>1
    <3> QED
      BY <3>1, <3>2 DEF Contract!Next
  <2> QED
    BY <2>2, <2>3
<1>7. ASSUME NEW R \in SUBSET Sends, Replies(R) PROVE [Contract!Next]_(Contract!contractVars)
  <2>1. /\ UNCHANGED <<hooked, closed>> /\ requests' = requests \ (R \cap requests)
        /\ answers' = [n \in Sends |-> IF n \in R \cap requests THEN answers[n] + 1 ELSE answers[n]]
    BY <1>7 DEF Replies, CallBack, connVars
  <2> QED
    BY <1>6, <2>1
<1>8. ASSUME NEW m \in Sends, RequestTimesOut(m), TimersMatchRequests
      PROVE  [Contract!Next]_(Contract!contractVars)
  <2>1. /\ UNCHANGED <<hooked, closed>> /\ requests' = requests \ {m} /\ {m} \in SUBSET requests
        /\ answers' = [n \in Sends |-> IF n \in {m} THEN answers[n] + 1 ELSE answers[n]]
    BY <1>8 DEF RequestTimesOut, CallBack, connVars, TimersMatchRequests
  <2> QED
    BY <1>6, <2>1
<1>9. CASE UNCHANGED vars
  BY <1>0, <1>9 DEF vars, connVars, reqVars
<1> QED
  BY <1>1, <1>2, <1>3, <1>4, <1>5, <1>7, <1>8, <1>9 DEF Next

(* The mailbox keeps the contract MailStation is built on, whatever the peer *)
(* does: ImplementsContract, for any number of sends.                        *)
THEOREM Refinement == Spec => ImplementsContract
<1>1. Spec => []IInv
  BY InitInv, StepInv, PTL DEF Spec
<1>2. IInv /\ [Next]_vars => [Contract!Next]_(Contract!contractVars)
  BY StepRefines
<1> QED
  BY InitRefines, <1>1, <1>2, PTL DEF Spec, ImplementsContract, Contract!Spec

-----------------------------------------------------------------------------
(* The order of what is published.                                          *)

Ascending(q, m) ==
    /\ \A i \in DOMAIN q : q[i] <= m
    /\ \A i, j \in DOMAIN q : i < j => q[i] < q[j]

LEMMA AppendConcat ==
    ASSUME NEW q \in Seq(Nat), NEW r \in Seq(Nat), NEW m \in Nat
    PROVE  q \o Append(r, m) = Append(q \o r, m) /\ Append(r, m) \in Seq(Nat)
  OBVIOUS

(* An ascending sequence stays so with the next number at its end. *)
LEMMA AppendNext ==
    ASSUME NEW q \in Seq(Nat), NEW m \in Nat, Ascending(q, m),
           NEW R, R \subseteq Ran(q)
    PROVE  /\ Ascending(Append(q, m + 1), m + 1)
           /\ R \cup {m + 1} \subseteq Ran(Append(q, m + 1))
<1> DEFINE p == Append(q, m + 1)
<1>1. /\ Len(q) \in Nat /\ DOMAIN q = 1..Len(q) /\ DOMAIN p = 1..(Len(q) + 1)
      /\ p[Len(q) + 1] = m + 1
      /\ \A i \in 1..Len(q) : p[i] = q[i] /\ q[i] \in Nat
  OBVIOUS
<1>2. /\ \A i \in 1..Len(q) : q[i] <= m
      /\ \A i, j \in 1..Len(q) : i < j => q[i] < q[j]
  BY <1>1 DEF Ascending
<1>3. \A i \in 1..(Len(q) + 1) : i \in 1..Len(q) \/ i = Len(q) + 1
  BY <1>1
<1> HIDE DEF p
<1>4. \A i \in DOMAIN p : p[i] <= m + 1
  BY <1>1, <1>2, <1>3
<1>5. \A i, j \in DOMAIN p : i < j => p[i] < p[j]
  <2> SUFFICES ASSUME NEW i \in 1..(Len(q) + 1), NEW j \in 1..(Len(q) + 1), i < j
               PROVE  p[i] < p[j]
    BY <1>1
  <2>1. i \in 1..Len(q)
    BY <1>1
  <2>2. CASE j = Len(q) + 1
    BY <1>1, <1>2, <2>1, <2>2
  <2>3. CASE j \in 1..Len(q)
    BY <1>1, <1>2, <2>1, <2>3
  <2> QED
    BY <1>3, <2>2, <2>3
<1>6. R \cup {m + 1} \subseteq Ran(p)
  <2> SUFFICES ASSUME NEW r \in R \cup {m + 1} PROVE \E i \in DOMAIN p : p[i] = r
    BY DEF Ran
  <2>1. CASE r = m + 1
    BY <1>1, <2>1
  <2>2. CASE r \in R
    <3>1. PICK i \in DOMAIN q : q[i] = r
      BY <2>2 DEF Ran
    <3>2. i \in DOMAIN p /\ p[i] = r
      BY <1>1, <3>1
    <3> QED
      BY <3>2
  <2> QED
    BY <2>1, <2>2
<1> QED
  BY <1>4, <1>5, <1>6 DEF Ascending, p

(* The requests accepted so far: published, and then queued.                 *)
all == sent \o queue

OInv ==
    /\ sent \in Seq(Nat) /\ queue \in Seq(Nat)
    /\ Ascending(all, made)
    /\ ~BufferMsg => queue = << >>
    /\ requests \subseteq Ran(all)

LEMMA OrderInit == Init => OInv
  BY DEF Init, OInv, Ascending, all, Ran

LEMMA OrderStep == IInv /\ OInv /\ [Next]_vars => OInv'
<1> SUFFICES ASSUME IInv, OInv, [Next]_vars PROVE OInv'
  OBVIOUS
<1>0. made \in Nat /\ all \in Seq(Nat)
  BY Params DEF IInv, Shape, OInv, all
<1>1. ASSUME UNCHANGED <<made, sent, queue>>, requests' \subseteq requests PROVE OInv'
  BY <1>1 DEF OInv, Ascending, all, Ran
<1>2. CASE Connection
  BY <1>1, <1>2 DEF Connection, Connect, ConnectCallback, ConnectTimesOut, SocketError,
                    KeepAliveFails, PeerDisconnect, Close, reqVars
<1>3. CASE SendRefused
  <2>1. UNCHANGED <<sent, queue, requests>> /\ made' = made + 1 /\ UNCHANGED all
    BY <1>3 DEF SendRefused, all
  <2>2. \A i \in DOMAIN all : all[i] \in Nat /\ all[i] <= made
    BY <1>0 DEF OInv, Ascending
  <2>3. Ascending(all, made + 1)
    BY <1>0, <2>2 DEF OInv, Ascending
  <2> QED
    BY <2>1, <2>3 DEF OInv, Ascending, Ran
<1>4. CASE Send
  <2>1. made' = made + 1 /\ requests' = requests \cup {made + 1}
    BY <1>4 DEF Send
  <2>2. /\ Ascending(Append(all, made + 1), made + 1)
        /\ requests \cup {made + 1} \subseteq Ran(Append(all, made + 1))
    BY <1>0, AppendNext DEF OInv
  <2>3. /\ sent' \in Seq(Nat) /\ queue' \in Seq(Nat) /\ all' = Append(all, made + 1)
        /\ ~BufferMsg => queue' = << >>
    <3>1. CASE BufferMsg
      <4>1. sent' = sent /\ queue' = Append(queue, made + 1)
        BY <1>4, <3>1 DEF Send
      <4> QED
        BY <1>0, <3>1, <4>1, AppendConcat DEF all, OInv
    <3>2. CASE ~BufferMsg
      BY <1>0, <1>4, <3>2 DEF Send, all, OInv
    <3> QED
      BY <3>1, <3>2
  <2> QED
    BY <2>1, <2>2, <2>3 DEF OInv, Ascending, Ran
<1>5. CASE Flush
  <2>1. sent' = sent \o queue /\ queue' = << >> /\ UNCHANGED <<made, requests>>
    BY <1>5 DEF Flush
  <2>2. all' = all /\ sent' \in Seq(Nat) /\ queue' \in Seq(Nat)
    BY <2>1 DEF all, OInv
  <2> QED
    BY <2>1, <2>2 DEF OInv, Ascending, Ran
<1>6. ASSUME NEW S \in SUBSET Sends, Replies(S) PROVE OInv'
  BY <1>1, <1>6 DEF Replies
<1>7. ASSUME NEW m \in Sends, RequestTimesOut(m) PROVE OInv'
  BY <1>1, <1>7 DEF RequestTimesOut
<1>8. CASE UNCHANGED vars
  BY <1>1, <1>8 DEF vars, reqVars
<1> QED
  BY <1>2, <1>3, <1>4, <1>5, <1>6, <1>7, <1>8 DEF Next

(* Buffering neither loses, duplicates nor reorders (mqtt-mailbox.ts:281-302 *)
(* against 192-238): PublishedInOrder, for any number of sends.              *)
THEOREM PublishingOrder == Spec => []PublishedInOrder
<1>1. OInv => PublishedInOrder
  BY DEF OInv, PublishedInOrder, Ascending, all
<1> QED
  BY InitInv, StepInv, OrderInit, OrderStep, <1>1, PTL DEF Spec
=============================================================================
