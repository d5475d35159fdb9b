-------------------------- MODULE TransportsProofs --------------------------
(* Proofs about the mailboxes of the tcp, ws, ws2 and mqtt2 transports, for *)
(* any number of sends.                                                     *)
EXTENDS Transports, TLAPS

Results == {"reply", "error", "hollow"}

(* At most this many times a waiting callback has been invoked, and any. *)
Early == IF lost THEN 1 ELSE 0
Bound == IF lost /\ kind \in {"ws", "mqtt2"} THEN 2 ELSE 1

Shape ==
    /\ kind \in Kinds /\ lost \in BOOLEAN
    /\ made \in 0..MaxSends
    /\ requests \subseteq 1..made
    /\ timeouts = requests
    /\ answers \in [Sends -> Seq(Results)]

Counts ==
    /\ \A n \in requests : Len(answers[n]) <= Early
    /\ \A n \in Sends : n > made => Len(answers[n]) = 0
    /\ \A n \in Sends : Len(answers[n]) <= Bound

(* Who tells of a loss, and that the socket is gone with it. *)
Losses ==
    /\ lost => kind # "tcp"
    /\ lost /\ kind \in {"ws", "ws2"} => socket = "gone"

IInv == Shape /\ Counts /\ Losses

LEMMA Params == MaxSends \in Nat /\ Sends = 1..MaxSends
  BY BaseAssumption DEF Sends, BaseAssumption

LEMMA Bounds == Bound \in {1, 2} /\ Early \in {0, 1} /\ (Bound = 2 => lost)
  BY DEF Bound, Early

LEMMA GiveLen ==
    ASSUME NEW a \in [Sends -> Seq(Results)], NEW S, NEW what \in Results,
           NEW b, b = [n \in Sends |-> IF n \in S THEN Append(a[n], what) ELSE a[n]]
    PROVE  /\ b \in [Sends -> Seq(Results)]
           /\ \A n \in Sends : /\ Len(a[n]) \in Nat
                               /\ Len(b[n]) = IF n \in S THEN Len(a[n]) + 1 ELSE Len(a[n])
<1>1. \A n \in Sends : a[n] \in Seq(Results)
  OBVIOUS
<1>2. \A n \in Sends : /\ Append(a[n], what) \in Seq(Results)
                       /\ Len(Append(a[n], what)) = Len(a[n]) + 1
                       /\ Len(a[n]) \in Nat
  BY <1>1
<1> QED
  BY <1>1, <1>2

LEMMA InitInv == TransportsInit => IInv
<1> SUFFICES ASSUME TransportsInit PROVE IInv
  OBVIOUS
<1>1. /\ kind \in Kinds /\ lost = FALSE /\ made = 0 /\ requests = {} /\ timeouts = {}
      /\ answers = [n \in Sends |-> << >>]
  BY DEF TransportsInit, Init
<1>2. << >> \in Seq(Results) /\ Len(<< >>) = 0
  OBVIOUS
<1>3. Shape
  <2>1. answers \in [Sends -> Seq(Results)]
    BY <1>1, <1>2
  <2>2. made \in 0..MaxSends /\ requests \subseteq 1..made /\ timeouts = requests
    BY <1>1, Params
  <2> QED
    BY <1>1, <2>1, <2>2 DEF Shape
<1>4. \A n \in Sends : answers[n] = << >>
  BY <1>1
<1>5. Counts
  BY <1>1, <1>2, <1>4, Bounds DEF Counts
<1> QED
  BY <1>1, <1>3, <1>5 DEF IInv, Losses

(* The base operations one by one; S are the callbacks invoked, R the        *)
(* requests that are gone.                                                   *)
LEMMA Unmoved ==
    ASSUME IInv, UNCHANGED <<kind, lost, made, requests, timeouts, answers>>,
           socket = "gone" => socket' = "gone"
    PROVE  IInv'
  BY DEF IInv, Shape, Counts, Losses, Bound, Early

LEMMA RefuseStep ==
    ASSUME IInv, NEW what \in Results, Refuse(what)
    PROVE  IInv'
<1> USE Params
<1>1. /\ made' = made + 1 /\ made + 1 \in Sends
      /\ UNCHANGED <<kind, lost, requests, timeouts, socket>>
  BY DEF Refuse, CanSend, connVars, IInv, Shape
<1>2. answers' = [n \in Sends |-> IF n \in {made + 1} THEN Append(answers[n], what) ELSE answers[n]]
  BY DEF Refuse, GiveAll
<1>3. /\ answers' \in [Sends -> Seq(Results)]
      /\ \A n \in Sends : Len(answers[n]) \in Nat
      /\ \A n \in Sends : n # made + 1 => Len(answers'[n]) = Len(answers[n])
      /\ Len(answers'[made + 1]) = Len(answers[made + 1]) + 1
  BY <1>1, <1>2, GiveLen DEF IInv, Shape
<1>4. Len(answers[made + 1]) = 0
  BY <1>1 DEF IInv, Shape, Counts
<1>5. Shape'
  BY <1>1, <1>3 DEF IInv, Shape
<1>6. \A n \in requests : n \in Sends /\ n # made + 1
  BY DEF IInv, Shape
<1>7. Counts'
  <2>1. \A n \in requests' : Len(answers'[n]) <= Early'
    BY <1>1, <1>3, <1>6 DEF IInv, Counts, Early
  <2>2. \A n \in Sends : n > made' => Len(answers'[n]) = 0
    BY <1>1, <1>3 DEF IInv, Shape, Counts
  <2>3. Bound' = Bound /\ Bound \in {1, 2}
    BY <1>1, Bounds DEF Bound
  <2>4. ASSUME NEW n \in Sends PROVE Len(answers'[n]) <= Bound'
    <3>1. Len(answers[n]) <= Bound
      BY DEF IInv, Counts
    <3>2. CASE n = made + 1
      <4>1. Len(answers'[n]) = 1
        BY <1>3, <1>4, <3>2
      <4> QED
        BY <2>3, <4>1
    <3>3. CASE n # made + 1
      BY <1>3, <2>3, <3>1, <3>3
    <3> QED
      BY <3>2, <3>3
  <2> QED
    BY <2>1, <2>2, <2>4 DEF Counts
<1> QED
  BY <1>1, <1>5, <1>7 DEF IInv, Losses

LEMMA AcceptStep ==
    ASSUME IInv, NEW packed \in BOOLEAN, NEW writable \in BOOLEAN, Accept(packed, writable)
    PROVE  IInv'
<1> USE Params
<1>1. /\ made' = made + 1 /\ made + 1 \in Sends
      /\ requests' = requests \cup {made + 1} /\ timeouts' = timeouts \cup {made + 1}
      /\ UNCHANGED <<kind, lost, answers, socket>>
  BY DEF Accept, CanSend, connVars, IInv, Shape
<1>2. Len(answers[made + 1]) = 0
  BY <1>1 DEF IInv, Shape, Counts
<1>3. Shape'
  BY <1>1 DEF IInv, Shape
<1>4. Counts'
  BY <1>1, <1>2 DEF IInv, Shape, Counts, Bound, Early
<1> QED
  BY <1>1, <1>3, <1>4 DEF IInv, Losses

(* Callbacks of waiting requests run and their requests go, by a packet or  *)
(* by a timer.                                                              *)
LEMMA SettleStep ==
    ASSUME IInv, NEW S \in SUBSET requests, NEW what \in Results,
           requests' = requests \ S, timeouts' = timeouts \ S,
           GiveAll(S, what), UNCHANGED <<kind, lost, made, socket>>,
           lost => kind # "ws2"
    PROVE  IInv'
<1> USE Params
<1>1. answers' = [n \in Sends |-> IF n \in S THEN Append(answers[n], what) ELSE answers[n]]
  BY DEF GiveAll
<1>2. /\ answers' \in [Sends -> Seq(Results)]
      /\ \A n \in Sends :
            /\ Len(answers[n]) \in Nat
            /\ Len(answers'[n]) = IF n \in S THEN Len(answers[n]) + 1 ELSE Len(answers[n])
  BY <1>1, GiveLen DEF IInv, Shape
<1>3. \A n \in S : n \in requests /\ n \in Sends /\ n <= made
  BY DEF IInv, Shape
<1>4. Shape'
  BY <1>2 DEF IInv, Shape
<1>5. Counts'
  <2>1. \A n \in requests' : n \in Sends /\ n \notin S /\ n \in requests
    BY DEF IInv, Shape
  <2>2. \A n \in requests' : Len(answers'[n]) <= Early'
    BY <1>2, <2>1 DEF IInv, Counts, Early
  <2>3. \A n \in Sends : n > made => n \notin S
    BY <1>3 DEF IInv, Shape
  <2>4. \A n \in Sends : n > made' => Len(answers'[n]) = 0
    BY <1>2, <2>3 DEF IInv, Counts
  <2>5. \A n \in S : Len(answers[n]) <= Early
    BY <1>3 DEF IInv, Counts
  <2>6. Early + 1 <= Bound /\ Bound' = Bound
    BY DEF IInv, Shape, Losses, Kinds, Early, Bound
  <2>7. ASSUME NEW n \in Sends PROVE Len(answers'[n]) <= Bound'
    <3>1. Len(answers[n]) <= Bound /\ Len(answers[n]) \in Nat
      BY <1>2 DEF IInv, Counts
    <3>2. CASE n \in S
      <4>1. Len(answers'[n]) = Len(answers[n]) + 1 /\ Len(answers[n]) <= Early
        BY <1>2, <2>5, <3>2
      <4> QED
        BY <2>6, <3>1, <4>1, Bounds
    <3>3. CASE n \notin S
      <4>1. Len(answers'[n]) = Len(answers[n])
        BY <1>2, <3>3
      <4> QED
        BY <2>6, <3>1, <4>1
    <3> QED
      BY <3>2, <3>3
  <2> QED
    BY <2>2, <2>4, <2>7 DEF Counts
<1> QED
  BY <1>4, <1>5 DEF IInv, Losses

(* The timer of ws2 forgets a request without a word. *)
LEMMA ForgetStep ==
    ASSUME IInv, NEW m, requests' = requests \ {m}, timeouts' = timeouts \ {m},
           UNCHANGED <<kind, lost, made, answers, socket>>
    PROVE  IInv'
  BY DEF IInv, Shape, Counts, Losses, Bound, Early

(* All waiting callbacks are told of a loss, once. *)
LEMMA LossStep ==
    ASSUME IInv, NEW what \in Results, TellLoss(what), ~lost,
           UNCHANGED kind, kind # "tcp",
           kind \in {"ws", "ws2"} => socket' = "gone"
    PROVE  IInv'
<1> USE Params
<1>1. lost' = TRUE /\ UNCHANGED <<made, requests, timeouts>>
  BY DEF TellLoss
<1>2. answers' = [n \in Sends |-> IF n \in requests THEN Append(answers[n], what) ELSE answers[n]]
  BY DEF TellLoss, GiveAll
<1>3. /\ answers' \in [Sends -> Seq(Results)]
      /\ \A n \in Sends :
            /\ Len(answers[n]) \in Nat
            /\ Len(answers'[n]) = IF n \in requests THEN Len(answers[n]) + 1 ELSE Len(answers[n])
  BY <1>2, GiveLen DEF IInv, Shape
<1>4. \A n \in requests : n \in Sends /\ n <= made /\ Len(answers[n]) <= 0
  BY DEF IInv, Shape, Counts, Early
<1>5. Shape'
  BY <1>1, <1>3 DEF IInv, Shape
<1>6. Counts'
  <2>1. \A n \in requests' : Len(answers'[n]) <= Early'
    <3>1. Early' = 1 /\ requests' = requests
      BY <1>1 DEF Early
    <3>2. ASSUME NEW n \in requests PROVE Len(answers'[n]) <= 1
      <4>1. n \in Sends /\ Len(answers[n]) <= 0
        BY <1>4
      <4>2. Len(answers'[n]) = Len(answers[n]) + 1 /\ Len(answers[n]) \in Nat
        BY <1>3, <4>1
      <4> QED
        BY <4>1, <4>2
    <3> QED
      BY <3>1, <3>2
  <2>2. \A n \in Sends : n > made => n \notin requests
    BY DEF IInv, Shape
  <2>3. \A n \in Sends : n > made' => Len(answers'[n]) = 0
    BY <1>1, <1>3, <2>2 DEF IInv, Counts
  <2>4. \A n \in Sends : Len(answers[n]) <= 1
    BY DEF IInv, Counts, Bound
  <2>5. Bound' \in {1, 2}
    BY DEF Bound
  <2>6. ASSUME NEW n \in Sends PROVE Len(answers'[n]) <= Bound'
    <3>1. CASE n \in requests
      <4>1. Len(answers'[n]) = Len(answers[n]) + 1 /\ Len(answers[n]) \in Nat
            /\ Len(answers[n]) <= 0
        BY <1>3, <1>4, <3>1
      <4> QED
        BY <2>5, <4>1
    <3>2. CASE n \notin requests
      <4>1. Len(answers'[n]) = Len(answers[n]) /\ Len(answers[n]) \in Nat
            /\ Len(answers[n]) <= 1
        BY <1>3, <2>4, <3>2
      <4> QED
        BY <2>5, <4>1
    <3> QED
      BY <3>1, <3>2
  <2> QED
    BY <2>1, <2>3, <2>6 DEF Counts
<1> QED
  BY <1>1, <1>5, <1>6 DEF IInv, Losses

(* The three ways a request goes, in terms of the base module. *)
LEMMA RepliedStep ==
    ASSUME IInv, NEW S \in SUBSET Sends, Replied(S), lost => kind # "ws2"
    PROVE  IInv'
<1>1. /\ GiveAll(S \cap requests, "reply")
      /\ requests' = requests \ S /\ timeouts' = timeouts \ S
      /\ UNCHANGED <<kind, lost, made, socket>>
  BY DEF Replied, connVars
<1>2. requests \ S = requests \ (S \cap requests) /\ timeouts \ S = timeouts \ (S \cap requests)
  BY DEF IInv, Shape
<1> QED
  BY <1>1, <1>2, SettleStep DEF Results

LEMMA ExpireStep ==
    ASSUME IInv, NEW m \in Sends, NEW what \in Results, Expire(m), GiveAll({m}, what),
           kind # "ws2"
    PROVE  IInv'
<1>1. /\ m \in timeouts /\ requests' = requests \ {m} /\ timeouts' = timeouts \ {m}
      /\ UNCHANGED <<kind, lost, made, socket>>
  BY DEF Expire, connVars
<1>2. {m} \in SUBSET requests
  BY <1>1 DEF IInv, Shape
<1> QED
  BY <1>1, <1>2, SettleStep

LEMMA FlushStep == ASSUME IInv, FlushQueue PROVE IInv'
<1>1. UNCHANGED <<kind, lost, made, requests, timeouts, answers, socket>>
  BY DEF FlushQueue, connVars
<1> QED
  BY <1>1, Unmoved

(* Each transport has its own instance of the base module; its operations    *)
(* are those of this one.                                                    *)
LEMMA TcpBase ==
    /\ Tcp!Sends = Sends /\ Tcp!reqVars = reqVars
    /\ Tcp!FlushQueue <=> FlushQueue
  BY DEF Tcp!Sends, Sends, Tcp!reqVars, reqVars, Tcp!FlushQueue, FlushQueue, Tcp!connVars, connVars

LEMMA TcpOps ==
    ASSUME NEW S, NEW m, NEW what, NEW packed \in BOOLEAN, NEW writable \in BOOLEAN
    PROVE  /\ Tcp!GiveAll(S, what) <=> GiveAll(S, what)
           /\ Tcp!Refuse(what) <=> Refuse(what)
           /\ Tcp!Accept(packed, writable) <=> Accept(packed, writable)
           /\ Tcp!Replied(S) <=> Replied(S)
           /\ Tcp!Expire(m) <=> Expire(m)
           /\ Tcp!TellLoss(what) <=> TellLoss(what)
  BY DEF Tcp!GiveAll, GiveAll, Tcp!Refuse, Refuse, Tcp!Accept, Accept, Tcp!Replied, Replied,
         Tcp!Expire, Expire, Tcp!TellLoss, TellLoss, Tcp!Sends, Sends, Tcp!CanSend, CanSend,
         Tcp!connVars, connVars

LEMMA TcpStep == ASSUME IInv, kind = "tcp", Tcp!Next PROVE IInv'
<1>1. CASE Tcp!Connect \/ Tcp!Connected \/ Tcp!SocketError \/ Tcp!SocketEnd \/ Tcp!Close
  BY <1>1, Unmoved DEF Tcp!Connect, Tcp!Connected, Tcp!SocketError, Tcp!SocketEnd, Tcp!Close, reqVars, Tcp!reqVars
<1>2. CASE Tcp!SendRefused
  BY <1>2, TcpOps, RefuseStep DEF Tcp!SendRefused, Results
<1>3. CASE Tcp!Send
  BY <1>3, TcpOps, AcceptStep DEF Tcp!Send
<1>4. CASE Tcp!Flush
  BY <1>4, TcpBase, FlushStep DEF Tcp!Flush
<1>5. ASSUME NEW S \in SUBSET Sends, Tcp!Replies(S) PROVE IInv'
  BY <1>5, TcpOps, RepliedStep DEF Tcp!Replies
<1>6. ASSUME NEW m \in Sends, Tcp!RequestTimesOut(m) PROVE IInv'
  BY <1>6, TcpOps, ExpireStep DEF Tcp!RequestTimesOut, Results
<1> QED
  BY <1>1, <1>2, <1>3, <1>4, <1>5, <1>6, TcpBase DEF Tcp!Next

LEMMA WsBase ==
    /\ Ws!Sends = Sends /\ Ws!reqVars = reqVars
    /\ Ws!FlushQueue <=> FlushQueue
  BY DEF Ws!Sends, Sends, Ws!reqVars, reqVars, Ws!FlushQueue, FlushQueue, Ws!connVars, connVars

LEMMA WsOps ==
    ASSUME NEW S, NEW m, NEW what, NEW packed \in BOOLEAN, NEW writable \in BOOLEAN
    PROVE  /\ Ws!GiveAll(S, what) <=> GiveAll(S, what)
           /\ Ws!Refuse(what) <=> Refuse(what)
           /\ Ws!Accept(packed, writable) <=> Accept(packed, writable)
           /\ Ws!Replied(S) <=> Replied(S)
           /\ Ws!Expire(m) <=> Expire(m)
           /\ Ws!TellLoss(what) <=> TellLoss(what)
  BY DEF Ws!GiveAll, GiveAll, Ws!Refuse, Refuse, Ws!Accept, Accept, Ws!Replied, Replied,
         Ws!Expire, Expire, Ws!TellLoss, TellLoss, Ws!Sends, Sends, Ws!CanSend, CanSend,
         Ws!connVars, connVars

LEMMA WsStep == ASSUME IInv, kind = "ws", Ws!Next PROVE IInv'
<1>1. CASE Ws!Connect \/ Ws!Connected \/ Ws!SocketError \/ Ws!Close
  BY <1>1, Unmoved DEF Ws!Connect, Ws!Connected, Ws!SocketError, Ws!Close, reqVars, Ws!reqVars
<1>2. CASE Ws!Disconnected
  <2>1. TellLoss("error") /\ ~lost /\ socket' = "gone" /\ UNCHANGED kind
    BY <1>2, WsOps DEF Ws!Disconnected, IInv, Shape, Losses
  <2> QED
    BY <2>1, LossStep DEF Results
<1>3. CASE Ws!SendRefused
  BY <1>3, WsOps, RefuseStep DEF Ws!SendRefused, Results
<1>4. CASE Ws!Send
  BY <1>4, WsOps, AcceptStep DEF Ws!Send
<1>5. CASE Ws!Flush
  BY <1>5, WsBase, FlushStep DEF Ws!Flush
<1>6. ASSUME NEW S \in SUBSET Sends, Ws!Replies(S) PROVE IInv'
  BY <1>6, WsOps, RepliedStep DEF Ws!Replies
<1>7. ASSUME NEW m \in Sends, Ws!RequestTimesOut(m) PROVE IInv'
  BY <1>7, WsOps, ExpireStep DEF Ws!RequestTimesOut, Results
<1> QED
  BY <1>1, <1>2, <1>3, <1>4, <1>5, <1>6, <1>7, WsBase DEF Ws!Next

LEMMA Ws2Base ==
    /\ Ws2!Sends = Sends /\ Ws2!reqVars = reqVars
    /\ Ws2!FlushQueue <=> FlushQueue
  BY DEF Ws2!Sends, Sends, Ws2!reqVars, reqVars, Ws2!FlushQueue, FlushQueue, Ws2!connVars, connVars

LEMMA Ws2Ops ==
    ASSUME NEW S, NEW m, NEW what, NEW packed \in BOOLEAN, NEW writable \in BOOLEAN
    PROVE  /\ Ws2!GiveAll(S, what) <=> GiveAll(S, what)
           /\ Ws2!Refuse(what) <=> Refuse(what)
           /\ Ws2!Accept(packed, writable) <=> Accept(packed, writable)
           /\ Ws2!Replied(S) <=> Replied(S)
           /\ Ws2!Expire(m) <=> Expire(m)
           /\ Ws2!TellLoss(what) <=> TellLoss(what)
  BY DEF Ws2!GiveAll, GiveAll, Ws2!Refuse, Refuse, Ws2!Accept, Accept, Ws2!Replied, Replied,
         Ws2!Expire, Expire, Ws2!TellLoss, TellLoss, Ws2!Sends, Sends, Ws2!CanSend, CanSend,
         Ws2!connVars, connVars

LEMMA Ws2Step == ASSUME IInv, kind = "ws2", Ws2!Next PROVE IInv'
<1>1. CASE \/ Ws2!Connect \/ Ws2!Opened \/ Ws2!SocketError \/ Ws2!PeerCloses
           \/ Ws2!KeepAliveFails \/ Ws2!Close \/ Ws2!FlushThrows
  BY <1>1, Unmoved DEF Ws2!Connect, Ws2!Opened, Ws2!SocketError, Ws2!PeerCloses,
                       Ws2!KeepAliveFails, Ws2!Close, Ws2!FlushThrows, reqVars, Ws2!reqVars
<1>2. CASE Ws2!SocketClosed
  <2>1. TellLoss("hollow") /\ ~lost /\ socket' = "gone" /\ UNCHANGED kind
    BY <1>2, Ws2Ops DEF Ws2!SocketClosed, IInv, Shape, Losses
  <2> QED
    BY <2>1, LossStep DEF Results
<1>3. CASE Ws2!SendRefused
  BY <1>3, Ws2Ops, RefuseStep DEF Ws2!SendRefused, Results
<1>4. CASE Ws2!Send
  <2>1. (socket = "up") \in BOOLEAN
    OBVIOUS
  <2> QED
    BY <1>4, <2>1, Ws2Ops, AcceptStep DEF Ws2!Send
<1>5. CASE Ws2!Flush
  BY <1>5, Ws2Base, FlushStep DEF Ws2!Flush
<1>6. ASSUME NEW S \in SUBSET Sends, Ws2!Replies(S) PROVE IInv'
  <2>1. Replied(S) /\ ~lost
    BY <1>6, Ws2Ops DEF Ws2!Replies, IInv, Shape, Losses
  <2> QED
    BY <2>1, RepliedStep
<1>7. ASSUME NEW m \in Sends, Ws2!RequestTimesOut(m) PROVE IInv'
  <2>1. /\ requests' = requests \ {m} /\ timeouts' = timeouts \ {m}
        /\ UNCHANGED <<kind, lost, made, answers, socket>>
    BY <1>7, Ws2Ops DEF Ws2!RequestTimesOut, Expire, connVars
  <2> QED
    BY <2>1, ForgetStep
<1> QED
  BY <1>1, <1>2, <1>3, <1>4, <1>5, <1>6, <1>7, Ws2Base DEF Ws2!Next

LEMMA Mqtt2Base ==
    /\ Mqtt2!Sends = Sends /\ Mqtt2!reqVars = reqVars
    /\ Mqtt2!FlushQueue <=> FlushQueue
  BY DEF Mqtt2!Sends, Sends, Mqtt2!reqVars, reqVars, Mqtt2!FlushQueue, FlushQueue, Mqtt2!connVars, connVars

LEMMA Mqtt2Ops ==
    ASSUME NEW S, NEW m, NEW what, NEW packed \in BOOLEAN, NEW writable \in BOOLEAN
    PROVE  /\ Mqtt2!GiveAll(S, what) <=> GiveAll(S, what)
           /\ Mqtt2!Refuse(what) <=> Refuse(what)
           /\ Mqtt2!Accept(packed, writable) <=> Accept(packed, writable)
           /\ Mqtt2!Replied(S) <=> Replied(S)
           /\ Mqtt2!Expire(m) <=> Expire(m)
           /\ Mqtt2!TellLoss(what) <=> TellLoss(what)
  BY DEF Mqtt2!GiveAll, GiveAll, Mqtt2!Refuse, Refuse, Mqtt2!Accept, Accept, Mqtt2!Replied, Replied,
         Mqtt2!Expire, Expire, Mqtt2!TellLoss, TellLoss, Mqtt2!Sends, Sends, Mqtt2!CanSend, CanSend,
         Mqtt2!connVars, connVars

LEMMA Mqtt2Step == ASSUME IInv, kind = "mqtt2", Mqtt2!Next PROVE IInv'
<1>1. CASE \/ Mqtt2!Connect \/ Mqtt2!ConnectWritten \/ Mqtt2!ConnectTimesOut
           \/ Mqtt2!Handshake \/ Mqtt2!SocketError \/ Mqtt2!PeerVanishes
           \/ Mqtt2!KeepAliveFails \/ Mqtt2!Close
  <2>1. UNCHANGED <<kind, lost, made, requests, timeouts, answers>>
    BY <1>1 DEF Mqtt2!Connect, Mqtt2!ConnectWritten, Mqtt2!ConnectTimesOut,
         Mqtt2!Handshake, Mqtt2!SocketError, Mqtt2!PeerVanishes, Mqtt2!KeepAliveFails,
         Mqtt2!Close, Mqtt2!reqVars
  <2>2. socket = "gone" => socket' = "gone"
    BY <1>1 DEF Mqtt2!Connect, Mqtt2!ConnectWritten, Mqtt2!ConnectTimesOut, Mqtt2!Handshake,
         Mqtt2!SocketError, Mqtt2!PeerVanishes, Mqtt2!KeepAliveFails, Mqtt2!Close
  <2> QED
    BY <2>1, <2>2, Unmoved
<1>2. CASE Mqtt2!PeerDisconnect
  <2>1. TellLoss("error") /\ ~lost /\ UNCHANGED kind
    BY <1>2, Mqtt2Ops DEF Mqtt2!PeerDisconnect
  <2> QED
    BY <2>1, LossStep DEF Results
<1>3. CASE Mqtt2!SendRefused
  BY <1>3, Mqtt2Ops, RefuseStep DEF Mqtt2!SendRefused, Results
<1>4. CASE Mqtt2!Send
  <2>1. Mqtt2!Hooked \in BOOLEAN
    BY DEF Mqtt2!Hooked, Mqtt2!Said
  <2>2. Accept(Mqtt2!Hooked, TRUE)
    BY <1>4, <2>1, Mqtt2Ops DEF Mqtt2!Send
  <2> QED
    BY <2>1, <2>2, AcceptStep
<1>5. CASE Mqtt2!Flush
  BY <1>5, Mqtt2Base, FlushStep DEF Mqtt2!Flush
<1>6. ASSUME NEW m \in Sends, Mqtt2!Replies(m) PROVE IInv'
  <2>1. {m} \in SUBSET Sends /\ Replied({m})
    BY <1>6, Mqtt2Ops DEF Mqtt2!Replies
  <2> QED
    BY <2>1, RepliedStep
<1>7. ASSUME NEW m \in Sends, Mqtt2!RequestTimesOut(m) PROVE IInv'
  BY <1>7, Mqtt2Ops, ExpireStep DEF Mqtt2!RequestTimesOut, Results
<1> QED
  BY <1>1, <1>2, <1>3, <1>4, <1>5, <1>6, <1>7, Mqtt2Base DEF Mqtt2!Next

LEMMA StepInv == IInv /\ [TransportsNext]_vars => IInv'
<1> SUFFICES ASSUME IInv, [TransportsNext]_vars PROVE IInv'
  OBVIOUS
<1>1. CASE UNCHANGED vars
  BY <1>1, Unmoved DEF vars, connVars, reqVars
<1> QED
  BY <1>1, TcpStep, WsStep, Ws2Step, Mqtt2Step DEF TransportsNext

(* No callback runs twice, but for the disconnect handlers of ws and mqtt2   *)
(* and the timers they leave behind: AnsweredOnce, for any number of sends.  *)
THEOREM CallbackCount == Spec => []AnsweredOnce
<1>1. IInv => AnsweredOnce
  BY DEF IInv, Counts, AnsweredOnce, Bound
<1> QED
  BY InitInv, StepInv, <1>1, PTL DEF Spec

-----------------------------------------------------------------------------
(* A mailbox that has reported a failed connect.                            *)

DInv ==
    /\ kind \in Kinds
    /\ told \in Seq({"ok", "err"})
    /\ DroppedIsDead

LEMMA Telling ==
    ASSUME told \in Seq({"ok", "err"}), NEW r \in {"ok", "err"}, told' = Append(told, r)
    PROVE  /\ told' \in Seq({"ok", "err"})
           /\ Said("err")' => Said("err") \/ r = "err"
<1>1. /\ DOMAIN told = 1..Len(told) /\ DOMAIN told' = 1..(Len(told) + 1) /\ Len(told) \in Nat
      /\ told'[Len(told) + 1] = r
      /\ \A i \in 1..Len(told) : told'[i] = told[i]
  OBVIOUS
<1>2. \A i \in DOMAIN told' : i \in DOMAIN told \/ i = Len(told) + 1
  BY <1>1
<1>3. Said("err")' => Said("err") \/ r = "err"
  BY <1>1, <1>2 DEF Said
<1> QED
  BY <1>3

(* Nothing revives a closed mailbox or a socket that is gone, and an error   *)
(* is told of where there is neither.                                        *)
LEMMA StaysDead ==
    ASSUME DInv, UNCHANGED kind,
           closed => closed', socket = "gone" => socket' = "gone",
           \/ UNCHANGED told
           \/ told' = Append(told, "ok")
           \/ told' = Append(told, "err") /\ (closed' \/ socket' = "gone" \/ kind = "ws")
    PROVE  DInv'
<1>1. CASE UNCHANGED told
  BY <1>1 DEF DInv, DroppedIsDead, Said
<1>2. CASE told' = Append(told, "ok")
  BY <1>2, Telling DEF DInv, DroppedIsDead
<1>3. CASE told' = Append(told, "err") /\ (closed' \/ socket' = "gone" \/ kind = "ws")
  BY <1>3, Telling DEF DInv, DroppedIsDead
<1> QED
  BY <1>1, <1>2, <1>3

LEMMA RequestsOnly == ASSUME DInv, UNCHANGED connVars PROVE DInv'
  BY StaysDead DEF connVars

LEMMA TcpDead == ASSUME DInv, kind = "tcp", Tcp!Next PROVE DInv'
<1>1. CASE Tcp!Connect \/ Tcp!Connected \/ Tcp!SocketError \/ Tcp!SocketEnd \/ Tcp!Close
  BY <1>1, StaysDead DEF Tcp!Connect, Tcp!Connected, Tcp!SocketError, Tcp!SocketEnd, Tcp!Close,
       Tcp!Tell, Tcp!EmitClose, Tcp!ShutOnce
<1>2. CASE ~(Tcp!Connect \/ Tcp!Connected \/ Tcp!SocketError \/ Tcp!SocketEnd \/ Tcp!Close)
  <2>1. UNCHANGED connVars
    BY <1>2 DEF Tcp!Next, Tcp!SendRefused, Tcp!Send, Tcp!Flush, Tcp!Replies, Tcp!RequestTimesOut,
         Tcp!Refuse, Tcp!Accept, Tcp!FlushQueue, Tcp!Replied, Tcp!Expire, Tcp!connVars, connVars
  <2> QED
    BY <2>1, RequestsOnly
<1> QED
  BY <1>1, <1>2

LEMMA WsDead == ASSUME DInv, kind = "ws", Ws!Next PROVE DInv'
<1>1. CASE Ws!Connect \/ Ws!Connected \/ Ws!SocketError \/ Ws!Disconnected \/ Ws!Close
  <2>1. UNCHANGED kind /\ (socket = "gone" => socket' = "gone") /\ (closed => closed')
    BY <1>1 DEF Ws!Connect, Ws!Connected, Ws!SocketError, Ws!Disconnected, Ws!Close,
         Ws!EmitClose, Ws!ShutOnce, Ws!reqVars
  <2>2. UNCHANGED told \/ told' = Append(told, "ok") \/ told' = Append(told, "err")
    BY <1>1 DEF Ws!Connect, Ws!Connected, Ws!SocketError, Ws!Disconnected, Ws!Close, Ws!Tell
  <2> QED
    BY <2>1, <2>2, StaysDead
<1>2. CASE ~(Ws!Connect \/ Ws!Connected \/ Ws!SocketError \/ Ws!Disconnected \/ Ws!Close)
  <2>1. UNCHANGED connVars
    BY <1>2 DEF Ws!Next, Ws!SendRefused, Ws!Send, Ws!Flush, Ws!Replies, Ws!RequestTimesOut,
         Ws!Refuse, Ws!Accept, Ws!FlushQueue, Ws!Replied, Ws!Expire, Ws!connVars, connVars
  <2> QED
    BY <2>1, RequestsOnly
<1> QED
  BY <1>1, <1>2

LEMMA Ws2Dead == ASSUME DInv, kind = "ws2", Ws2!Next PROVE DInv'
<1> DEFINE OnSocket == \/ Ws2!Connect \/ Ws2!Opened \/ Ws2!SocketError \/ Ws2!PeerCloses
                       \/ Ws2!SocketClosed \/ Ws2!KeepAliveFails \/ Ws2!Close \/ Ws2!FlushThrows
<1>1. CASE OnSocket
  <2>1. UNCHANGED kind /\ (socket = "gone" => socket' = "gone") /\ (closed => closed')
    BY <1>1 DEF Ws2!Connect, Ws2!Opened, Ws2!SocketError, Ws2!PeerCloses, Ws2!SocketClosed,
         Ws2!KeepAliveFails, Ws2!Close, Ws2!FlushThrows, Ws2!ShutOnce
  <2>2. \/ UNCHANGED told \/ told' = Append(told, "ok")
        \/ told' = Append(told, "err") /\ closed'
    BY <1>1 DEF Ws2!Connect, Ws2!Opened, Ws2!SocketError, Ws2!PeerCloses, Ws2!SocketClosed,
         Ws2!KeepAliveFails, Ws2!Close, Ws2!FlushThrows, Ws2!ShutOnce, Ws2!Tell
  <2> QED
    BY <2>1, <2>2, StaysDead
<1>2. CASE ~OnSocket
  <2>1. UNCHANGED connVars
    BY <1>2 DEF Ws2!Next, Ws2!SendRefused, Ws2!Send, Ws2!Flush, Ws2!Replies,
         Ws2!RequestTimesOut, Ws2!Refuse, Ws2!Accept, Ws2!FlushQueue, Ws2!Replied,
         Ws2!Expire, Ws2!connVars, connVars
  <2> QED
    BY <2>1, RequestsOnly
<1> QED
  BY <1>1, <1>2

LEMMA Mqtt2Dead == ASSUME DInv, kind = "mqtt2", Mqtt2!Next PROVE DInv'
<1> DEFINE OnSocket == \/ Mqtt2!Connect \/ Mqtt2!ConnectWritten \/ Mqtt2!ConnectTimesOut
                       \/ Mqtt2!Handshake \/ Mqtt2!SocketError \/ Mqtt2!PeerVanishes
                       \/ Mqtt2!KeepAliveFails \/ Mqtt2!PeerDisconnect \/ Mqtt2!Close
<1>1. CASE OnSocket
  <2>1. UNCHANGED kind /\ (socket = "gone" => socket' = "gone") /\ (closed => closed')
    BY <1>1 DEF Mqtt2!Connect, Mqtt2!ConnectWritten, Mqtt2!ConnectTimesOut, Mqtt2!Handshake,
         Mqtt2!SocketError, Mqtt2!PeerVanishes, Mqtt2!KeepAliveFails, Mqtt2!PeerDisconnect,
         Mqtt2!Close, Mqtt2!Shut, Mqtt2!EmitClose, Mqtt2!ShutOnce
  <2>2. UNCHANGED told \/ told' = Append(told, "ok")
    BY <1>1 DEF Mqtt2!Connect, Mqtt2!ConnectWritten, Mqtt2!ConnectTimesOut, Mqtt2!Handshake,
         Mqtt2!SocketError, Mqtt2!PeerVanishes, Mqtt2!KeepAliveFails, Mqtt2!PeerDisconnect,
         Mqtt2!Close, Mqtt2!Tell
  <2> QED
    BY <2>1, <2>2, StaysDead
<1>2. CASE ~OnSocket
  <2>1. UNCHANGED connVars
    BY <1>2 DEF Mqtt2!Next, Mqtt2!SendRefused, Mqtt2!Send, Mqtt2!Flush, Mqtt2!Replies,
         Mqtt2!RequestTimesOut, Mqtt2!Refuse, Mqtt2!Accept, Mqtt2!FlushQueue, Mqtt2!Replied,
         Mqtt2!Expire, Mqtt2!connVars, connVars
  <2> QED
    BY <2>1, RequestsOnly
<1> QED
  BY <1>1, <1>2

LEMMA DeadStep == DInv /\ [TransportsNext]_vars => DInv'
<1> SUFFICES ASSUME DInv, [TransportsNext]_vars PROVE DInv'
  OBVIOUS
<1>1. CASE UNCHANGED vars
  BY <1>1, RequestsOnly DEF vars
<1> QED
  BY <1>1, TcpDead, WsDead, Ws2Dead, Mqtt2Dead DEF TransportsNext

(* What the station drops after a failed connect holds no connection, except *)
(* over socket.io: DroppedIsDead (mailstation.ts:404-416).                   *)
THEOREM DroppedBoxes == Spec => []DroppedIsDead
<1>1. TransportsInit => DInv
  BY DEF TransportsInit, Init, DInv, DroppedIsDead, Said
<1>2. DInv => DroppedIsDead
  BY DEF DInv
<1> QED
  BY <1>1, <1>2, DeadStep, PTL DEF Spec
-----------------------------------------------------------------------------
(* A closed mailbox.                                                         *)

Quiet == sent' = sent /\ requests' \subseteq requests

LEMMA BaseQuiet ==
    ASSUME closed, NEW what,
           \/ UNCHANGED <<sent, requests>>
           \/ Refuse(what)
           \/ FlushQueue
           \/ \E p \in BOOLEAN, w \in BOOLEAN : Accept(p, w)
           \/ \E S \in SUBSET Sends : Replied(S)
           \/ \E m \in Sends : Expire(m)
           \/ TellLoss(what)
    PROVE  Quiet
  BY DEF Quiet, Refuse, FlushQueue, Accept, Replied, Expire, TellLoss

LEMMA TcpQuiet == ASSUME closed, Tcp!Next PROVE Quiet
<1>1. CASE Tcp!Connect \/ Tcp!Connected \/ Tcp!SocketError \/ Tcp!SocketEnd \/ Tcp!Close
  <2>1. UNCHANGED <<sent, requests>>
    BY <1>1 DEF Tcp!Connect, Tcp!Connected, Tcp!SocketError, Tcp!SocketEnd, Tcp!Close, Tcp!reqVars
  <2> QED
    BY <2>1, BaseQuiet
<1>2. CASE Tcp!SendRefused \/ Tcp!Send \/ Tcp!Flush
  BY <1>2, TcpOps, TcpBase, BaseQuiet DEF Tcp!SendRefused, Tcp!Send, Tcp!Flush
<1>3. CASE (\E S \in SUBSET Sends : Tcp!Replies(S)) \/ \E m \in Sends : Tcp!RequestTimesOut(m)
  BY <1>3, TcpOps, BaseQuiet DEF Tcp!Replies, Tcp!RequestTimesOut
<1> QED
  BY <1>1, <1>2, <1>3, TcpBase DEF Tcp!Next

LEMMA WsQuiet == ASSUME closed, Ws!Next PROVE Quiet
<1>1. CASE Ws!Connect \/ Ws!Connected \/ Ws!SocketError \/ Ws!Close
  <2>1. UNCHANGED <<sent, requests>>
    BY <1>1 DEF Ws!Connect, Ws!Connected, Ws!SocketError, Ws!Close, Ws!reqVars
  <2> QED
    BY <2>1, BaseQuiet
<1>2. CASE Ws!SendRefused \/ Ws!Send \/ Ws!Flush \/ Ws!Disconnected
  BY <1>2, WsOps, WsBase, BaseQuiet DEF Ws!SendRefused, Ws!Send, Ws!Flush, Ws!Disconnected
<1>3. CASE (\E S \in SUBSET Sends : Ws!Replies(S)) \/ \E m \in Sends : Ws!RequestTimesOut(m)
  BY <1>3, WsOps, BaseQuiet DEF Ws!Replies, Ws!RequestTimesOut
<1> QED
  BY <1>1, <1>2, <1>3, WsBase DEF Ws!Next

LEMMA Ws2Quiet == ASSUME closed, Ws2!Next PROVE Quiet
<1>1. CASE \/ Ws2!Connect \/ Ws2!Opened \/ Ws2!SocketError \/ Ws2!PeerCloses
           \/ Ws2!KeepAliveFails \/ Ws2!Close \/ Ws2!FlushThrows
  <2>1. UNCHANGED <<sent, requests>>
    BY <1>1 DEF Ws2!Connect, Ws2!Opened, Ws2!SocketError, Ws2!PeerCloses,
                Ws2!KeepAliveFails, Ws2!Close, Ws2!FlushThrows, Ws2!reqVars
  <2> QED
    BY <2>1, BaseQuiet
<1>2. CASE Ws2!SendRefused \/ Ws2!Flush \/ Ws2!SocketClosed
  BY <1>2, Ws2Ops, Ws2Base, BaseQuiet DEF Ws2!SendRefused, Ws2!Flush, Ws2!SocketClosed
<1>3. CASE Ws2!Send
  <2>1. (socket = "up") \in BOOLEAN
    OBVIOUS
  <2>2. Accept(TRUE, socket = "up")
    BY <1>3, <2>1, Ws2Ops DEF Ws2!Send
  <2> QED
    BY <2>1, <2>2, BaseQuiet
<1>4. CASE (\E S \in SUBSET Sends : Ws2!Replies(S)) \/ \E m \in Sends : Ws2!RequestTimesOut(m)
  BY <1>4, Ws2Ops, BaseQuiet DEF Ws2!Replies, Ws2!RequestTimesOut
<1> QED
  BY <1>1, <1>2, <1>3, <1>4, Ws2Base DEF Ws2!Next

LEMMA Mqtt2Quiet == ASSUME closed, Mqtt2!Next PROVE Quiet
<1>1. CASE \/ Mqtt2!Connect \/ Mqtt2!ConnectWritten \/ Mqtt2!ConnectTimesOut
           \/ Mqtt2!Handshake \/ Mqtt2!SocketError \/ Mqtt2!PeerVanishes
           \/ Mqtt2!KeepAliveFails \/ Mqtt2!Close
  <2>1. UNCHANGED <<sent, requests>>
    BY <1>1 DEF Mqtt2!Connect, Mqtt2!ConnectWritten, Mqtt2!ConnectTimesOut, Mqtt2!Handshake,
         Mqtt2!SocketError, Mqtt2!PeerVanishes, Mqtt2!KeepAliveFails, Mqtt2!Close, Mqtt2!reqVars
  <2> QED
    BY <2>1, BaseQuiet
<1>2. CASE Mqtt2!SendRefused \/ Mqtt2!Flush \/ Mqtt2!PeerDisconnect
  BY <1>2, Mqtt2Ops, Mqtt2Base, BaseQuiet
     DEF Mqtt2!SendRefused, Mqtt2!Flush, Mqtt2!PeerDisconnect
<1>3. CASE Mqtt2!Send
  <2>1. Mqtt2!Hooked \in BOOLEAN
    BY DEF Mqtt2!Hooked, Mqtt2!Said
  <2>2. Accept(Mqtt2!Hooked, TRUE)
    BY <1>3, <2>1, Mqtt2Ops DEF Mqtt2!Send
  <2> QED
    BY <2>1, <2>2, BaseQuiet
<1>4. ASSUME NEW m \in Sends, Mqtt2!Replies(m) \/ Mqtt2!RequestTimesOut(m) PROVE Quiet
  <2>1. {m} \in SUBSET Sends /\ (Replied({m}) \/ Expire(m))
    BY <1>4, Mqtt2Ops DEF Mqtt2!Replies, Mqtt2!RequestTimesOut
  <2> QED
    BY <2>1, BaseQuiet
<1> QED
  BY <1>1, <1>2, <1>3, <1>4, Mqtt2Base DEF Mqtt2!Next

(* Once closed, a mailbox of any transport writes nothing and files nothing, *)
(* whatever its socket and timers still do: ClosedIsSilent.                  *)
THEOREM ClosedBoxes == Spec => ClosedIsSilent
<1>1. [TransportsNext]_vars => [closed => sent' = sent /\ requests' \subseteq requests]_vars
  BY TcpQuiet, WsQuiet, Ws2Quiet, Mqtt2Quiet DEF TransportsNext, Quiet
<1> QED
  BY <1>1, PTL DEF Spec, ClosedIsSilent

-----------------------------------------------------------------------------
(* The contract of the mail station.                                         *)

(* An open mailbox is connected once its connect callback has reported       *)
(* success, and, except over mqtt2, not before.                              *)
Hooks ==
    /\ told \in Seq({"ok", "err"})
    /\ Hooked /\ ~closed => connected
    /\ connected /\ ~closed /\ kind # "mqtt2" => Hooked
    /\ kind = "mqtt2" /\ socket = "up" /\ ~closed => connected

LEMMA Hearing ==
    ASSUME told \in Seq({"ok", "err"}), NEW r \in {"ok", "err"}, told' = Append(told, r)
    PROVE  told' \in Seq({"ok", "err"}) /\ Hooked' = (Hooked \/ r = "ok")
<1>1. /\ DOMAIN told = 1..Len(told) /\ DOMAIN told' = 1..(Len(told) + 1) /\ Len(told) \in Nat
      /\ told'[Len(told) + 1] = r
      /\ \A i \in 1..Len(told) : told'[i] = told[i]
  OBVIOUS
<1>2. \A i \in DOMAIN told' : i \in DOMAIN told \/ i = Len(told) + 1
  BY <1>1
<1>3. Hooked' => Hooked \/ r = "ok"
  BY <1>1, <1>2 DEF Hooked, Said
<1>4. Hooked => Hooked'
  BY <1>1 DEF Hooked, Said
<1>5. r = "ok" => Hooked'
  <2>1. Len(told) + 1 \in DOMAIN told'
    BY <1>1
  <2> QED
    BY <1>1, <2>1 DEF Hooked, Said
<1>6. told' \in Seq({"ok", "err"})
  OBVIOUS
<1>7. Hooked \in BOOLEAN /\ Hooked' \in BOOLEAN
  BY DEF Hooked, Said
<1> QED
  BY <1>3, <1>4, <1>5, <1>6, <1>7

(* What a step of the socket may do to the mailbox, as the contract sees it: *)
(* nothing, open it, or close it.                                            *)
Told == \E r \in {"ok", "err"} : told' = Append(told, r) /\ (r = "ok" => UNCHANGED closed)
OnSocket ==
    /\ UNCHANGED <<kind, reqVars>>
    /\ UNCHANGED told \/ Told
    /\ UNCHANGED closed \/ closed' = TRUE

LEMMA SocketAllowed == ASSUME Hooks, OnSocket PROVE ContractStep
<1>1. UNCHANGED <<requests, Called>>
  BY DEF OnSocket, reqVars, Called, Sends
<1>2. CASE UNCHANGED told
  <2>1. Hooked' = Hooked
    BY <1>2 DEF Hooked, Said
  <2> QED
    BY <1>1, <2>1 DEF OnSocket, ContractStep, Contract!contractVars, Contract!Next, Contract!Close
<1>3. ASSUME NEW r \in {"ok", "err"}, told' = Append(told, r), r = "ok" => UNCHANGED closed
      PROVE  ContractStep
  <2>1. Hooked' = (Hooked \/ r = "ok")
    BY <1>3, Hearing DEF Hooks
  <2>2. CASE r = "ok"
    <3>1. Hooked' = TRUE /\ UNCHANGED closed
      BY <1>3, <2>1, <2>2
    <3> QED
      BY <1>1, <3>1 DEF ContractStep, Contract!Next, Contract!Open
  <2>3. CASE r # "ok"
    <3>1. Hooked' = Hooked
      <4>1. Hooked \in BOOLEAN
        BY DEF Hooked, Said
      <4> QED
        BY <2>1, <2>3, <4>1
    <3> QED
      BY <1>1, <3>1 DEF OnSocket, ContractStep, Contract!contractVars, Contract!Next, Contract!Close
  <2> QED
    BY <2>2, <2>3
<1> QED
  BY <1>2, <1>3 DEF OnSocket, Told

(* The callbacks that have been invoked. *)
LEMMA CalledToo ==
    ASSUME IInv, NEW S \in SUBSET Sends, NEW what \in Results, GiveAll(S, what)
    PROVE  Called' = Called \cup S
<1>1. answers' = [n \in Sends |-> IF n \in S THEN Append(answers[n], what) ELSE answers[n]]
  BY DEF GiveAll
<1>2. \A n \in Sends : answers[n] \in Seq(Results) /\ Append(answers[n], what) # << >>
  BY DEF IInv, Shape
<1>3. \A n \in Sends : answers'[n] # << >> <=> answers[n] # << >> \/ n \in S
  BY <1>1, <1>2
<1> QED
  BY <1>3 DEF Called, Sends

LEMMA NextSend ==
    ASSUME IInv, CanSend
    PROVE  made + 1 \in Sends /\ made + 1 \notin requests /\ made + 1 \notin Called
<1>1. made + 1 \in Sends /\ made + 1 \notin requests
  BY Params DEF IInv, Shape, CanSend
<1>2. answers[made + 1] \in Seq(Results) /\ Len(answers[made + 1]) = 0
  BY <1>1, Params DEF IInv, Shape, Counts
<1>3. answers[made + 1] = << >>
  BY <1>2
<1> QED
  BY <1>1, <1>3 DEF Called

LEMMA RefuseAllowed ==
    ASSUME IInv, Hooks, NEW what \in Results, Refuse(what)
    PROVE  ContractStep
<1>1. /\ CanSend /\ ~(connected /\ ~closed) /\ GiveAll({made + 1}, what)
      /\ UNCHANGED <<requests, told, closed>>
  BY DEF Refuse, connVars
<1>2. made + 1 \in Sends /\ made + 1 \notin requests /\ made + 1 \notin Called
  BY <1>1, NextSend
<1>3. {made + 1} \in SUBSET Sends
  BY <1>2
<1>4. Called' = Called \cup {made + 1}
  BY <1>1, <1>3, CalledToo
<1>5. Hooked' = Hooked /\ (~Hooked \/ closed)
  BY <1>1 DEF Hooked, Said, Hooks
<1>6. Contract!Refuse(made + 1)
  BY <1>1, <1>2, <1>4, <1>5 DEF Contract!Refuse, Contract!New
<1> QED
  BY <1>2, <1>6 DEF ContractStep, Contract!Next

LEMMA AcceptAllowed ==
    ASSUME IInv, NEW packed \in BOOLEAN, NEW writable \in BOOLEAN, Accept(packed, writable),
           Hooked
    PROVE  ContractStep
<1>1. /\ CanSend /\ ~closed /\ requests' = requests \cup {made + 1}
      /\ UNCHANGED <<answers, told, closed>>
  BY DEF Accept, connVars
<1>2. made + 1 \in Sends /\ made + 1 \notin requests /\ made + 1 \notin Called
  BY <1>1, NextSend
<1>3. Called' = Called /\ Hooked' = Hooked
  BY <1>1 DEF Called, Sends, Hooked, Said
<1>4. Contract!Accept(made + 1)
  BY <1>1, <1>2, <1>3 DEF Contract!Accept, Contract!New
<1> QED
  BY <1>2, <1>4 DEF ContractStep, Contract!Next

LEMMA SettleAllowed ==
    ASSUME IInv, NEW S \in SUBSET requests, NEW what \in Results,
           requests' = requests \ S, GiveAll(S, what), UNCHANGED connVars
    PROVE  ContractStep
<1>1. S \in SUBSET Sends
  BY Params DEF IInv, Shape
<1>2. Called' = Called \cup S
  BY <1>1, CalledToo
<1>3. Hooked' = Hooked /\ closed' = closed
  BY DEF connVars, Hooked, Said
<1>4. CASE S \subseteq Called
  BY <1>2, <1>3, <1>4 DEF ContractStep, Contract!contractVars
<1>5. CASE ~(S \subseteq Called)
  <2>1. Contract!Settle(S \ Called)
    BY <1>2, <1>3, <1>5 DEF Contract!Settle
  <2>2. S \ Called \in SUBSET Sends
    BY <1>1
  <2> QED
    BY <2>1, <2>2 DEF ContractStep, Contract!Next
<1> QED
  BY <1>4, <1>5

LEMMA LossAllowed ==
    ASSUME IInv, NEW what \in Results, TellLoss(what), UNCHANGED told,
           UNCHANGED closed \/ closed' = TRUE
    PROVE  ContractStep
<1>1. requests' = requests /\ requests \in SUBSET Sends
  BY Params DEF TellLoss, IInv, Shape
<1>2. Called' = Called \cup requests
  BY <1>1, CalledToo DEF TellLoss
<1>3. Hooked' = Hooked
  BY DEF Hooked, Said
<1>4. CASE closed' = TRUE
  <2>1. Contract!Lose
    BY <1>1, <1>2, <1>3, <1>4 DEF Contract!Lose
  <2> QED
    BY <2>1 DEF ContractStep, Contract!Next
<1>5. CASE UNCHANGED closed /\ requests \subseteq Called
  BY <1>1, <1>2, <1>3, <1>5 DEF ContractStep, Contract!contractVars
<1>6. CASE UNCHANGED closed /\ ~(requests \subseteq Called)
  <2>1. Contract!Settle(requests \ Called)
    BY <1>1, <1>2, <1>3, <1>6 DEF Contract!Settle
  <2>2. requests \ Called \in SUBSET Sends
    BY <1>1
  <2> QED
    BY <2>1, <2>2 DEF ContractStep, Contract!Next
<1> QED
  BY <1>4, <1>5, <1>6

(* The base operations that all four have. *)
LEMMA BaseAllowed ==
    ASSUME IInv, Hooks, NEW what \in Results,
           \/ Refuse(what)
           \/ FlushQueue
           \/ Hooked /\ \E p \in BOOLEAN, w \in BOOLEAN : Accept(p, w)
           \/ \E S \in SUBSET Sends : Replied(S)
           \/ \E m \in Sends : Expire(m) /\ GiveAll({m}, what)
    PROVE  ContractStep
<1>1. CASE Refuse(what)
  BY <1>1, RefuseAllowed
<1>2. CASE FlushQueue
  BY <1>2 DEF FlushQueue, connVars, ContractStep, Contract!contractVars, Hooked, Said, Called, Sends
<1>3. CASE Hooked /\ \E p \in BOOLEAN, w \in BOOLEAN : Accept(p, w)
  BY <1>3, AcceptAllowed
<1>4. ASSUME NEW S \in SUBSET Sends, Replied(S) PROVE ContractStep
  <2>1. /\ GiveAll(S \cap requests, "reply") /\ requests' = requests \ (S \cap requests)
        /\ UNCHANGED connVars
    BY <1>4 DEF Replied
  <2> QED
    BY <2>1, SettleAllowed DEF Results
<1>5. ASSUME NEW m \in Sends, Expire(m), GiveAll({m}, what) PROVE ContractStep
  <2>1. {m} \in SUBSET requests /\ requests' = requests \ {m} /\ UNCHANGED connVars
    BY <1>5 DEF Expire, IInv, Shape
  <2> QED
    BY <1>5, <2>1, SettleAllowed
<1> QED
  BY <1>1, <1>2, <1>3, <1>4, <1>5

(* Hooks through the events of a socket. *)
LEMMA HooksUnmoved == ASSUME Hooks, UNCHANGED connVars PROVE Hooks'
  BY DEF connVars, Hooks, Hooked, Said

LEMMA HooksKept ==
    ASSUME Hooks, kind # "mqtt2", UNCHANGED kind,
           \/ UNCHANGED told /\ (closed' \/ UNCHANGED <<connected, closed>>)
           \/ told' = Append(told, "ok") /\ connected'
           \/ told' = Append(told, "err") /\ (closed' \/ UNCHANGED <<connected, closed>>)
    PROVE  Hooks'
<1>1. CASE UNCHANGED told /\ (closed' \/ UNCHANGED <<connected, closed>>)
  BY <1>1 DEF Hooks, Hooked, Said
<1>2. CASE told' = Append(told, "ok") /\ connected'
  BY <1>2, Hearing DEF Hooks
<1>3. CASE told' = Append(told, "err") /\ (closed' \/ UNCHANGED <<connected, closed>>)
  <2>1. told' \in Seq({"ok", "err"}) /\ (Hooked' <=> Hooked)
    BY <1>3, Hearing DEF Hooks
  <2> QED
    BY <1>3, <2>1 DEF Hooks
<1> QED
  BY <1>1, <1>2, <1>3

LEMMA Mqtt2HooksKept ==
    ASSUME Hooks, kind = "mqtt2", UNCHANGED kind,
           \/ /\ UNCHANGED told
              /\ \/ closed'
                 \/ UNCHANGED <<connected, closed>> /\ (socket' = "up" => socket = "up")
                 \/ connected' /\ UNCHANGED closed
           \/ told' = Append(told, "ok") /\ socket = "up" /\ UNCHANGED <<connected, closed>>
    PROVE  Hooks'
<1>1. CASE UNCHANGED told
  BY <1>1 DEF Hooks, Hooked, Said
<1>2. CASE told' = Append(told, "ok") /\ socket = "up" /\ UNCHANGED <<connected, closed>>
  BY <1>2, Hearing DEF Hooks
<1> QED
  BY <1>1, <1>2

(* The sockets one by one. *)
LEMMA TcpAllowed == ASSUME IInv, Hooks, kind = "tcp", Tcp!Next PROVE ContractStep /\ Hooks'
<1>1. CASE Tcp!Connect \/ Tcp!Connected \/ Tcp!SocketError \/ Tcp!SocketEnd \/ Tcp!Close
  <2>1. OnSocket
    BY <1>1 DEF Tcp!Connect, Tcp!Connected, Tcp!SocketError, Tcp!SocketEnd, Tcp!Close,
         Tcp!Tell, Tcp!EmitClose, Tcp!ShutOnce, Tcp!reqVars, reqVars, OnSocket, Told
  <2>2. \/ UNCHANGED told /\ (closed' \/ UNCHANGED <<connected, closed>>)
        \/ told' = Append(told, "ok") /\ connected'
        \/ told' = Append(told, "err") /\ UNCHANGED <<connected, closed>>
    BY <1>1 DEF Tcp!Connect, Tcp!Connected, Tcp!SocketError, Tcp!SocketEnd, Tcp!Close,
         Tcp!Tell, Tcp!EmitClose, Tcp!ShutOnce
  <2> QED
    BY <2>1, <2>2, SocketAllowed, HooksKept DEF OnSocket
<1>2. CASE ~(Tcp!Connect \/ Tcp!Connected \/ Tcp!SocketError \/ Tcp!SocketEnd \/ Tcp!Close)
  <2>1. UNCHANGED connVars
    BY <1>2 DEF Tcp!Next, Tcp!SendRefused, Tcp!Send, Tcp!Flush, Tcp!Replies, Tcp!RequestTimesOut,
         Tcp!Refuse, Tcp!Accept, Tcp!FlushQueue, Tcp!Replied, Tcp!Expire, Tcp!connVars, connVars
  <2>2. ASSUME Tcp!SendRefused \/ Tcp!Flush PROVE ContractStep
    BY <2>2, TcpOps, TcpBase, BaseAllowed DEF Tcp!SendRefused, Tcp!Flush, Results
  <2>3. ASSUME Tcp!Send PROVE ContractStep
    <3>1. Accept(TRUE, TRUE)
      BY <2>3, TcpOps DEF Tcp!Send
    <3>2. Hooked
      BY <3>1 DEF Accept, Hooks
    <3> QED
      BY <3>1, <3>2, BaseAllowed DEF Results
  <2>4. ASSUME NEW S \in SUBSET Sends, Tcp!Replies(S) PROVE ContractStep
    BY <2>4, TcpOps, BaseAllowed DEF Tcp!Replies, Results
  <2>5. ASSUME NEW m \in Sends, Tcp!RequestTimesOut(m) PROVE ContractStep
    BY <2>5, TcpOps, BaseAllowed DEF Tcp!RequestTimesOut, Results
  <2> QED
    BY <1>2, <2>1, <2>2, <2>3, <2>4, <2>5, TcpBase, HooksUnmoved DEF Tcp!Next
<1> QED
  BY <1>1, <1>2

LEMMA WsAllowed == ASSUME IInv, Hooks, kind = "ws", Ws!Next PROVE ContractStep /\ Hooks'
<1>1. CASE Ws!Connect \/ Ws!Connected \/ Ws!SocketError \/ Ws!Close
  <2>1. OnSocket
    BY <1>1 DEF Ws!Connect, Ws!Connected, Ws!SocketError, Ws!Close,
         Ws!Tell, Ws!EmitClose, Ws!ShutOnce, Ws!reqVars, reqVars, OnSocket, Told
  <2>2. \/ UNCHANGED told /\ (closed' \/ UNCHANGED <<connected, closed>>)
        \/ told' = Append(told, "ok") /\ connected'
        \/ told' = Append(told, "err") /\ (closed' \/ UNCHANGED <<connected, closed>>)
    BY <1>1 DEF Ws!Connect, Ws!Connected, Ws!SocketError, Ws!Close,
         Ws!Tell, Ws!EmitClose, Ws!ShutOnce
  <2> QED
    BY <2>1, <2>2, SocketAllowed, HooksKept DEF OnSocket
<1>2. CASE Ws!Disconnected
  <2>1. /\ TellLoss("error") /\ UNCHANGED <<kind, told>>
        /\ closed' = TRUE \/ UNCHANGED <<connected, closed>>
    BY <1>2, WsOps DEF Ws!Disconnected, Ws!EmitClose, Ws!ShutOnce
  <2> QED
    BY <2>1, LossAllowed, HooksKept DEF Results
<1>3. CASE ~(Ws!Connect \/ Ws!Connected \/ Ws!SocketError \/ Ws!Disconnected \/ Ws!Close)
  <2>1. UNCHANGED connVars
    BY <1>3 DEF Ws!Next, Ws!SendRefused, Ws!Send, Ws!Flush, Ws!Replies, Ws!RequestTimesOut,
         Ws!Refuse, Ws!Accept, Ws!FlushQueue, Ws!Replied, Ws!Expire, Ws!connVars, connVars
  <2>2. ASSUME Ws!SendRefused \/ Ws!Flush PROVE ContractStep
    BY <2>2, WsOps, WsBase, BaseAllowed DEF Ws!SendRefused, Ws!Flush, Results
  <2>3. ASSUME Ws!Send PROVE ContractStep
    <3>1. Accept(TRUE, TRUE)
      BY <2>3, WsOps DEF Ws!Send
    <3>2. Hooked
      BY <3>1 DEF Accept, Hooks
    <3> QED
      BY <3>1, <3>2, BaseAllowed DEF Results
  <2>4. ASSUME NEW S \in SUBSET Sends, Ws!Replies(S) PROVE ContractStep
    BY <2>4, WsOps, BaseAllowed DEF Ws!Replies, Results
  <2>5. ASSUME NEW m \in Sends, Ws!RequestTimesOut(m) PROVE ContractStep
    BY <2>5, WsOps, BaseAllowed DEF Ws!RequestTimesOut, Results
  <2> QED
    BY <1>3, <2>1, <2>2, <2>3, <2>4, <2>5, WsBase, HooksUnmoved DEF Ws!Next
<1> QED
  BY <1>1, <1>2, <1>3

LEMMA Ws2Allowed == ASSUME IInv, Hooks, kind = "ws2", Ws2!Next PROVE ContractStep /\ Hooks'
<1> DEFINE Quietly == \/ Ws2!Connect \/ Ws2!Opened \/ Ws2!SocketError \/ Ws2!PeerCloses
                      \/ Ws2!KeepAliveFails \/ Ws2!Close \/ Ws2!FlushThrows
<1>1. CASE Quietly
  <2>1. OnSocket
    BY <1>1 DEF Ws2!Connect, Ws2!Opened, Ws2!SocketError, Ws2!PeerCloses, Ws2!KeepAliveFails,
         Ws2!Close, Ws2!FlushThrows, Ws2!Tell, Ws2!ShutOnce, Ws2!reqVars, reqVars, OnSocket, Told
  <2>2. \/ UNCHANGED told /\ (closed' \/ UNCHANGED <<connected, closed>>)
        \/ told' = Append(told, "ok") /\ connected'
        \/ told' = Append(told, "err") /\ closed'
    BY <1>1 DEF Ws2!Connect, Ws2!Opened, Ws2!SocketError, Ws2!PeerCloses, Ws2!KeepAliveFails,
         Ws2!Close, Ws2!FlushThrows, Ws2!Tell, Ws2!ShutOnce
  <2> QED
    BY <2>1, <2>2, SocketAllowed, HooksKept DEF OnSocket
<1>2. CASE Ws2!SocketClosed
  <2>1. TellLoss("hollow") /\ UNCHANGED <<kind, told>> /\ closed' = TRUE
    BY <1>2, Ws2Ops DEF Ws2!SocketClosed, Ws2!ShutOnce
  <2> QED
    BY <2>1, LossAllowed, HooksKept DEF Results
<1>3. CASE ~(Quietly \/ Ws2!SocketClosed)
  <2>1. UNCHANGED connVars
    BY <1>3 DEF Ws2!Next, Ws2!SendRefused, Ws2!Send, Ws2!Flush, Ws2!Replies, Ws2!RequestTimesOut,
         Ws2!Refuse, Ws2!Accept, Ws2!FlushQueue, Ws2!Replied, Ws2!Expire, Ws2!connVars, connVars
  <2>2. ASSUME Ws2!SendRefused \/ Ws2!Flush PROVE ContractStep
    BY <2>2, Ws2Ops, Ws2Base, BaseAllowed DEF Ws2!SendRefused, Ws2!Flush, Results
  <2>3. ASSUME Ws2!Send PROVE ContractStep
    <3>1. (socket = "up") \in BOOLEAN
      OBVIOUS
    <3>2. Accept(TRUE, socket = "up")
      BY <2>3, <3>1, Ws2Ops DEF Ws2!Send
    <3>3. Hooked
      BY <3>2 DEF Accept, Hooks
    <3> QED
      BY <3>1, <3>2, <3>3, BaseAllowed DEF Results
  <2>4. ASSUME NEW S \in SUBSET Sends, Ws2!Replies(S) PROVE ContractStep
    BY <2>4, Ws2Ops, BaseAllowed DEF Ws2!Replies, Results
  <2>5. ASSUME \E m \in Sends : Ws2!RequestTimesOut(m) PROVE ContractStep
    BY <2>5 DEF ContractStep
  <2> QED
    BY <1>3, <2>1, <2>2, <2>3, <2>4, <2>5, Ws2Base, HooksUnmoved DEF Ws2!Next
<1> QED
  BY <1>1, <1>2, <1>3

LEMMA Mqtt2Allowed == ASSUME IInv, Hooks, kind = "mqtt2", Mqtt2!Next PROVE ContractStep /\ Hooks'
<1> DEFINE Quietly == \/ Mqtt2!Connect \/ Mqtt2!ConnectWritten \/ Mqtt2!ConnectTimesOut
                      \/ Mqtt2!Handshake \/ Mqtt2!SocketError \/ Mqtt2!PeerVanishes
                      \/ Mqtt2!KeepAliveFails \/ Mqtt2!Close
<1>1. CASE Quietly
  <2>1. OnSocket
    BY <1>1 DEF Mqtt2!Connect, Mqtt2!ConnectWritten, Mqtt2!ConnectTimesOut, Mqtt2!Handshake,
         Mqtt2!SocketError, Mqtt2!PeerVanishes, Mqtt2!KeepAliveFails, Mqtt2!Close, Mqtt2!Tell,
         Mqtt2!Shut, Mqtt2!EmitClose, Mqtt2!ShutOnce, Mqtt2!reqVars, reqVars, OnSocket, Told
  <2>2. \/ /\ UNCHANGED told
           /\ \/ closed'
              \/ UNCHANGED <<connected, closed>> /\ (socket' = "up" => socket = "up")
              \/ connected' /\ UNCHANGED closed
        \/ told' = Append(told, "ok") /\ socket = "up" /\ UNCHANGED <<connected, closed>>
    BY <1>1 DEF Mqtt2!Connect, Mqtt2!ConnectWritten, Mqtt2!ConnectTimesOut, Mqtt2!Handshake,
         Mqtt2!SocketError, Mqtt2!PeerVanishes, Mqtt2!KeepAliveFails, Mqtt2!Close, Mqtt2!Tell,
         Mqtt2!Shut, Mqtt2!EmitClose, Mqtt2!ShutOnce
  <2> QED
    BY <2>1, <2>2, SocketAllowed, Mqtt2HooksKept DEF OnSocket
<1>2. CASE Mqtt2!PeerDisconnect
  <2>1. /\ TellLoss("error") /\ UNCHANGED <<kind, told, socket>>
        /\ closed' = TRUE \/ UNCHANGED <<connected, closed>>
    BY <1>2, Mqtt2Ops DEF Mqtt2!PeerDisconnect, Mqtt2!EmitClose, Mqtt2!ShutOnce
  <2> QED
    BY <2>1, LossAllowed, Mqtt2HooksKept DEF Results
<1>3. CASE ~(Quietly \/ Mqtt2!PeerDisconnect)
  <2>1. UNCHANGED connVars
    BY <1>3 DEF Mqtt2!Next, Mqtt2!SendRefused, Mqtt2!Send, Mqtt2!Flush, Mqtt2!Replies,
         Mqtt2!RequestTimesOut, Mqtt2!Refuse, Mqtt2!Accept, Mqtt2!FlushQueue, Mqtt2!Replied,
         Mqtt2!Expire, Mqtt2!connVars, connVars
  <2>2. ASSUME Mqtt2!SendRefused \/ Mqtt2!Flush PROVE ContractStep
    BY <2>2, Mqtt2Ops, Mqtt2Base, BaseAllowed DEF Mqtt2!SendRefused, Mqtt2!Flush, Results
  <2>3. ASSUME Mqtt2!Send PROVE ContractStep
    <3>1. Mqtt2!Hooked \in BOOLEAN
      BY DEF Mqtt2!Hooked, Mqtt2!Said
    <3>2. Accept(Mqtt2!Hooked, TRUE)
      BY <2>3, <3>1, Mqtt2Ops DEF Mqtt2!Send
    <3>3. CASE Hooked
      BY <3>1, <3>2, <3>3, BaseAllowed DEF Results
    <3>4. CASE ~Hooked
      BY <2>3, <3>4 DEF ContractStep
    <3> QED
      BY <3>3, <3>4
  <2>4. ASSUME NEW m \in Sends, Mqtt2!Replies(m) PROVE ContractStep
    <3>1. {m} \in SUBSET Sends /\ Replied({m})
      BY <2>4, Mqtt2Ops DEF Mqtt2!Replies
    <3> QED
      BY <3>1, BaseAllowed DEF Results
  <2>5. ASSUME NEW m \in Sends, Mqtt2!RequestTimesOut(m) PROVE ContractStep
    BY <2>5, Mqtt2Ops, BaseAllowed DEF Mqtt2!RequestTimesOut, Results
  <2> QED
    BY <1>3, <2>1, <2>2, <2>3, <2>4, <2>5, Mqtt2Base, HooksUnmoved DEF Mqtt2!Next
<1> QED
  BY <1>1, <1>2, <1>3

(* Every step of every transport is one of the contract that the mail        *)
(* station is modelled on, but for the two exceptions of KeepsContract: what *)
(* it relies on of each send(), for any number of them.                      *)
THEOREM ContractKept == Spec => KeepsContract
<1>1. TransportsInit => Contract!Init /\ Hooks
  <2> SUFFICES ASSUME TransportsInit PROVE Contract!Init /\ Hooks
    OBVIOUS
  <2>1. /\ told = << >> /\ closed = FALSE /\ connected = FALSE /\ requests = {}
        /\ socket = "none" /\ \A n \in Sends : answers[n] = << >>
    BY DEF TransportsInit, Init
  <2>2. << >> \in Seq({"ok", "err"}) /\ DOMAIN << >> = {}
    OBVIOUS
  <2>3. Hooked = FALSE
    BY <2>1, <2>2 DEF Hooked, Said
  <2>4. Called = {}
    BY <2>1 DEF Called
  <2> QED
    BY <2>1, <2>2, <2>3, <2>4 DEF Contract!Init, Hooks
<1>2. IInv /\ Hooks /\ [TransportsNext]_vars => Hooks' /\ [ContractStep]_vars
  <2>1. ASSUME IInv, Hooks, TransportsNext PROVE Hooks' /\ ContractStep
    BY <2>1, TcpAllowed, WsAllowed, Ws2Allowed, Mqtt2Allowed DEF TransportsNext
  <2>2. ASSUME Hooks, UNCHANGED vars PROVE Hooks'
    BY <2>2, HooksUnmoved DEF vars
  <2> QED
    BY <2>1, <2>2
<1> QED
  BY InitInv, StepInv, <1>1, <1>2, PTL DEF Spec, KeepsContract
=============================================================================
