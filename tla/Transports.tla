----------------------------- MODULE Transports -----------------------------
(***************************************************************************)
(* One mailbox of the tcp, ws, ws2 or mqtt2 transport, as the option        *)
(* mailboxFactory says (mailstation.ts:75; the default is mqtt, which is    *)
(* MqttMailbox), and what the four have to keep: the contract the mail      *)
(* station builds on, with the exceptions each of them makes.               *)
(***************************************************************************)
EXTENDS MailboxBase

Tcp   == INSTANCE TcpMailbox
Ws    == INSTANCE WsMailbox
Ws2   == INSTANCE Ws2Mailbox
Mqtt2 == INSTANCE Mqtt2Mailbox

Kinds == {"tcp", "ws", "ws2", "mqtt2"}

TransportsInit == Init /\ kind \in Kinds

TransportsNext ==
    \/ kind = "tcp"   /\ Tcp!Next
    \/ kind = "ws"    /\ Ws!Next
    \/ kind = "ws2"   /\ Ws2!Next
    \/ kind = "mqtt2" /\ Mqtt2!Next

TimesOut(n) ==
    \/ kind = "tcp"   /\ Tcp!RequestTimesOut(n)
    \/ kind = "ws"    /\ Ws!RequestTimesOut(n)
    \/ kind = "ws2"   /\ Ws2!RequestTimesOut(n)
    \/ kind = "mqtt2" /\ Mqtt2!RequestTimesOut(n)

Spec == TransportsInit /\ [][TransportsNext]_vars

(* The timers of the code fire: those of the requests, and the keep-alive   *)
(* of mqtt2, which finds a vanished peer silent.                            *)
FairSpec ==
    /\ Spec
    /\ \A n \in Sends : WF_vars(TimesOut(n))
    /\ WF_vars(kind = "mqtt2" /\ socket = "gone" /\ Mqtt2!KeepAliveFails)

-----------------------------------------------------------------------------
(* PROPERTIES *)

(* A callback runs at most once per send, and twice only where a disconnect *)
(* handler has told every waiting callback and left its request behind for  *)
(* the timer (ws-mailbox.ts:121-125, mqtt2-mailbox.ts:148-152; the timer of *)
(* ws2 calls nobody).                                                       *)
AnsweredOnce ==
    \A n \in Sends :
        Len(answers[n]) <= (IF lost /\ kind \in {"ws", "mqtt2"} THEN 2 ELSE 1)

(* The station drops a mailbox whose connect callback reports an error and  *)
(* does not close it.  Such a mailbox holds no connection and gets none,    *)
(* except over socket.io, whose 'error' leaves the socket dialing.          *)
DroppedIsDead == Said("err") => closed \/ socket = "gone" \/ kind = "ws"

(* A closed mailbox writes nothing and accepts nothing, whatever events and *)
(* timers of its socket still come.                                         *)
ClosedIsSilent == [][closed => sent' = sent /\ requests' \subseteq requests]_vars

(* The mailbox in the terms of the contract: those called back by a loss     *)
(* count as settled.                                                         *)
Called == {n \in Sends : answers[n] # << >>}

Contract == INSTANCE MailboxContract WITH
    ready   <- Hooked,
    pending <- requests \ Called,
    settled <- Called

ContractStep ==
    \/ Contract!Next
    \/ UNCHANGED Contract!contractVars
    \/ kind = "ws2"   /\ \E n \in Sends : Ws2!RequestTimesOut(n)
    \/ kind = "mqtt2" /\ ~Hooked /\ Mqtt2!Send

(* What each send() of the mail station may rely on: every step is one of    *)
(* MailboxContract, except that a timer of ws2 forgets a request without a   *)
(* callback (ws2-mailbox.ts:341-352), and that mqtt2, connected once its     *)
(* CONNECT is written (mqtt2-mailbox.ts:97-113), takes requests before the   *)
(* handshake that the connect callback waits for (mqtt2-mailbox.ts:117-121,  *)
(* 190).  What is settled may be called again: AnsweredOnce says when.       *)
KeepsContract == Contract!Init /\ [][ContractStep]_vars

(* No send is kept for ever, and each gets its callback invoked, except     *)
(* that of ws2 whose timer calls nobody.                                    *)
EverySendEnds ==
    \A n \in Sends :
        made >= n ~> n \notin requests /\ (answers[n] # << >> \/ kind = "ws2")

(* A mailbox in the station's map whose connection is gone is closed in the *)
(* end, unless it was the 'error' of a connected tcp socket, which throws.  *)
DeadIsNoticed == socket = "gone" /\ Heard ~> closed \/ (kind = "tcp" /\ uncaught)
=============================================================================
