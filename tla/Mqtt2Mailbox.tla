---------------------------- MODULE Mqtt2Mailbox ----------------------------
(***************************************************************************)
(* The mailbox over mqtt with encoded messages                              *)
(* (lib/rpc-client/mailboxes/mqtt2-mailbox.ts).  The server introduces      *)
(* itself with a handshake that carries the numbers of its services; the    *)
(* connect callback waits for it.  close() destroys the socket, which is    *)
(* silent afterwards.  The tracer is off, so every request is encoded.      *)
(***************************************************************************)
EXTENDS MailboxBase

Listening == socket \in {"dialing", "up"} /\ ~closed

Connect ==
    /\ socket = "none" /\ socket' = "dialing"
    /\ connTimer' = TRUE
    /\ UNCHANGED <<kind, bufferMsg, connected, closed, told, uncaught, reqVars>>

(* The CONNECT packet has been written, which a destroyed socket may report  *)
(* too: the timer is off, the intervals start, the callback still waits.     *)
ConnectWritten ==
    /\ socket = "dialing" /\ socket' = "up"
    /\ connected' = TRUE /\ connTimer' = FALSE
    /\ UNCHANGED <<kind, bufferMsg, closed, told, uncaught, reqVars>>

ConnectTimesOut ==
    /\ connTimer /\ connTimer' = FALSE
    /\ EmitClose
    /\ UNCHANGED <<kind, bufferMsg, socket, told, uncaught, reqVars>>

(* Every handshake stores the services and invokes the connect callback. *)
Handshake ==
    /\ socket = "up" /\ Listening /\ Len(told) < MaxTold
    /\ Tell("ok")
    /\ UNCHANGED <<kind, bufferMsg, socket, connTimer, connected, closed, uncaught, reqVars>>

Shut == closed' = TRUE /\ connected' = FALSE

(* 'close' is emitted, then close() called: the same as close(). *)
SocketError ==
    /\ Listening /\ socket' = "gone"
    /\ Shut
    /\ UNCHANGED <<kind, bufferMsg, connTimer, told, uncaught, reqVars>>

(* The stream ends, by the peer or the network; nothing listens for that. *)
PeerVanishes ==
    /\ socket = "up" /\ socket' = "gone"
    /\ UNCHANGED <<kind, bufferMsg, connTimer, connected, closed, told, uncaught, reqVars>>

(* checkKeepAlive, on its interval: 'close' is emitted, no more. *)
KeepAliveFails ==
    /\ connected /\ ~closed
    /\ EmitClose
    /\ UNCHANGED <<kind, bufferMsg, socket, connTimer, told, uncaught, reqVars>>

(* The DISCONNECT packet, which a server sends once. *)
PeerDisconnect ==
    /\ socket = "up" /\ Listening /\ ~lost
    /\ TellLoss("error")
    /\ EmitClose
    /\ UNCHANGED <<kind, bufferMsg, socket, connTimer, told, uncaught>>

Close ==
    /\ socket # "none"
    /\ Shut
    /\ UNCHANGED <<kind, bufferMsg, socket, connTimer, told, uncaught, reqVars>>

SendRefused == Refuse("error")

(* Before the handshake the encoder finds no services and throws; the        *)
(* request and its timer are filed by then.                                  *)
Send == Accept(Hooked, TRUE)

Flush == FlushQueue

(* A packet that the decoder throws at, as it does at the empty ones of      *)
(* Coder.tla, is caught and logged: nothing changes.                         *)
Replies(n) == socket = "up" /\ Listening /\ Replied({n})

RequestTimesOut(n) == Expire(n) /\ GiveAll({n}, "error")

Next ==
    \/ Connect
    \/ ConnectWritten
    \/ ConnectTimesOut
    \/ Handshake
    \/ SocketError
    \/ PeerVanishes
    \/ KeepAliveFails
    \/ PeerDisconnect
    \/ Close
    \/ SendRefused
    \/ Send
    \/ Flush
    \/ \E n \in Sends : Replies(n) \/ RequestTimesOut(n)
=============================================================================
