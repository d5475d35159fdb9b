----------------------------- MODULE Ws2Mailbox -----------------------------
(***************************************************************************)
(* The mailbox over the ws library                                          *)
(* (lib/rpc-client/mailboxes/ws2-mailbox.ts).  Its close() starts a closing *)
(* handshake: replies may come until the socket reports 'close'.  A socket  *)
(* in a closing handshake ("ending") throws on send.                        *)
(***************************************************************************)
EXTENDS MailboxBase

Connect ==
    /\ socket = "none" /\ socket' = "dialing"
    /\ UNCHANGED <<kind, bufferMsg, connTimer, connected, closed, told, uncaught, reqVars>>

Opened ==
    /\ socket = "dialing" /\ ~closed /\ socket' = "up"
    /\ connected' = TRUE
    /\ Tell("ok")
    /\ UNCHANGED <<kind, bufferMsg, connTimer, closed, uncaught, reqVars>>

(* Mutant: an error does not close the mailbox. *)
SocketErrorUnclosed ==
    /\ socket \in {"dialing", "up"} /\ socket' = "ending"
    /\ Tell("err")
    /\ UNCHANGED <<kind, bufferMsg, connTimer, connected, closed, uncaught, reqVars>>

(* 'error': the handshake fails, or close() aborts it, or an open connection *)
(* breaks; the connect callback is invoked in each case.                     *)
SocketError ==
    /\ socket \in {"dialing", "up"} /\ socket' = "ending"
    /\ Tell("err")
    /\ ShutOnce
    /\ UNCHANGED <<kind, bufferMsg, connTimer, uncaught, reqVars>>

(* The server starts a closing handshake; no event tells of it. *)
PeerCloses ==
    /\ socket = "up" /\ socket' = "ending"
    /\ UNCHANGED <<kind, bufferMsg, connTimer, connected, closed, told, uncaught, reqVars>>

(* 'close' of the socket: the waiting callbacks, the event, close(). *)
SocketClosed ==
    /\ socket \in {"up", "ending"} /\ socket' = "gone"
    /\ TellLoss("hollow")
    /\ ShutOnce
    /\ UNCHANGED <<kind, bufferMsg, connTimer, told, uncaught>>

(* checkKeepAlive finds the peer silent: it closes the mailbox and emits     *)
(* nothing; the station learns of it with the 'close' of the socket.         *)
KeepAliveFails ==
    /\ connected /\ ~closed
    /\ ShutOnce
    /\ UNCHANGED <<kind, bufferMsg, socket, connTimer, told, uncaught, reqVars>>

Close ==
    /\ socket # "none" /\ ~closed
    /\ ShutOnce
    /\ UNCHANGED <<kind, bufferMsg, socket, connTimer, told, uncaught, reqVars>>

SendRefused == Refuse("error")
Send        == Accept(TRUE, socket = "up")

Flush == socket = "up" /\ FlushQueue

(* The interval meets a socket in its closing handshake. *)
FlushThrows ==
    /\ bufferMsg /\ connected /\ ~closed /\ queue # << >> /\ socket = "ending"
    /\ uncaught' = TRUE
    /\ UNCHANGED <<kind, bufferMsg, socket, connTimer, connected, closed, told, reqVars>>

Replies(S) == socket = "up" /\ Replied(S)

(* The timer forgets the request and calls nobody. *)
RequestTimesOut(n) == Expire(n) /\ UNCHANGED answers

Next ==
    \/ Connect
    \/ Opened
    \/ SocketError
    \/ PeerCloses
    \/ SocketClosed
    \/ KeepAliveFails
    \/ Close
    \/ SendRefused
    \/ Send
    \/ Flush
    \/ FlushThrows
    \/ \E S \in SUBSET Sends : Replies(S)
    \/ \E n \in Sends : RequestTimesOut(n)
=============================================================================
