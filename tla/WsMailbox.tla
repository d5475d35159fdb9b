----------------------------- MODULE WsMailbox -----------------------------
(***************************************************************************)
(* The mailbox over socket.io (lib/rpc-client/mailboxes/ws-mailbox.ts).  A  *)
(* socket that close() disconnects takes in no message any more, and        *)
(* reports 'disconnect' if it was connected.                                *)
(***************************************************************************)
EXTENDS MailboxBase

Connect ==
    /\ socket = "none" /\ socket' = "dialing"
    /\ UNCHANGED <<kind, bufferMsg, connTimer, connected, closed, told, uncaught, reqVars>>

(* 'connect'; a second one is ignored. *)
Connected ==
    /\ socket = "dialing" /\ socket' = "up"
    /\ connected' = TRUE
    /\ Tell("ok")
    /\ UNCHANGED <<kind, bufferMsg, connTimer, closed, uncaught, reqVars>>

(* 'error' emits 'close' and invokes the connect callback, also when that    *)
(* has been invoked already.  The socket may still connect.                  *)
SocketError ==
    /\ socket \in {"dialing", "up"} /\ ~closed /\ Len(told) < MaxTold
    /\ EmitClose
    /\ Tell("err")
    /\ UNCHANGED <<kind, bufferMsg, socket, connTimer, uncaught, reqVars>>

(* 'disconnect': by the server, by the network, or by close(). *)
Disconnected ==
    /\ socket = "up" /\ socket' = "gone"
    /\ TellLoss("error")
    /\ EmitClose
    /\ UNCHANGED <<kind, bufferMsg, connTimer, told, uncaught>>

Close ==
    /\ socket # "none" /\ ~closed
    /\ ShutOnce
    /\ socket' = IF socket = "dialing" THEN "gone" ELSE socket
    /\ UNCHANGED <<kind, bufferMsg, connTimer, told, uncaught, reqVars>>

SendRefused == Refuse("error")
Send        == Accept(TRUE, TRUE)
Flush       == FlushQueue
Replies(S)  == socket = "up" /\ ~closed /\ Replied(S)

RequestTimesOut(n) == Expire(n) /\ GiveAll({n}, "error")

Next ==
    \/ Connect
    \/ Connected
    \/ SocketError
    \/ Disconnected
    \/ Close
    \/ SendRefused
    \/ Send
    \/ Flush
    \/ \E S \in SUBSET Sends : Replies(S)
    \/ \E n \in Sends : RequestTimesOut(n)
=============================================================================
