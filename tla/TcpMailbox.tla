----------------------------- MODULE TcpMailbox -----------------------------
(***************************************************************************)
(* The mailbox over a plain tcp socket                                      *)
(* (lib/rpc-client/mailboxes/tcp-mailbox.ts).  close() only ends the        *)
(* socket: data, the end and an error of it are still heard afterwards.     *)
(***************************************************************************)
EXTENDS MailboxBase

Connect ==
    /\ socket = "none" /\ socket' = "dialing"
    /\ UNCHANGED <<kind, bufferMsg, connTimer, connected, closed, told, uncaught, reqVars>>

(* Nothing here looks at closed: a socket that was ended while it was        *)
(* dialing connects first.                                                   *)
Connected ==
    /\ socket = "dialing" /\ socket' = "up"
    /\ connected' = TRUE
    /\ Tell("ok")
    /\ UNCHANGED <<kind, bufferMsg, connTimer, closed, uncaught, reqVars>>

(* 'error': the connect callback hears of it unless the mailbox is           *)
(* connected; then the mailbox emits 'error', to which nobody listens, so    *)
(* that emit throws.                                                         *)
SocketError ==
    /\ socket \in {"dialing", "up"} /\ socket' = "gone"
    /\ IF connected THEN uncaught' = TRUE /\ UNCHANGED told
                    ELSE Tell("err") /\ UNCHANGED uncaught
    /\ UNCHANGED <<kind, bufferMsg, connTimer, connected, closed, reqVars>>

(* Mutant: the end of the socket is not reported. *)
SocketEndUnheard ==
    /\ socket = "up" /\ socket' = "gone"
    /\ UNCHANGED <<kind, bufferMsg, connTimer, connected, closed, told, uncaught, reqVars>>

(* 'end' of the socket. *)
SocketEnd ==
    /\ socket = "up" /\ socket' = "gone"
    /\ EmitClose
    /\ UNCHANGED <<kind, bufferMsg, connTimer, told, uncaught, reqVars>>

Close ==
    /\ socket # "none" /\ ~closed
    /\ ShutOnce
    /\ UNCHANGED <<kind, bufferMsg, socket, connTimer, told, uncaught, reqVars>>

SendRefused == Refuse("hollow")
Send        == Accept(TRUE, TRUE)
Flush       == FlushQueue
Replies(S)  == socket = "up" /\ Replied(S)

RequestTimesOut(n) == Expire(n) /\ GiveAll({n}, "hollow")

Next ==
    \/ Connect
    \/ Connected
    \/ SocketError
    \/ SocketEnd
    \/ Close
    \/ SendRefused
    \/ Send
    \/ Flush
    \/ \E S \in SUBSET Sends : Replies(S)
    \/ \E n \in Sends : RequestTimesOut(n)
=============================================================================
