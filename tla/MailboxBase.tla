---------------------------- MODULE MailboxBase ----------------------------
(***************************************************************************)
(* What the mailboxes of the other four transports have in common: the      *)
(* fields of the class and what their handlers do with them.  TcpMailbox,   *)
(* WsMailbox, Ws2Mailbox and Mqtt2Mailbox say when, and on which events of  *)
(* the socket; Transports runs them.                                        *)
(*                                                                         *)
(* As in MqttMailbox, the id of a request is the number of its send, and a  *)
(* 'close' event matters for what the station's listener does with it.      *)
(* That listener exists once the connect callback has reported success, and *)
(* it finds the mailbox in its map unless the callback has also reported an *)
(* error, on which the station forgets it (mailstation.ts:404-426).         *)
(***************************************************************************)
EXTENDS Naturals, Sequences

CONSTANTS
    MaxSends,        \* bound: calls of send()
    MaxTold          \* bound: repeated events that invoke the connect callback

ASSUME BaseAssumption == MaxSends \in Nat /\ MaxTold \in Nat

Sends == 1..MaxSends

VARIABLES
    kind,        \* the transport in use
    bufferMsg,   \* the field: are requests queued and flushed?
    socket,      \* "none", "dialing", "up", "ending", or "gone"
    connTimer,   \* the CONNECT_TIMEOUT of mqtt2 is armed
    connected, closed,    \* the fields of the same names
    told,        \* what the connect callback has reported so far, in order
    uncaught,    \* an exception has left a handler of the socket
    lost,        \* a handler has told all waiting callbacks of a disconnection
    made,        \* calls of send() made
    requests, timeouts,   \* keys of the maps of the same names
    queue,       \* buffered requests, oldest first
    sent,        \* history: requests written to the socket, in order
    answers      \* answers[n]: what the callback of send n has been given

connVars == <<kind, bufferMsg, socket, connTimer, connected, closed, told, uncaught>>
reqVars  == <<lost, made, requests, timeouts, queue, sent, answers>>
vars     == <<connVars, reqVars>>

Init ==
    /\ bufferMsg \in BOOLEAN
    /\ socket = "none" /\ connTimer = FALSE /\ connected = FALSE /\ closed = FALSE
    /\ told = << >> /\ uncaught = FALSE /\ lost = FALSE
    /\ made = 0 /\ requests = {} /\ timeouts = {}
    /\ queue = << >> /\ sent = << >>
    /\ answers = [n \in Sends |-> << >>]

Said(r) == \E i \in DOMAIN told : told[i] = r
Hooked  == Said("ok")
Heard   == Hooked /\ ~Said("err")     \* 'close' makes the station close this mailbox

(* The connect callback is invoked. *)
Tell(r) == told' = Append(told, r)

(* close(), which does nothing the second time. *)
ShutOnce == closed' = TRUE /\ connected' = (connected /\ closed)

EmitClose == IF Heard THEN ShutOnce ELSE UNCHANGED <<closed, connected>>

-----------------------------------------------------------------------------
(* A callback is given a reply; an error; or an error in the slot of the     *)
(* tracer, which reads like a reply without a value ("hollow").              *)
GiveAll(S, what) ==
    answers' = [n \in Sends |-> IF n \in S THEN Append(answers[n], what) ELSE answers[n]]

CanSend == socket # "none" /\ made < MaxSends

Refuse(what) ==
    /\ CanSend /\ ~(connected /\ ~closed)
    /\ made' = made + 1
    /\ GiveAll({made + 1}, what)
    /\ UNCHANGED <<connVars, lost, requests, timeouts, queue, sent>>

(* Mutant: send() does not look at closed. *)
AcceptClosed(packed, writable) ==
    /\ CanSend /\ connected
    /\ made' = made + 1
    /\ requests' = requests \cup {made + 1} /\ timeouts' = timeouts \cup {made + 1}
    /\ queue' = IF packed /\ bufferMsg THEN Append(queue, made + 1) ELSE queue
    /\ sent' = IF packed /\ ~bufferMsg /\ writable THEN Append(sent, made + 1) ELSE sent
    /\ UNCHANGED <<connVars, lost, answers>>

(* A request is filed with its timer, then queued, or written if the socket  *)
(* takes it; writable = FALSE is an exception on the way.                    *)
Accept(packed, writable) ==
    /\ CanSend /\ connected /\ ~closed
    /\ made' = made + 1
    /\ requests' = requests \cup {made + 1} /\ timeouts' = timeouts \cup {made + 1}
    /\ queue' = IF packed /\ bufferMsg THEN Append(queue, made + 1) ELSE queue
    /\ sent' = IF packed /\ ~bufferMsg /\ writable THEN Append(sent, made + 1) ELSE sent
    /\ UNCHANGED <<connVars, lost, answers>>

(* Mutant: the interval survives close() and does not look at closed. *)
FlushQueueClosed ==
    /\ bufferMsg /\ queue # << >>
    /\ sent' = sent \o queue /\ queue' = << >>
    /\ UNCHANGED <<connVars, lost, made, requests, timeouts, answers>>

(* The flush interval: the first success of the connect starts it, close()   *)
(* ends it, and the function itself looks at closed.                         *)
FlushQueue ==
    /\ bufferMsg /\ connected /\ ~closed /\ queue # << >>
    /\ sent' = sent \o queue /\ queue' = << >>
    /\ UNCHANGED <<connVars, lost, made, requests, timeouts, answers>>

(* Mutant: the request outlives its reply. *)
RepliedKeepsRequest(S) ==
    /\ S # {} /\ \A n \in S : \E i \in DOMAIN sent : sent[i] = n
    /\ GiveAll(S \cap requests, "reply")
    /\ timeouts' = timeouts \ S
    /\ UNCHANGED <<connVars, lost, made, requests, queue, sent>>

(* A packet with the replies to S. *)
Replied(S) ==
    /\ S # {} /\ \A n \in S : \E i \in DOMAIN sent : sent[i] = n
    /\ GiveAll(S \cap requests, "reply")
    /\ requests' = requests \ S /\ timeouts' = timeouts \ S
    /\ UNCHANGED <<connVars, lost, made, queue, sent>>

(* Mutant: the timer forgets itself and keeps the request. *)
ExpireKeepsRequest(n) ==
    /\ n \in timeouts
    /\ timeouts' = timeouts \ {n}
    /\ UNCHANGED <<connVars, lost, made, requests, queue, sent>>

Expire(n) ==
    /\ n \in timeouts
    /\ timeouts' = timeouts \ {n} /\ requests' = requests \ {n}
    /\ UNCHANGED <<connVars, lost, made, queue, sent>>

(* The loop of a disconnect handler: neither requests nor timers are cleared. *)
TellLoss(what) ==
    /\ lost' = TRUE
    /\ GiveAll(requests, what)
    /\ UNCHANGED <<made, requests, timeouts, queue, sent>>
=============================================================================
