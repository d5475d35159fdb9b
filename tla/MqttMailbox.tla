---------------------------- MODULE MqttMailbox ----------------------------
(***************************************************************************)
(* One client mailbox over mqtt (lib/rpc-client/mailboxes/mqtt-mailbox.ts): *)
(* connect and its timeout, send, the buffer and its flush, replies, the    *)
(* timer of every request, socket errors, the DISCONNECT packet, close.     *)
(*                                                                         *)
(* The id curId++ of a request is the number of the send that got it, so a  *)
(* map keyed by id is a set of sends.  The network is external: a reply to  *)
(* anything published may arrive in any order, late, twice, in one packet   *)
(* with others, or never.  'close' events matter for what the station's     *)
(* listener does with them (mailstation.ts:417-426): it closes the mailbox. *)
(***************************************************************************)
EXTENDS Naturals, Sequences

CONSTANTS
    BufferMsg,         \* opts.bufferMsg: are requests queued and flushed?
    MaxSends           \* bound: calls of send()

ASSUME FlagAssumption  == BufferMsg \in BOOLEAN
ASSUME SendsAssumption == MaxSends \in Nat

Sends == 1..MaxSends

VARIABLES
    dialed,      \* connect() has been called
    connTimer,   \* the CONNECT_TIMEOUT timer is armed
    hooked,      \* the connect callback has run: the station listens to 'close'
    connected, closed,     \* the fields of the same names
    unheard,     \* a 'close' was emitted while nobody listened
    cut,         \* a DISCONNECT packet has been received
    made,        \* calls of send() made
    requests,    \* keys of the requests map
    timeouts,    \* keys of the timeout map: armed request timers
    queue,       \* buffered requests, oldest first
    sent,        \* history: requests published, in order
    answers      \* answers[n]: times the callback of send n has been invoked

connVars == <<dialed, connTimer, hooked, connected, closed, unheard, cut>>
reqVars  == <<made, requests, timeouts, queue, sent, answers>>
vars     == <<connVars, reqVars>>

Ran(q) == {q[i] : i \in DOMAIN q}

Init ==
    /\ dialed = FALSE /\ connTimer = FALSE /\ hooked = FALSE
    /\ connected = FALSE /\ closed = FALSE /\ unheard = FALSE /\ cut = FALSE
    /\ made = 0 /\ requests = {} /\ timeouts = {}
    /\ queue = << >> /\ sent = << >>
    /\ answers = [n \in Sends |-> 0]

CallBack(S) == answers' = [n \in Sends |-> IF n \in S THEN answers[n] + 1 ELSE answers[n]]

-----------------------------------------------------------------------------
(* the connection *)

Connect ==
    /\ ~dialed
    /\ dialed' = TRUE /\ connTimer' = TRUE
    /\ UNCHANGED <<hooked, connected, closed, unheard, cut, reqVars>>

(* The CONNECT packet has been written.  A destroyed socket may still report *)
(* it: connected is set whatever closed says.                                *)
ConnectCallback ==
    /\ dialed /\ ~hooked
    /\ hooked' = TRUE /\ connected' = TRUE /\ connTimer' = FALSE
    /\ UNCHANGED <<dialed, closed, unheard, cut, reqVars>>

(* emit('close'), and what the station's listener does if it is there. *)
EmitClose ==
    IF hooked
    THEN closed' = TRUE /\ connected' = (connected /\ closed) /\ UNCHANGED unheard
    ELSE unheard' = TRUE /\ UNCHANGED <<closed, connected>>

ConnectTimesOut ==
    /\ connTimer
    /\ connTimer' = FALSE
    /\ EmitClose
    /\ UNCHANGED <<dialed, hooked, cut, reqVars>>

Listening == dialed /\ ~closed      \* the socket exists and is not destroyed

SocketError ==
    /\ Listening
    /\ EmitClose
    /\ UNCHANGED <<dialed, connTimer, hooked, cut, reqVars>>

(* checkKeepAlive finds the peer silent (KeepAlive.tla says when). *)
KeepAliveFails ==
    /\ hooked /\ ~closed
    /\ EmitClose
    /\ UNCHANGED <<dialed, connTimer, hooked, cut, reqVars>>

(* Every waiting callback gets an error; neither the requests nor their      *)
(* timers are cleared.                                                       *)
PeerDisconnect ==
    /\ Listening
    /\ cut' = TRUE
    /\ CallBack(requests)
    /\ EmitClose
    /\ UNCHANGED <<dialed, connTimer, hooked, made, requests, timeouts, queue, sent>>

(* close() by removeServer or stop. *)
Close ==
    /\ Listening
    /\ closed' = TRUE /\ connected' = FALSE
    /\ UNCHANGED <<dialed, connTimer, hooked, unheard, cut, reqVars>>

-----------------------------------------------------------------------------
(* requests *)

OpenIfConnected == connected        \* mutant: send does not look at closed

Open == connected /\ ~closed       \* the two guards of send

SendRefused ==
    /\ dialed /\ made < MaxSends /\ ~Open
    /\ made' = made + 1
    /\ CallBack({made + 1})
    /\ UNCHANGED <<connVars, requests, timeouts, queue, sent>>

Send ==
    /\ dialed /\ made < MaxSends /\ Open
    /\ made' = made + 1
    /\ requests' = requests \cup {made + 1}
    /\ timeouts' = timeouts \cup {made + 1}
    /\ IF BufferMsg
       THEN queue' = Append(queue, made + 1) /\ UNCHANGED sent
       ELSE sent' = Append(sent, made + 1) /\ UNCHANGED queue
    /\ UNCHANGED <<connVars, answers>>

(* Mutant: the queue is not reset. *)
FlushKeepsQueue ==
    /\ BufferMsg /\ hooked /\ ~closed /\ queue # << >>
    /\ sent' = sent \o queue
    /\ UNCHANGED <<connVars, made, requests, timeouts, answers, queue>>

(* The flush interval; it is set by the connect callback. *)
Flush ==
    /\ BufferMsg /\ hooked /\ ~closed /\ queue # << >>
    /\ sent' = sent \o queue /\ queue' = << >>
    /\ UNCHANGED <<connVars, made, requests, timeouts, answers>>

(* A packet with the replies to S.  A reply to a request that is gone is    *)
(* dropped.                                                                 *)
Replies(S) ==
    /\ Listening /\ S # {} /\ S \subseteq Ran(sent)
    /\ CallBack(S \cap requests)
    /\ requests' = requests \ S /\ timeouts' = timeouts \ S
    /\ UNCHANGED <<connVars, made, queue, sent>>

(* Mutants: the request outlives its timeout; the callback is not invoked. *)
TimeoutKeepsRequest(n) ==
    /\ n \in timeouts
    /\ timeouts' = timeouts \ {n}
    /\ CallBack({n})
    /\ UNCHANGED <<connVars, made, queue, sent, requests>>

TimeoutUnreported(n) ==
    /\ n \in timeouts
    /\ timeouts' = timeouts \ {n} /\ requests' = requests \ {n}
    /\ UNCHANGED <<connVars, made, queue, sent, answers>>

(* The timer of request n; close() leaves it armed. *)
RequestTimesOut(n) ==
    /\ n \in timeouts
    /\ timeouts' = timeouts \ {n} /\ requests' = requests \ {n}
    /\ CallBack({n})
    /\ UNCHANGED <<connVars, made, queue, sent>>

-----------------------------------------------------------------------------
Connection ==
    \/ Connect
    \/ ConnectCallback
    \/ ConnectTimesOut
    \/ SocketError
    \/ KeepAliveFails
    \/ PeerDisconnect
    \/ Close

Next ==
    \/ Connection
    \/ SendRefused
    \/ Send
    \/ Flush
    \/ \E S \in SUBSET Sends : Replies(S)
    \/ \E n \in Sends : RequestTimesOut(n)

Spec == Init /\ [][Next]_vars

(* Timers fire: the only fairness the mailbox needs. *)
FairSpec == Spec /\ \A n \in Sends : WF_vars(RequestTimesOut(n))

-----------------------------------------------------------------------------
(* PROPERTIES *)

(* No callback is invoked twice, unless a DISCONNECT has been received:     *)
(* that handler calls every waiting callback and leaves the request and its *)
(* timer in place (mqtt-mailbox.ts:153-163), and then it is twice at most.  *)
TwiceOnlyAfterDisconnect ==
    \A n \in Sends : answers[n] <= (IF cut THEN 2 ELSE 1)

(* Buffering neither loses, duplicates nor reorders: what has been          *)
(* published, followed by what is queued, is the accepted requests in the   *)
(* order of their ids, and every waiting request is among them.             *)
PublishedInOrder ==
    LET all == sent \o queue IN
    /\ \A i, j \in DOMAIN all : i < j => all[i] < all[j]
    /\ requests \subseteq Ran(all)

(* Every call of send gets its callback invoked in the end, also when the   *)
(* connection is lost or closed with requests waiting or queued.            *)
EverySendSettles == \A n \in Sends : made >= n ~> answers[n] > 0

(* The mailbox implements the contract MailStation relies on.  A request     *)
(* waits, in the terms of the contract, until its callback is first invoked: *)
(* what the DISCONNECT handler leaves behind does not count as waiting.      *)
Called == {n \in Sends : answers[n] > 0}

Contract == INSTANCE MailboxContract WITH
    ready   <- hooked,
    pending <- requests \ Called,
    settled <- Called

ImplementsContract == Contract!Spec
=============================================================================
