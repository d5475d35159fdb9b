---------------------------- MODULE MailStation ----------------------------
(***************************************************************************)
(* The client-side mail station of pinus-rpc (lib/rpc-client/mailstation.ts)*)
(* under the default failure mode, failfast (failureProcess.ts).           *)
(*                                                                         *)
(* The station keeps one mailbox per remote server, connects it lazily on  *)
(* the first call, parks calls in a pending queue while it connects, and   *)
(* runs the before filters, the mailbox and the after filters for each     *)
(* call.  JavaScript runs one callback at a time, so one action is one     *)
(* callback run to its end.  The one handler taken apart is the flush of a *)
(* pending queue: each dispatch in its loop runs filters and listeners of  *)
(* the application, which may call the station again before the next one.  *)
(*                                                                         *)
(* A mailbox is what the station sees of it: the outcome of its connect,   *)
(* its 'close' events, and what becomes of the requests it was given.  The *)
(* five transports differ in what they still report once closed, in how    *)
(* they tell of a lost connection, and in what a timeout tells the caller; *)
(* MqttMailbox and Transports have the mailboxes themselves.               *)
(***************************************************************************)
EXTENDS Naturals, Sequences, FiniteSets

CONSTANTS
    Servers,      \* ids of the remote servers
    Kinds,        \* the transports considered (opts.mailboxFactory)
    PendingSize,  \* opts.pendingSize
    MaxCalls,     \* bound: calls the application makes
    MaxBoxes,     \* bound: mailboxes the factory creates
    MaxStarts     \* bound: calls of start()

AllKinds == {"mqtt", "mqtt2", "tcp", "ws", "ws2"}

ASSUME ServersAssumption == IsFiniteSet(Servers)
ASSUME KindsAssumption   == Kinds \subseteq AllKinds
ASSUME PendingAssumption == PendingSize \in Nat
ASSUME BoundsAssumption  == MaxCalls \in Nat /\ MaxBoxes \in Nat /\ MaxStarts \in Nat

Calls == 1..MaxCalls      \* the n-th call of dispatch is call n
Boxes == 1..MaxBoxes      \* the n-th mailbox created is mailbox n
NoBox == 0                \* "no entry" in the mailboxes map

VARIABLES
    kind,        \* the transport of this station's mailboxes
    state,       \* STATE_INITED, STATE_STARTED or STATE_CLOSED
    starts,      \* start() calls accepted so far
    ticks,       \* start callbacks queued by process.nextTick and not run yet
    graces,      \* armed GRACE_TIMEOUT timers of stop(false): 0 or more
    known,       \* keys of the servers map (never deleted)
    onlines,     \* servers whose onlines entry is 1
    routable,    \* servers listed in serversMap, which the routers read
    connecting,  \* keys of the connecting map
    mailboxes,   \* mailboxes[s]: the working mailbox of s, or NoBox
    owner,       \* owner[b]: the server mailbox b was created for
    link,        \* link[b]: "connecting", "up", "late" (connected after close),
                 \* "failed" (connect error), "cut", "ending" or "down"
    closed,      \* mailboxes on which close() has run
    requests,    \* requests[b]: filter runs b keeps a request and a timer for
    told,        \* history: runs whose mailbox told them of a lost connection
    flushing,    \* the server whose pending queue is being flushed, if any
    met,         \* the mailbox that flush found when it began
    cursor, size,    \* the next index of its loop, and the length it started with
    pendings,    \* pendings[s]: calls parked for s, oldest first
    target,      \* target[c]: the server id call c was dispatched to
    nested,      \* history: calls made inside a flush of their own server
    admitted,    \* history: the call behind each run of the before filters
    inBefore,    \* filter runs (indices of admitted) still in before filters
    inAfter,     \* filter runs whose reply is in the after filters
    answers,     \* answers[c]: times the callback of call c has been invoked
    reported,    \* calls for which the station has emitted 'error'
    overflowed   \* calls turned away by a full pending queue

lifeVars   == <<kind, state, starts, ticks, graces>>
serverVars == <<known, onlines, routable>>
boxVars    == <<connecting, mailboxes, owner, link, closed>>
flushVars  == <<flushing, met, cursor, size>>
queueVars  == <<pendings, target, nested, admitted, overflowed>>
flowVars   == <<requests, told, inBefore, inAfter, answers, reported>>
vars == <<lifeVars, serverVars, boxVars, flushVars, queueVars, flowVars>>

Ran(q) == {q[i] : i \in DOMAIN q}     \* the elements of a sequence

Init ==
    /\ kind \in Kinds
    /\ state = "inited" /\ starts = 0 /\ ticks = 0 /\ graces = 0
    /\ known = {} /\ onlines = {} /\ routable = {}
    /\ connecting = {}
    /\ mailboxes = [s \in Servers |-> NoBox]
    /\ owner = << >>
    /\ link = [b \in Boxes |-> "unborn"]
    /\ closed = {}
    /\ flushing = {} /\ met = NoBox /\ cursor = 0 /\ size = 0
    /\ pendings = [s \in Servers |-> << >>]
    /\ target = << >> /\ nested = {} /\ admitted = << >> /\ overflowed = {}
    /\ requests = [b \in Boxes |-> {}] /\ told = {}
    /\ inBefore = {} /\ inAfter = {}
    /\ answers = [c \in Calls |-> 0]
    /\ reported = {}

-----------------------------------------------------------------------------
(* start and stop *)

Start ==
    /\ state = "inited"               \* otherwise the caller gets an error
    /\ starts < MaxStarts
    /\ starts' = starts + 1
    /\ ticks' = ticks + 1
    /\ UNCHANGED <<kind, state, graces, serverVars, boxVars, flushVars, queueVars, flowVars>>

(* The nextTick callback of start: it sets the state whatever it is by now. *)
StartTick ==
    /\ ticks > 0
    /\ ticks' = ticks - 1
    /\ state' = "started"
    /\ UNCHANGED <<kind, starts, graces, serverVars, boxVars, flushVars, queueVars, flowVars>>

(* Mutant: closeAll skips the mailboxes that are still connecting. *)
MappedReady == {mailboxes[s] : s \in Servers \ connecting} \ {NoBox}

Mapped == {mailboxes[s] : s \in Servers} \ {NoBox}

(* closeAll; the map keeps the closed mailboxes. *)
CloseAll ==
    /\ closed' = closed \cup Mapped
    /\ UNCHANGED <<kind, starts, ticks, serverVars, connecting, mailboxes, owner, link,
                   flushVars, queueVars, flowVars>>

StopForce ==
    /\ state = "started"
    /\ state' = "closed"
    /\ CloseAll
    /\ UNCHANGED graces

StopGraceful ==
    /\ state = "started"
    /\ state' = "closed"
    /\ graces' = graces + 1
    /\ UNCHANGED <<kind, starts, ticks, serverVars, boxVars, flushVars, queueVars, flowVars>>

(* closeAll run by the GRACE_TIMEOUT timer. *)
GraceExpires ==
    /\ graces > 0
    /\ graces' = graces - 1
    /\ CloseAll
    /\ UNCHANGED state

-----------------------------------------------------------------------------
(* server information *)

AddServers(S) ==
    /\ known' = known \cup S
    /\ onlines' = onlines \cup S
    /\ routable' = routable \cup S
    /\ UNCHANGED <<lifeVars, boxVars, flushVars, queueVars, flowVars>>

(* Mutant: the mailbox is deleted from the map without being closed. *)
RemoveServersUnclosed(S) ==
    /\ onlines' = onlines \ S
    /\ mailboxes' = [s \in Servers |-> IF s \in S THEN NoBox ELSE mailboxes[s]]
    /\ UNCHANGED <<lifeVars, known, routable, connecting, owner, link, closed,
                   flushVars, queueVars, flowVars>>

RemoveServers(S) ==
    /\ onlines' = onlines \ S
    /\ closed' = closed \cup ({mailboxes[s] : s \in S} \ {NoBox})
    /\ mailboxes' = [s \in Servers |-> IF s \in S THEN NoBox ELSE mailboxes[s]]
    /\ UNCHANGED <<lifeVars, known, routable, connecting, owner, link,
                   flushVars, queueVars, flowVars>>

(* clearStation, then the new list; working mailboxes are left as they are. *)
ReplaceServers(S) ==
    /\ known' = known \cup S
    /\ onlines' = S
    /\ routable' = S
    /\ UNCHANGED <<lifeVars, boxVars, flushVars, queueVars, flowVars>>

-----------------------------------------------------------------------------
(* dispatch *)

Connectable(s) == s \in known /\ s \in onlines
Room           == Len(owner) < MaxBoxes

(* lazyConnect: a new mailbox, registered and connecting. *)
LazyConnect(s) ==
    /\ Room
    /\ owner' = Append(owner, s)
    /\ link' = [link EXCEPT ![Len(owner) + 1] = "connecting"]
    /\ mailboxes' = [mailboxes EXCEPT ![s] = Len(owner) + 1]
    /\ connecting' = connecting \cup {s}

(* Mutant: the queue is not bounded. *)
AddToPendingUnbounded(s, c) ==
    /\ pendings' = [pendings EXCEPT ![s] = Append(@, c)]
    /\ UNCHANGED overflowed

AddToPending(s, c) ==
    IF Len(pendings[s]) > PendingSize
    THEN /\ overflowed' = overflowed \cup {c}
         /\ UNCHANGED pendings
    ELSE /\ pendings' = [pendings EXCEPT ![s] = Append(@, c)]
         /\ UNCHANGED overflowed

SameBoxes == UNCHANGED <<connecting, mailboxes, owner, link>>
SameQueue == UNCHANGED <<pendings, overflowed>>

Refused(c) ==
    /\ state # "started"
    /\ reported' = reported \cup {c}
    /\ SameBoxes /\ SameQueue
    /\ UNCHANGED <<admitted, inBefore>>

Connects(s, c) ==
    /\ state = "started" /\ mailboxes[s] = NoBox /\ Connectable(s)
    /\ LazyConnect(s)
    /\ AddToPending(s, c)
    /\ UNCHANGED <<reported, admitted, inBefore>>

(* NO_TRAGET_SERVER is emitted and the call is parked all the same. *)
NoTarget(s, c) ==
    /\ state = "started" /\ mailboxes[s] = NoBox /\ ~Connectable(s)
    /\ reported' = reported \cup {c}
    /\ AddToPending(s, c)
    /\ SameBoxes
    /\ UNCHANGED <<admitted, inBefore>>

Waits(s, c) ==
    /\ state = "started" /\ mailboxes[s] # NoBox /\ s \in connecting
    /\ AddToPending(s, c)
    /\ SameBoxes
    /\ UNCHANGED <<reported, admitted, inBefore>>

(* Mutant: the connecting map is not looked at. *)
AdmitEager(s, c) ==
    /\ state = "started" /\ mailboxes[s] # NoBox
    /\ admitted' = Append(admitted, c)
    /\ inBefore' = inBefore \cup {Len(admitted) + 1}
    /\ SameBoxes /\ SameQueue
    /\ UNCHANGED reported

(* The call enters the before filters. *)
Admit(s, c) ==
    /\ state = "started" /\ mailboxes[s] # NoBox /\ s \notin connecting
    /\ admitted' = Append(admitted, c)
    /\ inBefore' = inBefore \cup {Len(admitted) + 1}
    /\ SameBoxes /\ SameQueue
    /\ UNCHANGED reported

(* The body of dispatch, for call c at server s. *)
Route(s, c) ==
    /\ \/ Refused(c)
       \/ Connects(s, c)
       \/ NoTarget(s, c)
       \/ Waits(s, c)
       \/ Admit(s, c)
    /\ UNCHANGED <<lifeVars, serverVars, closed, requests, told, inAfter, answers>>

(* dispatch(tracer, s, msg, opts, cb), called by the application. *)
Dispatch(s) ==
    /\ Len(target) < MaxCalls
    /\ target' = Append(target, s)
    /\ nested' = IF s \in flushing THEN nested \cup {Len(target) + 1} ELSE nested
    /\ Route(s, Len(target) + 1)
    /\ UNCHANGED flushVars

-----------------------------------------------------------------------------
(* flushPending: every parked call is dispatched again, then the queue is   *)
(* deleted, with what the loop or the application has parked meanwhile.     *)

FlushStart(s) ==
    /\ flushing' = {s} /\ met' = mailboxes[s]
    /\ cursor' = 1 /\ size' = Len(pendings[s])

(* One turn of the loop. *)
FlushNext ==
    \E s \in flushing :
       /\ cursor <= size /\ cursor' = cursor + 1
       /\ Route(s, pendings[s][cursor])
       /\ UNCHANGED <<flushing, met, size, target, nested>>

(* Mutants: the loop stops one call early; the queue outlives its flush. *)
FlushEndEarly ==
    \E s \in flushing :
       /\ cursor >= size
       /\ flushing' = {} /\ met' = NoBox /\ cursor' = 0 /\ size' = 0
       /\ pendings' = [pendings EXCEPT ![s] = << >>]
       /\ UNCHANGED <<lifeVars, serverVars, boxVars, target, nested, admitted,
                      overflowed, flowVars>>

FlushEndKeepsQueue ==
    \E s \in flushing :
       /\ cursor > size
       /\ flushing' = {} /\ met' = NoBox /\ cursor' = 0 /\ size' = 0
       /\ UNCHANGED <<lifeVars, serverVars, boxVars, queueVars, flowVars>>

FlushEnd ==
    \E s \in flushing :
       /\ cursor > size
       /\ flushing' = {} /\ met' = NoBox /\ cursor' = 0 /\ size' = 0
       /\ pendings' = [pendings EXCEPT ![s] = << >>]
       /\ UNCHANGED <<lifeVars, serverVars, boxVars, target, nested, admitted,
                      overflowed, flowVars>>

-----------------------------------------------------------------------------
(* what becomes of filter runs that a mailbox calls back *)

(* A reply without an error, or an error in the slot of the tracer, which   *)
(* reads like one: the after filters get it.                                *)
GetReply(S) == inAfter' = inAfter \cup S /\ UNCHANGED <<answers, reported>>

(* An error: FAIL_SEND_MESSAGE is emitted and the callback gets it. *)
GetError(S) ==
    /\ answers' = [c \in Calls |->
                      IF \E i \in S : admitted[i] = c THEN answers[c] + 1 ELSE answers[c]]
    /\ reported' = reported \cup {admitted[i] : i \in S}
    /\ UNCHANGED inAfter

-----------------------------------------------------------------------------
(* events of the mailboxes *)

(* The write of CONNECT (mqtt) and a dialing tcp socket report success also *)
(* after close(); socket.io may connect after an error.                     *)
MayConnect(b) ==
    \/ link[b] = "connecting" /\ (b \in closed => kind \in {"mqtt", "tcp"})
    \/ link[b] = "failed" /\ kind = "ws" /\ b \notin closed

(* The connect callback of mailbox b, without an error. *)
BoxConnected(b) ==
    LET s == owner[b] IN
    /\ MayConnect(b)
    /\ mailboxes[s] # NoBox \/ Room           \* bound: a flush may connect again
    /\ link' = [link EXCEPT ![b] = IF b \in closed THEN "late" ELSE "up"]
    /\ connecting' = connecting \ {s}
    /\ IF pendings[s] # << >> THEN FlushStart(s) ELSE UNCHANGED flushVars
    /\ UNCHANGED <<lifeVars, serverVars, mailboxes, owner, closed, queueVars, flowVars>>

(* Which mailboxes may invoke the connect callback with an error: those of  *)
(* mqtt and mqtt2 never do; tcp does unless it is connected, which close()  *)
(* resets; ws2 does on any error of its socket.                             *)
MayFail(b) ==
    \/ kind = "tcp" /\ (link[b] = "connecting" \/ (link[b] = "up" /\ b \in closed))
    \/ kind = "ws"  /\ link[b] \in {"connecting", "failed"} /\ b \notin closed
    \/ kind = "ws2" /\ link[b] \in {"connecting", "up"}

(* The connect callback of mailbox b, with an error: the entry of its server *)
(* is deleted, whichever mailbox it holds; connecting and the queue stay.    *)
(* ws2 closes itself.                                                        *)
BoxConnectFails(b) ==
    /\ MayFail(b)
    /\ link' = [link EXCEPT ![b] = IF @ = "up" THEN "ending" ELSE "failed"]
    /\ mailboxes' = [mailboxes EXCEPT ![owner[b]] = NoBox]
    /\ closed' = IF kind = "ws2" THEN closed \cup {b} ELSE closed
    /\ UNCHANGED <<lifeVars, serverVars, connecting, owner, flushVars, queueVars, flowVars>>

(* The listener that the connect callback set: whatever mailbox the server  *)
(* has now is closed and deleted.                                           *)
HearClose(s) ==
    /\ mailboxes' = [mailboxes EXCEPT ![s] = NoBox]
    /\ closed' = closed \cup ({mailboxes[s]} \ {NoBox})

(* A 'close' event of a mailbox that has connected: a socket error or a     *)
(* silent peer (mqtt, mqtt2, ws), or the end of the stream (tcp), which is  *)
(* heard after close() too.                                                 *)
BoxEmitsClose(b) ==
    /\ \/ kind \in {"mqtt", "mqtt2", "ws"} /\ link[b] = "up" /\ b \notin closed
       \/ kind = "tcp" /\ link[b] \in {"up", "late"}
    /\ link' = [link EXCEPT ![b] = IF kind = "tcp" THEN "down" ELSE @]
    /\ HearClose(owner[b])
    /\ UNCHANGED <<lifeVars, serverVars, connecting, owner, flushVars, queueVars, flowVars>>

(* A socket error of mqtt2 before the handshake: the mailbox closes itself, *)
(* and nobody listens yet.                                                  *)
BoxBreaks(b) ==
    /\ kind = "mqtt2" /\ link[b] \in {"connecting", "cut"} /\ b \notin closed
    /\ closed' = closed \cup {b}
    /\ UNCHANGED <<lifeVars, serverVars, connecting, mailboxes, owner, link,
                   flushVars, queueVars, flowVars>>

(* The connection is lost: a DISCONNECT packet (mqtt, mqtt2), 'disconnect'  *)
(* (ws) or the close of the socket (ws2), the last two also after close().  *)
(* Every waiting callback is invoked, the requests and their timers stay,   *)
(* and 'close' is emitted.                                                  *)
BoxLost(b) ==
    /\ \/ kind \in {"mqtt", "mqtt2"} /\ link[b] = "up" /\ b \notin closed
       \/ kind = "ws"  /\ link[b] = "up"
       \/ kind = "ws2" /\ link[b] \in {"up", "ending"}
    /\ IF kind = "ws2" THEN GetReply(requests[b]) ELSE GetError(requests[b])
    /\ told' = told \cup requests[b]
    /\ link' = [link EXCEPT ![b] = IF kind \in {"ws", "ws2"} THEN "down" ELSE @]
    /\ mailboxes' = [mailboxes EXCEPT ![owner[b]] = NoBox]
    /\ closed' = closed \cup ({mailboxes[owner[b]]} \ {NoBox})
                        \cup (IF kind = "ws2" THEN {b} ELSE {})
    /\ UNCHANGED <<lifeVars, serverVars, connecting, owner, flushVars, queueVars,
                   requests, inBefore>>

(* A DISCONNECT packet instead of the handshake of mqtt2: the same, but     *)
(* nobody listens to 'close'.                                               *)
BoxCut(b) ==
    /\ kind = "mqtt2" /\ link[b] = "connecting" /\ b \notin closed
    /\ GetError(requests[b])
    /\ told' = told \cup requests[b]
    /\ link' = [link EXCEPT ![b] = "cut"]
    /\ UNCHANGED <<lifeVars, serverVars, connecting, mailboxes, owner, closed,
                   flushVars, queueVars, requests, inBefore>>

(* A closed socket of tcp or ws2 is still read from. *)
Hears(b) == link[b] = "up" /\ (b \in closed => kind \in {"tcp", "ws2"})

(* Mutant: the request outlives its reply. *)
BoxRepliesTwice(b, i) ==
    /\ i \in requests[b] /\ Hears(b)
    /\ GetReply({i})
    /\ UNCHANGED <<lifeVars, serverVars, boxVars, flushVars, queueVars, requests, told, inBefore>>

(* A reply to filter run i. *)
BoxReplies(b, i) ==
    /\ i \in requests[b] /\ Hears(b)
    /\ requests' = [requests EXCEPT ![b] = @ \ {i}]
    /\ GetReply({i})
    /\ UNCHANGED <<lifeVars, serverVars, boxVars, flushVars, queueVars, told, inBefore>>

(* Mutant: no timer calls anybody. *)
BoxTimesOutSilently(b, i) ==
    /\ i \in requests[b]
    /\ requests' = [requests EXCEPT ![b] = @ \ {i}]
    /\ UNCHANGED <<lifeVars, serverVars, boxVars, flushVars, queueVars, told, inBefore,
                   inAfter, answers, reported>>

(* The timer of a request.  tcp hands its error over in the slot of the     *)
(* tracer; ws2 calls nobody.                                                *)
BoxTimesOut(b, i) ==
    /\ i \in requests[b]
    /\ requests' = [requests EXCEPT ![b] = @ \ {i}]
    /\ \/ kind = "ws2" /\ UNCHANGED <<inAfter, answers, reported>>
       \/ kind = "tcp" /\ GetReply({i})
       \/ kind \in {"mqtt", "mqtt2", "ws"} /\ GetError({i})
    /\ UNCHANGED <<lifeVars, serverVars, boxVars, flushVars, queueVars, told, inBefore>>

-----------------------------------------------------------------------------
(* filters *)

(* Mutant: send does not look at closed. *)
AcceptsAnyway(b) == link[b] \in {"up", "late"}

(* The guards of send; mqtt2 is connected before its connect callback runs. *)
Accepts(b) == b \notin closed /\ (link[b] = "up" \/ (kind = "mqtt2" /\ link[b] \in {"connecting", "cut"}))
Refuses(b) == b \in closed \/ link[b] # "up"

(* The before filters end without an error, at server t (a filter may have  *)
(* named another target), and the call is sent.                             *)
BeforePasses(i, t) ==
    LET b == mailboxes[t] IN
    /\ i \in inBefore
    /\ inBefore' = inBefore \ {i}
    /\ \/ /\ b = NoBox                                    \* FAIL_FIND_MAILBOX
          /\ reported' = reported \cup {admitted[i]}
          /\ UNCHANGED <<requests, inAfter, answers>>
       \/ /\ b # NoBox /\ Accepts(b)
          /\ requests' = [requests EXCEPT ![b] = @ \cup {i}]
          /\ UNCHANGED <<inAfter, answers, reported>>
       \/ /\ b # NoBox /\ Refuses(b)                      \* FAIL_SEND_MESSAGE
          /\ IF kind = "tcp" THEN GetReply({i}) ELSE GetError({i})
          /\ UNCHANGED requests
    /\ UNCHANGED <<lifeVars, serverVars, boxVars, flushVars, queueVars, told>>

(* A before filter ends with an error: errorHandler, and no callback. *)
BeforeFails(i) ==
    /\ i \in inBefore
    /\ inBefore' = inBefore \ {i}
    /\ reported' = reported \cup {admitted[i]}
    /\ UNCHANGED <<lifeVars, serverVars, boxVars, flushVars, queueVars, requests,
                   told, inAfter, answers>>

(* The after filters end; with an error it is also emitted, and the callback *)
(* still gets the reply.                                                     *)
AfterEnds(i) ==
    /\ i \in inAfter
    /\ inAfter' = inAfter \ {i}
    /\ answers' = [answers EXCEPT ![admitted[i]] = @ + 1]
    /\ \E failed \in BOOLEAN :
          reported' = IF failed THEN reported \cup {admitted[i]} ELSE reported
    /\ UNCHANGED <<lifeVars, serverVars, boxVars, flushVars, queueVars, requests,
                   told, inBefore>>

-----------------------------------------------------------------------------
Filter(i) ==
    \/ \E t \in Servers : BeforePasses(i, t)
    \/ BeforeFails(i)
    \/ AfterEnds(i)

Admin == \E S \in SUBSET Servers :
            AddServers(S) \/ RemoveServers(S) \/ ReplaceServers(S)

(* bound: inside a flush one mailbox is kept for the rest of its loop *)
Spare(n) == flushing # {} => Len(owner) + n <= MaxBoxes

(* What the application does, also from inside a flush: a filter or a       *)
(* listener that a dispatch of the loop runs may call the station, or the   *)
(* next() of any filter.                                                    *)
User ==
    \/ Start
    \/ StopForce
    \/ StopGraceful
    \/ Spare(1) /\ Admin
    \/ \E s \in Servers : (s \in flushing \/ Spare(2)) /\ Dispatch(s)
    \/ \E i \in DOMAIN admitted : Filter(i)

BoxEvent(b) ==
    \/ BoxConnected(b)
    \/ BoxConnectFails(b)
    \/ BoxEmitsClose(b)
    \/ BoxBreaks(b)
    \/ BoxLost(b)
    \/ BoxCut(b)
    \/ \E i \in DOMAIN admitted : BoxReplies(b, i) \/ BoxTimesOut(b, i)

(* Timers and sockets are callbacks of their own, outside of any flush. *)
Event ==
    /\ flushing = {}
    /\ \/ StartTick
       \/ GraceExpires
       \/ \E b \in Boxes : BoxEvent(b)

Next == User \/ Event \/ FlushNext \/ FlushEnd

Spec == Init /\ [][Next]_vars

(* A loop comes to its end, the timer of a request fires (it is the code's   *)
(* own, setCbTimeout), and filters call next.                                *)
FairSpec ==
    /\ Spec
    /\ WF_vars(FlushNext \/ FlushEnd)
    /\ \A b \in Boxes, i \in Calls : WF_vars(flushing = {} /\ BoxTimesOut(b, i))
    /\ \A i \in Calls : WF_vars(Filter(i))

-----------------------------------------------------------------------------
(* PROPERTIES *)

(* The state has its shape: maps over servers and mailboxes, queues of call *)
(* numbers, filter runs that index the history of admissions.               *)
TypeOK ==
    /\ kind \in AllKinds
    /\ state \in {"inited", "started", "closed"}
    /\ starts \in Nat /\ ticks \in Nat /\ graces \in Nat
    /\ known \subseteq Servers /\ onlines \subseteq Servers
    /\ routable \subseteq Servers /\ connecting \subseteq Servers
    /\ owner \in Seq(Servers) /\ Len(owner) <= MaxBoxes
    /\ mailboxes \in [Servers -> 0..MaxBoxes]
    /\ \A s \in Servers : mailboxes[s] # NoBox =>
          mailboxes[s] \in DOMAIN owner /\ owner[mailboxes[s]] = s
    /\ link \in [Boxes -> {"unborn", "connecting", "up", "late", "failed", "cut", "ending", "down"}]
    /\ \A b \in Boxes : link[b] = "unborn" <=> b \notin DOMAIN owner
    /\ closed \subseteq DOMAIN owner
    /\ flushing \subseteq Servers /\ (\A s, t \in flushing : s = t)
    /\ met \in 0..MaxBoxes /\ cursor \in Nat /\ size \in Nat
    /\ target \in Seq(Servers) /\ Len(target) <= MaxCalls
    /\ pendings \in [Servers -> Seq(DOMAIN target)]
    /\ nested \subseteq DOMAIN target
    /\ \A s \in flushing : cursor \in 1..(size + 1) /\ size <= Len(pendings[s])
    /\ admitted \in Seq(DOMAIN target)
    /\ inBefore \subseteq DOMAIN admitted /\ inAfter \subseteq DOMAIN admitted
    /\ requests \in [Boxes -> SUBSET DOMAIN admitted] /\ told \subseteq DOMAIN admitted
    /\ answers \in [Calls -> Nat]
    /\ reported \subseteq DOMAIN target /\ overflowed \subseteq DOMAIN target

(* No call waits behind a mailbox that is ready: as soon as a server has a  *)
(* mailbox and is not marked connecting, its pending queue is empty or is   *)
(* being flushed (mailstation.ts:427-428, against every removal, late       *)
(* connect callback, reconnect and call from inside the flush).             *)
FlushedWhenOpen ==
    \A s \in Servers :
       mailboxes[s] # NoBox /\ s \notin connecting => pendings[s] = << >> \/ s \in flushing

(* The application callback of a call is invoked at most once, whatever the *)
(* interleaving of flushes, filters, replies, timeouts and removals; over   *)
(* mqtt, mqtt2 and ws a second time by its timer, after a lost connection   *)
(* has told all waiting callbacks (mqtt-mailbox.ts:153-163,                 *)
(* ws-mailbox.ts:116-127).                                                  *)
AnsweredOncePerCause ==
    \A c \in Calls :
       LET twice == kind \in {"mqtt", "mqtt2", "ws"} /\ \E i \in told : admitted[i] = c
       IN  answers[c] <= (IF twice THEN 2 ELSE 1)

(* Calls to one server enter the before filters in the order in which they  *)
(* were dispatched: a later call never overtakes one parked in the pending  *)
(* queue, unless it is made inside the very flush of that queue             *)
(* (mailstation.ts:535-538), where the loop has not reached the others.     *)
AdmittedInOrder ==
    \A i, j \in DOMAIN admitted :
       i < j /\ target[admitted[i]] = target[admitted[j]]
          => admitted[i] < admitted[j] \/ admitted[i] \in nested

(* addToPending tests length > pendingSize before it pushes, so a queue may *)
(* hold one call more than the configured size, and never two.              *)
PendingBounded == \A s \in Servers : Len(pendings[s]) <= PendingSize + 1

Running(c) ==     \* a filter run of c is under way
    \E i \in DOMAIN admitted :
       admitted[i] = c /\ (i \in inBefore \cup inAfter \/ \E b \in Boxes : i \in requests[b])

Settled(c) == answers[c] > 0 \/ c \in reported \/ c \in overflowed

Kept(c) ==        \* call c is parked, on its way, or over
    (\E s \in Servers : c \in Ran(pendings[s])) \/ Running(c) \/ Settled(c)

(* The flush that now ends began without a mailbox, or its mailbox has been *)
(* dropped since.                                                           *)
OrphanFlushEnds ==
    \E s \in flushing : flushing' = {} /\ (met = NoBox \/ mailboxes[s] # met)

SilentTimeout == kind = "ws2" /\ \E b \in Boxes : requests'[b] # requests[b]

(* A dispatched call vanishes in two ways only.  A flush that finds no      *)
(* mailbox, as after a late connect callback of a removed server, or that   *)
(* loses its mailbox on the way, parks its calls again in the queue that it *)
(* then deletes (mailstation.ts:523-539); and the request timer of ws2      *)
(* calls nobody (ws2-mailbox.ts:341-352).  In every other step a call that  *)
(* was parked, under way, answered or reported is one of these afterwards.  *)
LostOnlyByOrphans ==
    [][\A c \in DOMAIN target' :
          (c \in DOMAIN target => Kept(c)) /\ ~OrphanFlushEnds /\ ~SilentTimeout
             => Kept(c)']_vars

Live(b) == link[b] \in {"connecting", "up", "cut"} /\ b \notin closed

(* A mailbox that is connecting or connected and not closed is the one the  *)
(* mailboxes map has for its server: no connection is left that neither     *)
(* removeServer nor stop can reach.  For mqtt and mqtt2.                    *)
LiveBoxesMapped == \A b \in DOMAIN owner : Live(b) => mailboxes[owner[b]] = b

(* After a stop whose grace timers have run, every mailbox is closed: "Stop *)
(* station and all its mailboxes" (mailstation.ts:104).  For mqtt and mqtt2.*)
StopClosesAll ==
    state = "closed" /\ graces = 0 => \A b \in DOMAIN owner : ~Live(b)

(* Once close() has run on a mailbox it takes no further message, even if   *)
(* its connect callback arrives afterwards.                                 *)
NoSendAfterClose ==
    [][\A b \in closed : requests'[b] \subseteq requests[b]]_vars

(* A call that has entered the filters is settled: its callback is invoked, *)
(* or an error is reported for it.  Not over ws2, whose timer calls nobody. *)
AdmittedSettles ==
    \A c \in Calls :
       c \in Ran(admitted) /\ kind # "ws2" ~> (answers[c] > 0 \/ c \in reported)
=============================================================================
