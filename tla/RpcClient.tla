----------------------------- MODULE RpcClient -----------------------------
(***************************************************************************)
(* The client (lib/rpc-client/client.ts) from a proxy call to its promise,  *)
(* with the failure process of each mode (failureProcess.ts) nested in the  *)
(* dispatch of the station.  MailStation has the station in detail, under   *)
(* failfast and with its filters; here a mailbox is in one of five states,  *)
(* and silent once it is closed, as over mqtt.                              *)
(*                                                                         *)
(* A handler runs to its end before the next one starts, but it is a tree of *)
(* synchronous calls: a dispatch emits 'error', whose listeners run the     *)
(* failure process, which dispatches again.  The variable todo holds what   *)
(* is left of the running handler, and each step of it is an action.        *)
(*                                                                         *)
(* An "address" is one dispatch: the call it is for, the server, and        *)
(* whether it has a callback, which the retries of failover do not have.    *)
(* The servers are of one type.                                             *)
(***************************************************************************)
EXTENDS Naturals, Sequences, FiniteSets, Functions

CONSTANTS
    Servers,      \* ids of the remote servers
    FailModes,    \* values of opts.failMode
    PendingSize,  \* opts.pendingSize
    MaxCalls,     \* bound: calls the application makes
    MaxStarts,    \* bound: calls of start() before the client runs
    MaxChanges    \* bound: changes of the servers

ASSUME ServersAssumption == IsFiniteSet(Servers)
ASSUME ModeAssumption    == FailModes \subseteq {"failfast", "failover", "failback"}
ASSUME PendingAssumption == PendingSize \in Nat
ASSUME BoundsAssumption  == MaxCalls \in Nat /\ MaxStarts \in Nat /\ MaxChanges \in Nat

VARIABLES
    failMode,    \* opts.failMode
    state,       \* of the client, and of its station, which change together
    starts,      \* start() calls accepted
    ticks,       \* start callbacks queued by process.nextTick and not run yet
    listeners,   \* times failureProcess listens to 'error' of the station
    graces,      \* armed GRACE_TIMEOUT timers of stop(false)
    changes,     \* changes of the servers made
    onlines,     \* servers whose onlines entry is 1; they have an info too
    kept,        \* history: servers that replaceServers dropped with their mailbox
    serversMap,  \* the ids of serversMap[serverType], in order
    mailbox,     \* mailbox[s]: "none"; "connecting"; "up"; closed but still
                 \* mapped, "shut", or "stuck" when it was connecting
    pendings,    \* pendings[s]: addresses parked for s
    addresses,   \* history: the dispatches made
    waiting,     \* addresses sent, to which a reply can come
    doomed,      \* addresses sent whose mailbox is closed: they can only time out
    sent,        \* history: sent[a]: times address a has been sent
    retries,     \* history: retries[c]: times failover has run for call c
    kinds,       \* kinds[c]: "route", "to" (toServer) or "all" (toServer '*')
    targets,     \* targets[c]: the addresses whose callbacks settle call c
    replied,     \* addresses whose callback has been given a result
    promise,     \* promise[c]: "pending", "fulfilled", "error" (fulfilled with
                 \* an error), "rejected", or "none": no promise is returned
    thrown,      \* calls whose callback an exception of failover has skipped
    todo         \* the steps left of the running handler, next first

lifeVars    == <<failMode, state, starts, ticks, listeners, graces>>
serverVars  == <<changes, onlines, kept>>
stationVars == <<serversMap, mailbox, pendings, addresses, waiting, sent, retries>>
callVars    == <<kinds, targets, replied, promise, thrown>>
vars        == <<lifeVars, serverVars, stationVars, doomed, callVars, todo>>

(* Lists of servers, none twice. *)
Orders == UNION {{q \in [1..k -> Servers] : IsInjective(q)} : k \in 0..Cardinality(Servers)}

Init ==
    /\ failMode \in FailModes
    /\ state = "inited" /\ starts = 0 /\ ticks = 0 /\ listeners = 0 /\ graces = 0
    /\ serversMap \in Orders /\ onlines = Range(serversMap)   \* added before the start
    /\ changes = 0 /\ kept = {}
    /\ mailbox = [s \in Servers |-> "none"] /\ pendings = [s \in Servers |-> << >>]
    /\ addresses = << >> /\ sent = << >> /\ waiting = {} /\ doomed = {}
    /\ retries = [c \in 1..MaxCalls |-> 0]
    /\ kinds = << >> /\ targets = << >> /\ replied = {} /\ promise = << >> /\ thrown = {}
    /\ todo = << >>

-----------------------------------------------------------------------------
(* start and stop *)

Start ==
    /\ state = "inited" /\ starts < MaxStarts
    /\ starts' = starts + 1 /\ ticks' = ticks + 1
    /\ UNCHANGED <<failMode, state, listeners, graces, serverVars, stationVars, doomed, callVars, todo>>

StartTick ==
    /\ ticks > 0 /\ ticks' = ticks - 1
    /\ listeners' = listeners + 1
    /\ state' = "started"
    /\ UNCHANGED <<failMode, starts, graces, serverVars, stationVars, doomed, callVars, todo>>

(* closeAll of the station: the mailboxes stay in the map. *)
CloseAll ==
    /\ mailbox' = [s \in Servers |-> CASE mailbox[s] = "up" -> "shut"
                                      [] mailbox[s] = "connecting" -> "stuck"
                                      [] OTHER -> mailbox[s]]
    /\ doomed' = doomed \cup waiting /\ waiting' = {}
    /\ UNCHANGED <<serversMap, pendings, addresses, sent, retries>>

Stop ==
    /\ state = "started" /\ state' = "closed"
    /\ \/ CloseAll /\ UNCHANGED graces
       \/ graces' = graces + 1 /\ UNCHANGED <<stationVars, doomed>>
    /\ UNCHANGED <<failMode, starts, ticks, listeners, serverVars, callVars, todo>>

GraceExpires ==
    /\ graces > 0 /\ graces' = graces - 1
    /\ CloseAll
    /\ UNCHANGED <<failMode, state, starts, ticks, listeners, serverVars, callVars, todo>>

-----------------------------------------------------------------------------
(* servers *)

Change ==
    /\ changes < MaxChanges /\ changes' = changes + 1
    /\ UNCHANGED <<lifeVars, pendings, addresses, sent, retries, callVars, todo>>

(* Those of q that are new, in their order, are pushed. *)
AddServers(q) ==
    /\ Change
    /\ onlines' = onlines \cup Range(q) /\ kept' = kept \ Range(q)
    /\ \E new \in Orders :
          /\ Range(new) = Range(q) \ Range(serversMap)
          /\ \A i, j \in DOMAIN q : i < j /\ {q[i], q[j]} \subseteq Range(new)
                => \E k, l \in DOMAIN new : k < l /\ new[k] = q[i] /\ new[l] = q[j]
          /\ serversMap' = serversMap \o new
    /\ UNCHANGED <<mailbox, waiting, doomed>>

(* The server stays in serversMap. *)
RemoveServer(s) ==
    LET cut == {a \in waiting : addresses[a].server = s} IN
    /\ Change
    /\ onlines' = onlines \ {s} /\ kept' = kept \ {s}
    /\ mailbox' = [mailbox EXCEPT ![s] = "none"]
    /\ waiting' = waiting \ cut /\ doomed' = doomed \cup cut
    /\ UNCHANGED serversMap

ReplaceServers(q) ==
    /\ Change
    /\ onlines' = Range(q)
    /\ kept' = {s \in Servers \ Range(q) : mailbox[s] # "none"}
    /\ serversMap' = q
    /\ UNCHANGED <<mailbox, waiting, doomed>>

-----------------------------------------------------------------------------
(* the running handler *)

Frame(op, on) == [op |-> op, on |-> on]

Idle == todo = << >>

(* The next step is op; it makes the synchronous calls that frames say.      *)
Running(op)   == todo # << >> /\ Head(todo).op = op
Calls(frames) == todo' = frames \o Tail(todo)

(* 'error' is emitted for address a: each listener runs the failure process. *)
(* failfast only logs, as it is given no callback; failback does nothing.    *)
EmitError(a) ==
    [i \in 1..(IF failMode = "failover" THEN listeners ELSE 0) |-> Frame("failover", a)]

(* Mutant: servers are dialed although they are not online. *)
ConnectableKnown(s) == TRUE

Connectable(s) == s \in onlines

Dispatch ==
    LET a == Head(todo).on
        s == addresses[a].server
    IN
    /\ Running("dispatch")
    /\ \/ /\ state # "started"
          /\ Calls(EmitError(a))
          /\ UNCHANGED <<mailbox, waiting, sent>>
       \/ /\ state = "started" /\ mailbox[s] = "up"
          /\ waiting' = waiting \cup {a} /\ sent' = [sent EXCEPT ![a] = @ + 1]
          /\ Calls(<< >>)
          /\ UNCHANGED mailbox
       \/ /\ state = "started" /\ mailbox[s] = "shut"
          /\ Calls(Append(EmitError(a), Frame("error", a)))
          /\ UNCHANGED <<mailbox, waiting, sent>>
       \/ /\ state = "started" /\ mailbox[s] = "none" /\ Connectable(s)
          /\ mailbox' = [mailbox EXCEPT ![s] = "connecting"]
          /\ Calls(<<Frame("park", a)>>)
          /\ UNCHANGED <<waiting, sent>>
       \/ /\ state = "started" /\ mailbox[s] = "none" /\ ~Connectable(s)
          /\ Calls(Append(EmitError(a), Frame("park", a)))
          /\ UNCHANGED <<mailbox, waiting, sent>>
       \/ /\ state = "started" /\ mailbox[s] \in {"connecting", "stuck"}
          /\ Calls(<<Frame("park", a)>>)
          /\ UNCHANGED <<mailbox, waiting, sent>>
    /\ UNCHANGED <<lifeVars, serverVars, serversMap, pendings, addresses, retries, doomed, callVars>>

(* A queue that is over its size drops the call without a word.              *)
Park ==
    LET a == Head(todo).on
        s == addresses[a].server
    IN
    /\ Running("park")
    /\ \/ /\ Len(pendings[s]) <= PendingSize
          /\ pendings' = [pendings EXCEPT ![s] = Append(@, a)]
       \/ /\ Len(pendings[s]) > PendingSize
          /\ UNCHANGED pendings
    /\ Calls(<< >>)
    /\ UNCHANGED <<lifeVars, serverVars, serversMap, mailbox, addresses, waiting, sent, retries,
                   doomed, callVars>>

Spliced(list, s) ==
    IF s \in Range(list)
    THEN LET i == CHOOSE i \in DOMAIN list : list[i] = s IN
         SubSeq(list, 1, i - 1) \o SubSeq(list, i + 1, Len(list))
    ELSE list

(* An exception leaves the handler: it rejects the promise of a call that is *)
(* being made, is logged as uncaught by a timer, whose callback is skipped,  *)
(* or leaves the loop over the parked addresses.                             *)
Throws ==
    LET bottom == todo[Len(todo)] IN
    /\ todo' = << >>
    /\ promise' = IF bottom.op = "return" /\ promise[bottom.on] = "pending"
                  THEN [promise EXCEPT ![bottom.on] = "rejected"] ELSE promise
    /\ thrown' = IF bottom.op = "error" THEN thrown \cup {addresses[bottom.on].call} ELSE thrown

(* failover, run by one listener for address a: the server leaves the list   *)
(* that the routers use, and the first one left is tried, without callback;  *)
(* with nobody left the missing callback is called.                          *)
Failover ==
    LET a    == Head(todo).on
        c    == addresses[a].call
        rest == Spliced(serversMap, addresses[a].server)
    IN
    /\ Running("failover")
    /\ serversMap' = rest
    /\ \/ /\ rest = << >>
          /\ Throws
          /\ UNCHANGED <<addresses, sent, retries>>
       \/ /\ rest # << >>
          /\ addresses' = Append(addresses, [call |-> c, server |-> rest[1], cb |-> FALSE])
          /\ sent' = Append(sent, 0)
          /\ retries' = [retries EXCEPT ![c] = @ + 1]
          /\ Calls(<<Frame("dispatch", Len(addresses) + 1)>>)
          /\ UNCHANGED <<promise, thrown>>
    /\ UNCHANGED <<lifeVars, serverVars, mailbox, pendings, waiting, doomed, kinds, targets, replied>>

-----------------------------------------------------------------------------
(* calls *)

NewCall(kind) ==
    /\ Len(kinds) < MaxCalls
    /\ kinds' = Append(kinds, kind)
    /\ UNCHANGED <<lifeVars, serverVars, doomed, replied, thrown>>

(* The client is not running, or the proxy is given too few arguments: the   *)
(* proxy rejects a promise it does not return.  rpcInvoke gives its callback *)
(* an error when the client is not running.                                  *)
InvokeRefused ==
    /\ NewCall("route")
    /\ targets' = Append(targets, {})
    /\ \E p \in {"none", "rejected"} :
          (p = "rejected" => state # "started") /\ promise' = Append(promise, p)
    /\ UNCHANGED <<stationVars, todo>>

(* The route function gives an error, with which the promise is fulfilled.   *)
RouteFails ==
    /\ NewCall("route")
    /\ state = "started"
    /\ targets' = Append(targets, {})
    /\ promise' = Append(promise, "error")
    /\ UNCHANGED <<stationVars, todo>>

(* No usable route function, server id or list of servers: it is logged.     *)
RouteSilent ==
    /\ NewCall("route")
    /\ state = "started"
    /\ targets' = Append(targets, {})
    /\ promise' = Append(promise, "pending")
    /\ UNCHANGED <<stationVars, todo>>

(* The servers q are addressed in turn.  The promise of an empty broadcast   *)
(* is fulfilled at once.                                                     *)
Invoke(kind, q) ==
    LET c     == Len(kinds) + 1
        first == Len(addresses)
    IN
    /\ NewCall(kind)
    /\ state = "started"
    /\ addresses' = addresses \o [i \in DOMAIN q |-> [call |-> c, server |-> q[i], cb |-> TRUE]]
    /\ sent' = sent \o [i \in DOMAIN q |-> 0]
    /\ targets' = Append(targets, {first + i : i \in DOMAIN q})
    /\ promise' = Append(promise, IF q = << >> THEN "fulfilled" ELSE "pending")
    /\ todo' = Append([i \in DOMAIN q |-> Frame("dispatch", first + i)], Frame("return", c))
    /\ UNCHANGED <<serversMap, mailbox, pendings, waiting, retries>>

Route(s)     == Invoke("route", <<s>>)     \* also rpcInvoke
ToServer(s)  == Invoke("to", <<s>>)
Broadcast(q) == Invoke("all", q)           \* async.each

(* The promises after the callback of address a was given a result or an     *)
(* error.  A broadcast ends with the first error or the last result.         *)
Settled(a, ok) ==
    LET c == addresses[a].call IN
    IF ~addresses[a].cb \/ promise[c] # "pending" THEN promise
    ELSE IF ~ok
    THEN [promise EXCEPT ![c] = IF kinds[c] = "route" THEN "rejected" ELSE "error"]
    ELSE IF targets[c] \subseteq replied \cup {a}
    THEN [promise EXCEPT ![c] = "fulfilled"]
    ELSE promise

(* A callback is given an error: that of a mailbox which does not send, or    *)
(* of its timer.                                                             *)
GiveError ==
    /\ Running("error")
    /\ promise' = Settled(Head(todo).on, FALSE)
    /\ Calls(<< >>)
    /\ UNCHANGED <<lifeVars, serverVars, stationVars, doomed, kinds, targets, replied, thrown>>

(* A reply; the remote method may have failed. *)
Reply(a, ok) ==
    /\ a \in waiting /\ waiting' = waiting \ {a}
    /\ promise' = Settled(a, ok)
    /\ replied' = IF ok THEN replied \cup {a} ELSE replied
    /\ UNCHANGED <<lifeVars, serverVars, doomed, serversMap, mailbox, pendings, addresses,
                   sent, retries, kinds, targets, thrown, todo>>

(* Mutant: the failure process is left to answer the caller. *)
TimesOutUnanswered(a) ==
    /\ a \in waiting \cup doomed
    /\ waiting' = waiting \ {a} /\ doomed' = doomed \ {a}
    /\ todo' = EmitError(a)
    /\ UNCHANGED <<lifeVars, serverVars, serversMap, mailbox, pendings, addresses, sent, retries,
                   callVars>>

(* The callback timer: the failure process comes first, then the callback.   *)
TimesOut(a) ==
    /\ a \in waiting \cup doomed
    /\ waiting' = waiting \ {a} /\ doomed' = doomed \ {a}
    /\ todo' = Append(EmitError(a), Frame("error", a))
    /\ UNCHANGED <<lifeVars, serverVars, serversMap, mailbox, pendings, addresses, sent, retries,
                   callVars>>

-----------------------------------------------------------------------------
(* mailboxes *)

(* Mutant: the queue outlives its flush. *)
ConnectedKeepsQueue(s) ==
    /\ mailbox[s] = "connecting"
    /\ mailbox' = [mailbox EXCEPT ![s] = "up"]
    /\ todo' = [i \in DOMAIN pendings[s] |-> Frame("dispatch", pendings[s][i])]
    /\ UNCHANGED <<lifeVars, serverVars, serversMap, pendings, addresses, waiting, sent, retries,
                   doomed, callVars>>

(* The parked addresses are dispatched again, and then their queue is deleted. *)
Connected(s) ==
    /\ mailbox[s] = "connecting"
    /\ mailbox' = [mailbox EXCEPT ![s] = "up"]
    /\ todo' = Append([i \in DOMAIN pendings[s] |-> Frame("dispatch", pendings[s][i])],
                      Frame("delete", s))
    /\ UNCHANGED <<lifeVars, serverVars, serversMap, pendings, addresses, waiting, sent, retries,
                   doomed, callVars>>

DeleteQueue ==
    /\ Running("delete")
    /\ pendings' = [pendings EXCEPT ![Head(todo).on] = << >>]
    /\ Calls(<< >>)
    /\ UNCHANGED <<lifeVars, serverVars, serversMap, mailbox, addresses, waiting, sent, retries,
                   doomed, callVars>>

(* 'error' is emitted without a message; failover throws at that.            *)
ConnectFails(s) ==
    /\ mailbox[s] = "connecting"
    /\ mailbox' = [mailbox EXCEPT ![s] = "none"] /\ kept' = kept \ {s}
    /\ UNCHANGED <<lifeVars, changes, onlines, doomed, serversMap, pendings, addresses, waiting,
                   sent, retries, callVars, todo>>

(* 'close' of a mailbox. *)
Closes(s) ==
    LET cut == {a \in waiting : addresses[a].server = s} IN
    /\ mailbox[s] = "up"
    /\ mailbox' = [mailbox EXCEPT ![s] = "none"] /\ kept' = kept \ {s}
    /\ waiting' = waiting \ cut /\ doomed' = doomed \cup cut
    /\ UNCHANGED <<lifeVars, changes, onlines, serversMap, pendings, addresses, sent, retries,
                   callVars, todo>>

-----------------------------------------------------------------------------
Life   == Start \/ StartTick \/ Stop \/ GraceExpires
Admin  == (\E s \in Servers : RemoveServer(s))
          \/ (\E q \in Orders : AddServers(q) \/ ReplaceServers(q))
Call   == InvokeRefused \/ RouteFails \/ RouteSilent
          \/ (\E s \in Servers : Route(s) \/ ToServer(s))
          \/ (\E q \in Orders : Broadcast(q))
Answer(a) == Reply(a, TRUE) \/ Reply(a, FALSE) \/ TimesOut(a)
Box(s) == Connected(s) \/ ConnectFails(s) \/ Closes(s)

(* The executor of the promise has returned; what is set is set. *)
Return ==
    /\ Running("return")
    /\ Calls(<< >>)
    /\ UNCHANGED <<lifeVars, serverVars, stationVars, doomed, callVars>>

Work == Dispatch \/ Park \/ Failover \/ GiveError \/ DeleteQueue \/ Return

Handler ==
    \/ Life
    \/ Admin
    \/ Call
    \/ \E a \in DOMAIN addresses : Answer(a)
    \/ \E s \in Servers : Box(s)

Next == Work \/ (Idle /\ Handler)

Spec == Init /\ [][Next]_vars

(* Every request is answered or its callback timer fires, and a handler that *)
(* runs comes to its end.                                                    *)
AnswerSome(c) == Idle /\ \E a \in DOMAIN addresses : addresses[a].call = c /\ Answer(a)
FairSpec == Spec /\ WF_vars(Work) /\ \A c \in 1..MaxCalls : WF_vars(AnswerSome(c))

-----------------------------------------------------------------------------
(* PROPERTIES *)

(* No dispatch is sent twice, however often its server is connected, removed *)
(* and added; and beyond the servers it was addressed to a call is sent only *)
(* by failover, once per run of it.  (A second start() before the first has  *)
(* called back makes two listeners, and each of them runs it.)               *)
SentAgainOnlyByFailover ==
    /\ \A a \in DOMAIN sent : sent[a] <= 1
    /\ \A c \in DOMAIN kinds :
          Cardinality({a \in DOMAIN sent : sent[a] > 0 /\ addresses[a].call = c})
             <= Cardinality(targets[c]) + retries[c]

(* removeServer leaves the server in serversMap, so that calls are routed to *)
(* it and failover picks it; yet no connection to a server is made or kept   *)
(* that is not online, except one that replaceServers has left as it was.    *)
MailboxOnlyOnline ==
    \A s \in Servers : mailbox[s] # "none" => s \in onlines \cup kept

(* Once a request has been sent to each server of a call, its promise is     *)
(* settled in the end, also when servers fail; unless failover runs out of   *)
(* servers, which throws past the callback.                                  *)
Open(c) == c \in DOMAIN kinds /\ promise[c] = "pending" /\ c \notin thrown

SentSettles ==
    \A c \in 1..MaxCalls :
        Open(c) /\ targets[c] # {} /\ (\A a \in targets[c] : sent[a] > 0) ~> ~Open(c)
=============================================================================
