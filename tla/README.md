# A TLA+ model of pinus-rpc

pinus-rpc is the RPC layer of the pinus game-server framework: a client that
keeps one connection ("mailbox") per remote server and routes calls to them,
and a server that accepts connections, routes requests to services and sends
the replies back. It is single-threaded JavaScript: a callback runs to its end
before the next one starts, and everything difficult happens between callbacks.
So one action of these modules is one callback, or one call into a component,
with everything it changes.

The modules describe the TypeScript under `lib/`: the client, its station,
routers and failure modes; the five transports (mqtt, which is the default,
tcp, ws, ws2, mqtt2) on both sides; the gateway and the dispatcher; and the
coder of mqtt2.

## The system

| Part | State | Operations | Talks to |
| --- | --- | --- | --- |
| `RpcClient` (`rpc-client/client.ts`) | `state`, `proxies`, router parameters | `start`, `stop`, `addProxy`, `rpcInvoke`, proxy calls, broadcast | the station, the routers |
| Mail station (`rpc-client/mailstation.ts`) | `state`, `servers`, `serversMap`, `onlines`, `mailboxes`, `connecting`, `pendings`, filters | `start`, `stop`, `addServer(s)`, `removeServer(s)`, `replaceServers`, `dispatch` | mailboxes by `connect`/`send`/`close` and the `close` event; the failure process by `error` |
| Failure process (`rpc-client/failureProcess.ts`) | none of its own | `failfast`, `failover` | the station's lists and `dispatch` |
| Mailboxes (`rpc-client/mailboxes/*.ts`) | `connected`, `closed`, `requests`, `timeout`, `queue`, ping times | `connect`, `send`, `flush`, replies, timeouts, keep-alive, `close` | the network, the station |
| Routers (`rpc-client/router.ts`) | `rrParam`, `wrrParam`, `laParam`, `chParam` on the client | one route call per rpc | the station's lists |
| Consistent hash (`util/consistentHash.ts`) | `ring`, `keys` | `addNode`, `removeNode`, `getNode` | events of the station |
| Gateway, dispatcher (`rpc-server/gateway.ts`, `dispatcher.ts`) | `started`, `stoped`, `services` | `start`, `stop`, `route`, reload | the acceptor |
| Acceptors (`rpc-server/acceptors/*.ts`) | `sockets`, `msgQueues`, `closed` | `listen`, packets, replies, `flush`, `close` | the dispatcher, the network |
| Coder and buffers (`util/coder.ts`, `util/buffer/*.ts`) | `buf`, `count`, `offset` | encode, decode | mqtt2 on both sides |

What is hard in it: a mailbox is created by the first call and connects while
others are parked; filters, connects, replies, timers, removals and the stop
interleave; events of an old mailbox arrive when the server already has a new
one; failover dispatches again from inside a dispatch and changes the list the
routers use; each transport reports errors, ends and timeouts in a way of its
own; a promise settles after its connection has gone; a flush may throw in the
middle; the routers' parameters outlive the list they were made for.
`PROJECT.json` lists these hazards at their lines, with the properties that
would notice.

## Modules

| Module | Models | Proofs |
| --- | --- | --- |
| `RpcClient` | `client.ts` and `failureProcess.ts`, over the station | `RpcClientProofs` |
| `MailStation` | `mailstation.ts` under failfast, over any of the five transports | `MailStationProofs` |
| `MailboxContract` | abstract: what a mailbox promises the station | |
| `MqttMailbox` | `mqtt-mailbox.ts`, refines `MailboxContract` | `MqttMailboxProofs` |
| `KeepAlive` | `checkKeepAlive` of the mailboxes, in time | `KeepAliveCoderProofs` |
| `MailboxBase` | what the four mailboxes below share | |
| `TcpMailbox`, `WsMailbox`, `Ws2Mailbox`, `Mqtt2Mailbox` | the mailbox of that name | |
| `Transports` | any one of the four, and what they must keep | `TransportsProofs` |
| `RpcServer` | `gateway.ts`, `dispatcher.ts`, `mqtt-acceptor.ts` | `RpcServerProofs` |
| `AcceptorBase` | what the four acceptors below share | |
| `TcpAcceptor`, `WsAcceptor`, `Ws2Acceptor`, `Mqtt2Acceptor` | the acceptor of that name | |
| `Acceptors` | any one of the four, and what they must keep | `AcceptorsProofs` |
| `Router` | `rr`, `wrr`, `la` of `router.ts` | `RouterProofs` |
| `ConsistentHash` | `ch` of `router.ts`, `consistentHash.ts`; with `Router`, a client of any router type | `RouterProofs` |
| `OutputBuffer` | `outputBuffer.ts`: count and capacity | `KeepAliveCoderProofs` |
| `Coder` | `coder.ts`, `inputBuffer.ts`, `writeObject`, `getType` | `KeepAliveCoderProofs` |

`MCRpcClient`, `MCMailStation`, `MCRpcServer`, `MCRouter` and `MCCoder` give
the constants their small values; the others need no more than their `.cfg`.

How they fit together: `RpcClient` has a station whose mailboxes are in one of
five states, which is all that the nesting of dispatch and failover looks at.
`MailStation` has the station in full, over the mailboxes of each transport as
the station sees them. `MqttMailbox` and `Transports` have the mailboxes
themselves; `MailboxContract` is what all of them promise to `send`, with two
exceptions that `KeepsContract` names. On the server side `RpcServer` has the
gateway and the dispatcher over the mqtt acceptor; `Acceptors` has the other
four over the outcomes of the same dispatcher.

### RpcClient

An "address" is one dispatch: a call, a server, and whether it has a callback,
which the retries of failover have not (`failureProcess.ts:8` finds none).

A handler of the program runs to its end, but inside it `failover` dispatches
from the `error` event of a dispatch, and a connect dispatches a whole queue.
So the running handler is a list of steps, `todo`, next first: `Dispatch`,
`Park` (the push behind the `error` event), `Failover` (one run by one
listener), `GiveError` (a callback is given an error), `DeleteQueue` (the end
of the loop over a queue), `Return` (the end of the executor of a promise).
Each is an action, replaces itself by the calls it makes (`Calls`), and
together they are `Work`; all other actions start a handler and need `Idle`.
Nothing interleaves with a handler, and each of its intermediate states is
checked. `Throws` is an exception on its way up: what is left of the handler is
dropped, and what lies at its bottom says who catches it (the promise of the
call that is being made, a timer, the delivery loop).

`listeners` counts `failureProcess` as often as it has been registered. The
promise of a call ends as the code ends it: `rejected`, `fulfilled`, or `error`,
which is fulfilled with an error, as `getRouteTarget` and
`rpcToSpecifiedServer` do.

### MailStation

A call is its number, a mailbox the number of its creation, `mailboxes[s]` the
map entry. All servers are of one type: `routable` is `serversMap[type]`.

A mailbox is what the station sees of it. `kind` is the transport, `link[b]` the
state of the connection, `closed` holds the mailboxes on which `close()` has
run, `requests[b]` the requests that `b` keeps with their timers, and `told` is
a history of those that a lost connection was told of. The transports differ in
what they report, and above all in what they still report once closed:

| | may come after `close()` | lost connection | request timer |
| --- | --- | --- | --- |
| mqtt | the connect callback, without an error (`MayConnect`; `link` is "late") | DISCONNECT: all callbacks get an error, the requests stay (`BoxLost`) | an error |
| mqtt2 | nothing | as mqtt, also before the handshake (`BoxCut`) | an error |
| tcp | connect, connect error (`MayFail`), replies (`Hears`), `close` | `close` only (`BoxEmitsClose`) | an error in the slot of the tracer |
| ws | 'disconnect' | all callbacks get an error, the requests stay | an error |
| ws2 | an error, replies, the close of the socket | all callbacks, in the slot of the tracer; the requests stay | calls nobody |

So a callback may run twice (by the loss, and by the timer left behind) or
never (ws2), and `AnsweredOncePerCause` and `AdmittedSettles` say for which
transports. The listeners act on the entry of the *server*, whichever mailbox
it holds by then: `BoxConnectFails` deletes it, `HearClose` closes and deletes it.

* `Refused` (276-280), `Connects` and `NoTarget` (284-297), `Waits` (299-305) and
  `Admit` (346) are the branches of `dispatch`, together `Route`.
* `BoxConnected` is the connect callback: it deletes `connecting` and, if
  calls are parked, starts the flush. The flush is taken apart: `FlushNext`
  dispatches one parked call by the same `Route`, `FlushEnd` deletes the queue
  (535-539) with whatever has been parked again. In between come the calls that
  the application makes from a filter or listener run by such a dispatch
  (`User`); timers and sockets cannot (`Event`). `met` is the mailbox that the
  flush found, `nested` the calls made inside a flush of their own server.
* The before filters are one step per call (`BeforePasses` / `BeforeFails`),
  asynchronous or, inside a flush, synchronous. A filter may name another
  target and may fail. `admitted` numbers the filter runs.
* An `error` event is always heard, since only a started `RpcClient` dispatches
  and it has registered `failureProcess`, which under failfast logs and ends:
  `tracer.cb` is never set (line 273 is a comment). `reported` collects the
  calls an `error` was emitted for.

### MqttMailbox, MailboxContract

The id of a request is the number of its send. The network may answer anything
that was published, late, repeatedly, in packets of several, or never. A reply
callback that throws, and so ends `processMsgs` early, is the packet with fewer
replies. `close` events do to the mailbox what the station's listener does: it
closes it; before the connect callback nobody listens (`unheard`).

`MailboxContract` promises: accepted only between ready and closed, refused
otherwise, every send called back, and none waited for again once it has been.
A DISCONNECT packet calls every waiting callback and leaves the requests behind
(`Lose`): the contract counts them as settled, and how often a callback may run
is `TwiceOnlyAfterDisconnect`. `Replies` takes the callbacks the mailbox still
has, so the refinement needs no assumption about the peer.

### KeepAlive

Discrete time; the interval may run up to `Jitter` late, an answer takes up to
`Delay`. `NoFalseAlarm` and `DetectedInTime` give the two sides of the timeout;
the bound of the second is tight (with one unit less TLC finds a
counterexample). The code is that of the mqtt mailbox, and mqtt2 has the same;
ws2, with a timeout of 10 s and an interval of 30 s (`ws2-mailbox.ts:13-14`), is
not covered.

### Transports

The state is that of `MailboxBase`; `kind` chooses the transport and never
changes. What differs is in the four small modules: which events the socket
still reports after `close()` (tcp: all; ws: its end; ws2: replies and the end
of its closing handshake), what an error does to the connect callback and to the
mailbox, who tells waiting callbacks of a disconnection, and in which slot an
error is handed over. Callbacks take a tracer first; tcp, and ws2 in its
`close` handler, put an error in that slot, which the station reads as a reply
without a value: `hollow`. `told` is what the connect callback has been given,
so `Heard` says whether a `close` event reaches the station's listener.

`KeepsContract` relates all four to `MailboxContract`: ready is `Hooked`,
pending are the requests whose callback has not been invoked, settled the
others that were called back. Where a transport takes a step that the contract
does not know, `ContractStep` names it: the timer of ws2, which forgets a
request without a callback, and a send of mqtt2 between the written CONNECT and
the handshake for which the connect callback waits.

### RpcServer

The acceptor is started and closed with the gateway. A connection is
registered in `sockets` until `close`, `error` or DISCONNECT; after a
DISCONNECT its stream is still up, which is why `open` is kept apart. What
`route` makes of a message is its fate: refused at once, a promise, or a throw.
A packet of several requests stops at the first that throws (`skipped`); a
single one is answered with the error, past the buffer. Replies carry ids, so a
queue is a set and `written` counts.

A promise may settle with a result that `JSON.stringify` throws at (a cycle, a
BigInt): `Settle(r, FALSE)`, and `unfit` collects these. Without a buffer
`doSend` throws inside the handler of the promise and the reply is gone
(`Unsent`). With one the result waits in the queue, and the flush throws when it
gets there: it has written and emptied the queues before it (`Reached`), and
keeps this one (`Blocked`) and those behind it, at every interval again. That
the process survives what the interval throws is the application's doing; where
it does not, there is nothing left to say.

### Acceptors

Like `RpcServer` without the gateway, for the other four. `sockets` and
`msgQueues` are maps by key: the number of the connection, and for tcp the one
key that an unset `socket.id` gives (`Keyed`). `plain` says whether what a reply
carries can be serialised. It is nondeterministic: the four acceptors send the
arguments of `processMsg` (the socket, the acceptor, the packet) instead of
those of the callback, and whether `JSON.stringify` takes them depends on the
node version and on the interval timer. Where it does not, or where a ws2
socket is in its closing handshake, writing throws: `Blocked` is the queue a
flush throws at, `Reached` those before it. mqtt2 encodes when the reply is
made, also into a buffer (`ReplyThrows`), and its flush hands the array of
encoded replies to the library as one payload; `bulk` says whether the library
takes it, and nondeterministically so (`FlushThrows`). A ws2 connection in its
closing handshake is still read. A tcp socket has no 'error' listener: its error
is an uncaught exception and forgets nothing until 'close'.

### Router, ConsistentHash

One server type; the list changes by `addServer`, `replaceServers` and the
splice of failover, weights by a new `addServer`. `routerType` is chosen by the
initial state, so one run covers the four routers. `Walk` is the
`while (true)` of `wrr`, turn by turn; `WrrEnds` says it ends within the bound
on the turns whatever list the stored parameter was made for. `rr` stores its
index after the callback; no call is routed inside the callback of another one
here (see "Known divergences"). `picks` counts the calls each server got since
the moment from which its router promises something; for `la` that ends when a
server joins whose count is lost.

Digests are points; the initial state chooses any injective placement of the
replicas. A node of the ring is the server it stands for. The first call builds
the ring, the events of the station keep it up. `AddServer` takes a server of
the ring too: its keys are pushed once more, so `keys` is a sequence with
duplicates (`Pushed`, `Spliced`). The search goes by the size of the map, so it
looks at `Seen`, the first `|ring|` keys only. `SearchFindsPredecessor` is about
those, doubled or not; that they are all the keys, and `MinimalMovement`, hold
while no key is doubled (`Undoubled`); once one is, digests move although the
map stays as it was.

### OutputBuffer, Coder

The buffer is its `count` and `capacity`; the capacity is doubled by a shift in
a word of `Word` values (2^32 in JavaScript). A packet is a sequence of fields
with their lengths, and `Coder` writes one per step into that buffer. Writer and
reader are checked as a pair: `ReadBack` reads the bytes that were written. The
coder does not hand these out: `Decode` reads what `getBuffer` returns, which is
cut at `offset`, always 0, and it throws every time. So `RoundTrip` says that
the formats agree, not that a message of mqtt2 arrives; none does. `writeObject`
is a function on `Nested`, a sequence of sets of values in which the elements of
an array come from the set before its own, so a value may have any finite depth;
the reader is a function on the positions of a packet, and reads only at later
ones.

## Runs

Passing runs, with the states TLC finds:

| Run | Question | Distinct states |
| --- | --- | --- |
| `client` | requests are sent again only by failover, only online servers are dialed, what is sent ends; under failfast and failover, step by step through each handler | 664 000 |
| `station_stop` | mqtt, mqtt2: no connection escapes the map or stop, queues bounded; late connects, two starts | 836 000 |
| `station_calls` | all transports with their late events, calls and removals from inside a flush: flushes are complete and in order, how often a callback runs and why, which two ways a call vanishes, silence after close, admitted calls settle | 236 000 |
| `mailbox` | refinement of the contract, callbacks, order, every send settles; with DISCONNECT | 3 400 |
| `keepalive` | both sides of the keep-alive timeout | 28 000 |
| `transports` | every step of tcp, ws, ws2 and mqtt2 is one of the contract, with the exceptions named; what they keep beyond it | 19 000 |
| `server_replies` | mqtt: one reply, on the right connection, none but an unserialisable one lost, queues written or freed unless the flush throws before | 241 000 |
| `acceptors` | the same for tcp, ws, ws2 and mqtt2 | 391 000 |
| `routers` | rr even over changes; the loop of wrr ends and keeps proportion; la picks the least called; ch finds the preceding key among those it looks at and moves the minimum; servers added again | 125 000 |
| `coder` | every write fits; the reader inverts the writer; a value without a type is never read as another one | 23 000 |

Runs that TLC must find violated; each is a line of the repository that the
code does not keep (`findings` in `PROJECT.json`):

| Run | What happens |
| --- | --- |
| `station_stop_leak` | a late connect failure of an old mailbox drops the new one unclosed, and stop misses it |
| `acceptor_replies` | replies of tcp, ws, ws2 and mqtt2 carry the arguments of `processMsg`, not the result |

The properties name the exceptions each transport makes (`kind = ...`), so that
they say where a promise ends, not merely that it does:

* `AnsweredOncePerCause`: over mqtt, mqtt2 and ws a lost connection tells all
  waiting callbacks and leaves their timers, which call a second time.
* `LostOnlyByOrphans`: a flush without a mailbox, or that loses its mailbox,
  deletes a queue it has just filled again; the timer of ws2 calls nobody.
* `AdmittedSettles`: not over ws2, for that timer.
* `AdmittedInOrder`: a call made inside the flush of its own server passes the
  calls that the loop has not reached.
* `KeepsContract`: the timer of ws2 calls nobody; mqtt2 sends before it has
  reported that it is connected.
* `AnsweredOnce`: ws and mqtt2 tell all waiting callbacks of a disconnection
  and leave requests and timers behind; those may call a second time.
* `EverySendEnds`: the request timer of ws2 calls nobody.
* `DroppedIsDead`: after an error of socket.io the station has dropped a
  mailbox whose socket may still connect.
* `DeadIsNoticed`: an error of a connected tcp socket throws and is never
  reported.
* `OneReplyHome`, `NoReplyLost`: buffered replies of tcp go to the connection
  accepted last (`Shared`); over mqtt, unbuffered, a result that cannot be
  serialised is gone (`Unsent`).
* `QueuesDrain`: over mqtt not the queue a flush throws at, nor those behind it
  (`Stuck`); over mqtt2 only where the library takes an array (`bulk`); never
  once the server is stopped.

### Bounds

* Client: two servers in every order, one call, which may be a broadcast to
  both, two changes of the servers, one start. One call is enough for several
  addresses at once, each parked, sent, retried and answered on its own. With
  one start there is one failure listener; a second one repeats `Failover` per
  listener, and that case is in the module and outside the run.
* Client, queues: `PendingSize = 1`; a single call never fills it twice over, so
  the overflow is the business of the station's runs.
* Station: `MaxCalls`, `MaxBoxes`, `MaxStarts` bound the calls, mailboxes and
  starts. `station_stop` has two servers (a removal that spares one), three
  mailboxes (an old one, its replacement, the replacement of that one), two
  starts and two calls with `PendingSize = 0`, which overflow a queue.
  `station_calls` has one server, three mailboxes and two calls over each of the
  five transports: both may be parked and flushed, or one be made inside the
  flush of the other, be answered, timed out or told of a loss. Longer queues are
  the theorems' business. `Spare` keeps one mailbox for the rest of a running
  loop: the bound never cuts a flush short.
* Mailboxes: three or four sends give requests that are answered, timed out and
  queued at the same time; `MaxTold = 2` bounds the errors and
  handshakes that invoke the connect callback again.
  `mailbox` buffers, as the flush is what is hard; the proofs cover a mailbox
  that does not. `transports` has both.
* Keep-alive: 40 units are twenty intervals; the state repeats its shape after
  three.
* Servers: two connections (one gone, one alive), three requests in packets of
  one or two; buffering on and off.
* Routers: three servers, every weight in 0..2, two changes of list or weight;
  ten calls are two full rounds of most weightings.
* Ring: two replicas of three servers on six points, every placement, three
  servers added or removed; with a server missing there are points below,
  between and above the keys.
* Coder: arrays of at most two values, nested once; initial sizes from 1 to 32
  and a word of 64, so that the capacity overflows the word within 200 bytes.

Deadlock checking is off: a bounded run stops when its bounds are used up, and
the real program may stop likewise (no calls, no timers).

### Fairness

* `RpcClient`: a request that was sent is answered or its timer fires, and a
  handler that runs comes to its end (each failover takes a server out of the
  list, so it does).
* `MailStation` (`FairSpec`): the loop of a flush comes to its end, request
  timers fire, a filter calls next. The timers are the code's own; filters that
  never call next are user code and void the claim. No answer of a mailbox is
  assumed.
* `MqttMailbox`, `Transports`: request timers fire; the keep-alive of mqtt2
  finds a peer silent that has vanished (in time: `KeepAlive`).
* `RpcServer`, `Acceptors`: the flush interval fires, until the server is
  stopped; a closing handshake of ws2 comes to its end (the library has a timer
  for it).

## Proofs

TLAPS proves these for all values of the constants.

* `RpcClientProofs`. The invariant is `Shape` (`TypeCorrect`), `SInv` and
  `Counts`. That no dispatch is sent twice (`SendsAreCounted`) is not inductive:
  it needs that an address which can still be sent has not been and waits in one
  place only, as a step of the handler or parked (`Waits`, `Parked`); only those
  of the loop that delivers them are both. That exception is harmless by
  `Loop`: the loop either finds its mailbox up and sends, or, once the station
  is stopped, meets errors and failovers; it never parks, so the queue it
  deletes at the end holds nothing else, and an exception that ends it before it
  deletes the queue comes before anything was sent. `Counts` says that the
  dispatches of a call are its targets and one for each run of failover.
  `OnlyOnlineConnected` follows from `Shape`.
* `MailStationProofs`. `TypeCorrect` proves `TypeOK`, one lemma per group of
  actions. `FlushComplete`, `QueueBound` and `AdmissionOrder` come from the
  inductive invariant `QInv`. The calls that are `Due` at a server are those its
  flush has not reached, or else its whole queue: they are in order
  (`DueInOrder`) and younger than what was admitted outside of a flush
  (`DueLater`). The order of admissions alone is not inductive: a turn of the
  flush admits a parked call, which must be known to be younger than everything
  admitted before. `OneAnswer` adds `Tokens`: a filter run is in one place only
  (before filters, one mailbox, after filters) until its call is answered, and
  the requests a lost connection was told of are the exception: their mailbox
  hears no reply any more, so that only the timer can answer once again
  (`RunOK`). `NoStrayBox` and `StopReachesAll` assume `Kinds` to be mqtt and
  mqtt2, which report no failure of a connect; over the others
  `station_stop_leak` violates them. They come from `BoxInv`: a mailbox is made
  only for a server without an entry, and one that leaves the map is closed,
  also when the flush of a late connect callback connects again.
  `NothingElseLost` needs `Passed`: while the mailbox that a flush found is in
  place (`Mounted`), its server is not connecting, so nothing is parked again,
  and each call that the loop has passed is under way or over.
  `ClosedTakesNothing` needs no more than the shape of the state. All but those
  two theorems are about every transport.
* `MqttMailboxProofs`. `Timers` and `CallbackCount` from one invariant on
  requests, timers and the counts of callbacks; `Refinement` shows that every
  step maps to a step of `MailboxContract` or a stutter. `PublishingOrder` comes
  from `OInv`: what was published followed by what is queued (`all`) is one
  ascending sequence that ends at the last send; a flush moves the border
  between the two and changes nothing else.
* `TransportsProofs`. `CallbackCount` from `Shape`, `Counts` and `Losses`: a
  waiting request has been called at most once, and only by a handler of a loss
  (`Early`); a tcp socket has none, and where a loss ends the socket no second
  one can come. The lemmas on the operations of `MailboxBase` (`SettleStep`,
  `LossStep`, ...) serve all transports; `TcpBase`, `WsBase`, ... state that the
  instances of the base module in each transport are those operations.
  `DroppedBoxes` holds because nothing revives a closed mailbox or a socket that
  is gone (`StaysDead`); `ClosedBoxes` needs no more than what one step writes
  (`Quiet`). `ContractKept` is the refinement, with its exceptions: each
  operation of the base module maps to one step of the contract, which needs
  `Hooks`, that an open mailbox is connected once its connect callback has
  reported success, and, except over mqtt2, not before.
* `RpcServerProofs`. `RepliesGoHome` and `RepliesKept` from an invariant that
  adds `Fresh`: a request that runs has no reply queued or written, a queued
  reply sits in the queue of its own connection and is not written yet. Without
  it a flush could write a second time. `FlushStep` splits the queues at the one
  that a flush throws at: those before it are written and emptied, the others
  stay as they are. `DeliverStep` is the one argument for the three actions that
  hand replies on; it needs only that these requests are untouched so far.
* `AcceptorsProofs`. The same two results for the other four, with a flush and
  packets that may throw half way. `Homes` says that sockets and replies are
  under the key of their connection, `Places` that what runs or waits is not
  written and nothing does both; `FlushStep` and `AnswerStep` are the two long
  arguments, and the steps of the transports cite them.
* `RouterProofs`. `RoundRobinIsFair`: since the list changed the index has gone
  round from some position, and the servers between there and the index are one
  call ahead of the others. `LeastCalledIsPicked`: a listed server that has a
  count has the number of its calls. `WrrLoopEnds` bounds the turns of the
  `while (true)` by `n * (weight + 2)`: until the weight is made full each turn
  comes nearer to the head of the list or to a lower weight, and after that to
  the server with the full weight. `WeightsAreDealt` comes from `Dealt`: with
  the loop at position i and weight w, each server has had the part of its
  weight above w, and those before i one call more. `SearchIsRight`: between two
  bounds only one position can be the answer, and each look at the middle keeps
  it between them; it needs of the keys that they are sorted, not that they are
  distinct (`KeysSearched`), so a server may be added again. `PushedOK` and
  `SplicedOK` show that the keys stay those of the map. `MovesAreMinimal`: a key
  of another server stays the nearest one below its digests. Induction here is
  stated about sets of numbers (`Induction`), as a theorem with an operator
  parameter cannot be cited; the recursive functions are first shown to exist.
* `KeepAliveCoderProofs`. `FalseAlarms` and `Detection` from an invariant that
  ties the next check, the last ping and the death of the peer together.
  `WritesFit`: whatever the word size does to the shift, `Grown` gives at least
  what is asked for; `EncodingFits`, that the coder does nothing else to its
  buffer. `ReaderInvertsWriter` is about the pair of them, not about the
  packets, which are empty: writer, reader and `Expected` are recursive
  functions, which are first shown to exist, by induction over depth and over
  positions from the end. `ReadsBack`, the heart of it, is by induction over
  depth: where a packet has what was written of a value, one `readObject` gives
  the expected value and ends right behind it; the elements of an array are
  taken from the last backwards (`ElementsRead`). The invariant of the steps is
  that written and unwritten fields together are the header and the value.

The assumptions are those of the modules: finite sets, natural bounds, Boolean
flags, and of the coder that the elements of an array are less deep than it is.
Model-checked only are the liveness properties, which the prover does not handle
(`AdmittedSettles`, `SentSettles`, `EverySendSettles`,
`EverySendEnds`, `DeadIsNoticed`, `QueuesDrain`).

## Known divergences

Met while modelling, each read off the lines given; those with a run are under
"Runs". The models do what the code does, except where a line below or "Not
modelled" says that they leave it out.

Client and station:

* `mailstation.ts:192`: a removed server stays in `serversMap`, so the routers
  go on offering it; `client` shows that it is not dialed.
* `mailstation.ts:278`: a call on a closed station is reported by `error` and
  its callback never invoked, while `test/rpc-client/mailstation.js:301`
  expects the callback.
* `mailstation.ts:404-416`: calls parked for a lazy connect that fails stay
  parked, while `test/rpc-client/mailstation.js:213` expects their callback; a
  later call that dials takes them along.
* `mailstation.ts:523-539`: a flush that finds its server removed parks its calls
  again and then deletes them; nobody is told (`OrphanFlushEnds`).
* `mailstation.ts:439`: an after filter that looks into the reply gets none when
  tcp or ws2 hand an error over in the slot of the tracer, and may throw. The
  model has the filters end.
* `failureProcess.ts:53-82`: failover takes the server out of the routers' list
  for good; the reply to a retry is given to nobody; with nobody left it calls
  an undefined callback, and on a failed connect it reads `serverType` of a
  missing message: both throw. A call to an unknown server is both retried and
  parked. Failback does nothing, failsafe cannot be selected.
* `client.ts:109-119`: two starts before the first tick register two failure
  listeners, and a tick after `stop` starts the client again.
* `client.ts:364-376`: a proxy called while the client is not running returns
  `undefined` and leaves an unhandled rejection behind.
* `client.ts:391`, `514`: the promise of a call to a given server is fulfilled
  with the first argument of the callback, an error or null; the value is lost.

Transports:

* `tcp-mailbox.ts:245` spreads the reply into the arguments of the callback, of
  which the station hands on the first; on the way the result is dropped.
* `util/buffer/outputBuffer.ts:225`: `getBuffer` cuts at `offset`, which nothing
  advances, so a payload of mqtt2 is empty and the decoder throws: on the server
  outside the `try` (`mqtt2-acceptor.ts:98`), on the client inside it (`Decode`,
  `PublishUnreadable`).
* `mqtt2-acceptor.ts:291-299` parses as JSON the services, which `server.ts`
  passes as an object: the handshake throws.
* `ws-acceptor.ts`, `ws2-acceptor.ts`, `mqtt2-acceptor.ts`: the same
  `arguments` as in `tcp-acceptor.ts:156` (run `acceptor_replies`).
* `util/coder.ts:27-29`: a method that the services do not name is encoded as
  number 0. Floats lose precision, integers beyond 32 bits throw, and a function
  in an array shifts all that follows it.

Server and routers:

* `mqtt-acceptor.ts:265`: a buffered reply that cannot be serialised makes every
  flush throw at the same queue, and those behind it wait for ever; unbuffered,
  the reply is lost in an unhandled rejection (`mqtt-acceptor.ts:270-276`).
* `mqtt2-acceptor.ts:268-279`: the flush publishes the array of encoded replies as
  one payload, which the library may refuse and no mailbox can decode.
* `tcp-acceptor.ts:78-107`: no 'error' listener is set on the socket, so a socket
  error is an uncaught exception.
* `gateway.ts:104`: a reload of one path replaces the services of all paths
  (`dispatcher.ts:20-23`), so the others are answered "no such namespace";
  `README.md:9` has the server export them.
* `router.ts:74`: `rr` stores the index after the callback; a call routed
  inside the callback gets the same server and one step is stored for both.
* `router.ts:182`: the count of a server that joins late is stored in the wrong
  map and becomes NaN at line 211, so `la` picks that server over and over.
* `router.ts:211`: the counts of `la` are never decremented; they are calls
  made, not calls in progress.
* `router.ts:242-246`: the ring of the first `ch` call holds server infos, and
  `getNode` hands one out where an id is expected.
* `consistentHash.ts:42`: a server of any type that is added joins every ring.
* `consistentHash.ts:53`: adding a server that is in the ring doubles its keys;
  the search covers the first `|ring|` keys only, and digests of other servers
  move.

## Not modelled

Logging, tracing and error texts, and with them the traced replies of mqtt2;
JSON, mqtt and tcp framing; the object proxy (`util/proxy.ts`) beyond the call it
makes; service loading; beans, which a library creates, and
`OutputBuffer.write`, which nobody calls; the timing of ws2's keep-alive.
Exceptions thrown inside the flush of `MailStation` (by a filter or a listener)
are left to `RpcClient`, where `Throws` ends the loop. Servers of another type,
which join a ring too, and `replaceServers`, which no ring hears of, are not in
`ConsistentHash`. Inside a disconnect loop a callback that sends at once is not
modelled. Failure before the connect callback of mqtt is kept as a flag
(`unheard`) and claimed nothing about. `sample/`, the generated thrift code in
it and the JavaScript tests are no part of the library.

## Plan

Done: the client with its failure modes and proofs; the station over all
transports with its proofs; the mqtt mailbox with contract and proofs; the
keep-alive with proofs; the other four mailboxes and acceptors with proofs, and
the mailboxes' contract; gateway and dispatcher with proofs; the routers and the
ring with proofs; the coder and its buffer with proofs.

Left, in this order:

1. A session: `MqttMailbox` composed with `RpcServer` over a pair of FIFO
   streams that may be cut, which implements `MqttMailbox` with its free
   network; every method runs at most once per call, a reply belongs to its
   call.
2. A connect callback that reports success a second time (mqtt2, another
   handshake) in `MailStation`; second reports with an error (tcp, ws2) are there.
