-------------------------- MODULE RpcClientProofs --------------------------
(* Proofs about the client, for any servers, any number of calls, starts    *)
(* and changes of the servers, and each failure mode.                       *)
EXTENDS RpcClient, FiniteSetTheorems, TLAPS

Addresses == [call : 1..MaxCalls, server : Servers, cb : BOOLEAN]
OnAddress == {"dispatch", "park", "failover", "error"}
FrameSet  == [op : OnAddress \cup {"return"}, on : Nat] \cup [op : {"delete"}, on : Servers]

(* The values of the variables, and how they are aligned.                    *)
Typed ==
    /\ state \in {"inited", "started", "closed"} /\ listeners \in Nat
    /\ serversMap \in Seq(Servers)
    /\ mailbox \in [Servers -> {"none", "connecting", "up", "shut", "stuck"}]
    /\ pendings \in [Servers -> Seq(Nat)]
    /\ addresses \in Seq(Addresses)
    /\ sent \in Seq(Nat) /\ Len(sent) = Len(addresses)
    /\ retries \in [1..MaxCalls -> Nat]
    /\ kinds \in Seq({"route", "to", "all"}) /\ Len(kinds) <= MaxCalls
    /\ targets \in Seq(SUBSET Nat) /\ Len(targets) = Len(kinds)
    /\ promise \in Seq({"pending", "fulfilled", "error", "rejected", "none"})
    /\ Len(promise) = Len(kinds)
    /\ todo \in Seq(FrameSet)

Referring ==
    /\ \A a \in DOMAIN addresses : addresses[a].call \in DOMAIN kinds
    /\ \A i \in DOMAIN todo :
          /\ todo[i].op \in OnAddress => todo[i].on \in DOMAIN addresses
          /\ todo[i].op = "return" => todo[i].on \in DOMAIN promise
          /\ todo[i].op \in {"return", "delete"} => i = Len(todo)

Shape == Typed /\ Referring

(* The handler that runs is the loop over the parked addresses of s.         *)
Delivering(s) == todo # << >> /\ todo[Len(todo)].op = "delete" /\ todo[Len(todo)].on = s

(* The steps of the handler from which an address gets sent.                 *)
Live(i) == todo[i].op \in {"dispatch", "park"}

(* An address that can still be sent has not been, and waits in one place:   *)
(* as a step of the handler, or parked; those the loop is about are both.    *)
Waits ==
    /\ \A i, j \in DOMAIN todo : Live(i) /\ Live(j) /\ todo[i].on = todo[j].on => i = j
    /\ \A i \in DOMAIN todo : Live(i) => sent[todo[i].on] = 0
    /\ \A i \in DOMAIN todo, s \in Servers :
          Live(i) /\ todo[i].on \in Range(pendings[s]) => Delivering(s)

Parked ==
    \A s \in Servers :
       /\ IsInjective(pendings[s])
       /\ \A k \in DOMAIN pendings[s] :
             /\ pendings[s][k] \in DOMAIN addresses
             /\ addresses[pendings[s][k]].server = s
             /\ sent[pendings[s][k]] = 0 \/ (Delivering(s) /\ state = "started")

(* The loop sends, or, after a stop, finds errors: it never parks, and an    *)
(* exception can leave it only before anything was sent.                     *)
Loop ==
    \A s \in Servers : Delivering(s) =>
       \A i \in DOMAIN todo \ {Len(todo)} :
          /\ todo[i].op \in {"dispatch", "failover"}
          /\ state = "started" =>
                todo[i].op = "dispatch" /\ addresses[todo[i].on].server = s /\ mailbox[s] = "up"

SentAtMostOnce == \A a \in DOMAIN sent : sent[a] <= 1

SInv == Waits /\ Parked /\ Loop /\ SentAtMostOnce

(* The dispatches made for call c. *)
Made(c) == {a \in DOMAIN addresses : addresses[a].call = c}

Counts ==
    \A c \in 1..MaxCalls :
       /\ IsFiniteSet(Made(c))
       /\ c \in DOMAIN kinds =>
             IsFiniteSet(targets[c]) /\ Cardinality(Made(c)) = Cardinality(targets[c]) + retries[c]
       /\ c \notin DOMAIN kinds => Made(c) = {} /\ retries[c] = 0

-----------------------------------------------------------------------------
(* The operators.                                                            *)

LEMMA Appended ==
    ASSUME NEW S, NEW s \in Seq(S), NEW e \in S
    PROVE  /\ Append(s, e) \in Seq(S) /\ Len(Append(s, e)) = Len(s) + 1 /\ Len(s) \in Nat
           /\ DOMAIN s = 1..Len(s) /\ DOMAIN Append(s, e) = 1..(Len(s) + 1)
           /\ DOMAIN s \subseteq DOMAIN Append(s, e)
           /\ \A i \in DOMAIN s : Append(s, e)[i] = s[i]
           /\ Append(s, e)[Len(s) + 1] = e
  OBVIOUS

LEMMA FrameParts ==
    ASSUME NEW op, NEW on
    PROVE  Frame(op, on).op = op /\ Frame(op, on).on = on
  BY DEF Frame

LEMMA Listeners ==
    ASSUME Typed, NEW a \in Nat, NEW E, E = EmitError(a)
    PROVE  /\ E \in Seq(FrameSet)
           /\ \A i \in DOMAIN E : E[i].op = "failover" /\ E[i].on = a
<1> DEFINE n == IF failMode = "failover" THEN listeners ELSE 0
<1>1. n \in Nat
  BY DEF Typed
<1>2. E = [i \in 1..n |-> Frame("failover", a)]
  BY DEF EmitError
<1>3. Frame("failover", a) \in FrameSet
  BY DEF Frame, FrameSet, OnAddress
<1> HIDE DEF n
<1>4. E \in Seq(FrameSet) /\ \A i \in DOMAIN E : E[i] = Frame("failover", a)
  BY <1>1, <1>2, <1>3
<1> QED
  BY <1>4, FrameParts

LEMMA Orderly ==
    ASSUME NEW q \in Orders
    PROVE  q \in Seq(Servers) /\ IsInjective(q) /\ Range(q) \subseteq Servers
<1>1. PICK k \in 0..Cardinality(Servers) : q \in [1..k -> Servers] /\ IsInjective(q)
  BY DEF Orders
<1>2. k \in Nat
  OBVIOUS
<1>3. q \in Seq(Servers)
  BY <1>1, <1>2
<1> QED
  BY <1>1, <1>3 DEF Range

LEMMA SpliceType ==
    ASSUME NEW list \in Seq(Servers), NEW s
    PROVE  Spliced(list, s) \in Seq(Servers)
<1>1. CASE s \in Range(list)
  <2> DEFINE i == CHOOSE i \in DOMAIN list : list[i] = s
  <2>1. i \in DOMAIN list
    BY <1>1 DEF Range
  <2>2. i \in 1..Len(list) /\ Len(list) \in Nat
    BY <2>1
  <2>3. Spliced(list, s) = SubSeq(list, 1, i - 1) \o SubSeq(list, i + 1, Len(list))
    BY <1>1 DEF Spliced
  <2> HIDE DEF i
  <2>4. SubSeq(list, 1, i - 1) \in Seq(Servers) /\ SubSeq(list, i + 1, Len(list)) \in Seq(Servers)
    BY <2>2
  <2> QED
    BY <2>3, <2>4
<1>2. CASE s \notin Range(list)
  BY <1>2 DEF Spliced
<1> QED
  BY <1>1, <1>2

(* The steps of the handler after its first has made the calls F. *)
LEMMA CallsShape ==
    ASSUME todo \in Seq(FrameSet), todo # << >>, NEW F \in Seq(FrameSet), Calls(F)
    PROVE  /\ todo' \in Seq(FrameSet)
           /\ Len(todo') = Len(F) + Len(todo) - 1 /\ Len(F) \in Nat /\ Len(todo) \in Nat \ {0}
           /\ \A i \in DOMAIN todo' :
                \/ i \in DOMAIN F /\ todo'[i] = F[i]
                \/ /\ i - Len(F) + 1 \in DOMAIN todo \ {1} /\ i > Len(F)
                   /\ todo'[i] = todo[i - Len(F) + 1]
<1>1. Tail(todo) \in Seq(FrameSet) /\ Len(Tail(todo)) = Len(todo) - 1 /\ Len(todo) \in Nat \ {0}
  OBVIOUS
<1>2. \A i \in 1..Len(Tail(todo)) : Tail(todo)[i] = todo[i + 1]
  OBVIOUS
<1>3. todo' = F \o Tail(todo)
  BY DEF Calls
<1>4. /\ todo' \in Seq(FrameSet) /\ Len(todo') = Len(F) + Len(Tail(todo)) /\ Len(F) \in Nat
      /\ DOMAIN todo' = 1..Len(todo') /\ DOMAIN F = 1..Len(F) /\ DOMAIN todo = 1..Len(todo)
  BY <1>1, <1>3
<1>5. \A i \in DOMAIN todo' :
        todo'[i] = IF i <= Len(F) THEN F[i] ELSE Tail(todo)[i - Len(F)]
  BY <1>1, <1>3, <1>4
<1>6. ASSUME NEW i \in DOMAIN todo', i > Len(F)
      PROVE  i - Len(F) + 1 \in DOMAIN todo \ {1} /\ todo'[i] = todo[i - Len(F) + 1]
  <2>1. i - Len(F) \in 1..Len(Tail(todo))
    BY <1>1, <1>4, <1>6
  <2>2. todo'[i] = Tail(todo)[i - Len(F)]
    BY <1>4, <1>5, <1>6
  <2> QED
    BY <1>1, <1>2, <1>4, <2>1, <2>2
<1>7. \A i \in DOMAIN todo' : i > Len(F) \/ (i \in DOMAIN F /\ todo'[i] = F[i])
  BY <1>4, <1>5
<1> QED
  BY <1>1, <1>4, <1>6, <1>7

(* Failures of a, and then one more step. *)
LEMMA ErrorThen ==
    ASSUME Typed, NEW a \in Nat, NEW f \in FrameSet, f.on = a
    PROVE  LET F == Append(EmitError(a), f) IN
           /\ F \in Seq(FrameSet) /\ F # << >> /\ Len(F) \in Nat
           /\ \A i \in DOMAIN F : F[i].on = a /\ F[i].op = IF i = Len(F) THEN f.op ELSE "failover"
<1> DEFINE E == EmitError(a)
           F == Append(E, f)
<1>1. E \in Seq(FrameSet) /\ \A i \in DOMAIN E : E[i].op = "failover" /\ E[i].on = a
  BY Listeners
<1> HIDE DEF E
<1>2. /\ F \in Seq(FrameSet) /\ Len(F) = Len(E) + 1 /\ Len(E) \in Nat
      /\ DOMAIN E = 1..Len(E) /\ DOMAIN F = 1..(Len(E) + 1)
      /\ \A i \in 1..Len(E) : F[i] = E[i]
      /\ F[Len(E) + 1] = f
  BY <1>1
<1>3. \A i \in DOMAIN F : F[i].on = a /\ F[i].op = IF i = Len(F) THEN f.op ELSE "failover"
  BY <1>1, <1>2
<1> QED
  BY <1>2, <1>3 DEF E

-----------------------------------------------------------------------------
(* Shape: the handlers that make no synchronous calls.                       *)

CallState == <<addresses, sent, retries, kinds, targets, promise, pendings, todo>>

(* What is left to check when only the client, the servers or the mailboxes  *)
(* change.                                                                   *)
LEMMA ShapeFrame ==
    ASSUME Shape, UNCHANGED CallState,
           state' \in {"inited", "started", "closed"}, listeners' \in Nat,
           serversMap' \in Seq(Servers),
           mailbox' \in [Servers -> {"none", "connecting", "up", "shut", "stuck"}]
    PROVE  Shape'
<1>1. Typed'
  BY DEF Shape, Typed, CallState
<1>2. Referring'
  BY DEF Shape, Referring, CallState
<1> QED
  BY <1>1, <1>2 DEF Shape

LEMMA CloseAllMailboxes ==
    ASSUME Typed, CloseAll
    PROVE  /\ mailbox' \in [Servers -> {"none", "connecting", "up", "shut", "stuck"}]
           /\ UNCHANGED <<serversMap, pendings, addresses, sent, retries>>
           /\ \A s \in Servers : mailbox[s] = "none" => mailbox'[s] = "none"
  BY DEF CloseAll, Typed

LEMMA LifeFrame ==
    ASSUME Shape, Life
    PROVE  /\ UNCHANGED <<CallState, serverVars, serversMap, replied>>
           /\ state' \in {"inited", "started", "closed"} /\ listeners' \in Nat
           /\ mailbox' \in [Servers -> {"none", "connecting", "up", "shut", "stuck"}]
           /\ \A s \in Servers : mailbox[s] = "none" => mailbox'[s] = "none"
<1> USE DEF CallState, serverVars, stationVars, callVars
<1>1. CASE Start
  BY <1>1 DEF Start, Shape, Typed
<1>2. CASE StartTick
  BY <1>2 DEF StartTick, Shape, Typed
<1>3. CASE Stop
  BY <1>3, CloseAllMailboxes DEF Stop, Shape, Typed
<1>4. CASE GraceExpires
  BY <1>4, CloseAllMailboxes DEF GraceExpires, Shape, Typed
<1> QED
  BY <1>1, <1>2, <1>3, <1>4 DEF Life

LEMMA AdminFrame ==
    ASSUME Shape, Admin
    PROVE  /\ UNCHANGED <<CallState, lifeVars, replied>>
           /\ serversMap' \in Seq(Servers)
           /\ mailbox' \in [Servers -> {"none", "connecting", "up", "shut", "stuck"}]
<1> USE DEF CallState, lifeVars, callVars
<1>1. ASSUME NEW s \in Servers, RemoveServer(s)
      PROVE  /\ UNCHANGED <<CallState, lifeVars, serversMap, replied>>
             /\ mailbox' \in [Servers -> {"none", "connecting", "up", "shut", "stuck"}]
  BY <1>1 DEF RemoveServer, Change, Shape, Typed
<1>2. ASSUME NEW q \in Orders, AddServers(q)
      PROVE  /\ UNCHANGED <<CallState, lifeVars, mailbox, replied>>
             /\ serversMap' \in Seq(Servers)
  <2>1. PICK new \in Orders : serversMap' = serversMap \o new
    BY <1>2 DEF AddServers
  <2>2. serversMap' \in Seq(Servers)
    BY <2>1, Orderly DEF Shape, Typed
  <2> QED
    BY <1>2, <2>2 DEF AddServers, Change
<1>3. ASSUME NEW q \in Orders, ReplaceServers(q)
      PROVE  /\ UNCHANGED <<CallState, lifeVars, mailbox, replied>>
             /\ serversMap' \in Seq(Servers)
  BY <1>3, Orderly DEF ReplaceServers, Change
<1> QED
  BY <1>1, <1>2, <1>3 DEF Admin, Shape, Typed

LEMMA BoxFrame ==
    ASSUME Shape, NEW s \in Servers, ConnectFails(s) \/ Closes(s)
    PROVE  /\ UNCHANGED <<CallState, lifeVars, serversMap, onlines, replied>>
           /\ mailbox' = [mailbox EXCEPT ![s] = "none"] /\ kept' = kept \ {s}
           /\ mailbox' \in [Servers -> {"none", "connecting", "up", "shut", "stuck"}]
<1> USE DEF CallState, lifeVars, callVars
<1>1. CASE ConnectFails(s)
  BY <1>1 DEF ConnectFails, Shape, Typed
<1>2. CASE Closes(s)
  BY <1>2 DEF Closes, Shape, Typed
<1> QED
  BY <1>1, <1>2

(* What a callback does to the promises.                                     *)
LEMMA SettledType ==
    ASSUME Shape, NEW a \in DOMAIN addresses, NEW ok \in BOOLEAN
    PROVE  /\ Settled(a, ok) \in Seq({"pending", "fulfilled", "error", "rejected", "none"})
           /\ Len(Settled(a, ok)) = Len(promise)
           /\ \A c \in DOMAIN promise :
                 \/ Settled(a, ok)[c] = promise[c]
                 \/ Settled(a, ok)[c] \in {"error", "rejected"}
                 \/ ok /\ targets[c] \subseteq replied \cup {a}
<1>1. /\ promise \in Seq({"pending", "fulfilled", "error", "rejected", "none"})
      /\ addresses[a].call \in DOMAIN promise
      /\ DOMAIN promise = 1..Len(promise)
  BY DEF Shape, Typed, Referring
<1> DEFINE c == addresses[a].call
<1>2. \A v \in {"fulfilled", "error", "rejected"} :
         /\ [promise EXCEPT ![c] = v] \in Seq({"pending", "fulfilled", "error", "rejected", "none"})
         /\ Len([promise EXCEPT ![c] = v]) = Len(promise)
         /\ \A d \in DOMAIN promise : [promise EXCEPT ![c] = v][d] = IF d = c THEN v ELSE promise[d]
  BY <1>1
<1>3. CASE ~addresses[a].cb \/ promise[c] # "pending"
  BY <1>1, <1>3 DEF Settled
<1>4. CASE addresses[a].cb /\ promise[c] = "pending" /\ ~ok
  BY <1>2, <1>4 DEF Settled
<1>5. CASE addresses[a].cb /\ promise[c] = "pending" /\ ok /\ targets[c] \subseteq replied \cup {a}
  BY <1>2, <1>5 DEF Settled
<1>6. CASE addresses[a].cb /\ promise[c] = "pending" /\ ok /\ ~(targets[c] \subseteq replied \cup {a})
  BY <1>1, <1>6 DEF Settled
<1> QED
  BY <1>3, <1>4, <1>5, <1>6

(* A call that addresses nobody. *)
LEMMA NoAddress ==
    ASSUME Shape, InvokeRefused \/ RouteFails \/ RouteSilent
    PROVE  /\ UNCHANGED <<lifeVars, serverVars, stationVars, replied, todo>>
           /\ Len(kinds) < MaxCalls
           /\ kinds' = Append(kinds, "route") /\ targets' = Append(targets, {})
           /\ \E p \in {"none", "rejected", "error", "pending"} : promise' = Append(promise, p)
<1>1. CASE InvokeRefused
  BY <1>1 DEF InvokeRefused, NewCall
<1>2. CASE RouteFails
  BY <1>2 DEF RouteFails, NewCall
<1>3. CASE RouteSilent
  BY <1>3 DEF RouteSilent, NewCall
<1> QED
  BY <1>1, <1>2, <1>3

(* A call that addresses q. *)
LEMMA InvokeFacts ==
    ASSUME Shape, NEW kind \in {"route", "to", "all"}, NEW q \in Seq(Servers), Invoke(kind, q)
    PROVE  /\ UNCHANGED <<lifeVars, serverVars, serversMap, mailbox, pendings, retries, replied>>
           /\ Len(addresses) \in Nat /\ Len(q) \in Nat /\ Len(kinds) \in Nat
           /\ DOMAIN q = 1..Len(q) /\ DOMAIN addresses = 1..Len(addresses)
           /\ todo' \in Seq(FrameSet) /\ Len(todo') = Len(q) + 1
           /\ \A i \in DOMAIN q : todo'[i].op = "dispatch" /\ todo'[i].on = Len(addresses) + i
           /\ todo'[Len(q) + 1].op = "return" /\ todo'[Len(q) + 1].on = Len(kinds) + 1
           /\ addresses' \in Seq(Addresses) /\ Len(addresses') = Len(addresses) + Len(q)
           /\ \A a \in DOMAIN addresses : addresses'[a] = addresses[a]
           /\ \A i \in DOMAIN q : addresses'[Len(addresses) + i].call = Len(kinds) + 1
           /\ sent' \in Seq(Nat) /\ Len(sent') = Len(addresses')
           /\ \A a \in DOMAIN addresses : sent'[a] = sent[a]
           /\ \A i \in DOMAIN q : sent'[Len(addresses) + i] = 0
           /\ kinds' = Append(kinds, kind) /\ Len(kinds) < MaxCalls
           /\ targets' = Append(targets, {Len(addresses) + i : i \in DOMAIN q})
           /\ promise' = Append(promise, IF q = << >> THEN "fulfilled" ELSE "pending")
<1> DEFINE c == Len(kinds) + 1
           first == Len(addresses)
           frames == [i \in DOMAIN q |-> Frame("dispatch", first + i)]
           new == [i \in DOMAIN q |-> [call |-> c, server |-> q[i], cb |-> TRUE]]
           zeros == [i \in DOMAIN q |-> 0]
<1>1. /\ Len(kinds) < MaxCalls /\ kinds' = Append(kinds, kind)
      /\ UNCHANGED <<lifeVars, serverVars, serversMap, mailbox, pendings, retries, replied>>
      /\ targets' = Append(targets, {first + i : i \in DOMAIN q})
      /\ promise' = Append(promise, IF q = << >> THEN "fulfilled" ELSE "pending")
  BY DEF Invoke, NewCall
<1>2. addresses' = addresses \o new /\ sent' = sent \o zeros /\ todo' = Append(frames, Frame("return", c))
  BY DEF Invoke
<1>3. /\ first \in Nat /\ Len(sent) = first /\ MaxCalls \in Nat
      /\ Len(q) \in Nat /\ DOMAIN q = 1..Len(q) /\ Len(kinds) \in Nat
      /\ addresses \in Seq(Addresses) /\ sent \in Seq(Nat) /\ DOMAIN addresses = 1..first
      /\ DOMAIN sent = DOMAIN addresses
  BY BoundsAssumption DEF Shape, Typed, BoundsAssumption
<1>4. c \in 1..MaxCalls /\ c \in Nat
  BY <1>1, <1>3
<1>5. Frame("return", c) \in FrameSet /\ \A i \in DOMAIN q : Frame("dispatch", first + i) \in FrameSet
  BY <1>3, <1>4 DEF Frame, FrameSet, OnAddress
<1>6. frames \in Seq(FrameSet) /\ Len(frames) = Len(q) /\ DOMAIN frames = DOMAIN q
  BY <1>3, <1>5
<1>7. new \in Seq(Addresses) /\ Len(new) = Len(q) /\ DOMAIN new = DOMAIN q
  BY <1>3, <1>4 DEF Addresses
<1>8. zeros \in Seq(Nat) /\ Len(zeros) = Len(q) /\ DOMAIN zeros = DOMAIN q
  BY <1>3
<1>9. /\ \A i \in DOMAIN q : frames[i] = Frame("dispatch", first + i)
      /\ \A i \in DOMAIN q : new[i].call = c
      /\ \A i \in DOMAIN q : zeros[i] = 0
  OBVIOUS
<1> HIDE DEF frames, new, zeros
<1>10. /\ todo' \in Seq(FrameSet) /\ Len(todo') = Len(q) + 1
       /\ \A i \in DOMAIN q : todo'[i] = Frame("dispatch", first + i)
       /\ todo'[Len(q) + 1] = Frame("return", c)
  BY <1>2, <1>5, <1>6, <1>9, Appended
<1>11. /\ \A i \in DOMAIN q : todo'[i].op = "dispatch" /\ todo'[i].on = first + i
       /\ todo'[Len(q) + 1].op = "return" /\ todo'[Len(q) + 1].on = c
  BY <1>10, FrameParts
<1>12. /\ addresses' \in Seq(Addresses) /\ Len(addresses') = first + Len(q)
       /\ \A a \in DOMAIN addresses : addresses'[a] = addresses[a]
       /\ \A i \in DOMAIN q : addresses'[first + i] = new[i]
  <2>1. addresses' = addresses \o new
    BY <1>2
  <2>2. addresses \in Seq(Addresses) /\ new \in Seq(Addresses)
    BY <1>3, <1>7
  <2>3. /\ addresses \o new \in Seq(Addresses) /\ Len(addresses \o new) = Len(addresses) + Len(new)
        /\ \A a \in DOMAIN addresses : (addresses \o new)[a] = addresses[a]
        /\ \A i \in DOMAIN new : (addresses \o new)[Len(addresses) + i] = new[i]
    BY <2>2
  <2> QED
    BY <2>1, <2>3, <1>7
<1>13. \A i \in DOMAIN q : addresses'[first + i].call = c
  BY <1>9, <1>12
<1>14. /\ sent' \in Seq(Nat) /\ Len(sent') = first + Len(q)
       /\ \A a \in DOMAIN sent : sent'[a] = sent[a]
       /\ \A i \in DOMAIN q : sent'[first + i] = 0
  <2>1. sent' = sent \o zeros
    BY <1>2
  <2>2. sent \in Seq(Nat) /\ zeros \in Seq(Nat)
    BY <1>3, <1>8
  <2>3. /\ sent \o zeros \in Seq(Nat) /\ Len(sent \o zeros) = Len(sent) + Len(zeros)
        /\ \A a \in DOMAIN sent : (sent \o zeros)[a] = sent[a]
        /\ \A i \in DOMAIN zeros : (sent \o zeros)[Len(sent) + i] = zeros[i]
    BY <2>2
  <2> QED
    BY <2>1, <2>3, <1>3, <1>8, <1>9
<1>15. \A a \in DOMAIN addresses : sent'[a] = sent[a]
  BY <1>3, <1>14
<1> QED
  BY <1>1, <1>3, <1>10, <1>11, <1>12, <1>13, <1>14, <1>15

(* The record of one more call. *)
LEMMA OneMoreCall ==
    ASSUME Shape, NEW kind \in {"route", "to", "all"}, NEW T \in SUBSET Nat,
           NEW p \in {"pending", "fulfilled", "error", "rejected", "none"},
           Len(kinds) < MaxCalls,
           kinds' = Append(kinds, kind), targets' = Append(targets, T), promise' = Append(promise, p)
    PROVE  /\ kinds' \in Seq({"route", "to", "all"}) /\ Len(kinds') = Len(kinds) + 1
           /\ Len(kinds) \in Nat /\ Len(kinds') <= MaxCalls
           /\ DOMAIN kinds = 1..Len(kinds) /\ DOMAIN kinds' = 1..(Len(kinds) + 1)
           /\ targets' \in Seq(SUBSET Nat) /\ Len(targets') = Len(kinds')
           /\ promise' \in Seq({"pending", "fulfilled", "error", "rejected", "none"})
           /\ Len(promise') = Len(kinds') /\ DOMAIN promise' = DOMAIN kinds'
           /\ \A c \in DOMAIN kinds : /\ targets'[c] = targets[c] /\ promise'[c] = promise[c]
           /\ targets'[Len(kinds) + 1] = T /\ promise'[Len(kinds) + 1] = p
<1>1. /\ kinds \in Seq({"route", "to", "all"}) /\ targets \in Seq(SUBSET Nat)
      /\ promise \in Seq({"pending", "fulfilled", "error", "rejected", "none"})
      /\ Len(targets) = Len(kinds) /\ Len(promise) = Len(kinds) /\ MaxCalls \in Nat
  BY BoundsAssumption DEF Shape, Typed, BoundsAssumption
<1>2. /\ kinds' \in Seq({"route", "to", "all"}) /\ Len(kinds') = Len(kinds) + 1
      /\ Len(kinds) \in Nat /\ Len(kinds') <= MaxCalls
      /\ DOMAIN kinds = 1..Len(kinds) /\ DOMAIN kinds' = 1..(Len(kinds) + 1)
  BY <1>1, Appended
<1>3. /\ targets' \in Seq(SUBSET Nat) /\ Len(targets') = Len(kinds')
      /\ targets'[Len(kinds) + 1] = T /\ \A c \in DOMAIN kinds : targets'[c] = targets[c]
  BY <1>1, <1>2, Appended
<1>4. /\ promise' \in Seq({"pending", "fulfilled", "error", "rejected", "none"})
      /\ Len(promise') = Len(kinds') /\ DOMAIN promise' = DOMAIN kinds'
      /\ promise'[Len(kinds) + 1] = p /\ \A c \in DOMAIN kinds : promise'[c] = promise[c]
  BY <1>1, <1>2, Appended
<1> QED
  BY <1>2, <1>3, <1>4

LEMMA InvokeShape ==
    ASSUME Shape, NEW kind \in {"route", "to", "all"}, NEW q \in Seq(Servers), Invoke(kind, q)
    PROVE  Shape'
<1> DEFINE p == IF q = << >> THEN "fulfilled" ELSE "pending"
           T == {Len(addresses) + i : i \in DOMAIN q}
<1>1. /\ UNCHANGED <<state, listeners, serversMap, mailbox, pendings, retries>>
      /\ Len(addresses) \in Nat /\ Len(q) \in Nat /\ Len(kinds) \in Nat
      /\ DOMAIN q = 1..Len(q) /\ DOMAIN addresses = 1..Len(addresses)
      /\ todo' \in Seq(FrameSet) /\ Len(todo') = Len(q) + 1
      /\ addresses' \in Seq(Addresses) /\ Len(addresses') = Len(addresses) + Len(q)
      /\ sent' \in Seq(Nat) /\ Len(sent') = Len(addresses')
  BY InvokeFacts DEF lifeVars
<1>2. kinds' = Append(kinds, kind) /\ Len(kinds) < MaxCalls /\ targets' = Append(targets, T)
      /\ promise' = Append(promise, p)
  BY InvokeFacts
<1>3. T \in SUBSET Nat /\ p \in {"pending", "fulfilled", "error", "rejected", "none"}
  BY <1>1
<1> HIDE DEF p, T
<1>4. /\ kinds' \in Seq({"route", "to", "all"}) /\ Len(kinds') <= MaxCalls
      /\ DOMAIN kinds = 1..Len(kinds) /\ DOMAIN kinds' = 1..(Len(kinds) + 1)
      /\ targets' \in Seq(SUBSET Nat) /\ Len(targets') = Len(kinds')
      /\ promise' \in Seq({"pending", "fulfilled", "error", "rejected", "none"})
      /\ Len(promise') = Len(kinds') /\ DOMAIN promise' = DOMAIN kinds'
  BY <1>2, <1>3, OneMoreCall
<1>5. Typed'
  BY <1>1, <1>4 DEF Shape, Typed
<1>6. ASSUME NEW a \in DOMAIN addresses' PROVE addresses'[a].call \in DOMAIN kinds'
  <2>1. a \in 1..(Len(addresses) + Len(q))
    BY <1>1
  <2>2. CASE a \in DOMAIN addresses
    <3>1. addresses'[a] = addresses[a]
      BY <2>2, InvokeFacts
    <3> QED
      BY <2>2, <3>1, <1>1, <1>4 DEF Shape, Referring
  <2>3. CASE a \notin DOMAIN addresses
    <3>1. a - Len(addresses) \in DOMAIN q /\ a = Len(addresses) + (a - Len(addresses))
      BY <1>1, <2>1, <2>3
    <3>2. \A i \in DOMAIN q : addresses'[Len(addresses) + i].call = Len(kinds) + 1
      BY InvokeFacts
    <3>3. addresses'[Len(addresses) + (a - Len(addresses))].call = Len(kinds) + 1
      BY <3>1, <3>2
    <3>4. addresses'[a].call = Len(kinds) + 1
      BY <3>1, <3>3
    <3> QED
      BY <3>4, <1>1, <1>4
  <2> QED
    BY <2>2, <2>3
<1>7. ASSUME NEW i \in DOMAIN todo'
      PROVE  /\ todo'[i].op \in OnAddress => todo'[i].on \in DOMAIN addresses'
             /\ todo'[i].op = "return" => todo'[i].on \in DOMAIN promise'
             /\ todo'[i].op \in {"return", "delete"} => i = Len(todo')
  <2>1. i \in DOMAIN q \/ i = Len(q) + 1
    BY <1>1
  <2>2. DOMAIN addresses' = 1..(Len(addresses) + Len(q))
    BY <1>1
  <2>3. CASE i \in DOMAIN q
    <3>1. todo'[i].op = "dispatch" /\ todo'[i].on = Len(addresses) + i
      BY <2>3, InvokeFacts
    <3> QED
      BY <2>2, <2>3, <3>1, <1>1
  <2>4. CASE i = Len(q) + 1
    <3>1. todo'[i].op = "return" /\ todo'[i].on = Len(kinds) + 1
      BY <2>4, InvokeFacts
    <3> QED
      BY <2>4, <3>1, <1>1, <1>4 DEF OnAddress
  <2> QED
    BY <2>1, <2>3, <2>4
<1> QED
  BY <1>5, <1>6, <1>7 DEF Shape, Referring

LEMMA NoAddressShape == ASSUME Shape, InvokeRefused \/ RouteFails \/ RouteSilent PROVE Shape'
<1>1. /\ UNCHANGED <<state, listeners, serversMap, mailbox, pendings, addresses, sent, retries, todo>>
      /\ Len(kinds) < MaxCalls
      /\ kinds' = Append(kinds, "route") /\ targets' = Append(targets, {})
      /\ \E p \in {"none", "rejected", "error", "pending"} : promise' = Append(promise, p)
  BY NoAddress DEF lifeVars, stationVars
<1>2. PICK p \in {"none", "rejected", "error", "pending"} : promise' = Append(promise, p)
  BY <1>1
<1>3. /\ kinds' \in Seq({"route", "to", "all"}) /\ Len(kinds') <= MaxCalls
      /\ DOMAIN kinds = 1..Len(kinds) /\ DOMAIN kinds' = 1..(Len(kinds) + 1) /\ Len(kinds) \in Nat
      /\ targets' \in Seq(SUBSET Nat) /\ Len(targets') = Len(kinds')
      /\ promise' \in Seq({"pending", "fulfilled", "error", "rejected", "none"})
      /\ Len(promise') = Len(kinds') /\ DOMAIN promise' = DOMAIN kinds'
  BY <1>1, <1>2, OneMoreCall
<1>4. Typed'
  BY <1>1, <1>3 DEF Shape, Typed
<1>5. DOMAIN promise = DOMAIN kinds
  BY DEF Shape, Typed
<1>6. Referring'
  BY <1>1, <1>3, <1>5 DEF Shape, Referring
<1> QED
  BY <1>4, <1>6 DEF Shape

LEMMA ReplyShape ==
    ASSUME Shape, NEW a \in DOMAIN addresses, NEW ok \in BOOLEAN, Reply(a, ok)
    PROVE  Shape'
<1> USE DEF lifeVars
<1>1. promise' = Settled(a, ok)
  BY DEF Reply
<1>2. DOMAIN promise' = DOMAIN promise
  BY <1>1, SettledType DEF Shape, Typed
<1>3. Typed'
  BY <1>1, SettledType DEF Reply, Shape, Typed
<1>4. Referring'
  BY <1>2 DEF Reply, Shape, Referring
<1> QED
  BY <1>3, <1>4 DEF Shape

(* The steps of a timer. *)
LEMMA TimesOutFacts ==
    ASSUME Shape, NEW a \in DOMAIN addresses, TimesOut(a)
    PROVE  /\ UNCHANGED <<lifeVars, serverVars, serversMap, mailbox, pendings, addresses, sent,
                          retries, callVars>>
           /\ todo' \in Seq(FrameSet) /\ todo' # << >>
           /\ \A i \in DOMAIN todo' : todo'[i].op \in {"failover", "error"} /\ todo'[i].on = a
<1>1. /\ a \in Nat /\ todo' = Append(EmitError(a), Frame("error", a))
      /\ UNCHANGED <<lifeVars, serverVars, serversMap, mailbox, pendings, addresses, sent,
                     retries, callVars>>
  BY DEF TimesOut, Shape, Typed
<1>2. /\ todo' \in Seq(FrameSet) /\ todo' # << >>
      /\ \A i \in DOMAIN todo' :
            todo'[i].on = a /\ todo'[i].op = IF i = Len(todo') THEN "error" ELSE "failover"
  <2>1. PICK f : f = Frame("error", a)
    OBVIOUS
  <2>2. f \in FrameSet /\ f.op = "error" /\ f.on = a
    BY <1>1, <2>1, FrameParts DEF Frame, FrameSet, OnAddress
  <2>3. Typed /\ todo' = Append(EmitError(a), f)
    BY <1>1, <2>1 DEF Shape
  <2> QED
    BY <1>1, <2>2, <2>3, ErrorThen
<1>3. \A i \in DOMAIN todo' : todo'[i].op \in {"failover", "error"}
  BY <1>2
<1> QED
  BY <1>1, <1>2, <1>3

LEMMA TimesOutShape == ASSUME Shape, NEW a \in DOMAIN addresses, TimesOut(a) PROVE Shape'
<1>0. /\ UNCHANGED <<state, listeners, serversMap, mailbox, pendings, addresses, sent, retries,
                     kinds, targets, promise>>
      /\ todo' \in Seq(FrameSet)
      /\ \A i \in DOMAIN todo' : todo'[i].op \in {"failover", "error"} /\ todo'[i].on = a
  BY TimesOutFacts DEF lifeVars, callVars
<1>1. Typed'
  BY <1>0 DEF Shape, Typed
<1>2. Referring'
  BY <1>0 DEF Shape, Referring, OnAddress
<1> QED
  BY <1>1, <1>2 DEF Shape

(* The loop over the parked addresses. *)
LEMMA ConnectedFacts ==
    ASSUME Shape, NEW s \in Servers, Connected(s)
    PROVE  /\ UNCHANGED <<lifeVars, serverVars, serversMap, pendings, addresses, sent, retries,
                          callVars>>
           /\ mailbox[s] = "connecting" /\ mailbox' = [mailbox EXCEPT ![s] = "up"]
           /\ todo' \in Seq(FrameSet) /\ Len(todo') = Len(pendings[s]) + 1
           /\ Len(pendings[s]) \in Nat /\ DOMAIN pendings[s] = 1..Len(pendings[s])
           /\ \A i \in DOMAIN pendings[s] : todo'[i].op = "dispatch" /\ todo'[i].on = pendings[s][i]
           /\ todo'[Len(todo')].op = "delete" /\ todo'[Len(todo')].on = s
<1> DEFINE frames == [i \in DOMAIN pendings[s] |-> Frame("dispatch", pendings[s][i])]
<1>1. /\ UNCHANGED <<lifeVars, serverVars, serversMap, pendings, addresses, sent, retries, callVars>>
      /\ mailbox[s] = "connecting" /\ mailbox' = [mailbox EXCEPT ![s] = "up"]
      /\ todo' = Append(frames, Frame("delete", s))
  BY DEF Connected
<1>2. /\ pendings[s] \in Seq(Nat) /\ Len(pendings[s]) \in Nat
      /\ DOMAIN pendings[s] = 1..Len(pendings[s])
  BY DEF Shape, Typed
<1>3. frames \in Seq(FrameSet) /\ Len(frames) = Len(pendings[s])
  BY <1>2 DEF Frame, FrameSet, OnAddress
<1>4. Frame("delete", s) \in FrameSet
  BY DEF Frame, FrameSet
<1>5. /\ todo' \in Seq(FrameSet) /\ Len(todo') = Len(pendings[s]) + 1
      /\ \A i \in DOMAIN pendings[s] : todo'[i] = frames[i]
      /\ todo'[Len(todo')] = Frame("delete", s)
  <2> HIDE DEF frames
  <2> QED
    BY <1>1, <1>2, <1>3, <1>4, Appended
<1>6. /\ \A i \in DOMAIN pendings[s] : todo'[i].op = "dispatch" /\ todo'[i].on = pendings[s][i]
      /\ todo'[Len(todo')].op = "delete" /\ todo'[Len(todo')].on = s
  <2>1. \A i \in DOMAIN pendings[s] : todo'[i] = Frame("dispatch", pendings[s][i])
    BY <1>5
  <2> HIDE DEF frames
  <2> QED
    BY <1>5, <2>1, FrameParts
<1> QED
  BY <1>1, <1>2, <1>5, <1>6

LEMMA ConnectedShape == ASSUME Shape, Parked, NEW s \in Servers, Connected(s) PROVE Shape'
<1>0. /\ UNCHANGED <<state, listeners, serversMap, pendings, addresses, sent, retries, kinds,
                     targets, promise>>
      /\ mailbox' = [mailbox EXCEPT ![s] = "up"]
      /\ todo' \in Seq(FrameSet) /\ Len(todo') = Len(pendings[s]) + 1
      /\ Len(pendings[s]) \in Nat /\ DOMAIN pendings[s] = 1..Len(pendings[s])
      /\ \A i \in DOMAIN pendings[s] : todo'[i].op = "dispatch" /\ todo'[i].on = pendings[s][i]
      /\ todo'[Len(todo')].op = "delete" /\ todo'[Len(todo')].on = s
  BY ConnectedFacts DEF lifeVars, callVars
<1>1. Typed'
  BY <1>0 DEF Shape, Typed
<1>2. ASSUME NEW i \in DOMAIN todo'
      PROVE  /\ todo'[i].op \in OnAddress => todo'[i].on \in DOMAIN addresses
             /\ todo'[i].op # "return"
             /\ todo'[i].op \in {"return", "delete"} => i = Len(todo')
  <2>1. i \in DOMAIN pendings[s] \/ i = Len(todo')
    BY <1>0
  <2> QED
    BY <1>0, <2>1 DEF Parked, OnAddress
<1>3. Referring'
  BY <1>0, <1>2 DEF Shape, Referring
<1> QED
  BY <1>1, <1>3 DEF Shape

-----------------------------------------------------------------------------
(* The steps of a handler.                                                   *)

LEMMA HeadFacts ==
    ASSUME Shape, todo # << >>
    PROVE  /\ 1 \in DOMAIN todo /\ Head(todo) = todo[1] /\ Len(todo) \in Nat \ {0}
           /\ DOMAIN todo = 1..Len(todo)
           /\ Len(todo) \in DOMAIN todo
           /\ Head(todo).op \in OnAddress =>
                 Head(todo).on \in DOMAIN addresses /\ Head(todo).on \in Nat
<1>1. todo \in Seq(FrameSet)
  BY DEF Shape, Typed
<1>2. /\ 1 \in DOMAIN todo /\ Head(todo) = todo[1] /\ Len(todo) \in Nat \ {0}
      /\ DOMAIN todo = 1..Len(todo) /\ Len(todo) \in DOMAIN todo
  BY <1>1
<1>3. DOMAIN addresses \subseteq Nat
  BY DEF Shape, Typed
<1> QED
  BY <1>2, <1>3 DEF Shape, Referring

(* F are the calls of a step on address b: failures of it, and at the end    *)
(* perhaps one more step.                                                    *)
CallsOn(F, b) ==
    \A i \in DOMAIN F :
       /\ F[i].on = b /\ F[i].op \in OnAddress
       /\ F[i].op # "failover" => i = Len(F)

LEMMA DispatchFacts ==
    ASSUME Shape, Dispatch, NEW a, a = Head(todo).on, NEW s, s = addresses[a].server
    PROVE  /\ todo # << >> /\ Head(todo).op = "dispatch" /\ a \in DOMAIN addresses /\ s \in Servers
           /\ UNCHANGED <<lifeVars, serverVars, serversMap, pendings, addresses, retries, callVars>>
           /\ sent' \in Seq(Nat) /\ Len(sent') = Len(sent)
           /\ \E F \in Seq(FrameSet) :
                /\ Calls(F) /\ CallsOn(F, a)
                /\ \/ /\ state # "started" /\ \A i \in DOMAIN F : F[i].op = "failover"
                      /\ UNCHANGED <<sent, mailbox>>
                   \/ /\ state = "started" /\ mailbox[s] = "up" /\ F = << >>
                      /\ sent' = [sent EXCEPT ![a] = @ + 1] /\ UNCHANGED mailbox
                   \/ /\ state = "started" /\ mailbox[s] # "up"
                      /\ \A i \in DOMAIN F : F[i].op \in {"failover", "error", "park"}
                      /\ UNCHANGED sent
                      /\ \/ UNCHANGED mailbox
                         \/ s \in onlines /\ mailbox' = [mailbox EXCEPT ![s] = "connecting"]
<1>1. /\ todo # << >> /\ Head(todo).op = "dispatch"
      /\ UNCHANGED <<lifeVars, serverVars, serversMap, pendings, addresses, retries, callVars>>
  BY DEF Dispatch, Running
<1>2. a \in DOMAIN addresses /\ a \in Nat
  BY <1>1, HeadFacts DEF OnAddress
<1>3. s \in Servers
  <2>1. addresses[a] \in Addresses
    BY <1>2 DEF Shape, Typed
  <2> QED
    BY <2>1 DEF Addresses
<1>4. /\ sent \in Seq(Nat) /\ Len(sent) \in Nat /\ DOMAIN sent = DOMAIN addresses
      /\ Typed /\ sent[a] \in Nat
  BY <1>2 DEF Shape, Typed
<1>5. Typed /\ a \in Nat
  BY <1>2, <1>4
<1>6. PICK E : E = EmitError(a)
  OBVIOUS
<1>7. PICK f : f = Frame("error", a)
  OBVIOUS
<1>8. PICK p : p = Frame("park", a)
  OBVIOUS
<1>9. f \in FrameSet /\ f.op = "error" /\ f.on = a /\ p \in FrameSet /\ p.op = "park" /\ p.on = a
  BY <1>5, <1>7, <1>8, FrameParts DEF Frame, FrameSet, OnAddress
<1>10. E \in Seq(FrameSet) /\ \A i \in DOMAIN E : E[i].op = "failover" /\ E[i].on = a
  BY <1>5, <1>6, Listeners
<1>11. PICK EE : EE = Append(EmitError(a), f)
  OBVIOUS
<1>12. PICK EP : EP = Append(EmitError(a), p)
  OBVIOUS
<1>13. /\ EE \in Seq(FrameSet)
       /\ \A i \in DOMAIN EE : EE[i].on = a /\ EE[i].op = IF i = Len(EE) THEN "error" ELSE "failover"
  BY <1>5, <1>9, <1>11, ErrorThen
<1>14. /\ EP \in Seq(FrameSet)
       /\ \A i \in DOMAIN EP : EP[i].on = a /\ EP[i].op = IF i = Len(EP) THEN "park" ELSE "failover"
  BY <1>5, <1>9, <1>12, ErrorThen
<1>15. <<p>> \in Seq(FrameSet) /\ \A i \in DOMAIN <<p>> : i = Len(<<p>>) /\ <<p>>[i] = p
  BY <1>9
<1>16. CallsOn(E, a) /\ CallsOn(EE, a) /\ CallsOn(EP, a) /\ CallsOn(<<p>>, a) /\ CallsOn(<< >>, a)
  BY <1>9, <1>10, <1>13, <1>14, <1>15 DEF CallsOn, OnAddress
<1>17. CASE state # "started" /\ Calls(E) /\ UNCHANGED <<mailbox, sent>>
  BY <1>17, <1>1, <1>2, <1>3, <1>4, <1>10, <1>16
<1>18. CASE /\ state = "started" /\ mailbox[s] = "up" /\ Calls(<< >>) /\ UNCHANGED mailbox
            /\ sent' = [sent EXCEPT ![a] = @ + 1]
  <2>1. sent' \in Seq(Nat) /\ Len(sent') = Len(sent)
    BY <1>2, <1>4, <1>18
  <2>2. << >> \in Seq(FrameSet)
    OBVIOUS
  <2> QED
    BY <1>18, <1>1, <1>2, <1>3, <2>1, <2>2, <1>16
<1>19. CASE state = "started" /\ mailbox[s] = "shut" /\ Calls(EE) /\ UNCHANGED <<mailbox, sent>>
  BY <1>19, <1>1, <1>2, <1>3, <1>4, <1>13, <1>16
<1>20. CASE /\ state = "started" /\ mailbox[s] = "none" /\ Connectable(s)
            /\ mailbox' = [mailbox EXCEPT ![s] = "connecting"]
            /\ Calls(<<p>>) /\ UNCHANGED sent
  BY <1>20, <1>1, <1>2, <1>3, <1>4, <1>9, <1>15, <1>16 DEF Connectable
<1>21. CASE state = "started" /\ mailbox[s] = "none" /\ Calls(EP) /\ UNCHANGED <<mailbox, sent>>
  BY <1>21, <1>1, <1>2, <1>3, <1>4, <1>14, <1>16
<1>22. CASE /\ state = "started" /\ mailbox[s] \in {"connecting", "stuck"}
            /\ Calls(<<p>>) /\ UNCHANGED <<mailbox, sent>>
  BY <1>22, <1>1, <1>2, <1>3, <1>4, <1>9, <1>15, <1>16
<1> QED
  BY <1>6, <1>7, <1>8, <1>11, <1>12, <1>17, <1>18, <1>19, <1>20, <1>21, <1>22 DEF Dispatch

LEMMA FailoverFacts ==
    ASSUME Shape, Failover
    PROVE  /\ todo # << >> /\ Head(todo).op = "failover"
           /\ UNCHANGED <<lifeVars, serverVars, mailbox, pendings, kinds, targets, replied>>
           /\ serversMap' \in Seq(Servers)
           /\ \/ Throws /\ UNCHANGED <<addresses, sent, retries>>
              \/ \E r \in Addresses :
                   /\ r.call = addresses[Head(todo).on].call /\ r.cb = FALSE
                   /\ addresses' = Append(addresses, r) /\ sent' = Append(sent, 0)
                   /\ retries' = [retries EXCEPT ![r.call] = @ + 1]
                   /\ Calls(<<Frame("dispatch", Len(addresses) + 1)>>)
                   /\ UNCHANGED <<promise, thrown>>
<1> DEFINE a == Head(todo).on
           rest == Spliced(serversMap, addresses[a].server)
           r == [call |-> addresses[a].call, server |-> rest[1], cb |-> FALSE]
<1>1. /\ todo # << >> /\ Head(todo).op = "failover" /\ serversMap' = rest
      /\ UNCHANGED <<lifeVars, serverVars, mailbox, pendings, kinds, targets, replied>>
  BY DEF Failover, Running
<1>2. a \in DOMAIN addresses
  BY <1>1, HeadFacts DEF OnAddress
<1>3. addresses[a] \in Addresses /\ rest \in Seq(Servers)
  BY <1>2, SpliceType DEF Shape, Typed
<1>4. rest # << >> => r \in Addresses
  <2> HIDE DEF rest
  <2> QED
    BY <1>3 DEF Addresses
<1>5. \/ rest = << >> /\ Throws /\ UNCHANGED <<addresses, sent, retries>>
      \/ /\ rest # << >> /\ addresses' = Append(addresses, r) /\ sent' = Append(sent, 0)
         /\ retries' = [retries EXCEPT ![addresses[a].call] = @ + 1]
         /\ Calls(<<Frame("dispatch", Len(addresses) + 1)>>)
         /\ UNCHANGED <<promise, thrown>>
  BY DEF Failover
<1>6. r.call = addresses[a].call /\ r.cb = FALSE
  OBVIOUS
<1> HIDE DEF rest, r
<1> QED
  BY <1>1, <1>3, <1>4, <1>5, <1>6

(* The rest of the handler still refers to what there is. *)
LEMMA CallsRefer ==
    ASSUME Shape, todo # << >>, NEW F \in Seq(FrameSet), Calls(F),
           \A i \in DOMAIN F : F[i].op \in OnAddress /\ F[i].on \in DOMAIN addresses',
           DOMAIN addresses \subseteq DOMAIN addresses', DOMAIN promise' = DOMAIN promise
    PROVE  /\ todo' \in Seq(FrameSet)
           /\ \A i \in DOMAIN todo' :
                /\ todo'[i].op \in OnAddress => todo'[i].on \in DOMAIN addresses'
                /\ todo'[i].op = "return" => todo'[i].on \in DOMAIN promise'
                /\ todo'[i].op \in {"return", "delete"} => i = Len(todo')
<1>1. /\ todo' \in Seq(FrameSet)
      /\ Len(todo') = Len(F) + Len(todo) - 1 /\ Len(F) \in Nat /\ Len(todo) \in Nat \ {0}
      /\ \A i \in DOMAIN todo' :
           \/ i \in DOMAIN F /\ todo'[i] = F[i]
           \/ /\ i - Len(F) + 1 \in DOMAIN todo \ {1} /\ i > Len(F)
              /\ todo'[i] = todo[i - Len(F) + 1]
  BY CallsShape DEF Shape, Typed
<1>2. ASSUME NEW i \in DOMAIN todo'
      PROVE  /\ todo'[i].op \in OnAddress => todo'[i].on \in DOMAIN addresses'
             /\ todo'[i].op = "return" => todo'[i].on \in DOMAIN promise'
             /\ todo'[i].op \in {"return", "delete"} => i = Len(todo')
  <2>1. CASE i \in DOMAIN F /\ todo'[i] = F[i]
    BY <2>1 DEF OnAddress
  <2>2. ASSUME NEW j \in DOMAIN todo, j = i - Len(F) + 1, todo'[i] = todo[j]
        PROVE  /\ todo'[i].op \in OnAddress => todo'[i].on \in DOMAIN addresses'
               /\ todo'[i].op = "return" => todo'[i].on \in DOMAIN promise'
               /\ todo'[i].op \in {"return", "delete"} => i = Len(todo')
    <3>1. /\ todo[j].op \in OnAddress => todo[j].on \in DOMAIN addresses
          /\ todo[j].op = "return" => todo[j].on \in DOMAIN promise
          /\ todo[j].op \in {"return", "delete"} => j = Len(todo)
      BY DEF Shape, Referring
    <3>2. i \in Nat
      BY <1>1
    <3> QED
      BY <1>1, <2>2, <3>1, <3>2
  <2> QED
    BY <1>1, <2>1, <2>2
<1> QED
  BY <1>1, <1>2

LEMMA DispatchShape == ASSUME Shape, Dispatch PROVE Shape'
<1> DEFINE a == Head(todo).on
           s == addresses[a].server
<1>1. /\ todo # << >> /\ a \in DOMAIN addresses /\ s \in Servers
      /\ UNCHANGED <<state, listeners, serversMap, pendings, addresses, retries, kinds, targets, promise>>
      /\ sent' \in Seq(Nat) /\ Len(sent') = Len(sent)
      /\ UNCHANGED mailbox \/ mailbox' = [mailbox EXCEPT ![s] = "connecting"]
  BY DispatchFacts DEF lifeVars, callVars
<1>2. PICK F \in Seq(FrameSet) : Calls(F) /\ CallsOn(F, a)
  BY DispatchFacts
<1>3. \A i \in DOMAIN F : F[i].op \in OnAddress /\ F[i].on \in DOMAIN addresses'
  BY <1>1, <1>2 DEF CallsOn
<1> HIDE DEF a, s
<1>4. /\ todo' \in Seq(FrameSet)
      /\ \A i \in DOMAIN todo' :
           /\ todo'[i].op \in OnAddress => todo'[i].on \in DOMAIN addresses'
           /\ todo'[i].op = "return" => todo'[i].on \in DOMAIN promise'
           /\ todo'[i].op \in {"return", "delete"} => i = Len(todo')
  BY <1>1, <1>2, <1>3, CallsRefer
<1>5. mailbox' \in [Servers -> {"none", "connecting", "up", "shut", "stuck"}]
  BY <1>1 DEF Shape, Typed
<1>6. Typed'
  BY <1>1, <1>4, <1>5 DEF Shape, Typed
<1> QED
  BY <1>1, <1>4, <1>6 DEF Shape, Referring

(* The steps that make no calls. *)
LEMMA NoCalls ==
    ASSUME Shape, todo # << >>, Calls(<< >>), UNCHANGED addresses, DOMAIN promise' = DOMAIN promise
    PROVE  /\ todo' \in Seq(FrameSet)
           /\ \A i \in DOMAIN todo' :
                /\ todo'[i].op \in OnAddress => todo'[i].on \in DOMAIN addresses'
                /\ todo'[i].op = "return" => todo'[i].on \in DOMAIN promise'
                /\ todo'[i].op \in {"return", "delete"} => i = Len(todo')
<1>1. << >> \in Seq(FrameSet) /\ DOMAIN << >> = {}
  OBVIOUS
<1> QED
  BY <1>1, CallsRefer

LEMMA ParkFacts ==
    ASSUME Shape, Park, NEW a, a = Head(todo).on, NEW s, s = addresses[a].server
    PROVE  /\ todo # << >> /\ Head(todo).op = "park" /\ a \in DOMAIN addresses /\ s \in Servers
           /\ a \in Nat /\ Calls(<< >>)
           /\ pendings' = pendings \/ pendings' = [pendings EXCEPT ![s] = Append(@, a)]
           /\ UNCHANGED <<lifeVars, serverVars, serversMap, mailbox, addresses, waiting, sent, retries,
                          doomed, callVars>>
<1>1. /\ todo # << >> /\ Head(todo).op = "park" /\ Calls(<< >>)
      /\ pendings' = pendings \/ pendings' = [pendings EXCEPT ![s] = Append(@, a)]
      /\ UNCHANGED <<lifeVars, serverVars, serversMap, mailbox, addresses, waiting, sent, retries,
                     doomed, callVars>>
  BY DEF Park, Running
<1>2. a \in DOMAIN addresses /\ a \in Nat
  BY <1>1, HeadFacts DEF OnAddress
<1>3. addresses[a] \in Addresses
  BY <1>2 DEF Shape, Typed
<1> QED
  BY <1>1, <1>2, <1>3 DEF Addresses

LEMMA ParkShape == ASSUME Shape, Park PROVE Shape'
<1> DEFINE a == Head(todo).on
           s == addresses[a].server
<1>1. /\ todo # << >> /\ s \in Servers /\ a \in Nat /\ Calls(<< >>)
      /\ pendings' = pendings \/ pendings' = [pendings EXCEPT ![s] = Append(@, a)]
      /\ UNCHANGED <<state, listeners, serversMap, mailbox, addresses, sent, retries, kinds, targets,
                     promise>>
  BY ParkFacts DEF lifeVars, callVars
<1> HIDE DEF a, s
<1>2. pendings' \in [Servers -> Seq(Nat)]
  <2>1. pendings[s] \in Seq(Nat) /\ pendings \in [Servers -> Seq(Nat)]
    BY <1>1 DEF Shape, Typed
  <2>2. Append(pendings[s], a) \in Seq(Nat)
    BY <1>1, <2>1
  <2> QED
    BY <1>1, <2>1, <2>2
<1>3. /\ todo' \in Seq(FrameSet)
      /\ \A i \in DOMAIN todo' :
           /\ todo'[i].op \in OnAddress => todo'[i].on \in DOMAIN addresses'
           /\ todo'[i].op = "return" => todo'[i].on \in DOMAIN promise'
           /\ todo'[i].op \in {"return", "delete"} => i = Len(todo')
  BY <1>1, NoCalls
<1>4. Typed'
  BY <1>1, <1>2, <1>3 DEF Shape, Typed
<1> QED
  BY <1>1, <1>3, <1>4 DEF Shape, Referring

LEMMA GiveErrorShape == ASSUME Shape, GiveError PROVE Shape'
<1> DEFINE a == Head(todo).on
<1>1. /\ todo # << >> /\ Head(todo).op = "error" /\ Calls(<< >>) /\ promise' = Settled(a, FALSE)
      /\ UNCHANGED <<state, listeners, serversMap, mailbox, pendings, addresses, sent, retries, kinds,
                     targets>>
  BY DEF GiveError, Running, lifeVars, stationVars
<1>2. a \in DOMAIN addresses
  BY <1>1, HeadFacts DEF OnAddress
<1>3. /\ promise' \in Seq({"pending", "fulfilled", "error", "rejected", "none"})
      /\ Len(promise') = Len(promise)
  BY <1>1, <1>2, SettledType
<1>4. DOMAIN promise' = DOMAIN promise
  BY <1>3 DEF Shape, Typed
<1>5. /\ todo' \in Seq(FrameSet)
      /\ \A i \in DOMAIN todo' :
           /\ todo'[i].op \in OnAddress => todo'[i].on \in DOMAIN addresses'
           /\ todo'[i].op = "return" => todo'[i].on \in DOMAIN promise'
           /\ todo'[i].op \in {"return", "delete"} => i = Len(todo')
  BY <1>1, <1>4, NoCalls
<1>6. Typed'
  BY <1>1, <1>3, <1>5 DEF Shape, Typed
<1> QED
  BY <1>1, <1>5, <1>6 DEF Shape, Referring

LEMMA DeleteQueueFacts ==
    ASSUME Shape, DeleteQueue
    PROVE  /\ todo # << >> /\ Head(todo).op = "delete" /\ Head(todo).on \in Servers /\ todo' = << >>
           /\ Delivering(Head(todo).on)
           /\ pendings' = [pendings EXCEPT ![Head(todo).on] = << >>]
           /\ UNCHANGED <<lifeVars, serverVars, serversMap, mailbox, addresses, waiting, sent,
                          retries, doomed, callVars>>
<1>1. /\ todo # << >> /\ Head(todo).op = "delete" /\ Calls(<< >>)
      /\ pendings' = [pendings EXCEPT ![Head(todo).on] = << >>]
      /\ UNCHANGED <<lifeVars, serverVars, serversMap, mailbox, addresses, waiting, sent,
                     retries, doomed, callVars>>
  BY DEF DeleteQueue, Running
<1>2. 1 \in DOMAIN todo /\ Head(todo) = todo[1] /\ todo \in Seq(FrameSet)
  BY <1>1, HeadFacts DEF Shape, Typed
<1>3. Len(todo) = 1
  BY <1>1, <1>2 DEF Shape, Referring
<1>4. todo' = << >>
  BY <1>1, <1>2, <1>3 DEF Calls
<1>5. Head(todo).on \in Servers
  <2>1. todo[1] \in FrameSet
    BY <1>2
  <2> QED
    BY <1>1, <1>2, <2>1 DEF FrameSet, OnAddress
<1> QED
  BY <1>1, <1>2, <1>3, <1>4, <1>5 DEF Delivering

LEMMA DeleteQueueShape == ASSUME Shape, DeleteQueue PROVE Shape'
<1>1. /\ Head(todo).on \in Servers /\ todo' = << >>
      /\ pendings' = [pendings EXCEPT ![Head(todo).on] = << >>]
      /\ UNCHANGED <<state, listeners, serversMap, mailbox, addresses, sent, retries, kinds, targets,
                     promise>>
  BY DeleteQueueFacts DEF lifeVars, callVars
<1>2. Typed'
  BY <1>1 DEF Shape, Typed
<1> QED
  BY <1>1, <1>2 DEF Shape, Referring

LEMMA ReturnFacts ==
    ASSUME Shape, Return
    PROVE  /\ todo # << >> /\ Head(todo).op = "return" /\ todo' = << >>
           /\ todo[Len(todo)].op = "return"
           /\ UNCHANGED <<lifeVars, serverVars, stationVars, doomed, callVars>>
<1>1. /\ todo # << >> /\ Head(todo).op = "return" /\ Calls(<< >>)
      /\ UNCHANGED <<lifeVars, serverVars, stationVars, doomed, callVars>>
  BY DEF Return, Running
<1>2. 1 \in DOMAIN todo /\ Head(todo) = todo[1] /\ todo \in Seq(FrameSet)
  BY <1>1, HeadFacts DEF Shape, Typed
<1>3. Len(todo) = 1
  BY <1>1, <1>2 DEF Shape, Referring
<1>4. todo' = << >>
  BY <1>1, <1>2, <1>3 DEF Calls
<1> QED
  BY <1>1, <1>2, <1>3, <1>4

LEMMA ReturnShape == ASSUME Shape, Return PROVE Shape'
<1>1. /\ todo' = << >>
      /\ UNCHANGED <<state, listeners, serversMap, mailbox, pendings, addresses, sent, retries, kinds,
                     targets, promise>>
  BY ReturnFacts DEF lifeVars, stationVars, callVars
<1>2. Typed'
  BY <1>1 DEF Shape, Typed
<1> QED
  BY <1>1, <1>2 DEF Shape, Referring

(* An exception. *)
LEMMA ThrowsFacts ==
    ASSUME Shape, todo # << >>, Throws
    PROVE  /\ todo' = << >>
           /\ promise' \in Seq({"pending", "fulfilled", "error", "rejected", "none"})
           /\ Len(promise') = Len(promise)
           /\ \A c \in DOMAIN promise : promise'[c] \in {promise[c], "rejected"}
<1> DEFINE b == todo[Len(todo)]
<1>1. promise \in Seq({"pending", "fulfilled", "error", "rejected", "none"})
  BY DEF Shape, Typed
<1>2. b.op = "return" => b.on \in DOMAIN promise
  BY HeadFacts DEF Shape, Referring
<1>3. /\ todo' = << >>
      /\ promise' = IF b.op = "return" /\ promise[b.on] = "pending"
                    THEN [promise EXCEPT ![b.on] = "rejected"] ELSE promise
  BY DEF Throws
<1> HIDE DEF b
<1> QED
  BY <1>1, <1>2, <1>3

LEMMA FailoverShape == ASSUME Shape, Failover PROVE Shape'
<1>1. /\ todo # << >> /\ Head(todo).op = "failover"
      /\ UNCHANGED <<state, listeners, mailbox, pendings, kinds, targets>>
      /\ serversMap' \in Seq(Servers)
  BY FailoverFacts DEF lifeVars
<1>2. CASE Throws /\ UNCHANGED <<addresses, sent, retries>>
  <2>1. /\ todo' = << >>
        /\ promise' \in Seq({"pending", "fulfilled", "error", "rejected", "none"})
        /\ Len(promise') = Len(promise)
    BY <1>1, <1>2, ThrowsFacts
  <2>2. Typed'
    BY <1>1, <1>2, <2>1 DEF Shape, Typed
  <2> QED
    BY <1>1, <1>2, <2>1, <2>2 DEF Shape, Referring
<1>3. ASSUME NEW r \in Addresses, r.call = addresses[Head(todo).on].call,
             addresses' = Append(addresses, r), sent' = Append(sent, 0),
             retries' = [retries EXCEPT ![r.call] = @ + 1],
             Calls(<<Frame("dispatch", Len(addresses) + 1)>>), UNCHANGED promise
      PROVE  Shape'
  <2>1. Head(todo).on \in DOMAIN addresses
    BY <1>1, HeadFacts DEF OnAddress
  <2>2. /\ addresses \in Seq(Addresses) /\ sent \in Seq(Nat) /\ Len(sent) = Len(addresses)
        /\ retries \in [1..MaxCalls -> Nat]
    BY DEF Shape, Typed
  <2>3. /\ addresses' \in Seq(Addresses) /\ Len(addresses') = Len(addresses) + 1 /\ Len(addresses) \in Nat
        /\ DOMAIN addresses = 1..Len(addresses) /\ DOMAIN addresses' = 1..(Len(addresses) + 1)
        /\ \A a \in DOMAIN addresses : addresses'[a] = addresses[a]
        /\ addresses'[Len(addresses) + 1] = r
    BY <1>3, <2>2, Appended
  <2>4. sent' \in Seq(Nat) /\ Len(sent') = Len(addresses')
    BY <1>3, <2>2, <2>3
  <2>5. retries' \in [1..MaxCalls -> Nat]
    BY <1>3, <2>2 DEF Addresses
  <2>6. PICK f : f = Frame("dispatch", Len(addresses) + 1)
    OBVIOUS
  <2>7. f \in FrameSet /\ f.op = "dispatch" /\ f.on = Len(addresses) + 1
    BY <2>3, <2>6, FrameParts DEF Frame, FrameSet, OnAddress
  <2>8. <<f>> \in Seq(FrameSet) /\ \A i \in DOMAIN <<f>> : <<f>>[i] = f
    BY <2>7
  <2>9. /\ todo' \in Seq(FrameSet)
        /\ \A i \in DOMAIN todo' :
             /\ todo'[i].op \in OnAddress => todo'[i].on \in DOMAIN addresses'
             /\ todo'[i].op = "return" => todo'[i].on \in DOMAIN promise'
             /\ todo'[i].op \in {"return", "delete"} => i = Len(todo')
    <3>1. \A i \in DOMAIN <<f>> : <<f>>[i].op \in OnAddress /\ <<f>>[i].on \in DOMAIN addresses'
      BY <2>3, <2>7, <2>8 DEF OnAddress
    <3>2. DOMAIN addresses \subseteq DOMAIN addresses'
      BY <2>3
    <3> QED
      BY <1>1, <1>3, <2>6, <2>8, <3>1, <3>2, CallsRefer
  <2>10. Typed'
    BY <1>1, <1>3, <2>3, <2>4, <2>5, <2>9 DEF Shape, Typed
  <2>11. \A a \in DOMAIN addresses' : addresses'[a].call \in DOMAIN kinds'
    BY <1>1, <1>3, <2>1, <2>3 DEF Shape, Referring
  <2> QED
    BY <2>9, <2>10, <2>11 DEF Shape, Referring
<1> QED
  BY <1>2, <1>3, FailoverFacts

LEMMA ShapeStep == ASSUME Shape, Parked, [Next]_vars PROVE Shape'
<1>1. CASE Work
  BY <1>1, DispatchShape, ParkShape, FailoverShape, GiveErrorShape, DeleteQueueShape, ReturnShape DEF Work
<1>2. CASE Life
  BY <1>2, LifeFrame, ShapeFrame DEF Shape, Typed
<1>3. CASE Admin
  <2>1. UNCHANGED <<CallState, state, listeners>>
    BY <1>3, AdminFrame DEF lifeVars
  <2> QED
    BY <1>3, <2>1, AdminFrame, ShapeFrame DEF Shape, Typed
<1>4. CASE InvokeRefused \/ RouteFails \/ RouteSilent
  BY <1>4, NoAddressShape
<1>5. ASSUME NEW kind \in {"route", "to", "all"}, NEW q \in Seq(Servers), Invoke(kind, q) PROVE Shape'
  BY <1>5, InvokeShape
<1>6. ASSUME NEW s \in Servers PROVE <<s>> \in Seq(Servers)
  OBVIOUS
<1>7. CASE Call
  BY <1>4, <1>5, <1>6, <1>7, Orderly DEF Call, Route, ToServer, Broadcast
<1>8. ASSUME NEW a \in DOMAIN addresses, Answer(a) PROVE Shape'
  BY <1>8, ReplyShape, TimesOutShape DEF Answer
<1>9. ASSUME NEW s \in Servers, Box(s) PROVE Shape'
  <2>1. CASE Connected(s)
    BY <2>1, ConnectedShape
  <2>2. CASE ConnectFails(s) \/ Closes(s)
    <3>1. UNCHANGED <<CallState, state, listeners, serversMap>>
      BY <2>2, BoxFrame DEF lifeVars
    <3> QED
      BY <2>2, <3>1, BoxFrame, ShapeFrame DEF Shape, Typed
  <2> QED
    BY <1>9, <2>1, <2>2 DEF Box
<1>10. CASE UNCHANGED vars
  <2>1. UNCHANGED <<CallState, state, listeners, serversMap, mailbox>>
    BY <1>10 DEF vars, lifeVars, serverVars, stationVars, callVars, CallState
  <2> QED
    BY <2>1, ShapeFrame DEF Shape, Typed
<1> QED
  BY <1>1, <1>2, <1>3, <1>7, <1>8, <1>9, <1>10 DEF Next, Handler

-----------------------------------------------------------------------------
(* SInv: a handler that goes on.                                             *)

(* A step on an address leaves the handler what it is, and the steps after   *)
(* it where they are.                                                        *)
LEMMA GoesOn ==
    ASSUME Shape, todo # << >>, Head(todo).op \in OnAddress, NEW F \in Seq(FrameSet), Calls(F),
           \A i \in DOMAIN F : F[i].op \in OnAddress
    PROVE  /\ \A s \in Servers : Delivering(s)' <=> Delivering(s)
           /\ \A s \in Servers : Delivering(s) => 1 \in DOMAIN todo \ {Len(todo)}
           /\ Len(F) \in Nat
           /\ \A i \in DOMAIN todo' :
                \/ i \in DOMAIN F /\ todo'[i] = F[i]
                \/ /\ i \in Nat /\ i - Len(F) + 1 \in DOMAIN todo \ {1}
                   /\ todo'[i] = todo[i - Len(F) + 1]
                   /\ i # Len(todo') => i - Len(F) + 1 # Len(todo)
<1>1. /\ todo' \in Seq(FrameSet)
      /\ Len(todo') = Len(F) + Len(todo) - 1 /\ Len(F) \in Nat /\ Len(todo) \in Nat \ {0}
      /\ \A i \in DOMAIN todo' :
           \/ i \in DOMAIN F /\ todo'[i] = F[i]
           \/ /\ i - Len(F) + 1 \in DOMAIN todo \ {1} /\ i > Len(F)
              /\ todo'[i] = todo[i - Len(F) + 1]
  BY CallsShape DEF Shape, Typed
<1>2. /\ DOMAIN todo' = 1..Len(todo') /\ DOMAIN F = 1..Len(F) /\ DOMAIN todo = 1..Len(todo)
      /\ 1 \in DOMAIN todo /\ Head(todo) = todo[1]
  BY <1>1, HeadFacts
<1>3. \A i \in DOMAIN todo' :
           \/ i \in DOMAIN F /\ todo'[i] = F[i]
           \/ /\ i \in Nat /\ i - Len(F) + 1 \in DOMAIN todo \ {1}
              /\ todo'[i] = todo[i - Len(F) + 1]
              /\ i # Len(todo') => i - Len(F) + 1 # Len(todo)
  BY <1>1, <1>2
<1>4. ASSUME NEW s \in Servers, Delivering(s)
      PROVE  Len(todo) # 1 /\ Delivering(s)'
  <2>1. todo[Len(todo)].op = "delete" /\ todo[Len(todo)].on = s
    BY <1>4 DEF Delivering
  <2>2. Len(todo) # 1
    BY <1>2, <2>1 DEF OnAddress
  <2>3. Len(todo') \in DOMAIN todo' /\ Len(todo') - Len(F) + 1 = Len(todo) /\ Len(todo') > Len(F)
    BY <1>1, <1>2, <2>2
  <2>4. todo'[Len(todo')] = todo[Len(todo)]
    BY <1>1, <1>2, <2>3
  <2>5. todo' # << >>
    BY <1>1, <2>3
  <2> QED
    BY <2>1, <2>2, <2>4, <2>5 DEF Delivering
<1>5. ASSUME NEW s \in Servers, Delivering(s)'
      PROVE  Delivering(s)
  <2>1. todo' # << >> /\ todo'[Len(todo')].op = "delete" /\ todo'[Len(todo')].on = s
    BY <1>5 DEF Delivering
  <2>2. Len(todo') \in DOMAIN todo'
    BY <1>1, <1>2, <2>1
  <2>3. ~(Len(todo') \in DOMAIN F /\ todo'[Len(todo')] = F[Len(todo')])
    BY <2>1 DEF OnAddress
  <2>4. todo'[Len(todo')] = todo[Len(todo)]
    BY <1>1, <2>2, <2>3
  <2> QED
    BY <2>1, <2>4 DEF Delivering
<1> QED
  BY <1>1, <1>2, <1>3, <1>4, <1>5

(* What is left to check of Waits: at most one of the new steps sends, and   *)
(* it sends b, which no later step does.                                     *)
LEMMA WaitsGoesOn ==
    ASSUME Shape, Waits, todo # << >>, Head(todo).op \in OnAddress, NEW F \in Seq(FrameSet), Calls(F),
           NEW b, CallsOn(F, b),
           \A j \in DOMAIN todo \ {1} :
              Live(j) => /\ sent'[todo[j].on] = 0
                         /\ \A s \in Servers : todo[j].on \in Range(pendings'[s]) => Delivering(s),
           (\E i \in DOMAIN F : F[i].op \in {"dispatch", "park"}) =>
              /\ sent'[b] = 0 /\ \A j \in DOMAIN todo \ {1} : Live(j) => todo[j].on # b
              /\ \A s \in Servers : b \in Range(pendings'[s]) => Delivering(s)
    PROVE  Waits'
<1>0. \A i \in DOMAIN F : /\ F[i].op \in OnAddress /\ F[i].on = b
                          /\ F[i].op \in {"dispatch", "park"} => i = Len(F)
  BY DEF CallsOn
<1>1. /\ \A s \in Servers : Delivering(s)' <=> Delivering(s)
      /\ Len(F) \in Nat
      /\ \A i \in DOMAIN todo' :
           \/ i \in DOMAIN F /\ todo'[i] = F[i]
           \/ /\ i \in Nat /\ i - Len(F) + 1 \in DOMAIN todo \ {1}
              /\ todo'[i] = todo[i - Len(F) + 1]
  BY <1>0, GoesOn
<1>2. \A i \in DOMAIN todo' : todo'[i].op \in {"dispatch", "park"} =>
           \/ todo'[i].on = b /\ i = Len(F) /\ \E k \in DOMAIN F : F[k].op \in {"dispatch", "park"}
           \/ /\ i \in Nat /\ i - Len(F) + 1 \in DOMAIN todo \ {1}
              /\ todo'[i] = todo[i - Len(F) + 1] /\ Live(i - Len(F) + 1)
  BY <1>0, <1>1 DEF Live
<1>3. ASSUME NEW i \in DOMAIN todo', NEW j \in DOMAIN todo', todo'[i].op \in {"dispatch", "park"},
             todo'[j].op \in {"dispatch", "park"}, todo'[i].on = todo'[j].on
      PROVE  i = j
  <2>1. CASE todo'[i].on = b /\ i = Len(F) /\ \E k \in DOMAIN F : F[k].op \in {"dispatch", "park"}
    <3>1. ~(/\ j - Len(F) + 1 \in DOMAIN todo \ {1}
            /\ todo'[j] = todo[j - Len(F) + 1] /\ Live(j - Len(F) + 1))
      BY <1>3, <2>1
    <3> QED
      BY <1>2, <1>3, <2>1, <3>1
  <2>2. CASE /\ i \in Nat /\ i - Len(F) + 1 \in DOMAIN todo \ {1}
             /\ todo'[i] = todo[i - Len(F) + 1] /\ Live(i - Len(F) + 1)
    <3>1. ~(todo'[j].on = b /\ \E k \in DOMAIN F : F[k].op \in {"dispatch", "park"})
      BY <1>3, <2>2
    <3>2. /\ j \in Nat /\ j - Len(F) + 1 \in DOMAIN todo \ {1}
          /\ todo'[j] = todo[j - Len(F) + 1] /\ Live(j - Len(F) + 1)
      BY <1>2, <1>3, <3>1
    <3>3. i - Len(F) + 1 = j - Len(F) + 1
      BY <1>3, <2>2, <3>2 DEF Waits
    <3> QED
      BY <1>1, <2>2, <3>2, <3>3
  <2> QED
    BY <1>2, <1>3, <2>1, <2>2
<1>4. \A i \in DOMAIN todo' : todo'[i].op \in {"dispatch", "park"} =>
         /\ sent'[todo'[i].on] = 0
         /\ \A s \in Servers : todo'[i].on \in Range(pendings'[s]) => Delivering(s)'
  BY <1>1, <1>2
<1> QED
  BY <1>3, <1>4 DEF Waits, Live

LEMMA LoopGoesOn ==
    ASSUME Shape, Loop, todo # << >>, Head(todo).op \in OnAddress, NEW F \in Seq(FrameSet), Calls(F),
           \A i \in DOMAIN F : F[i].op \in OnAddress,
           \A s \in Servers : Delivering(s) =>
              /\ \A i \in DOMAIN F : F[i].op \in {"dispatch", "failover"} /\ state # "started"
              /\ state = "started" /\ mailbox[s] = "up" => mailbox'[s] = "up",
           state' = state, \A a \in DOMAIN addresses : addresses'[a] = addresses[a]
    PROVE  Loop'
<1> SUFFICES ASSUME NEW s \in Servers, Delivering(s)', NEW i \in DOMAIN todo' \ {Len(todo')}
             PROVE  /\ todo'[i].op \in {"dispatch", "failover"}
                    /\ state' = "started" => /\ todo'[i].op = "dispatch"
                                             /\ addresses'[todo'[i].on].server = s /\ mailbox'[s] = "up"
  BY DEF Loop
<1>1. Delivering(s)
  BY GoesOn
<1>2. \/ i \in DOMAIN F /\ todo'[i] = F[i]
      \/ /\ i - Len(F) + 1 \in DOMAIN todo \ {Len(todo)}
         /\ todo'[i] = todo[i - Len(F) + 1]
  BY GoesOn
<1>3. CASE i \in DOMAIN F /\ todo'[i] = F[i]
  BY <1>1, <1>3
<1>4. ASSUME NEW j \in DOMAIN todo \ {Len(todo)}, todo'[i] = todo[j]
      PROVE  /\ todo'[i].op \in {"dispatch", "failover"}
             /\ state' = "started" => /\ todo'[i].op = "dispatch"
                                      /\ addresses'[todo'[i].on].server = s /\ mailbox'[s] = "up"
  <2>1. /\ todo[j].op \in {"dispatch", "failover"}
        /\ state = "started" =>
             todo[j].op = "dispatch" /\ addresses[todo[j].on].server = s /\ mailbox[s] = "up"
    BY <1>1 DEF Loop
  <2>2. todo[j].on \in DOMAIN addresses
    BY <2>1 DEF Shape, Referring, OnAddress
  <2> QED
    BY <1>1, <1>4, <2>1, <2>2
<1> QED
  BY <1>2, <1>3, <1>4

LEMMA DispatchSInv == ASSUME Shape, SInv, Dispatch PROVE SInv'
<1> DEFINE a == Head(todo).on
           s == addresses[a].server
<1>1. /\ todo # << >> /\ Head(todo).op = "dispatch" /\ a \in DOMAIN addresses /\ s \in Servers
      /\ UNCHANGED <<state, pendings, addresses>>
  BY DispatchFacts DEF lifeVars
<1>2. PICK F \in Seq(FrameSet) :
         /\ Calls(F) /\ CallsOn(F, a)
         /\ \/ /\ state # "started" /\ \A i \in DOMAIN F : F[i].op = "failover"
               /\ UNCHANGED <<sent, mailbox>>
            \/ /\ state = "started" /\ mailbox[s] = "up" /\ F = << >>
               /\ sent' = [sent EXCEPT ![a] = @ + 1] /\ UNCHANGED mailbox
            \/ /\ state = "started" /\ mailbox[s] # "up"
               /\ \A i \in DOMAIN F : F[i].op \in {"failover", "error", "park"}
               /\ UNCHANGED sent
               /\ \/ UNCHANGED mailbox
                  \/ s \in onlines /\ mailbox' = [mailbox EXCEPT ![s] = "connecting"]
  BY DispatchFacts
<1>3. /\ 1 \in DOMAIN todo /\ todo[1] = Head(todo) /\ Live(1) /\ todo[1].on = a
      /\ Head(todo).op \in OnAddress
  BY <1>1, HeadFacts DEF Live, OnAddress
<1>4. \A i \in DOMAIN F : /\ F[i].op \in OnAddress /\ F[i].on = a
                          /\ F[i].op \in {"dispatch", "park"} => i = Len(F)
  BY <1>2 DEF CallsOn
<1> HIDE DEF a, s
<1>5. sent[a] = 0 /\ \A r \in Servers : a \in Range(pendings[r]) => Delivering(r)
  BY <1>3 DEF SInv, Waits
<1>6. \A j \in DOMAIN todo \ {1} :
         Live(j) => /\ todo[j].on # a /\ sent[todo[j].on] = 0
                    /\ \A r \in Servers : todo[j].on \in Range(pendings[r]) => Delivering(r)
  BY <1>3 DEF SInv, Waits
<1>7. /\ sent \in Seq(Nat) /\ DOMAIN sent = DOMAIN addresses
      /\ \A i \in DOMAIN todo : Live(i) => todo[i].on \in DOMAIN addresses
  BY DEF Shape, Typed, Referring, Live, OnAddress
<1>8. /\ \A b \in DOMAIN addresses : b # a => sent'[b] = sent[b]
      /\ sent'[a] = 0 \/ (F = << >> /\ sent'[a] = 1 /\ state = "started")
      /\ DOMAIN sent' = DOMAIN sent
  BY <1>1, <1>2, <1>5, <1>7
<1>9. Waits'
  <2>1. (\E i \in DOMAIN F : F[i].op \in {"dispatch", "park"}) =>
              /\ sent'[a] = 0 /\ \A j \in DOMAIN todo \ {1} : Live(j) => todo[j].on # a
              /\ \A r \in Servers : a \in Range(pendings'[r]) => Delivering(r)
    BY <1>1, <1>5, <1>6, <1>8
  <2>2. \A j \in DOMAIN todo \ {1} :
              Live(j) => /\ sent'[todo[j].on] = 0
                         /\ \A r \in Servers : todo[j].on \in Range(pendings'[r]) => Delivering(r)
    BY <1>1, <1>6, <1>7, <1>8
  <2> QED
    BY <1>1, <1>2, <1>3, <2>1, <2>2, WaitsGoesOn DEF SInv
<1>10. \A r \in Servers : Delivering(r)' <=> Delivering(r)
  BY <1>1, <1>2, <1>3, <1>4, GoesOn
<1>11. Loop'
  <2>1. ASSUME NEW r \in Servers, Delivering(r)
        PROVE  /\ \A i \in DOMAIN F : F[i].op \in {"dispatch", "failover"} /\ state # "started"
               /\ state = "started" /\ mailbox[r] = "up" => mailbox'[r] = "up"
    <3>1. 1 \in DOMAIN todo \ {Len(todo)}
      BY <1>1, <1>2, <1>3, <1>4, <2>1, GoesOn
    <3>2. state = "started" => mailbox[s] = "up" /\ s = r
      BY <1>3, <2>1, <3>1 DEF SInv, Loop, s
    <3> QED
      BY <1>2, <3>2
  <2> QED
    BY <1>1, <1>2, <1>3, <1>4, <2>1, LoopGoesOn DEF SInv
<1>12. Parked'
  <2>1. ASSUME NEW r \in Servers, NEW k \in DOMAIN pendings[r]
        PROVE  sent'[pendings[r][k]] = 0 \/ (Delivering(r)' /\ state' = "started")
    <3>1. /\ pendings[r][k] \in DOMAIN addresses
          /\ sent[pendings[r][k]] = 0 \/ (Delivering(r) /\ state = "started")
      BY DEF SInv, Parked
    <3>2. CASE pendings[r][k] = a
      <4>1. a \in Range(pendings[r])
        BY <3>2 DEF Range
      <4> QED
        BY <1>1, <1>5, <1>8, <1>10, <3>2, <4>1
    <3> QED
      BY <1>1, <1>8, <1>10, <3>1, <3>2
  <2> QED
    BY <1>1, <2>1 DEF SInv, Parked
<1>13. SentAtMostOnce'
  BY <1>1, <1>7, <1>8 DEF SInv, SentAtMostOnce
<1> QED
  BY <1>9, <1>11, <1>12, <1>13 DEF SInv

LEMMA ParkSInv == ASSUME Shape, SInv, Park PROVE SInv'
<1> DEFINE a == Head(todo).on
           s == addresses[a].server
<1>1. /\ todo # << >> /\ Head(todo).op = "park" /\ a \in DOMAIN addresses /\ s \in Servers
      /\ a \in Nat /\ Calls(<< >>)
      /\ pendings' = pendings \/ pendings' = [pendings EXCEPT ![s] = Append(@, a)]
      /\ UNCHANGED <<state, mailbox, addresses, sent>>
  BY ParkFacts DEF lifeVars
<1>2. /\ 1 \in DOMAIN todo /\ todo[1] = Head(todo) /\ Live(1) /\ todo[1].on = a
      /\ Head(todo).op \in OnAddress
  BY <1>1, HeadFacts DEF Live, OnAddress
<1>3. addresses[a].server = s
  OBVIOUS
<1> HIDE DEF a, s
<1>4. << >> \in Seq(FrameSet) /\ DOMAIN << >> = {}
  OBVIOUS
<1>5. \A r \in Servers : ~Delivering(r) /\ ~Delivering(r)'
  <2>1. ASSUME NEW r \in Servers, Delivering(r) PROVE FALSE
    <3>1. 1 \in DOMAIN todo \ {Len(todo)}
      BY <1>1, <1>2, <1>4, <2>1, GoesOn
    <3> QED
      BY <1>1, <1>2, <2>1, <3>1 DEF SInv, Loop
  <2> QED
    BY <1>1, <1>2, <1>4, <2>1, GoesOn
<1>6. /\ sent[a] = 0 /\ \A r \in Servers : a \notin Range(pendings[r])
      /\ \A j \in DOMAIN todo \ {1} :
            Live(j) => /\ todo[j].on # a /\ sent[todo[j].on] = 0
                       /\ \A r \in Servers : todo[j].on \notin Range(pendings[r])
  BY <1>2, <1>5 DEF SInv, Waits
<1>7. \A r \in Servers : \A k \in DOMAIN pendings[r] :
         /\ pendings[r][k] \in DOMAIN addresses /\ addresses[pendings[r][k]].server = r
         /\ sent[pendings[r][k]] = 0
  BY <1>5 DEF SInv, Parked
<1>8. /\ \A r \in Servers : Range(pendings'[r]) \subseteq Range(pendings[r]) \cup {a}
      /\ \A r \in Servers : IsInjective(pendings'[r])
      /\ \A r \in Servers : \A k \in DOMAIN pendings'[r] :
            /\ pendings'[r][k] \in DOMAIN addresses /\ addresses[pendings'[r][k]].server = r
            /\ sent[pendings'[r][k]] = 0
  <2>1. CASE pendings' = pendings
    BY <1>7, <2>1 DEF SInv, Parked
  <2>2. CASE pendings' = [pendings EXCEPT ![s] = Append(@, a)]
    <3>1. /\ pendings[s] \in Seq(Nat) /\ pendings \in [Servers -> Seq(Nat)]
          /\ pendings'[s] = Append(pendings[s], a)
          /\ \A r \in Servers : r # s => pendings'[r] = pendings[r]
      BY <1>1, <2>2 DEF Shape, Typed
    <3>2. /\ DOMAIN pendings[s] = 1..Len(pendings[s]) /\ Len(pendings[s]) \in Nat
          /\ DOMAIN pendings'[s] = 1..(Len(pendings[s]) + 1)
          /\ \A k \in DOMAIN pendings[s] : pendings'[s][k] = pendings[s][k]
          /\ pendings'[s][Len(pendings[s]) + 1] = a
      BY <1>1, <3>1, Appended
    <3>3. \A k \in DOMAIN pendings'[s] : k \in DOMAIN pendings[s] \/ k = Len(pendings[s]) + 1
      BY <3>2
    <3>4. \A r \in Servers : Range(pendings'[r]) \subseteq Range(pendings[r]) \cup {a}
      BY <3>1, <3>2, <3>3 DEF Range
    <3>5. IsInjective(pendings'[s])
      <4>1. IsInjective(pendings[s]) /\ \A k \in DOMAIN pendings[s] : pendings[s][k] # a
        BY <1>1, <1>6 DEF SInv, Parked, Range
      <4>2. \A k, l \in DOMAIN pendings[s] : pendings[s][k] = pendings[s][l] => k = l
        BY <4>1 DEF IsInjective
      <4>3. \A k, l \in DOMAIN pendings'[s] : pendings'[s][k] = pendings'[s][l] => k = l
        BY <3>2, <3>3, <4>1, <4>2
      <4> QED
        BY <4>3 DEF IsInjective
    <3>6. \A r \in Servers : IsInjective(pendings'[r])
      BY <3>1, <3>5 DEF SInv, Parked
    <3>7. ASSUME NEW r \in Servers, NEW k \in DOMAIN pendings'[r]
          PROVE  /\ pendings'[r][k] \in DOMAIN addresses /\ addresses[pendings'[r][k]].server = r
                 /\ sent[pendings'[r][k]] = 0
      <4>1. CASE r = s
        BY <1>1, <1>3, <1>6, <1>7, <3>2, <3>3, <4>1
      <4>2. CASE r # s
        BY <1>1, <1>7, <3>1, <4>2
      <4> QED
        BY <4>1, <4>2
    <3> QED
      BY <3>4, <3>6, <3>7
  <2> QED
    BY <1>1, <2>1, <2>2
<1>9. Waits'
  <2>1. \A j \in DOMAIN todo \ {1} :
              Live(j) => /\ sent'[todo[j].on] = 0
                         /\ \A r \in Servers : todo[j].on \in Range(pendings'[r]) => Delivering(r)
    BY <1>1, <1>6, <1>8
  <2> QED
    BY <1>1, <1>2, <1>4, <2>1, WaitsGoesOn DEF SInv, CallsOn
<1>10. Loop'
  BY <1>5 DEF Loop
<1>11. Parked'
  BY <1>1, <1>8 DEF Parked
<1> QED
  BY <1>1, <1>9, <1>10, <1>11 DEF SInv, SentAtMostOnce

LEMMA GiveErrorSInv == ASSUME Shape, SInv, GiveError PROVE SInv'
<1>1. /\ todo # << >> /\ Head(todo).op = "error" /\ Calls(<< >>)
      /\ UNCHANGED <<state, mailbox, pendings, addresses, sent>>
  BY DEF GiveError, Running, lifeVars, stationVars
<1>2. 1 \in DOMAIN todo /\ todo[1] = Head(todo) /\ Head(todo).op \in OnAddress /\ ~Live(1)
  BY <1>1, HeadFacts DEF OnAddress, Live
<1>3. << >> \in Seq(FrameSet) /\ DOMAIN << >> = {}
  OBVIOUS
<1>4. \A r \in Servers : Delivering(r)' <=> Delivering(r)
  BY <1>1, <1>2, <1>3, GoesOn
<1>5. Waits'
  <2>1. \A j \in DOMAIN todo \ {1} :
              Live(j) => /\ sent'[todo[j].on] = 0
                         /\ \A r \in Servers : todo[j].on \in Range(pendings'[r]) => Delivering(r)
    BY <1>1 DEF SInv, Waits
  <2> QED
    BY <1>1, <1>2, <1>3, <2>1, WaitsGoesOn DEF SInv, CallsOn
<1>6. Loop'
  BY <1>1, <1>2, <1>3, LoopGoesOn DEF SInv
<1>7. Parked'
  BY <1>1, <1>4 DEF SInv, Parked
<1> QED
  BY <1>1, <1>5, <1>6, <1>7 DEF SInv, SentAtMostOnce

(* A handler that is over, with nothing sent from the queues it was about.   *)
LEMMA SInvAtRest ==
    ASSUME Shape, SInv, todo' = << >>,
           sent' = sent, addresses' = addresses,
           \A s \in Servers : pendings'[s] = << >> \/
              (pendings'[s] = pendings[s] /\ \A k \in DOMAIN pendings[s] : sent[pendings[s][k]] = 0)
    PROVE  SInv'
<1>1. DOMAIN todo' = {}
  OBVIOUS
<1>2. Waits' /\ Loop'
  BY <1>1 DEF Waits, Loop, Delivering
<1>3. Parked'
  BY DEF SInv, Parked, IsInjective
<1> QED
  BY <1>2, <1>3 DEF SInv, SentAtMostOnce

LEMMA FailoverSInv == ASSUME Shape, SInv, Failover PROVE SInv'
<1> DEFINE a == Head(todo).on
<1>1. /\ todo # << >> /\ Head(todo).op = "failover"
      /\ UNCHANGED <<state, mailbox, pendings>>
  BY FailoverFacts DEF lifeVars
<1>2. 1 \in DOMAIN todo /\ todo[1] = Head(todo) /\ Head(todo).op \in OnAddress
  BY <1>1, HeadFacts DEF OnAddress
<1>3. \A r \in Servers : Delivering(r) => state # "started"
  <2>1. << >> \in Seq(FrameSet)
    OBVIOUS
  <2>2. ASSUME NEW r \in Servers, Delivering(r) PROVE 1 # Len(todo)
    <3>1. todo[Len(todo)].op = "delete"
      BY <2>2 DEF Delivering
    <3> QED
      BY <1>1, <1>2, <3>1
  <2> QED
    BY <1>1, <1>2, <2>2 DEF SInv, Loop
<1>4. \A r \in Servers : \A k \in DOMAIN pendings[r] : sent[pendings[r][k]] = 0
  BY <1>3 DEF SInv, Parked
<1>5. CASE Throws /\ UNCHANGED <<addresses, sent, retries>>
  <2>1. todo' = << >>
    BY <1>1, <1>5, ThrowsFacts
  <2> QED
    BY <1>1, <1>4, <1>5, <2>1, SInvAtRest
<1>6. ASSUME NEW r \in Addresses,
             addresses' = Append(addresses, r), sent' = Append(sent, 0),
             Calls(<<Frame("dispatch", Len(addresses) + 1)>>)
      PROVE  SInv'
  <2> DEFINE n == Len(addresses) + 1
  <2>1. /\ addresses \in Seq(Addresses) /\ sent \in Seq(Nat) /\ Len(sent) = Len(addresses)
        /\ Len(addresses) \in Nat /\ DOMAIN addresses = 1..Len(addresses) /\ DOMAIN sent = DOMAIN addresses
    BY DEF Shape, Typed
  <2>2. /\ DOMAIN addresses \subseteq DOMAIN addresses'
        /\ \A b \in DOMAIN addresses : addresses'[b] = addresses[b]
    BY <1>6, <2>1, Appended
  <2>3. /\ DOMAIN sent' = 1..n /\ sent'[n] = 0
        /\ \A b \in DOMAIN addresses : sent'[b] = sent[b]
    BY <1>6, <2>1, Appended
  <2>4. n \in Nat /\ n \notin DOMAIN addresses
    BY <2>1
  <2>5. PICK f : f = Frame("dispatch", n)
    OBVIOUS
  <2>6. f \in FrameSet /\ f.op = "dispatch" /\ f.on = n
    BY <2>4, <2>5, FrameParts DEF Frame, FrameSet, OnAddress
  <2> HIDE DEF n
  <2>7. PICK F : F = <<f>>
    OBVIOUS
  <2>8. F \in Seq(FrameSet) /\ \A i \in DOMAIN F : F[i] = f /\ i = Len(F)
    BY <2>6, <2>7
  <2>9. CallsOn(F, n)
    BY <2>6, <2>8 DEF CallsOn, OnAddress
  <2>10. Calls(F)
    BY <1>6, <2>5, <2>7 DEF n
  <2>11. \A i \in DOMAIN F : F[i].op \in OnAddress /\ F[i].op = "dispatch"
    BY <2>6, <2>8 DEF OnAddress
  <2>12. \A s \in Servers : n \notin Range(pendings[s])
    BY <2>4 DEF SInv, Parked, Range
  <2>13. \A j \in DOMAIN todo : Live(j) => todo[j].on \in DOMAIN addresses
    BY DEF Shape, Referring, Live, OnAddress
  <2>14. Waits'
    <3>1. \A j \in DOMAIN todo \ {1} :
             Live(j) => /\ sent'[todo[j].on] = 0
                        /\ \A s \in Servers : todo[j].on \in Range(pendings'[s]) => Delivering(s)
      BY <1>1, <2>3, <2>13 DEF SInv, Waits
    <3>2. /\ sent'[n] = 0 /\ \A j \in DOMAIN todo \ {1} : Live(j) => todo[j].on # n
          /\ \A s \in Servers : n \in Range(pendings'[s]) => Delivering(s)
      BY <1>1, <2>3, <2>4, <2>12, <2>13
    <3> QED
      BY <1>1, <1>2, <2>8, <2>9, <2>10, <3>1, <3>2, WaitsGoesOn DEF SInv
  <2>15. Loop'
    BY <1>1, <1>2, <1>3, <2>2, <2>8, <2>10, <2>11, LoopGoesOn DEF SInv
  <2>16. Parked'
    BY <1>1, <1>4, <2>2, <2>3 DEF SInv, Parked
  <2>17. SentAtMostOnce'
    <3>1. \A b \in DOMAIN sent' : b \in DOMAIN addresses \/ b = n
      BY <2>1, <2>3 DEF n
    <3> QED
      BY <2>1, <2>3, <3>1 DEF SInv, SentAtMostOnce
  <2> QED
    BY <2>14, <2>15, <2>16, <2>17 DEF SInv
<1> QED
  BY <1>5, <1>6, FailoverFacts

LEMMA DeleteQueueSInv == ASSUME Shape, SInv, DeleteQueue PROVE SInv'
<1> DEFINE s == Head(todo).on
<1>1. /\ todo # << >> /\ s \in Servers /\ todo' = << >> /\ Delivering(s)
      /\ pendings' = [pendings EXCEPT ![s] = << >>] /\ UNCHANGED <<addresses, sent>>
  BY DeleteQueueFacts
<1> HIDE DEF s
<1>2. \A r \in Servers : r # s => ~Delivering(r)
  BY <1>1 DEF Delivering
<1>3. \A r \in Servers : r # s => \A k \in DOMAIN pendings[r] : sent[pendings[r][k]] = 0
  BY <1>2 DEF SInv, Parked
<1>4. pendings'[s] = << >> /\ \A r \in Servers : r # s => pendings'[r] = pendings[r]
  BY <1>1 DEF Shape, Typed
<1> QED
  BY <1>1, <1>3, <1>4, SInvAtRest

LEMMA ReturnSInv == ASSUME Shape, SInv, Return PROVE SInv'
<1>1. /\ todo # << >> /\ todo' = << >> /\ todo[Len(todo)].op = "return"
      /\ UNCHANGED <<pendings, addresses, sent>>
  BY ReturnFacts DEF stationVars
<1>2. \A r \in Servers : ~Delivering(r)
  BY <1>1 DEF Delivering
<1>3. \A r \in Servers : \A k \in DOMAIN pendings[r] : sent[pendings[r][k]] = 0
  BY <1>2 DEF SInv, Parked
<1> QED
  BY <1>1, <1>3, SInvAtRest

-----------------------------------------------------------------------------
(* SInv: a handler that begins.                                              *)

LEMMA AtRest ==
    ASSUME Shape, SInv, todo = << >>
    PROVE  /\ \A s \in Servers : IsInjective(pendings[s])
           /\ \A s \in Servers : \A k \in DOMAIN pendings[s] :
                 /\ pendings[s][k] \in DOMAIN addresses
                 /\ addresses[pendings[s][k]].server = s
                 /\ sent[pendings[s][k]] = 0
  BY DEF SInv, Parked, Delivering

LEMMA TimesOutSInv ==
    ASSUME Shape, SInv, todo = << >>, NEW a \in DOMAIN addresses, TimesOut(a)
    PROVE  SInv'
<1>1. /\ UNCHANGED <<pendings, addresses, sent>>
      /\ todo' \in Seq(FrameSet) /\ todo' # << >>
      /\ \A i \in DOMAIN todo' : todo'[i].op \in {"failover", "error"}
  BY TimesOutFacts
<1>2. Len(todo') \in DOMAIN todo'
  BY <1>1
<1>3. \A s \in Servers : ~Delivering(s)'
  BY <1>1, <1>2 DEF Delivering
<1>4. Waits' /\ Loop'
  BY <1>1, <1>3 DEF Waits, Loop, Live
<1>5. Parked'
  BY <1>1, AtRest DEF Parked
<1> QED
  BY <1>1, <1>4, <1>5 DEF SInv, SentAtMostOnce

LEMMA InvokeSInv ==
    ASSUME Shape, SInv, todo = << >>, NEW kind \in {"route", "to", "all"}, NEW q \in Seq(Servers),
           Invoke(kind, q)
    PROVE  SInv'
<1>1. /\ UNCHANGED pendings
      /\ Len(addresses) \in Nat /\ Len(q) \in Nat
      /\ DOMAIN q = 1..Len(q) /\ DOMAIN addresses = 1..Len(addresses)
      /\ Len(todo') = Len(q) + 1 /\ DOMAIN todo' = 1..Len(todo')
      /\ \A i \in DOMAIN q : todo'[i].op = "dispatch" /\ todo'[i].on = Len(addresses) + i
      /\ todo'[Len(q) + 1].op = "return"
      /\ DOMAIN addresses' = 1..(Len(addresses) + Len(q))
      /\ \A a \in DOMAIN addresses : addresses'[a] = addresses[a]
      /\ DOMAIN sent' = DOMAIN addresses'
      /\ \A a \in DOMAIN addresses : sent'[a] = sent[a]
      /\ \A i \in DOMAIN q : sent'[Len(addresses) + i] = 0
  BY InvokeFacts
<1>2. \A s \in Servers : ~Delivering(s)'
  BY <1>1 DEF Delivering
<1>3. \A i \in DOMAIN todo' : todo'[i].op \in {"dispatch", "park"} =>
         i \in DOMAIN q /\ todo'[i].on = Len(addresses) + i
  BY <1>1
<1>4. \A s \in Servers : \A a \in Range(pendings[s]) : a \in DOMAIN addresses
  BY AtRest DEF Range
<1>5. Waits'
  <2>1. \A i, j \in DOMAIN todo' : todo'[i].op \in {"dispatch", "park"}
            /\ todo'[j].op \in {"dispatch", "park"} /\ todo'[i].on = todo'[j].on => i = j
    BY <1>1, <1>3
  <2>2. \A i \in DOMAIN todo' : todo'[i].op \in {"dispatch", "park"} => sent'[todo'[i].on] = 0
    BY <1>1, <1>3
  <2>3. \A i \in DOMAIN todo' : todo'[i].op \in {"dispatch", "park"} =>
            \A s \in Servers : todo'[i].on \notin Range(pendings'[s])
    <3>1. \A i \in DOMAIN q : Len(addresses) + i \notin DOMAIN addresses
      BY <1>1
    <3>2. UNCHANGED pendings
      BY <1>1
    <3> QED
      BY <1>3, <1>4, <3>1, <3>2
  <2> QED
    BY <2>1, <2>2, <2>3 DEF Waits, Live
<1>6. Loop'
  BY <1>2 DEF Loop
<1>7. Parked'
  <2>1. DOMAIN addresses \subseteq DOMAIN addresses'
    BY <1>1
  <2> QED
    BY <1>1, <2>1, AtRest DEF Parked
<1>8. SentAtMostOnce'
  <2>1. ASSUME NEW a \in DOMAIN sent' PROVE sent'[a] <= 1
    <3>1. CASE a \in DOMAIN addresses
      <4>1. DOMAIN sent = DOMAIN addresses
        BY DEF Shape, Typed
      <4> QED
        BY <1>1, <3>1, <4>1 DEF SInv, SentAtMostOnce
    <3>2. CASE a \notin DOMAIN addresses
      <4>1. a - Len(addresses) \in DOMAIN q /\ a = Len(addresses) + (a - Len(addresses))
        BY <1>1, <3>2
      <4>2. sent'[Len(addresses) + (a - Len(addresses))] = 0
        BY <1>1, <4>1
      <4> QED
        BY <4>1, <4>2
    <3> QED
      BY <3>1, <3>2
  <2> QED
    BY <2>1 DEF SentAtMostOnce
<1> QED
  BY <1>5, <1>6, <1>7, <1>8 DEF SInv

LEMMA ConnectedSInv ==
    ASSUME Shape, SInv, todo = << >>, NEW s \in Servers, Connected(s)
    PROVE  SInv'
<1>1. /\ UNCHANGED <<pendings, addresses, sent>>
      /\ mailbox'[s] = "up"
      /\ Len(todo') = Len(pendings[s]) + 1 /\ DOMAIN todo' = 1..Len(todo')
      /\ Len(pendings[s]) \in Nat /\ DOMAIN pendings[s] = 1..Len(pendings[s])
      /\ \A i \in DOMAIN pendings[s] : todo'[i].op = "dispatch" /\ todo'[i].on = pendings[s][i]
      /\ todo'[Len(todo')].op = "delete" /\ todo'[Len(todo')].on = s
  BY ConnectedFacts DEF Shape, Typed
<1>2. /\ todo' # << >> /\ Delivering(s)' /\ \A r \in Servers : Delivering(r)' => r = s
  BY <1>1 DEF Delivering
<1>3. \A i \in DOMAIN todo' : i # Len(todo') =>
         /\ i \in DOMAIN pendings[s] /\ todo'[i].op = "dispatch" /\ todo'[i].on = pendings[s][i]
         /\ todo'[i].on \in DOMAIN addresses /\ addresses[todo'[i].on].server = s
         /\ sent[todo'[i].on] = 0
  BY <1>1, AtRest
<1>4. \A i, j \in DOMAIN pendings[s] : pendings[s][i] = pendings[s][j] => i = j
  BY AtRest DEF IsInjective
<1>5. \A r \in Servers : \A a \in Range(pendings[r]) : addresses[a].server = r
  BY AtRest DEF Range
<1>6. Waits'
  <2>1. \A i \in DOMAIN todo' : todo'[i].op \in {"dispatch", "park"} => i # Len(todo')
    BY <1>1
  <2>2. \A i, j \in DOMAIN todo' : todo'[i].op \in {"dispatch", "park"}
            /\ todo'[j].op \in {"dispatch", "park"} /\ todo'[i].on = todo'[j].on => i = j
    BY <1>3, <1>4, <2>1
  <2>3. \A i \in DOMAIN todo', r \in Servers :
            todo'[i].op \in {"dispatch", "park"} /\ todo'[i].on \in Range(pendings'[r]) => Delivering(r)'
    BY <1>1, <1>2, <1>3, <1>5, <2>1
  <2> QED
    BY <1>1, <1>3, <2>1, <2>2, <2>3 DEF Waits, Live
<1>7. Loop'
  BY <1>1, <1>2, <1>3 DEF Loop
<1>8. Parked'
  BY <1>1, AtRest DEF Parked
<1> QED
  BY <1>1, <1>6, <1>7, <1>8 DEF SInv, SentAtMostOnce

LEMMA SInvStep == ASSUME Shape, SInv, [Next]_vars PROVE SInv'
<1>1. CASE Work
  BY <1>1, DispatchSInv, ParkSInv, FailoverSInv, GiveErrorSInv, DeleteQueueSInv, ReturnSInv DEF Work
<1>2. ASSUME todo = << >>, UNCHANGED <<pendings, addresses, sent, todo>> PROVE SInv'
  BY <1>2, AtRest, SInvAtRest
<1>3. CASE Idle /\ (Life \/ Admin)
  BY <1>2, <1>3, LifeFrame, AdminFrame DEF Idle, CallState
<1>4. CASE Idle /\ (InvokeRefused \/ RouteFails \/ RouteSilent)
  BY <1>2, <1>4, NoAddress DEF Idle, stationVars
<1>5. ASSUME NEW kind \in {"route", "to", "all"}, NEW q \in Seq(Servers), Idle, Invoke(kind, q) PROVE SInv'
  BY <1>5, InvokeSInv DEF Idle
<1>6. ASSUME NEW s \in Servers PROVE <<s>> \in Seq(Servers)
  OBVIOUS
<1>7. CASE Idle /\ Call
  BY <1>4, <1>5, <1>6, <1>7, Orderly DEF Call, Route, ToServer, Broadcast
<1>8. ASSUME NEW a \in DOMAIN addresses, Idle, Answer(a) PROVE SInv'
  <2>1. ASSUME NEW ok \in BOOLEAN, Reply(a, ok) PROVE SInv'
    BY <1>2, <1>8, <2>1 DEF Reply, Idle
  <2> QED
    BY <1>8, <2>1, TimesOutSInv DEF Answer, Idle
<1>9. ASSUME NEW s \in Servers, Idle, Box(s) PROVE SInv'
  BY <1>2, <1>9, ConnectedSInv, BoxFrame DEF Box, Idle, CallState
<1>10. CASE UNCHANGED vars
  <2>1. UNCHANGED <<pendings, addresses, sent, todo, mailbox, state>>
    BY <1>10 DEF vars, lifeVars, stationVars
  <2>2. Waits' /\ Loop' /\ Parked'
    BY <2>1 DEF SInv, Waits, Loop, Parked, Delivering, Live
  <2> QED
    BY <2>1, <2>2 DEF SInv, SentAtMostOnce
<1> QED
  BY <1>1, <1>3, <1>7, <1>8, <1>9, <1>10 DEF Next, Handler

-----------------------------------------------------------------------------
(* Counts: a call has the dispatches it was made with, and one for each run  *)
(* of failover.                                                              *)

LEMMA CountsFrame ==
    ASSUME Counts, UNCHANGED <<addresses, retries, kinds, targets>>
    PROVE  Counts'
  BY DEF Counts, Made

LEMMA NoAddressCounts ==
    ASSUME Shape, Counts, InvokeRefused \/ RouteFails \/ RouteSilent
    PROVE  Counts'
<1>1. /\ UNCHANGED <<addresses, retries>> /\ Len(kinds) < MaxCalls
      /\ kinds' = Append(kinds, "route") /\ targets' = Append(targets, {})
      /\ \E p \in {"none", "rejected", "error", "pending"} : promise' = Append(promise, p)
  BY NoAddress DEF stationVars
<1>2. PICK p \in {"none", "rejected", "error", "pending"} : promise' = Append(promise, p)
  BY <1>1
<1>3. /\ DOMAIN kinds = 1..Len(kinds) /\ DOMAIN kinds' = 1..(Len(kinds) + 1) /\ Len(kinds) \in Nat
      /\ \A c \in DOMAIN kinds : targets'[c] = targets[c]
      /\ targets'[Len(kinds) + 1] = {}
  BY <1>1, <1>2, OneMoreCall
<1>4. \A c \in 1..MaxCalls : Made(c)' = Made(c)
  BY <1>1 DEF Made
<1>5. IsFiniteSet({}) /\ Cardinality({}) = 0
  BY FS_EmptySet
<1>6. ASSUME NEW c \in 1..MaxCalls
      PROVE  /\ IsFiniteSet(Made(c))
             /\ c \in DOMAIN kinds' =>
                   IsFiniteSet(targets'[c]) /\ Cardinality(Made(c)) = Cardinality(targets'[c]) + retries[c]
             /\ c \notin DOMAIN kinds' => Made(c) = {} /\ retries[c] = 0
  <2>1. CASE c \in DOMAIN kinds
    BY <1>3, <2>1 DEF Counts
  <2>2. CASE c = Len(kinds) + 1
    <3>1. Made(c) = {} /\ retries[c] = 0 /\ targets'[c] = {} /\ c \in DOMAIN kinds'
      BY <1>3, <2>2 DEF Counts
    <3> QED
      BY <1>5, <3>1
  <2>3. CASE c \notin DOMAIN kinds'
    <3>1. c \notin DOMAIN kinds
      BY <1>3, <2>3
    <3> QED
      BY <2>3, <3>1 DEF Counts
  <2> QED
    BY <1>3, <2>1, <2>2, <2>3
<1> QED
  BY <1>1, <1>4, <1>6 DEF Counts

LEMMA InvokeCounts ==
    ASSUME Shape, Counts, NEW kind \in {"route", "to", "all"}, NEW q \in Seq(Servers), Invoke(kind, q)
    PROVE  Counts'
<1> DEFINE T == {Len(addresses) + i : i \in DOMAIN q}
           p == IF q = << >> THEN "fulfilled" ELSE "pending"
<1>0. PICK d : d = Len(kinds) + 1
  OBVIOUS
<1>1. /\ UNCHANGED retries
      /\ Len(addresses) \in Nat /\ Len(q) \in Nat /\ DOMAIN q = 1..Len(q)
      /\ DOMAIN addresses = 1..Len(addresses)
      /\ DOMAIN addresses' = 1..(Len(addresses) + Len(q))
      /\ \A a \in DOMAIN addresses : addresses'[a] = addresses[a]
      /\ \A i \in DOMAIN q : addresses'[Len(addresses) + i].call = d
  BY <1>0, InvokeFacts
<1>2. kinds' = Append(kinds, kind) /\ Len(kinds) < MaxCalls /\ targets' = Append(targets, T)
      /\ promise' = Append(promise, p)
  BY InvokeFacts
<1>3. T \in SUBSET Nat /\ p \in {"pending", "fulfilled", "error", "rejected", "none"}
  BY <1>1
<1>4. IsFiniteSet(T) /\ Cardinality(T) \in Nat
  <2>1. \A a \in T : a <= Len(addresses) + Len(q)
    BY <1>1
  <2>2. Len(addresses) + Len(q) \in Nat
    BY <1>1
  <2>3. IsFiniteSet(T)
    BY <1>3, <2>1, <2>2, FS_BoundedSetOfNaturals
  <2> QED
    BY <2>3, FS_CardinalityType
<1>5. \A a \in DOMAIN addresses' \ DOMAIN addresses : a \in T /\ addresses'[a].call = d
  <2>1. ASSUME NEW a \in DOMAIN addresses' \ DOMAIN addresses PROVE a \in T /\ addresses'[a].call = d
    <3>1. a - Len(addresses) \in DOMAIN q /\ a = Len(addresses) + (a - Len(addresses))
      BY <1>1
    <3>2. addresses'[Len(addresses) + (a - Len(addresses))].call = d
      BY <1>1, <3>1
    <3> QED
      BY <3>1, <3>2
  <2> QED
    BY <2>1
<1>6. T = DOMAIN addresses' \ DOMAIN addresses
  <2>1. T \subseteq DOMAIN addresses' \ DOMAIN addresses
    BY <1>1
  <2> QED
    BY <1>5, <2>1
<1> HIDE DEF T, p
<1>7. /\ DOMAIN kinds = 1..Len(kinds) /\ DOMAIN kinds' = 1..(Len(kinds) + 1) /\ Len(kinds) \in Nat
      /\ \A c \in DOMAIN kinds : targets'[c] = targets[c]
      /\ targets'[d] = T /\ d \in DOMAIN kinds' /\ d \notin DOMAIN kinds
  <2>1. /\ DOMAIN kinds = 1..Len(kinds) /\ DOMAIN kinds' = 1..(Len(kinds) + 1) /\ Len(kinds) \in Nat
        /\ \A c \in DOMAIN kinds : targets'[c] = targets[c]
        /\ targets'[Len(kinds) + 1] = T
    BY <1>2, <1>3, OneMoreCall
  <2> QED
    BY <1>0, <2>1
<1>8. DOMAIN addresses \subseteq DOMAIN addresses'
  BY <1>1
<1>9. \A c \in 1..MaxCalls : c # d => Made(c)' = Made(c)
  <2>1. ASSUME NEW c \in 1..MaxCalls, c # d
        PROVE  \A a : a \in DOMAIN addresses' /\ addresses'[a].call = c
                       <=> a \in DOMAIN addresses /\ addresses[a].call = c
    BY <1>1, <1>5, <1>8, <2>1
  <2> QED
    BY <2>1 DEF Made
<1>10. d \in 1..MaxCalls => Made(d)' = T /\ retries[d] = 0
  <2>1. HAVE d \in 1..MaxCalls
  <2>2. Made(d) = {} /\ retries[d] = 0
    BY <1>7, <2>1 DEF Counts
  <2>3. \A a \in DOMAIN addresses : addresses'[a].call # d
    BY <1>1, <2>2 DEF Made
  <2>4. Made(d)' = T
    BY <1>5, <1>6, <2>3 DEF Made
  <2> QED
    BY <2>2, <2>4
<1>11. ASSUME NEW c \in 1..MaxCalls
       PROVE  /\ IsFiniteSet(Made(c)')
              /\ c \in DOMAIN kinds' =>
                    IsFiniteSet(targets'[c]) /\ Cardinality(Made(c)') = Cardinality(targets'[c]) + retries[c]
              /\ c \notin DOMAIN kinds' => Made(c)' = {} /\ retries[c] = 0
  <2>1. CASE c = d
    <3>1. Made(c)' = T /\ retries[c] = 0 /\ targets'[c] = T /\ c \in DOMAIN kinds'
      BY <1>7, <1>10, <2>1
    <3>2. Cardinality(T) = Cardinality(T) + 0
      BY <1>4
    <3> QED
      BY <1>4, <3>1, <3>2
  <2>2. CASE c # d
    <3>1. c \in DOMAIN kinds' <=> c \in DOMAIN kinds
      BY <1>0, <1>7, <2>2
    <3> QED
      BY <1>7, <1>9, <2>2, <3>1 DEF Counts
  <2> QED
    BY <2>1, <2>2
<1> QED
  BY <1>1, <1>11 DEF Counts

LEMMA FailoverCounts == ASSUME Shape, Counts, Failover PROVE Counts'
<1>1. /\ todo # << >> /\ Head(todo).op = "failover" /\ UNCHANGED <<kinds, targets>>
  BY FailoverFacts
<1>2. CASE UNCHANGED <<addresses, retries>>
  BY <1>1, <1>2, CountsFrame
<1>3. ASSUME NEW r \in Addresses, r.call = addresses[Head(todo).on].call,
             addresses' = Append(addresses, r), retries' = [retries EXCEPT ![r.call] = @ + 1]
      PROVE  Counts'
  <2> DEFINE d == r.call
             n == Len(addresses) + 1
  <2>1. /\ addresses \in Seq(Addresses) /\ Len(addresses) \in Nat /\ DOMAIN addresses = 1..Len(addresses)
        /\ retries \in [1..MaxCalls -> Nat] /\ d \in 1..MaxCalls
    BY DEF Shape, Typed, Addresses
  <2>2. Head(todo).on \in DOMAIN addresses
    BY <1>1, HeadFacts DEF OnAddress
  <2>3. d \in DOMAIN kinds
    BY <1>3, <2>2 DEF Shape, Referring
  <2>4. /\ DOMAIN addresses' = DOMAIN addresses \cup {n} /\ n \notin DOMAIN addresses
        /\ \A a \in DOMAIN addresses : addresses'[a] = addresses[a]
        /\ addresses'[n] = r
    <3>1. /\ DOMAIN addresses' = 1..(Len(addresses) + 1)
          /\ \A a \in DOMAIN addresses : addresses'[a] = addresses[a]
          /\ addresses'[n] = r
      BY <1>3, <2>1, Appended
    <3> QED
      BY <2>1, <3>1
  <2>5. retries'[d] = retries[d] + 1 /\ \A c \in 1..MaxCalls : c # d => retries'[c] = retries[c]
    BY <1>3, <2>1
  <2>6. \A c \in 1..MaxCalls : c # d => Made(c)' = Made(c)
    <3> HIDE DEF n
    <3>1. ASSUME NEW c \in 1..MaxCalls, c # d
          PROVE  \A a : a \in DOMAIN addresses' /\ addresses'[a].call = c
                         <=> a \in DOMAIN addresses /\ addresses[a].call = c
      BY <2>4, <3>1
    <3> QED
      BY <3>1 DEF Made
  <2>7. Made(d)' = Made(d) \cup {n} /\ n \notin Made(d)
    <3> HIDE DEF n
    <3> QED
      BY <2>4 DEF Made
  <2>8. /\ IsFiniteSet(Made(d)) /\ IsFiniteSet(targets[d])
        /\ Cardinality(Made(d)) = Cardinality(targets[d]) + retries[d]
    BY <2>1, <2>3 DEF Counts
  <2>9. IsFiniteSet(Made(d)') /\ Cardinality(Made(d)') = Cardinality(Made(d)) + 1
    <3> HIDE DEF n, d
    <3>1. /\ IsFiniteSet(Made(d) \cup {n})
          /\ Cardinality(Made(d) \cup {n}) = Cardinality(Made(d)) + 1
      BY <2>7, <2>8, FS_AddElement
    <3> QED
      BY <2>7, <3>1
  <2>10. Cardinality(targets[d]) \in Nat /\ retries[d] \in Nat
    BY <2>1, <2>8, FS_CardinalityType
  <2> HIDE DEF n, d
  <2>11. ASSUME NEW c \in 1..MaxCalls
         PROVE  /\ IsFiniteSet(Made(c)')
                /\ c \in DOMAIN kinds =>
                      IsFiniteSet(targets[c]) /\ Cardinality(Made(c)') = Cardinality(targets[c]) + retries'[c]
                /\ c \notin DOMAIN kinds => Made(c)' = {} /\ retries'[c] = 0
    <3>1. CASE c = d
      BY <2>3, <2>5, <2>8, <2>9, <2>10, <3>1
    <3>2. CASE c # d
      BY <2>5, <2>6, <3>2 DEF Counts
    <3> QED
      BY <3>1, <3>2
  <2> QED
    BY <1>1, <2>11 DEF Counts
<1> QED
  BY <1>2, <1>3, FailoverFacts

LEMMA CountsStep == ASSUME Shape, Counts, [Next]_vars PROVE Counts'
<1>1. ASSUME UNCHANGED <<addresses, retries, kinds, targets>> PROVE Counts'
  BY <1>1, CountsFrame
<1>2. CASE Dispatch
  BY <1>1, <1>2, DispatchFacts DEF callVars
<1>3. CASE Park \/ GiveError \/ DeleteQueue \/ Return
  BY <1>1, <1>3 DEF Park, GiveError, DeleteQueue, Return, callVars, stationVars
<1>4. CASE Failover
  BY <1>4, FailoverCounts
<1>5. CASE Life \/ Admin
  BY <1>1, <1>5, LifeFrame, AdminFrame DEF CallState
<1>6. CASE InvokeRefused \/ RouteFails \/ RouteSilent
  BY <1>6, NoAddressCounts
<1>7. ASSUME NEW kind \in {"route", "to", "all"}, NEW q \in Seq(Servers), Invoke(kind, q) PROVE Counts'
  BY <1>7, InvokeCounts
<1>8. ASSUME NEW s \in Servers PROVE <<s>> \in Seq(Servers)
  OBVIOUS
<1>9. CASE Call
  BY <1>6, <1>7, <1>8, <1>9, Orderly DEF Call, Route, ToServer, Broadcast
<1>10. ASSUME NEW a \in DOMAIN addresses, Answer(a) PROVE Counts'
  BY <1>1, <1>10 DEF Answer, Reply, TimesOut, callVars
<1>11. ASSUME NEW s \in Servers, Box(s) PROVE Counts'
  BY <1>1, <1>11 DEF Box, Connected, ConnectFails, Closes, callVars
<1>12. CASE UNCHANGED vars
  BY <1>1, <1>12 DEF vars, stationVars, callVars
<1> QED
  BY <1>2, <1>3, <1>4, <1>5, <1>9, <1>10, <1>11, <1>12 DEF Next, Handler, Work

-----------------------------------------------------------------------------
(* The invariants together.                                                  *)

LEMMA InitFacts == ASSUME Init PROVE Shape /\ SInv /\ Counts
<1>1. /\ state = "inited" /\ listeners = 0 /\ serversMap \in Seq(Servers)
      /\ mailbox = [s \in Servers |-> "none"] /\ pendings = [s \in Servers |-> << >>]
      /\ addresses = << >> /\ sent = << >> /\ retries = [c \in 1..MaxCalls |-> 0]
      /\ kinds = << >> /\ targets = << >> /\ promise = << >> /\ todo = << >>
  BY Orderly DEF Init
<1>2. Typed
  BY <1>1, BoundsAssumption DEF Typed, BoundsAssumption
<1>3. Referring
  BY <1>1 DEF Referring
<1>4. SInv
  BY <1>1 DEF SInv, Waits, Parked, Loop, SentAtMostOnce, Delivering, IsInjective
<1>5. \A c \in 1..MaxCalls : Made(c) = {} /\ retries[c] = 0
  BY <1>1 DEF Made
<1>6. IsFiniteSet({})
  BY FS_EmptySet
<1>7. DOMAIN kinds = {}
  BY <1>1
<1>8. Counts
  BY <1>5, <1>6, <1>7 DEF Counts
<1> QED
  BY <1>2, <1>3, <1>4, <1>8 DEF Shape

IInv == Shape /\ SInv /\ Counts

LEMMA IInvHolds == Spec => []IInv
<1>1. Init => IInv
  BY InitFacts DEF IInv
<1>2. IInv /\ [Next]_vars => IInv'
  <2>1. SUFFICES ASSUME IInv, [Next]_vars PROVE IInv'
    OBVIOUS
  <2>2. Shape'
    BY <2>1, ShapeStep DEF IInv, SInv
  <2>3. SInv'
    BY <2>1, SInvStep DEF IInv
  <2>4. Counts'
    BY <2>1, CountsStep DEF IInv
  <2> QED
    BY <2>2, <2>3, <2>4 DEF IInv
<1> QED
  BY <1>1, <1>2, PTL DEF Spec

(* The state of the client keeps its shape: each step of the running handler *)
(* refers to an address, a promise or a server that exists, and the loop     *)
(* over parked addresses and the executor of a promise are at its bottom.    *)
THEOREM TypeCorrect == Spec => []Shape
<1>1. IInv => Shape
  BY DEF IInv
<1> QED
  BY <1>1, IInvHolds, PTL

(* No dispatch is sent twice, and a call goes beyond the servers it was      *)
(* addressed to only once for each run of failover: a parked address, the    *)
(* loop that delivers it and the retries never meet (mailstation.ts:270-347, *)
(* 504-540 and failureProcess.ts:53-82).                                     *)
THEOREM SendsAreCounted == Spec => []SentAgainOnlyByFailover
<1>1. IInv => SentAgainOnlyByFailover
  <2>1. SUFFICES ASSUME IInv PROVE SentAgainOnlyByFailover
    OBVIOUS
  <2>2. \A a \in DOMAIN sent : sent[a] <= 1
    BY <2>1 DEF IInv, SInv, SentAtMostOnce
  <2>3. ASSUME NEW c \in DOMAIN kinds
        PROVE  Cardinality({a \in DOMAIN sent : sent[a] > 0 /\ addresses[a].call = c})
                 <= Cardinality(targets[c]) + retries[c]
    <3> DEFINE used == {a \in DOMAIN sent : sent[a] > 0 /\ addresses[a].call = c}
    <3>1. c \in 1..MaxCalls /\ DOMAIN sent = DOMAIN addresses
      BY <2>1, BoundsAssumption DEF IInv, Shape, Typed, BoundsAssumption
    <3>2. /\ IsFiniteSet(Made(c))
          /\ Cardinality(Made(c)) = Cardinality(targets[c]) + retries[c]
      BY <2>1, <3>1 DEF IInv, Counts
    <3>3. used \in SUBSET Made(c)
      BY <3>1 DEF Made
    <3> HIDE DEF used
    <3>4. Cardinality(used) <= Cardinality(Made(c))
      BY <3>2, <3>3, FS_Subset
    <3>5. Cardinality(used) <= Cardinality(targets[c]) + retries[c]
      BY <3>2, <3>4
    <3> QED
      BY <3>5 DEF used
  <2> QED
    BY <2>2, <2>3 DEF SentAgainOnlyByFailover
<1> QED
  BY <1>1, IInvHolds, PTL

-----------------------------------------------------------------------------
(* The mailboxes.                                                            *)

LEMMA SameMailboxes ==
    ASSUME MailboxOnlyOnline, UNCHANGED serverVars,
           \A s \in Servers : mailbox[s] = "none" => mailbox'[s] = "none"
    PROVE  MailboxOnlyOnline'
  BY DEF MailboxOnlyOnline, serverVars

LEMMA MailboxStep ==
    ASSUME Shape, MailboxOnlyOnline, [Next]_vars
    PROVE  MailboxOnlyOnline'
<1>0. mailbox \in [Servers -> {"none", "connecting", "up", "shut", "stuck"}]
  BY DEF Shape, Typed
<1>1. CASE Dispatch
  <2> DEFINE s == addresses[Head(todo).on].server
  <2>1. s \in Servers /\ UNCHANGED serverVars
    BY <1>1, DispatchFacts
  <2>2. UNCHANGED mailbox \/ (s \in onlines /\ mailbox' = [mailbox EXCEPT ![s] = "connecting"])
    BY <1>1, DispatchFacts
  <2> HIDE DEF s
  <2> QED
    BY <1>0, <2>1, <2>2 DEF MailboxOnlyOnline, serverVars
<1>2. CASE Park \/ GiveError \/ DeleteQueue \/ Return
  <2>1. UNCHANGED <<serverVars, mailbox>>
    BY <1>2 DEF Park, GiveError, DeleteQueue, Return, stationVars
  <2> QED
    BY <2>1, SameMailboxes
<1>3. CASE Failover
  BY <1>3, FailoverFacts, SameMailboxes
<1>4. CASE Life
  BY <1>4, LifeFrame, SameMailboxes
<1>5. CASE Admin
  <2>1. ASSUME NEW s \in Servers, RemoveServer(s) PROVE MailboxOnlyOnline'
    <3>1. /\ mailbox' = [mailbox EXCEPT ![s] = "none"]
          /\ onlines' = onlines \ {s} /\ kept' = kept \ {s}
      BY <2>1 DEF RemoveServer
    <3> QED
      BY <1>0, <3>1 DEF MailboxOnlyOnline
  <2>2. ASSUME NEW q \in Orders, AddServers(q) PROVE MailboxOnlyOnline'
    <3>1. /\ mailbox' = mailbox
          /\ onlines' = onlines \cup Range(q) /\ kept' = kept \ Range(q)
      BY <2>2 DEF AddServers
    <3> QED
      BY <3>1 DEF MailboxOnlyOnline
  <2>3. ASSUME NEW q \in Orders, ReplaceServers(q) PROVE MailboxOnlyOnline'
    <3>1. /\ mailbox' = mailbox /\ onlines' = Range(q)
          /\ kept' = {s \in Servers \ Range(q) : mailbox[s] # "none"}
      BY <2>3 DEF ReplaceServers
    <3> QED
      BY <3>1 DEF MailboxOnlyOnline
  <2> QED
    BY <1>5, <2>1, <2>2, <2>3 DEF Admin
<1>6. CASE InvokeRefused \/ RouteFails \/ RouteSilent
  <2>1. UNCHANGED <<serverVars, mailbox>>
    BY <1>6, NoAddress DEF stationVars
  <2> QED
    BY <2>1, SameMailboxes
<1>7. ASSUME NEW kind \in {"route", "to", "all"}, NEW q \in Seq(Servers), Invoke(kind, q)
      PROVE  MailboxOnlyOnline'
  BY <1>7, InvokeFacts, SameMailboxes
<1>8. ASSUME NEW s \in Servers PROVE <<s>> \in Seq(Servers)
  OBVIOUS
<1>9. CASE Call
  BY <1>6, <1>7, <1>8, <1>9, Orderly DEF Call, Route, ToServer, Broadcast
<1>10. ASSUME NEW a \in DOMAIN addresses, Answer(a) PROVE MailboxOnlyOnline'
  BY <1>10, SameMailboxes DEF Answer, Reply, TimesOut
<1>11. ASSUME NEW s \in Servers, Box(s) PROVE MailboxOnlyOnline'
  <2>1. CASE Connected(s)
    <3>1. mailbox[s] = "connecting" /\ mailbox' = [mailbox EXCEPT ![s] = "up"] /\ UNCHANGED serverVars
      BY <2>1, ConnectedFacts
    <3> QED
      BY <1>0, <3>1 DEF MailboxOnlyOnline, serverVars
  <2>2. CASE ConnectFails(s) \/ Closes(s)
    <3>1. mailbox' = [mailbox EXCEPT ![s] = "none"] /\ kept' = kept \ {s} /\ onlines' = onlines
      BY <2>2, BoxFrame
    <3> QED
      BY <1>0, <3>1 DEF MailboxOnlyOnline
  <2> QED
    BY <1>11, <2>1, <2>2 DEF Box
<1>12. CASE UNCHANGED vars
  <2>1. UNCHANGED <<serverVars, mailbox>>
    BY <1>12 DEF vars, stationVars
  <2> QED
    BY <2>1, SameMailboxes
<1> QED
  BY <1>1, <1>2, <1>3, <1>4, <1>5, <1>9, <1>10, <1>11, <1>12 DEF Next, Handler, Work

(* A server that is not online has no mailbox, unless replaceServers left it *)
(* one: the guard of lazyConnect is all that stands between a list that      *)
(* still names removed servers and a new connection to one                   *)
(* (mailstation.ts:190-252 and 482-502).                                     *)
THEOREM OnlyOnlineConnected == Spec => []MailboxOnlyOnline
<1>1. Init => MailboxOnlyOnline
  BY DEF Init, MailboxOnlyOnline
<1>2. IInv /\ MailboxOnlyOnline /\ [Next]_vars => MailboxOnlyOnline'
  BY MailboxStep DEF IInv
<1> QED
  BY <1>1, <1>2, IInvHolds, PTL DEF Spec

=============================================================================
