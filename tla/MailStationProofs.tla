------------------------- MODULE MailStationProofs -------------------------
(* Proofs about MailStation for every set of servers, pending size and      *)
(* number of calls, mailboxes and starts.                                   *)
EXTENDS MailStation, SequenceTheorems, TLAPS

-----------------------------------------------------------------------------
(* TYPE CORRECTNESS.  TypeOK in parts, each over the variables that actions *)
(* change together.                                                         *)

LifeOK ==
    /\ kind \in AllKinds
    /\ state \in {"inited", "started", "closed"}
    /\ starts \in Nat /\ ticks \in Nat /\ graces \in Nat

ServersOK ==
    /\ known \subseteq Servers /\ onlines \subseteq Servers
    /\ routable \subseteq Servers

Links == {"unborn", "connecting", "up", "late", "failed", "cut", "ending", "down"}

BoxesOK ==
    /\ connecting \subseteq Servers
    /\ owner \in Seq(Servers) /\ Len(owner) <= MaxBoxes
    /\ mailboxes \in [Servers -> 0..MaxBoxes]
    /\ \A s \in Servers : mailboxes[s] # NoBox =>
          mailboxes[s] \in DOMAIN owner /\ owner[mailboxes[s]] = s
    /\ link \in [Boxes -> Links]
    /\ \A b \in Boxes : link[b] = "unborn" <=> b \notin DOMAIN owner
    /\ closed \subseteq DOMAIN owner

FlushOK ==
    /\ flushing \subseteq Servers /\ (\A s, t \in flushing : s = t)
    /\ met \in 0..MaxBoxes /\ cursor \in Nat /\ size \in Nat

LoopOK == \A s \in flushing : cursor \in 1..(size + 1) /\ size <= Len(pendings[s])

CallsOK ==
    /\ target \in Seq(Servers) /\ Len(target) <= MaxCalls
    /\ pendings \in [Servers -> Seq(DOMAIN target)]
    /\ nested \subseteq DOMAIN target
    /\ admitted \in Seq(DOMAIN target)
    /\ reported \subseteq DOMAIN target /\ overflowed \subseteq DOMAIN target

FlowOK ==
    /\ inBefore \subseteq DOMAIN admitted /\ inAfter \subseteq DOMAIN admitted
    /\ requests \in [Boxes -> SUBSET DOMAIN admitted] /\ told \subseteq DOMAIN admitted
    /\ answers \in [Calls -> Nat]

LEMMA TypeParts ==
    /\ TypeOK <=> LifeOK /\ ServersOK /\ BoxesOK /\ FlushOK /\ LoopOK /\ CallsOK /\ FlowOK
    /\ TypeOK' <=> LifeOK' /\ ServersOK' /\ BoxesOK' /\ FlushOK' /\ LoopOK' /\ CallsOK' /\ FlowOK'
  BY DEF TypeOK, LifeOK, ServersOK, BoxesOK, FlushOK, LoopOK, CallsOK, FlowOK, Links

LEMMA Params ==
    /\ MaxCalls \in Nat /\ MaxBoxes \in Nat /\ PendingSize \in Nat
    /\ Boxes = 1..MaxBoxes /\ Calls = 1..MaxCalls
    /\ NoBox = 0 /\ Kinds \subseteq AllKinds
  BY BoundsAssumption, PendingAssumption, KindsAssumption
  DEF BoundsAssumption, PendingAssumption, KindsAssumption, Boxes, Calls, NoBox

LEMMA Domains ==
    ASSUME CallsOK, BoxesOK
    PROVE  /\ DOMAIN target = 1..Len(target) /\ Len(target) \in Nat
           /\ DOMAIN admitted = 1..Len(admitted) /\ Len(admitted) \in Nat
           /\ DOMAIN owner = 1..Len(owner) /\ Len(owner) \in Nat
           /\ DOMAIN target \subseteq Calls
           /\ DOMAIN owner \subseteq Boxes
           /\ \A s \in Servers : /\ pendings[s] \in Seq(DOMAIN target)
                                 /\ DOMAIN pendings[s] = 1..Len(pendings[s])
                                 /\ Len(pendings[s]) \in Nat
           /\ \A i \in DOMAIN admitted : admitted[i] \in DOMAIN target
           /\ \A b \in DOMAIN owner : owner[b] \in Servers
<1>1. /\ DOMAIN target = 1..Len(target) /\ Len(target) \in Nat
      /\ DOMAIN admitted = 1..Len(admitted) /\ Len(admitted) \in Nat
      /\ DOMAIN owner = 1..Len(owner) /\ Len(owner) \in Nat
      /\ DOMAIN target \subseteq Calls
      /\ DOMAIN owner \subseteq Boxes
  <2>1. /\ DOMAIN target = 1..Len(target) /\ Len(target) \in Nat
        /\ DOMAIN admitted = 1..Len(admitted) /\ Len(admitted) \in Nat
    BY LenProperties DEF CallsOK
  <2>2. DOMAIN owner = 1..Len(owner) /\ Len(owner) \in Nat
    BY LenProperties DEF BoxesOK
  <2> QED
    BY <2>1, <2>2, Params DEF CallsOK, BoxesOK
<1>2. \A s \in Servers : /\ pendings[s] \in Seq(DOMAIN target)
                         /\ DOMAIN pendings[s] = 1..Len(pendings[s])
                         /\ Len(pendings[s]) \in Nat
  BY LenProperties DEF CallsOK
<1>3. \A i \in DOMAIN admitted : admitted[i] \in DOMAIN target
  BY <1>1, ElementOfSeq DEF CallsOK
<1>4. \A b \in DOMAIN owner : owner[b] \in Servers
  BY <1>1, ElementOfSeq DEF BoxesOK
<1> QED
  BY <1>1, <1>2, <1>3, <1>4

LEMMA InitType == Init => TypeOK
<1> SUFFICES ASSUME Init PROVE TypeOK
  OBVIOUS
<1> USE Params, EmptySeq DEF Init
<1>1. LifeOK /\ ServersOK /\ FlushOK /\ LoopOK
  BY DEF LifeOK, ServersOK, FlushOK, LoopOK
<1>2. BoxesOK
  BY DEF BoxesOK, Links
<1>3. CallsOK
  BY DEF CallsOK
<1>4. FlowOK
  BY DEF FlowOK
<1> QED
  BY <1>1, <1>2, <1>3, <1>4, TypeParts

LEMMA LazyConnectTypes ==
    ASSUME BoxesOK, NEW s \in Servers, LazyConnect(s), UNCHANGED closed
    PROVE  /\ BoxesOK'
           /\ Len(owner) + 1 \in Boxes /\ DOMAIN owner = 1..Len(owner)
           /\ DOMAIN owner' = 1..(Len(owner) + 1)
           /\ owner'[Len(owner) + 1] = s /\ \A b \in DOMAIN owner : owner'[b] = owner[b]
<1> USE Params DEF BoxesOK, LazyConnect, Room
<1>1. /\ owner' = Append(owner, s) /\ Len(owner) \in Nat /\ Len(owner) + 1 \in Boxes
      /\ DOMAIN owner = 1..Len(owner)
  BY LenProperties
<1>2. owner' \in Seq(Servers) /\ Len(owner') = Len(owner) + 1
  BY <1>1
<1>3. DOMAIN owner' = 1..(Len(owner) + 1)
  BY <1>2, LenProperties
<1>4. owner'[Len(owner) + 1] = s /\ \A b \in 1..Len(owner) : owner'[b] = owner[b]
  BY <1>1
<1>5. mailboxes' \in [Servers -> 0..MaxBoxes]
  BY <1>1
<1>6. \A t \in Servers : mailboxes'[t] # NoBox =>
         mailboxes'[t] \in DOMAIN owner' /\ owner'[mailboxes'[t]] = t
  BY <1>1, <1>3, <1>4
<1>7. link' \in [Boxes -> Links]
  BY <1>1 DEF Links
<1>8. \A b \in Boxes : link'[b] = "unborn" <=> b \notin DOMAIN owner'
  BY <1>1, <1>3
<1> QED
  BY <1>1, <1>2, <1>3, <1>4, <1>5, <1>6, <1>7, <1>8

(* What Route does to the queues, for a call of C. *)
LEMMA RouteTypes ==
    ASSUME NEW C, NEW s \in Servers, NEW c \in C, Route(s, c),
           BoxesOK, FlowOK,
           pendings \in [Servers -> Seq(C)], admitted \in Seq(C),
           reported \subseteq C, overflowed \subseteq C
    PROVE  /\ BoxesOK' /\ FlowOK'
           /\ pendings' \in [Servers -> Seq(C)] /\ admitted' \in Seq(C)
           /\ reported' \subseteq C /\ overflowed' \subseteq C
           /\ \A t \in Servers : Len(pendings[t]) <= Len(pendings'[t])
           /\ DOMAIN admitted \subseteq DOMAIN admitted'
<1>1. BoxesOK'
  <2>1. CASE LazyConnect(s)
    BY <2>1, LazyConnectTypes DEF Route
  <2>2. CASE SameBoxes
    BY <2>2 DEF Route, BoxesOK, SameBoxes
  <2> QED
    BY <2>1, <2>2 DEF Route, Refused, Connects, NoTarget, Waits, Admit
<1>2. /\ pendings' \in [Servers -> Seq(C)] /\ overflowed' \subseteq C
      /\ \A t \in Servers : Len(pendings[t]) <= Len(pendings'[t])
  <2>0. \A t \in Servers : pendings[t] \in Seq(C) /\ Len(pendings[t]) \in Nat
    BY LenProperties
  <2>1. CASE SameQueue
    BY <2>0, <2>1 DEF SameQueue
  <2>2. CASE AddToPending(s, c)
    <3>1. /\ Append(pendings[s], c) \in Seq(C)
          /\ Len(Append(pendings[s], c)) = Len(pendings[s]) + 1
      BY <2>0
    <3>2. CASE /\ pendings' = [pendings EXCEPT ![s] = Append(@, c)]
               /\ UNCHANGED overflowed
      BY <2>0, <3>1, <3>2
    <3>3. CASE overflowed' = overflowed \cup {c} /\ UNCHANGED pendings
      BY <2>0, <3>3
    <3> QED
      BY <2>2, <3>2, <3>3 DEF AddToPending
  <2> QED
    BY <2>1, <2>2 DEF Route, Refused, Connects, NoTarget, Waits, Admit
<1>3. reported' \subseteq C
  BY DEF Route, Refused, Connects, NoTarget, Waits, Admit
<1>4. /\ admitted' \in Seq(C) /\ DOMAIN admitted \subseteq DOMAIN admitted'
      /\ inBefore' \subseteq DOMAIN admitted'
  <2>1. CASE UNCHANGED <<admitted, inBefore>>
    BY <2>1 DEF FlowOK
  <2>2. CASE /\ admitted' = Append(admitted, c)
             /\ inBefore' = inBefore \cup {Len(admitted) + 1}
    <3>1. DOMAIN admitted = 1..Len(admitted) /\ Len(admitted) \in Nat
      BY LenProperties
    <3>2. admitted' \in Seq(C) /\ Len(admitted') = Len(admitted) + 1
      BY <2>2, <3>1
    <3>3. DOMAIN admitted' = 1..(Len(admitted) + 1)
      BY <3>1, <3>2, LenProperties
    <3> QED
      BY <2>2, <3>1, <3>2, <3>3 DEF FlowOK
  <2> QED
    BY <2>1, <2>2 DEF Route, Refused, Connects, NoTarget, Waits, Admit
<1>5. FlowOK'
  BY <1>4 DEF Route, FlowOK
<1> QED
  BY <1>1, <1>2, <1>3, <1>4, <1>5

(* A new call grows target by one; what refers to the older calls stays     *)
(* well typed.                                                              *)
LEMMA NewCallTypes ==
    ASSUME TypeOK, NEW s \in Servers, Len(target) < MaxCalls, target' = Append(target, s)
    PROVE  /\ target' \in Seq(Servers) /\ Len(target') = Len(target) + 1
           /\ DOMAIN target = 1..Len(target) /\ Len(target) \in Nat
           /\ DOMAIN target' = 1..(Len(target) + 1)
           /\ \A c \in DOMAIN target : target'[c] = target[c]
           /\ target'[Len(target) + 1] = s
           /\ pendings \in [Servers -> Seq(DOMAIN target')]
           /\ admitted \in Seq(DOMAIN target')
<1> USE TypeParts, Params DEF CallsOK
<1>2. target' \in Seq(Servers) /\ Len(target') = Len(target) + 1
  OBVIOUS
<1>3. DOMAIN target = 1..Len(target) /\ Len(target) \in Nat
  BY Domains
<1>4. DOMAIN target' = 1..(Len(target) + 1)
  BY <1>2, LenProperties
<1>5. DOMAIN target \subseteq DOMAIN target'
  BY <1>3, <1>4
<1>6. admitted \in Seq(DOMAIN target')
  BY <1>5, SeqMonotonic
<1>7. \A t \in Servers : pendings[t] \in Seq(DOMAIN target')
  BY <1>5, SeqMonotonic
<1>8. (\A c \in DOMAIN target : target'[c] = target[c]) /\ target'[Len(target) + 1] = s
  BY <1>3
<1> QED
  BY <1>2, <1>3, <1>4, <1>6, <1>7, <1>8

LEMMA DispatchType ==
    ASSUME TypeOK, NEW s \in Servers, Dispatch(s)
    PROVE  TypeOK'
<1>0. /\ Len(target) < MaxCalls /\ target' = Append(target, s)
      /\ nested' \subseteq nested \cup {Len(target) + 1}
      /\ Route(s, Len(target) + 1)
      /\ UNCHANGED <<lifeVars, serverVars, flushVars>>
  BY DEF Dispatch, Route
<1>1. /\ target' \in Seq(Servers) /\ Len(target') = Len(target) + 1
      /\ DOMAIN target = 1..Len(target) /\ Len(target) \in Nat
      /\ DOMAIN target' = 1..(Len(target) + 1)
      /\ pendings \in [Servers -> Seq(DOMAIN target')]
      /\ admitted \in Seq(DOMAIN target')
  BY <1>0, NewCallTypes
<1>2. Len(target) + 1 \in DOMAIN target' /\ DOMAIN target \subseteq DOMAIN target'
  BY <1>1
<1>3. /\ reported \subseteq DOMAIN target' /\ overflowed \subseteq DOMAIN target'
      /\ nested \subseteq DOMAIN target' /\ BoxesOK /\ FlowOK
  BY <1>2, TypeParts DEF CallsOK
<1>4. /\ BoxesOK' /\ FlowOK'
      /\ pendings' \in [Servers -> Seq(DOMAIN target')] /\ admitted' \in Seq(DOMAIN target')
      /\ reported' \subseteq DOMAIN target' /\ overflowed' \subseteq DOMAIN target'
      /\ \A t \in Servers : Len(pendings[t]) <= Len(pendings'[t])
  BY <1>0, <1>1, <1>2, <1>3, RouteTypes
<1>5. CallsOK'
  BY <1>0, <1>1, <1>2, <1>3, <1>4, Params DEF CallsOK
<1>6. LifeOK' /\ ServersOK' /\ FlushOK'
  BY <1>0, TypeParts DEF LifeOK, ServersOK, FlushOK, lifeVars, serverVars, flushVars
<1>7. LoopOK'
  <2>1. \A t \in Servers : Len(pendings[t]) \in Nat /\ Len(pendings'[t]) \in Nat
    BY <1>1, <1>4, LenProperties
  <2> QED
    BY <1>0, <1>4, <2>1, TypeParts DEF LoopOK, FlushOK, flushVars
<1> QED
  BY <1>4, <1>5, <1>6, <1>7, TypeParts

LEMMA FlushNextType == TypeOK /\ FlushNext => TypeOK'
<1> SUFFICES ASSUME TypeOK, NEW s \in flushing,
                    cursor <= size, cursor' = cursor + 1,
                    Route(s, pendings[s][cursor]),
                    UNCHANGED <<flushing, met, size, target, nested>>
             PROVE  TypeOK'
  BY DEF FlushNext
<1>1. s \in Servers /\ pendings[s][cursor] \in DOMAIN target
  <2>1. cursor \in 1..Len(pendings[s]) /\ s \in Servers /\ pendings[s] \in Seq(DOMAIN target)
    BY TypeParts, Domains DEF LoopOK, FlushOK
  <2> QED
    BY <2>1, ElementOfSeq
<1>2. /\ BoxesOK' /\ FlowOK'
      /\ pendings' \in [Servers -> Seq(DOMAIN target)] /\ admitted' \in Seq(DOMAIN target)
      /\ reported' \subseteq DOMAIN target /\ overflowed' \subseteq DOMAIN target
      /\ \A t \in Servers : Len(pendings[t]) <= Len(pendings'[t])
  BY <1>1, TypeParts, RouteTypes DEF CallsOK
<1>3. CallsOK'
  BY <1>2, TypeParts DEF CallsOK
<1>4. LifeOK' /\ ServersOK' /\ FlushOK'
  BY TypeParts DEF Route, LifeOK, ServersOK, FlushOK, lifeVars, serverVars
<1>5. LoopOK'
  <2>1. \A t \in Servers : Len(pendings[t]) \in Nat /\ Len(pendings'[t]) \in Nat
    BY <1>2, TypeParts, Domains, LenProperties
  <2>2. \A t \in flushing : t = s
    BY TypeParts DEF FlushOK
  <2> QED
    BY <1>1, <1>2, <2>1, <2>2, TypeParts DEF LoopOK, FlushOK
<1> QED
  BY <1>2, <1>3, <1>4, <1>5, TypeParts

LEMMA FlushEndType == TypeOK /\ FlushEnd => TypeOK'
<1> SUFFICES ASSUME TypeOK, NEW s \in flushing,
                    flushing' = {}, met' = NoBox, cursor' = 0, size' = 0,
                    pendings' = [pendings EXCEPT ![s] = << >>],
                    UNCHANGED <<lifeVars, serverVars, boxVars, target, nested, admitted,
                                overflowed, flowVars>>
             PROVE  TypeOK'
  BY DEF FlushEnd
<1>1. LifeOK' /\ ServersOK' /\ BoxesOK' /\ FlowOK'
  BY TypeParts DEF LifeOK, ServersOK, BoxesOK, FlowOK, lifeVars, serverVars, boxVars, flowVars
<1>2. FlushOK' /\ LoopOK'
  BY Params DEF FlushOK, LoopOK
<1>3. CallsOK'
  BY TypeParts, EmptySeq DEF CallsOK, flowVars
<1> QED
  BY <1>1, <1>2, <1>3, TypeParts

LEMMA MappedBoxes == TypeOK => Mapped \subseteq DOMAIN owner
  BY TypeParts DEF Mapped, BoxesOK

Life == Start \/ StartTick \/ StopForce \/ StopGraceful \/ GraceExpires

LEMMA LifeType == TypeOK /\ Life => TypeOK'
<1> SUFFICES ASSUME TypeOK, Life PROVE TypeOK'
  OBVIOUS
<1>1. /\ UNCHANGED <<serverVars, flushVars, queueVars, flowVars>>
      /\ UNCHANGED <<connecting, mailboxes, owner, link>>
      /\ closed' \subseteq closed \cup Mapped
  BY DEF Life, Start, StartTick, StopForce, StopGraceful, GraceExpires, CloseAll, boxVars
<1>2. LifeOK'
  BY TypeParts DEF Life, Start, StartTick, StopForce, StopGraceful, GraceExpires, CloseAll, LifeOK
<1>3. ServersOK' /\ FlushOK' /\ LoopOK' /\ CallsOK' /\ FlowOK'
  BY <1>1, TypeParts
  DEF ServersOK, FlushOK, LoopOK, CallsOK, FlowOK, serverVars, flushVars, queueVars, flowVars
<1>4. BoxesOK'
  BY <1>1, TypeParts, MappedBoxes DEF BoxesOK
<1> QED
  BY <1>2, <1>3, <1>4, TypeParts

LEMMA AdminType == TypeOK /\ Admin => TypeOK'
<1> SUFFICES ASSUME TypeOK, Admin PROVE TypeOK'
  OBVIOUS
<1>1. PICK S \in SUBSET Servers : AddServers(S) \/ RemoveServers(S) \/ ReplaceServers(S)
  BY DEF Admin
<1>2. UNCHANGED <<lifeVars, flushVars, queueVars, flowVars, connecting, owner, link>>
  BY <1>1 DEF AddServers, RemoveServers, ReplaceServers, boxVars
<1>3. LifeOK' /\ FlushOK' /\ LoopOK' /\ CallsOK' /\ FlowOK'
  BY <1>2, TypeParts
  DEF LifeOK, FlushOK, LoopOK, CallsOK, FlowOK, lifeVars, flushVars, queueVars, flowVars
<1>4. ServersOK'
  BY <1>1, TypeParts DEF ServersOK, AddServers, RemoveServers, ReplaceServers
<1>5. BoxesOK'
  <2>1. CASE UNCHANGED boxVars
    BY <2>1, TypeParts DEF BoxesOK, boxVars
  <2>2. CASE RemoveServers(S)
    <3>1. closed' \subseteq closed \cup Mapped
      BY <2>2 DEF RemoveServers, Mapped
    <3>2. /\ mailboxes' = [s \in Servers |-> IF s \in S THEN NoBox ELSE mailboxes[s]]
          /\ UNCHANGED <<connecting, owner, link>>
      BY <2>2 DEF RemoveServers
    <3> QED
      BY <3>1, <3>2, TypeParts, MappedBoxes, Params DEF BoxesOK
  <2> QED
    BY <1>1, <2>1, <2>2 DEF AddServers, ReplaceServers
<1> QED
  BY <1>3, <1>4, <1>5, TypeParts

(* A mailbox that has been created stays with its server; its entry of the  *)
(* map may be deleted, and mailboxes that exist may be closed.              *)
LEMMA BoxStateTypes ==
    ASSUME TypeOK, NEW b \in DOMAIN owner, NEW l \in Links \ {"unborn"},
           link' = [link EXCEPT ![b] = l],
           connecting' \subseteq connecting, UNCHANGED owner,
           mailboxes' = mailboxes \/ mailboxes' = [mailboxes EXCEPT ![owner[b]] = NoBox],
           closed' \subseteq closed \cup Mapped \cup {b}
    PROVE  BoxesOK'
<1> USE TypeParts, Params
<1>1. b \in Boxes /\ owner[b] \in Servers
  BY Domains
<1>2. link' \in [Boxes -> Links] /\ \A x \in Boxes : link'[x] = "unborn" <=> link[x] = "unborn"
  BY <1>1 DEF BoxesOK
<1>3. closed' \subseteq DOMAIN owner
  BY MappedBoxes DEF BoxesOK
<1>4. mailboxes' \in [Servers -> 0..MaxBoxes]
  BY <1>1 DEF BoxesOK
<1>5. \A s \in Servers : mailboxes'[s] = mailboxes[s] \/ mailboxes'[s] = NoBox
  BY <1>1 DEF BoxesOK
<1> QED
  BY <1>2, <1>3, <1>4, <1>5 DEF BoxesOK

(* The box an event is about exists. *)
LEMMA EventBox ==
    ASSUME TypeOK, NEW b \in Boxes, link[b] # "unborn"
    PROVE  b \in DOMAIN owner /\ owner[b] \in Servers
  BY TypeParts, Domains DEF BoxesOK

LEMMA ConnectedType ==
    ASSUME TypeOK, NEW b \in Boxes, BoxConnected(b)
    PROVE  TypeOK'
<1>1. b \in DOMAIN owner /\ owner[b] \in Servers
  BY EventBox DEF BoxConnected, MayConnect
<1>2. /\ link' = [link EXCEPT ![b] = IF b \in closed THEN "late" ELSE "up"]
      /\ connecting' \subseteq connecting
      /\ UNCHANGED <<lifeVars, serverVars, mailboxes, owner, closed, queueVars, flowVars>>
  BY DEF BoxConnected
<1>3. BoxesOK'
  <2>1. CASE b \in closed
    BY <1>1, <1>2, <2>1, BoxStateTypes DEF Links
  <2>2. CASE b \notin closed
    BY <1>1, <1>2, <2>2, BoxStateTypes DEF Links
  <2> QED
    BY <2>1, <2>2
<1>4. LifeOK' /\ ServersOK' /\ CallsOK' /\ FlowOK'
  BY <1>2, TypeParts
  DEF LifeOK, ServersOK, CallsOK, FlowOK, lifeVars, serverVars, queueVars, flowVars
<1>5. FlushOK' /\ LoopOK'
  <2>1. CASE UNCHANGED flushVars
    BY <1>2, <2>1, TypeParts DEF FlushOK, LoopOK, flushVars, queueVars
  <2>2. CASE FlushStart(owner[b])
    <3>1. Len(pendings[owner[b]]) \in Nat /\ pendings' = pendings
      BY <1>1, <1>2, TypeParts, Domains DEF queueVars
    <3> QED
      BY <1>1, <2>2, <3>1, TypeParts DEF FlushStart, FlushOK, LoopOK, BoxesOK
  <2> QED
    BY <2>1, <2>2 DEF BoxConnected
<1> QED
  BY <1>3, <1>4, <1>5, TypeParts

(* What filter runs that are called back do to the types. *)
LEMMA CalledBackTypes ==
    ASSUME TypeOK, NEW S \in SUBSET DOMAIN admitted,
           GetReply(S) \/ GetError(S) \/ UNCHANGED <<inAfter, answers, reported>>
    PROVE  /\ inAfter' \subseteq DOMAIN admitted
           /\ answers' \in [Calls -> Nat]
           /\ reported' \subseteq DOMAIN target
<1> USE TypeParts DEF FlowOK, CallsOK
<1>1. CASE GetReply(S)
  BY <1>1 DEF GetReply
<1>2. CASE GetError(S)
  <2>1. answers' \in [Calls -> Nat]
    BY <1>2 DEF GetError
  <2>2. {admitted[i] : i \in S} \subseteq DOMAIN target
    BY Domains
  <2> QED
    BY <1>2, <2>1, <2>2 DEF GetError
<1>3. CASE UNCHANGED <<inAfter, answers, reported>>
  BY <1>3
<1> QED
  BY <1>1, <1>2, <1>3

LEMMA BoxEventType ==
    ASSUME TypeOK, NEW b \in Boxes, BoxEvent(b)
    PROVE  TypeOK'
<1>1. CASE BoxConnected(b)
  BY <1>1, ConnectedType
<1>2. CASE BoxConnectFails(b)
  <2>1. b \in DOMAIN owner /\ owner[b] \in Servers
    BY <1>2, EventBox DEF BoxConnectFails, MayFail
  <2>2. BoxesOK'
    <3> DEFINE l == IF link[b] = "up" THEN "ending" ELSE "failed"
    <3>1. l \in Links \ {"unborn"} /\ link' = [link EXCEPT ![b] = l]
      BY <1>2 DEF BoxConnectFails, Links
    <3>2. /\ UNCHANGED <<owner, connecting>> /\ closed' \subseteq closed \cup {b}
          /\ mailboxes' = [mailboxes EXCEPT ![owner[b]] = NoBox]
      BY <1>2 DEF BoxConnectFails
    <3> HIDE DEF l
    <3> QED
      BY <2>1, <3>1, <3>2, BoxStateTypes
  <2>3. UNCHANGED <<lifeVars, serverVars, flushVars, queueVars, flowVars>>
    BY <1>2 DEF BoxConnectFails
  <2> QED
    BY <2>2, <2>3, TypeParts
    DEF LifeOK, ServersOK, FlushOK, LoopOK, CallsOK, FlowOK,
        lifeVars, serverVars, flushVars, queueVars, flowVars
<1>3. CASE BoxEmitsClose(b)
  <2>1. b \in DOMAIN owner /\ owner[b] \in Servers
    BY <1>3, EventBox DEF BoxEmitsClose
  <2>2. BoxesOK'
    <3> DEFINE l == IF kind = "tcp" THEN "down" ELSE link[b]
    <3>1. l \in Links \ {"unborn"} /\ link' = [link EXCEPT ![b] = l]
      BY <1>3 DEF BoxEmitsClose, Links
    <3>2. /\ UNCHANGED <<owner, connecting>> /\ closed' \subseteq closed \cup Mapped
          /\ mailboxes' = [mailboxes EXCEPT ![owner[b]] = NoBox]
      BY <1>3, <2>1 DEF BoxEmitsClose, HearClose, Mapped
    <3> HIDE DEF l
    <3> QED
      BY <2>1, <3>1, <3>2, BoxStateTypes
  <2>3. UNCHANGED <<lifeVars, serverVars, flushVars, queueVars, flowVars>>
    BY <1>3 DEF BoxEmitsClose
  <2> QED
    BY <2>2, <2>3, TypeParts
    DEF LifeOK, ServersOK, FlushOK, LoopOK, CallsOK, FlowOK,
        lifeVars, serverVars, flushVars, queueVars, flowVars
<1>4. CASE BoxBreaks(b)
  <2>1. b \in DOMAIN owner
    BY <1>4, EventBox DEF BoxBreaks
  <2> QED
    <3>1. /\ closed' = closed \cup {b}
          /\ UNCHANGED <<lifeVars, serverVars, connecting, mailboxes, owner, link,
                         flushVars, queueVars, flowVars>>
      BY <1>4 DEF BoxBreaks
    <3>2. BoxesOK'
      BY <2>1, <3>1, TypeParts DEF BoxesOK
    <3>3. LifeOK' /\ ServersOK' /\ FlushOK' /\ LoopOK' /\ CallsOK' /\ FlowOK'
      BY <3>1, TypeParts
      DEF LifeOK, ServersOK, FlushOK, LoopOK, CallsOK, FlowOK,
          lifeVars, serverVars, flushVars, queueVars, flowVars
    <3> QED
      BY <3>2, <3>3, TypeParts
<1>5. CASE BoxLost(b)
  <2>1. b \in DOMAIN owner /\ owner[b] \in Servers
    BY <1>5, EventBox DEF BoxLost
  <2>2. BoxesOK'
    <3> DEFINE l == IF kind \in {"ws", "ws2"} THEN "down" ELSE link[b]
    <3>1. l \in Links \ {"unborn"} /\ link' = [link EXCEPT ![b] = l]
      BY <1>5 DEF BoxLost, Links
    <3>2. /\ UNCHANGED <<owner, connecting>> /\ closed' \subseteq closed \cup Mapped \cup {b}
          /\ mailboxes' = [mailboxes EXCEPT ![owner[b]] = NoBox]
      BY <1>5, <2>1 DEF BoxLost, Mapped
    <3> HIDE DEF l
    <3> QED
      BY <2>1, <3>1, <3>2, BoxStateTypes
  <2>3. requests[b] \in SUBSET DOMAIN admitted
    BY TypeParts DEF FlowOK
  <2>4. GetReply(requests[b]) \/ GetError(requests[b])
    BY <1>5 DEF BoxLost
  <2>5. /\ inAfter' \subseteq DOMAIN admitted /\ answers' \in [Calls -> Nat]
        /\ reported' \subseteq DOMAIN target
    BY <2>3, <2>4, CalledBackTypes
  <2>6. /\ told' = told \cup requests[b]
        /\ UNCHANGED <<lifeVars, serverVars, flushVars, queueVars, requests, inBefore>>
    BY <1>5 DEF BoxLost
  <2> QED
    BY <2>2, <2>3, <2>5, <2>6, TypeParts
    DEF LifeOK, ServersOK, FlushOK, LoopOK, CallsOK, FlowOK,
        lifeVars, serverVars, flushVars, queueVars
<1>6. CASE BoxCut(b)
  <2>1. b \in DOMAIN owner /\ owner[b] \in Servers
    BY <1>6, EventBox DEF BoxCut
  <2>2. BoxesOK'
    <3>1. /\ "cut" \in Links \ {"unborn"} /\ link' = [link EXCEPT ![b] = "cut"]
          /\ UNCHANGED <<owner, connecting, mailboxes, closed>>
      BY <1>6 DEF BoxCut, Links
    <3> QED
      BY <2>1, <3>1, BoxStateTypes
  <2>3. requests[b] \in SUBSET DOMAIN admitted
    BY TypeParts DEF FlowOK
  <2>4. GetError(requests[b])
    BY <1>6 DEF BoxCut
  <2>5. /\ inAfter' \subseteq DOMAIN admitted /\ answers' \in [Calls -> Nat]
        /\ reported' \subseteq DOMAIN target
    BY <2>3, <2>4, CalledBackTypes
  <2>6. /\ told' = told \cup requests[b]
        /\ UNCHANGED <<lifeVars, serverVars, flushVars, queueVars, requests, inBefore>>
    BY <1>6 DEF BoxCut
  <2> QED
    BY <2>2, <2>3, <2>5, <2>6, TypeParts
    DEF LifeOK, ServersOK, FlushOK, LoopOK, CallsOK, FlowOK,
        lifeVars, serverVars, flushVars, queueVars
<1>7. ASSUME NEW i \in DOMAIN admitted, BoxReplies(b, i) \/ BoxTimesOut(b, i)
      PROVE  TypeOK'
  <2>1. /\ inAfter' \subseteq DOMAIN admitted /\ answers' \in [Calls -> Nat]
        /\ reported' \subseteq DOMAIN target
    BY <1>7, CalledBackTypes DEF BoxReplies, BoxTimesOut
  <2>2. /\ requests' = [requests EXCEPT ![b] = @ \ {i}]
        /\ UNCHANGED <<lifeVars, serverVars, boxVars, flushVars, queueVars, told, inBefore>>
    BY <1>7 DEF BoxReplies, BoxTimesOut
  <2> QED
    BY <2>1, <2>2, TypeParts
    DEF LifeOK, ServersOK, BoxesOK, FlushOK, LoopOK, CallsOK, FlowOK,
        lifeVars, serverVars, boxVars, flushVars, queueVars
<1> QED
  BY <1>1, <1>2, <1>3, <1>4, <1>5, <1>6, <1>7 DEF BoxEvent

LEMMA FilterType ==
    ASSUME TypeOK, NEW i \in DOMAIN admitted, Filter(i)
    PROVE  TypeOK'
<1>1. admitted[i] \in DOMAIN target /\ admitted[i] \in Calls
  BY TypeParts, Domains
<1>2. /\ UNCHANGED <<lifeVars, serverVars, boxVars, flushVars, queueVars, told>>
      /\ inBefore' \subseteq inBefore
  BY DEF Filter, BeforePasses, BeforeFails, AfterEnds
<1>3. LifeOK' /\ ServersOK' /\ BoxesOK' /\ FlushOK' /\ LoopOK'
  BY <1>2, TypeParts
  DEF LifeOK, ServersOK, BoxesOK, FlushOK, LoopOK,
      lifeVars, serverVars, boxVars, flushVars, queueVars
<1>4. /\ inAfter' \subseteq DOMAIN admitted /\ answers' \in [Calls -> Nat]
      /\ reported' \subseteq DOMAIN target
  <2>1. CASE GetReply({i}) \/ GetError({i})
    BY <2>1, CalledBackTypes
  <2>2. CASE UNCHANGED <<inAfter, answers>> /\ reported' = reported \cup {admitted[i]}
    BY <1>1, <2>2, TypeParts DEF FlowOK, CallsOK
  <2>3. CASE UNCHANGED <<inAfter, answers, reported>>
    BY <2>3, TypeParts DEF FlowOK, CallsOK
  <2>4. CASE AfterEnds(i)
    <3>1. /\ inAfter' = inAfter \ {i} /\ answers' = [answers EXCEPT ![admitted[i]] = @ + 1]
          /\ reported' \subseteq reported \cup {admitted[i]}
      BY <2>4 DEF AfterEnds
    <3>2. answers' \in [Calls -> Nat]
      BY <1>1, <3>1, TypeParts DEF FlowOK
    <3> QED
      BY <1>1, <3>1, <3>2, TypeParts DEF FlowOK, CallsOK
  <2> QED
    BY <2>1, <2>2, <2>3, <2>4 DEF Filter, BeforePasses, BeforeFails
<1>5. requests' \in [Boxes -> SUBSET DOMAIN admitted]
  <2>1. CASE UNCHANGED requests
    BY <2>1, TypeParts DEF FlowOK
  <2>2. ASSUME NEW b \in Boxes, requests' = [requests EXCEPT ![b] = @ \cup {i}]
        PROVE  requests' \in [Boxes -> SUBSET DOMAIN admitted]
    BY <2>2, TypeParts DEF FlowOK
  <2>3. \A t \in Servers : mailboxes[t] # NoBox => mailboxes[t] \in Boxes
    BY TypeParts, Domains DEF BoxesOK
  <2> QED
    BY <2>1, <2>2, <2>3 DEF Filter, BeforePasses, BeforeFails, AfterEnds
<1>6. CallsOK' /\ FlowOK'
  BY <1>2, <1>4, <1>5, TypeParts DEF CallsOK, FlowOK, queueVars
<1> QED
  BY <1>3, <1>6, TypeParts

(* The actions of Next, in the groups the lemmas are about. *)
LEMMA NextCases ==
    [Next]_vars =>
       \/ Life \/ Admin
       \/ \E s \in Servers : Dispatch(s)
       \/ \E i \in DOMAIN admitted : Filter(i)
       \/ flushing = {} /\ \E b \in Boxes : BoxEvent(b)
       \/ FlushNext \/ FlushEnd
       \/ UNCHANGED vars
  BY DEF Next, User, Event, Life

LEMMA StepType == TypeOK /\ [Next]_vars => TypeOK'
<1> SUFFICES ASSUME TypeOK, [Next]_vars PROVE TypeOK'
  OBVIOUS
<1>1. CASE UNCHANGED vars
  BY <1>1
  DEF vars, TypeOK, lifeVars, serverVars, boxVars, flushVars, queueVars, flowVars
<1> QED
  BY <1>1, NextCases, LifeType, AdminType, DispatchType, BoxEventType, FilterType,
     FlushNextType, FlushEndType

(* Every state has its shape: in particular the mailbox kept for a server   *)
(* was created for it, a flush has its place in the queue, and filter runs  *)
(* and queues refer to calls made.                                          *)
THEOREM TypeCorrect == Spec => []TypeOK
  BY InitType, StepType, PTL DEF Spec

-----------------------------------------------------------------------------
(* QUEUES AND ORDER.  The invariant behind FlushedWhenOpen, PendingBounded  *)
(* and AdmittedInOrder.  The parked calls that are due to be dispatched are *)
(* those a flush has not reached, or the whole queue when none is under     *)
(* way: they are in increasing order, and later than every call to their    *)
(* server that was admitted outside of a flush.                             *)

Due(s) == IF s \in flushing THEN cursor..size ELSE DOMAIN pendings[s]

ParkedForServer ==
    \A s \in Servers : \A k \in DOMAIN pendings[s] : target[pendings[s][k]] = s

DueInOrder ==
    \A s \in Servers : \A k, l \in Due(s) :
       k < l => pendings[s][k] < pendings[s][l]

DueLater ==
    \A s \in Servers : \A k \in Due(s) : \A i \in DOMAIN admitted :
       target[admitted[i]] = s =>
          \/ admitted[i] < pendings[s][k]
          \/ admitted[i] \in nested /\ admitted[i] # pendings[s][k]

AdmittedOnce ==
    \A i, j \in DOMAIN admitted : i # j => admitted[i] # admitted[j]

Order == ParkedForServer /\ DueInOrder /\ DueLater /\ AdmittedInOrder /\ AdmittedOnce

QInv == FlushedWhenOpen /\ PendingBounded /\ Order

LEMMA InitQueues == Init => QInv
  BY Params
  DEF Init, QInv, FlushedWhenOpen, PendingBounded, Order, ParkedForServer, Due,
      DueInOrder, DueLater, AdmittedInOrder, AdmittedOnce

(* What the queues and the admissions refer to are calls. *)
LEMMA QueueTypes ==
    ASSUME TypeOK
    PROVE  /\ \A s \in Servers : /\ pendings[s] \in Seq(DOMAIN target)
                                 /\ Len(pendings[s]) \in Nat
                                 /\ DOMAIN pendings[s] = 1..Len(pendings[s])
                                 /\ Due(s) \subseteq DOMAIN pendings[s]
                                 /\ \A k \in DOMAIN pendings[s] :
                                       pendings[s][k] \in 1..Len(target)
           /\ \A i \in DOMAIN admitted : admitted[i] \in 1..Len(target)
           /\ DOMAIN target = 1..Len(target) /\ Len(target) \in Nat
           /\ DOMAIN admitted = 1..Len(admitted) /\ Len(admitted) \in Nat
           /\ \A c \in DOMAIN target : target[c] \in Servers
<1> USE TypeParts
<1>1. /\ DOMAIN target = 1..Len(target) /\ Len(target) \in Nat
      /\ DOMAIN admitted = 1..Len(admitted) /\ Len(admitted) \in Nat
      /\ \A i \in DOMAIN admitted : admitted[i] \in 1..Len(target)
  BY Domains
<1>3. ASSUME NEW s \in Servers
      PROVE  /\ pendings[s] \in Seq(DOMAIN target)
             /\ Len(pendings[s]) \in Nat
             /\ DOMAIN pendings[s] = 1..Len(pendings[s])
             /\ Due(s) \subseteq DOMAIN pendings[s]
             /\ \A k \in DOMAIN pendings[s] : pendings[s][k] \in 1..Len(target)
  <2>1. /\ pendings[s] \in Seq(DOMAIN target)
        /\ Len(pendings[s]) \in Nat /\ DOMAIN pendings[s] = 1..Len(pendings[s])
    BY Domains
  <2>2. \A k \in DOMAIN pendings[s] : pendings[s][k] \in 1..Len(target)
    BY <2>1, <1>1, ElementOfSeq
  <2>3. Due(s) \subseteq DOMAIN pendings[s]
    BY <2>1 DEF Due, LoopOK, FlushOK
  <2> QED
    BY <2>1, <2>2, <2>3
<1>4. \A c \in DOMAIN target : target[c] \in Servers
  BY <1>1, ElementOfSeq DEF CallsOK
<1> QED
  BY <1>1, <1>3, <1>4

(* What Route does to queues and admissions. *)
LEMMA RouteQueues ==
    ASSUME TypeOK, NEW s \in Servers, NEW c, Route(s, c)
    PROVE  /\ \/ UNCHANGED <<pendings, admitted, inBefore>>
              \/ /\ pendings' = [pendings EXCEPT ![s] = Append(@, c)]
                 /\ Len(pendings[s]) <= PendingSize
                 /\ mailboxes'[s] = NoBox \/ s \in connecting'
                 /\ UNCHANGED <<admitted, inBefore>>
              \/ /\ mailboxes[s] # NoBox /\ s \notin connecting
                 /\ admitted' = Append(admitted, c)
                 /\ inBefore' = inBefore \cup {Len(admitted) + 1}
                 /\ UNCHANGED pendings
           /\ \A t \in Servers : mailboxes'[t] = mailboxes[t] \/ t \in connecting'
           /\ connecting \subseteq connecting'
           /\ UNCHANGED <<closed, requests, told, inAfter, answers>>
<1> USE TypeParts, QueueTypes, Params DEF BoxesOK
<1>1. CASE Refused(c)
  BY <1>1 DEF Refused, SameBoxes, SameQueue, Route
<1>2. CASE Connects(s, c)
  BY <1>2 DEF Connects, LazyConnect, AddToPending, Route
<1>3. CASE NoTarget(s, c)
  BY <1>3 DEF NoTarget, SameBoxes, AddToPending, Route
<1>4. CASE Waits(s, c)
  <2>1. /\ UNCHANGED <<mailboxes, connecting, admitted, inBefore>> /\ s \in connecting
        /\ UNCHANGED <<closed, requests, told, inAfter, answers>>
    BY <1>4 DEF Waits, SameBoxes, Route
  <2>2. \/ UNCHANGED pendings
        \/ /\ pendings' = [pendings EXCEPT ![s] = Append(@, c)]
           /\ Len(pendings[s]) <= PendingSize
    BY <1>4 DEF Waits, AddToPending
  <2> QED
    BY <2>1, <2>2
<1>5. CASE Admit(s, c)
  BY <1>5 DEF Admit, SameBoxes, SameQueue, Route
<1> QED
  BY <1>1, <1>2, <1>3, <1>4, <1>5 DEF Route

(* The queue of s after a call has been parked in it. *)
LEMMA ParkedQueue ==
    ASSUME TypeOK, NEW s \in Servers, NEW c \in Nat,
           pendings' = [pendings EXCEPT ![s] = Append(@, c)]
    PROVE  /\ DOMAIN pendings'[s] = 1..(Len(pendings[s]) + 1)
           /\ Len(pendings'[s]) = Len(pendings[s]) + 1
           /\ \A k \in DOMAIN pendings[s] : pendings'[s][k] = pendings[s][k]
           /\ pendings'[s][Len(pendings[s]) + 1] = c
           /\ \A t \in Servers : t # s => pendings'[t] = pendings[t]
<1> USE QueueTypes
<1>1. /\ pendings'[s] = Append(pendings[s], c)
      /\ \A t \in Servers : t # s => pendings'[t] = pendings[t]
  BY TypeParts DEF CallsOK
<1>2. pendings[s] \in Seq(Nat)
  BY SeqMonotonic
<1>3. Append(pendings[s], c) \in Seq(Nat) /\ Len(Append(pendings[s], c)) = Len(pendings[s]) + 1
  BY <1>2
<1> QED
  BY <1>1, <1>2, <1>3, LenProperties

(* The admissions after one more. *)
LEMMA OneMoreRun ==
    ASSUME TypeOK, NEW c \in Nat, admitted' = Append(admitted, c)
    PROVE  /\ DOMAIN admitted' = 1..(Len(admitted) + 1)
           /\ \A i \in DOMAIN admitted : admitted'[i] = admitted[i]
           /\ admitted'[Len(admitted) + 1] = c
<1> USE QueueTypes
<1>1. admitted \in Seq(Nat)
  BY TypeParts, SeqMonotonic DEF CallsOK
<1>2. admitted' \in Seq(Nat) /\ Len(admitted') = Len(admitted) + 1
  BY <1>1
<1> QED
  BY <1>1, <1>2, LenProperties

LEMMA OrderFrame ==
    ASSUME Order, UNCHANGED <<target, admitted, nested, pendings, flushing, cursor, size>>
    PROVE  Order'
  BY DEF Order, ParkedForServer, Due, DueInOrder, DueLater, AdmittedInOrder, AdmittedOnce

(* A new call that is neither parked nor admitted. *)
LEMMA OrderNewCall ==
    ASSUME TypeOK, Order, NEW s \in Servers, Len(target) < MaxCalls,
           target' = Append(target, s), nested \subseteq nested',
           UNCHANGED <<admitted, pendings, flushing, cursor, size>>
    PROVE  Order'
<1> USE QueueTypes
<1>1. \A c \in 1..Len(target) : target'[c] = target[c]
  BY NewCallTypes
<1>0. \A t \in Servers : Due(t)' = Due(t)
  BY DEF Due
<1>2. ParkedForServer'
  BY <1>1 DEF Order, ParkedForServer
<1>3. DueInOrder'
  BY <1>0 DEF Order, DueInOrder
<1>4. DueLater'
  BY <1>0, <1>1 DEF Order, DueLater
<1>5. AdmittedInOrder' /\ AdmittedOnce'
  BY <1>1 DEF Order, AdmittedInOrder, AdmittedOnce
<1> QED
  BY <1>2, <1>3, <1>4, <1>5 DEF Order

(* A new call that is parked at the end of the queue of its server. *)
LEMMA OrderParked ==
    ASSUME TypeOK, Order, NEW s \in Servers, Len(target) < MaxCalls,
           target' = Append(target, s), nested \subseteq nested',
           pendings' = [pendings EXCEPT ![s] = Append(@, Len(target) + 1)],
           UNCHANGED <<admitted, flushing, cursor, size>>
    PROVE  Order'
<1> DEFINE n == Len(target) + 1
<1> USE QueueTypes
<1>1. /\ \A c \in 1..Len(target) : target'[c] = target[c]
      /\ target'[n] = s /\ n \in Nat
  BY NewCallTypes
<1>2. /\ \A t \in Servers : t # s => pendings'[t] = pendings[t]
      /\ DOMAIN pendings'[s] = 1..(Len(pendings[s]) + 1)
      /\ \A k \in DOMAIN pendings[s] : pendings'[s][k] = pendings[s][k]
      /\ pendings'[s][Len(pendings[s]) + 1] = n
  BY <1>1, ParkedQueue
<1>3. /\ \A t \in Servers : t # s => Due(t)' = Due(t)
      /\ Due(s)' \subseteq Due(s) \cup {Len(pendings[s]) + 1}
  BY <1>2 DEF Due
<1>8. \A x \in 1..Len(target) : x < n
  BY DEF n
<1> HIDE DEF n
<1>4. ParkedForServer'
  BY <1>1, <1>2 DEF Order, ParkedForServer
<1>5. DueInOrder'
  <2> SUFFICES ASSUME NEW t \in Servers, NEW k \in Due(t)', NEW l \in Due(t)', k < l
               PROVE  pendings'[t][k] < pendings'[t][l]
    BY DEF DueInOrder
  <2>1. CASE t # s
    BY <1>2, <1>3, <2>1 DEF Order, DueInOrder
  <2>2. CASE t = s /\ l \in Due(s)
    <3>1. k \in Due(s)
      BY <1>3, <2>2
    <3> QED
      BY <1>2, <2>2, <3>1 DEF Order, DueInOrder
  <2>3. CASE t = s /\ l = Len(pendings[s]) + 1
    <3>1. k \in Due(s)
      BY <1>3, <2>3
    <3>2. pendings'[s][k] \in 1..Len(target)
      BY <1>2, <3>1
    <3>3. pendings'[s][k] < n
      BY <1>8, <3>2
    <3> QED
      BY <1>2, <2>3, <3>3
  <2> QED
    BY <1>3, <2>1, <2>2, <2>3
<1>6. DueLater'
  <2> SUFFICES ASSUME NEW t \in Servers, NEW k \in Due(t)', NEW i \in DOMAIN admitted,
                      target'[admitted[i]] = t
               PROVE  \/ admitted[i] < pendings'[t][k]
                      \/ admitted[i] \in nested' /\ admitted[i] # pendings'[t][k]
    BY DEF DueLater
  <2>0. target[admitted[i]] = t
    BY <1>1
  <2>1. CASE t # s
    BY <1>2, <1>3, <2>0, <2>1 DEF Order, DueLater
  <2>2. CASE t = s /\ k \in Due(s)
    BY <1>2, <2>0, <2>2 DEF Order, DueLater
  <2>3. CASE t = s /\ k = Len(pendings[s]) + 1
    BY <1>2, <2>3 DEF n
  <2> QED
    BY <1>3, <2>1, <2>2, <2>3
<1>7. AdmittedInOrder' /\ AdmittedOnce'
  BY <1>1 DEF Order, AdmittedInOrder, AdmittedOnce
<1> QED
  BY <1>4, <1>5, <1>6, <1>7 DEF Order

(* A new call that is admitted: either nothing is due for its server, or it *)
(* is made inside the flush.                                                *)
LEMMA OrderAdmitted ==
    ASSUME TypeOK, Order, NEW s \in Servers, Len(target) < MaxCalls,
           target' = Append(target, s), nested \subseteq nested',
           Due(s) = {} \/ Len(target) + 1 \in nested',
           admitted' = Append(admitted, Len(target) + 1),
           UNCHANGED <<pendings, flushing, cursor, size>>
    PROVE  Order'
<1> DEFINE n == Len(target) + 1
<1> DEFINE r == Len(admitted) + 1
<1> USE QueueTypes
<1>1. /\ \A c \in 1..Len(target) : target'[c] = target[c]
      /\ target'[n] = s /\ n \in Nat
  BY NewCallTypes
<1>2. /\ DOMAIN admitted' = DOMAIN admitted \cup {r} /\ r \notin DOMAIN admitted
      /\ \A i \in DOMAIN admitted : admitted'[i] = admitted[i] /\ i < r
      /\ admitted'[r] = n
  <2>1. /\ DOMAIN admitted' = 1..(Len(admitted) + 1)
        /\ \A i \in DOMAIN admitted : admitted'[i] = admitted[i]
        /\ admitted'[Len(admitted) + 1] = n
    BY <1>1, OneMoreRun
  <2> QED
    BY <2>1
<1>3. \A i \in DOMAIN admitted : admitted[i] < n /\ target'[admitted[i]] = target[admitted[i]]
  BY <1>1
<1>0. \A t \in Servers : Due(t)' = Due(t)
  BY DEF Due
<1>8. Due(s) = {} \/ n \in nested'
  OBVIOUS
<1>9. \A t \in Servers : \A k \in Due(t) : pendings[t][k] \in 1..Len(target) /\ pendings[t][k] # n
  OBVIOUS
<1> HIDE DEF n, r
<1>4. ParkedForServer' /\ DueInOrder'
  BY <1>0, <1>1 DEF Order, ParkedForServer, DueInOrder
<1>6. DueLater'
  <2> SUFFICES ASSUME NEW t \in Servers, NEW k \in Due(t), NEW i \in DOMAIN admitted',
                      target'[admitted'[i]] = t
               PROVE  \/ admitted'[i] < pendings[t][k]
                      \/ admitted'[i] \in nested' /\ admitted'[i] # pendings[t][k]
    BY <1>0 DEF DueLater
  <2>1. CASE i \in DOMAIN admitted
    BY <1>2, <1>3, <2>1 DEF Order, DueLater
  <2>2. CASE i = r
    BY <1>1, <1>2, <1>8, <1>9, <2>2
  <2> QED
    BY <1>2, <2>1, <2>2
<1>7. AdmittedInOrder'
  <2> SUFFICES ASSUME NEW i \in DOMAIN admitted', NEW j \in DOMAIN admitted', i < j,
                      target'[admitted'[i]] = target'[admitted'[j]]
               PROVE  admitted'[i] < admitted'[j] \/ admitted'[i] \in nested'
    BY DEF AdmittedInOrder
  <2>1. i \in DOMAIN admitted
    BY <1>2
  <2>2. CASE j \in DOMAIN admitted
    BY <1>2, <1>3, <2>1, <2>2 DEF Order, AdmittedInOrder
  <2>3. CASE j = r
    BY <1>2, <1>3, <2>1, <2>3
  <2> QED
    BY <1>2, <2>2, <2>3
<1>10. AdmittedOnce'
  BY <1>2, <1>3 DEF Order, AdmittedOnce
<1> QED
  BY <1>4, <1>6, <1>7, <1>10 DEF Order

(* One turn of a flush: the first call that is due is dispatched. *)
LEMMA OrderTurn ==
    ASSUME TypeOK, Order, NEW s \in flushing, cursor <= size, cursor' = cursor + 1,
           UNCHANGED <<flushing, size, target, nested>>,
           \/ UNCHANGED <<pendings, admitted>>
           \/ /\ pendings' = [pendings EXCEPT ![s] = Append(@, pendings[s][cursor])]
              /\ UNCHANGED admitted
           \/ /\ admitted' = Append(admitted, pendings[s][cursor])
              /\ UNCHANGED pendings
    PROVE  Order'
<1> DEFINE p == pendings[s][cursor]
<1>0. /\ \A i \in DOMAIN admitted : admitted[i] \in Nat
      /\ \A t \in Servers : /\ Len(pendings[t]) \in Nat
                            /\ DOMAIN pendings[t] = 1..Len(pendings[t])
                            /\ Due(t) \subseteq DOMAIN pendings[t]
                            /\ \A k \in DOMAIN pendings[t] : pendings[t][k] \in Nat
      /\ DOMAIN admitted = 1..Len(admitted) /\ Len(admitted) \in Nat
  BY QueueTypes
<1>1. /\ s \in Servers /\ \A t \in flushing : t = s
      /\ Due(s) = cursor..size /\ cursor \in Nat /\ size \in Nat
      /\ cursor \in Due(s)
  BY TypeParts DEF FlushOK, Due
<1>2. p \in Nat /\ target[p] = s
  BY <1>0, <1>1 DEF Order, ParkedForServer
<1>3. /\ Due(s)' = (cursor + 1)..size
      /\ \A k \in Due(s)' : k \in Due(s) /\ p < pendings[s][k]
  BY <1>1 DEF Due, Order, DueInOrder
<1>4. \A i \in DOMAIN admitted :
         /\ admitted[i] # p
         /\ target[admitted[i]] = s => admitted[i] < p \/ admitted[i] \in nested
  <2> SUFFICES ASSUME NEW i \in DOMAIN admitted
               PROVE  /\ admitted[i] # p
                      /\ target[admitted[i]] = s => admitted[i] < p \/ admitted[i] \in nested
    OBVIOUS
  <2>1. target[admitted[i]] = s =>
           admitted[i] < p \/ (admitted[i] \in nested /\ admitted[i] # p)
    BY <1>1 DEF Order, DueLater
  <2> QED
    BY <1>0, <1>2, <2>1
<1> HIDE DEF p
<1>5. CASE UNCHANGED <<pendings, admitted>>
  <2>1. \A t \in Servers : Due(t)' \subseteq Due(t)
    BY <1>1, <1>3, <1>5 DEF Due
  <2> QED
    BY <1>5, <2>1
    DEF Order, ParkedForServer, DueInOrder, DueLater, AdmittedInOrder, AdmittedOnce
<1>6. CASE /\ pendings' = [pendings EXCEPT ![s] = Append(@, p)]
           /\ UNCHANGED admitted
  <2>1. /\ DOMAIN pendings'[s] = 1..(Len(pendings[s]) + 1)
        /\ \A k \in DOMAIN pendings[s] : pendings'[s][k] = pendings[s][k]
        /\ pendings'[s][Len(pendings[s]) + 1] = p
        /\ \A t \in Servers : t # s => pendings'[t] = pendings[t]
    BY <1>1, <1>2, <1>6, ParkedQueue DEF p
  <2>2. \A t \in Servers : Due(t)' \subseteq Due(t)
    <3>1. \A t \in Servers : t # s => Due(t)' = Due(t)
      BY <1>1, <2>1 DEF Due
    <3> QED
      BY <1>3, <3>1
  <2>3. \A t \in Servers : \A k \in Due(t)' : k \in Due(t) /\ pendings'[t][k] = pendings[t][k]
    BY <1>0, <1>1, <2>1, <2>2
  <2>4. ParkedForServer'
    BY <1>0, <1>1, <1>2, <2>1 DEF Order, ParkedForServer
  <2>5. DueInOrder'
    BY <2>3 DEF Order, DueInOrder
  <2>6. DueLater'
    <3> SUFFICES ASSUME NEW t \in Servers, NEW k \in Due(t)', NEW i \in DOMAIN admitted,
                        target[admitted[i]] = t
                 PROVE  \/ admitted[i] < pendings'[t][k]
                        \/ admitted[i] \in nested /\ admitted[i] # pendings'[t][k]
      BY <1>6 DEF DueLater
    <3> QED
      BY <2>3 DEF Order, DueLater
  <2>7. AdmittedInOrder' /\ AdmittedOnce'
    BY <1>6 DEF Order, AdmittedInOrder, AdmittedOnce
  <2> QED
    BY <2>4, <2>5, <2>6, <2>7 DEF Order
<1>7. CASE admitted' = Append(admitted, p) /\ UNCHANGED pendings
  <2> DEFINE r == Len(admitted) + 1
  <2>1. /\ DOMAIN admitted' = DOMAIN admitted \cup {r} /\ r \notin DOMAIN admitted
        /\ \A i \in DOMAIN admitted : admitted'[i] = admitted[i] /\ i < r
        /\ admitted'[r] = p
    <3>1. /\ DOMAIN admitted' = 1..(Len(admitted) + 1)
          /\ \A i \in DOMAIN admitted : admitted'[i] = admitted[i]
          /\ admitted'[Len(admitted) + 1] = p
      BY <1>2, <1>7, OneMoreRun
    <3> QED
      BY <1>0, <3>1
  <2>7. \A i, j \in DOMAIN admitted \cup {r} : i < j => i # r
    BY <1>0
  <2> HIDE DEF r
  <2>2. \A t \in Servers : Due(t)' \subseteq Due(t)
    BY <1>1, <1>3, <1>7 DEF Due
  <2>3. ParkedForServer' /\ DueInOrder'
    BY <1>7, <2>2 DEF Order, ParkedForServer, DueInOrder
  <2>4. DueLater'
    <3> SUFFICES ASSUME NEW t \in Servers, NEW k \in Due(t)', NEW i \in DOMAIN admitted',
                        target[admitted'[i]] = t
                 PROVE  \/ admitted'[i] < pendings[t][k]
                        \/ admitted'[i] \in nested /\ admitted'[i] # pendings[t][k]
      BY <1>7 DEF DueLater
    <3>1. CASE i \in DOMAIN admitted
      BY <2>1, <2>2, <3>1 DEF Order, DueLater
    <3>2. CASE i = r
      BY <1>0, <1>2, <1>3, <2>1, <2>2, <3>2
    <3> QED
      BY <2>1, <3>1, <3>2
  <2>5. AdmittedInOrder'
    <3> SUFFICES ASSUME NEW i \in DOMAIN admitted', NEW j \in DOMAIN admitted', i < j,
                        target[admitted'[i]] = target[admitted'[j]]
                 PROVE  admitted'[i] < admitted'[j] \/ admitted'[i] \in nested
      BY DEF AdmittedInOrder
    <3>1. i \in DOMAIN admitted
      BY <2>1, <2>7
    <3>2. CASE j \in DOMAIN admitted
      BY <2>1, <3>1, <3>2 DEF Order, AdmittedInOrder
    <3>3. CASE j = r
      BY <1>0, <1>2, <1>4, <2>1, <3>1, <3>3
    <3> QED
      BY <2>1, <3>2, <3>3
  <2>6. AdmittedOnce'
    BY <1>4, <2>1 DEF Order, AdmittedOnce
  <2> QED
    BY <2>3, <2>4, <2>5, <2>6 DEF Order
<1> QED
  BY <1>5, <1>6, <1>7 DEF p

LEMMA DispatchQueues ==
    ASSUME TypeOK, QInv, NEW s \in Servers, Dispatch(s)
    PROVE  QInv'
<1>1. /\ Len(target) < MaxCalls /\ target' = Append(target, s)
      /\ nested' = IF s \in flushing THEN nested \cup {Len(target) + 1} ELSE nested
      /\ Route(s, Len(target) + 1)
      /\ UNCHANGED <<flushing, met, cursor, size>>
  BY DEF Dispatch, flushVars
<1>0. nested \subseteq nested' /\ Len(target) + 1 \in Nat
  BY <1>1, QueueTypes
<1> DEFINE n == Len(target) + 1
<1>2. /\ \/ UNCHANGED <<pendings, admitted>>
         \/ /\ pendings' = [pendings EXCEPT ![s] = Append(@, n)]
            /\ Len(pendings[s]) <= PendingSize
            /\ mailboxes'[s] = NoBox \/ s \in connecting'
            /\ UNCHANGED admitted
         \/ /\ mailboxes[s] # NoBox /\ s \notin connecting
            /\ admitted' = Append(admitted, n)
            /\ UNCHANGED pendings
      /\ \A t \in Servers : mailboxes'[t] = mailboxes[t] \/ t \in connecting'
      /\ connecting \subseteq connecting'
  BY <1>1, RouteQueues
<1>3. CASE UNCHANGED <<pendings, admitted>>
  BY <1>0, <1>1, <1>2, <1>3, OrderNewCall DEF QInv, FlushedWhenOpen, PendingBounded
<1>4. CASE /\ pendings' = [pendings EXCEPT ![s] = Append(@, n)]
           /\ Len(pendings[s]) <= PendingSize
           /\ mailboxes'[s] = NoBox \/ s \in connecting'
           /\ UNCHANGED admitted
  <2>1. Order'
    BY <1>0, <1>1, <1>4, OrderParked DEF QInv
  <2>2. /\ Len(pendings'[s]) = Len(pendings[s]) + 1
        /\ \A t \in Servers : t # s => pendings'[t] = pendings[t]
    BY <1>0, <1>4, ParkedQueue
  <2>3. FlushedWhenOpen'
    BY <1>1, <1>2, <1>4, <2>2 DEF QInv, FlushedWhenOpen
  <2>4. PendingBounded'
    BY <1>4, <2>2, QueueTypes, Params DEF QInv, PendingBounded
  <2> QED
    BY <2>1, <2>3, <2>4 DEF QInv
<1>5. CASE /\ mailboxes[s] # NoBox /\ s \notin connecting
           /\ admitted' = Append(admitted, n)
           /\ UNCHANGED pendings
  <2>1. pendings[s] = << >> \/ s \in flushing
    BY <1>5 DEF QInv, FlushedWhenOpen
  <2>2. Due(s) = {} \/ n \in nested'
    BY <1>1, <2>1 DEF Due
  <2>3. Order'
    BY <1>0, <1>1, <1>5, <2>2, OrderAdmitted DEF QInv
  <2> QED
    BY <1>1, <1>2, <1>5, <2>3 DEF QInv, FlushedWhenOpen, PendingBounded
<1> QED
  BY <1>2, <1>3, <1>4, <1>5

LEMMA FlushNextQueues == TypeOK /\ QInv /\ FlushNext => QInv'
<1> SUFFICES ASSUME TypeOK, QInv, NEW s \in flushing,
                    cursor <= size, cursor' = cursor + 1,
                    Route(s, pendings[s][cursor]),
                    UNCHANGED <<flushing, met, size, target, nested>>
             PROVE  QInv'
  BY DEF FlushNext
<1> DEFINE p == pendings[s][cursor]
<1>1. s \in Servers /\ p \in Nat
  BY QueueTypes, TypeParts DEF FlushOK, LoopOK
<1>2. /\ \/ UNCHANGED <<pendings, admitted>>
         \/ /\ pendings' = [pendings EXCEPT ![s] = Append(@, p)]
            /\ Len(pendings[s]) <= PendingSize
            /\ UNCHANGED admitted
         \/ admitted' = Append(admitted, p) /\ UNCHANGED pendings
      /\ \A t \in Servers : mailboxes'[t] = mailboxes[t] \/ t \in connecting'
      /\ connecting \subseteq connecting'
  BY <1>1, RouteQueues
<1>3. Order'
  BY <1>2, OrderTurn DEF QInv
<1>4. CASE UNCHANGED pendings
  BY <1>2, <1>3, <1>4 DEF QInv, FlushedWhenOpen, PendingBounded
<1>5. CASE /\ pendings' = [pendings EXCEPT ![s] = Append(@, p)]
           /\ Len(pendings[s]) <= PendingSize
  <2>2. /\ Len(pendings'[s]) = Len(pendings[s]) + 1
        /\ \A t \in Servers : t # s => pendings'[t] = pendings[t]
    BY <1>1, <1>5, ParkedQueue
  <2>3. FlushedWhenOpen'
    BY <1>2, <2>2 DEF QInv, FlushedWhenOpen
  <2>4. PendingBounded'
    BY <1>1, <1>5, <2>2, QueueTypes, Params DEF QInv, PendingBounded
  <2> QED
    BY <1>3, <2>3, <2>4 DEF QInv
<1> QED
  BY <1>2, <1>4, <1>5

LEMMA FlushEndQueues == TypeOK /\ QInv /\ FlushEnd => QInv'
<1> SUFFICES ASSUME TypeOK, QInv, NEW s \in flushing, cursor > size,
                    flushing' = {}, pendings' = [pendings EXCEPT ![s] = << >>],
                    UNCHANGED <<mailboxes, connecting, target, nested, admitted>>
             PROVE  QInv'
  BY DEF FlushEnd, boxVars
<1>1. s \in Servers /\ \A t \in flushing : t = s
  BY TypeParts DEF FlushOK
<1>2. pendings'[s] = << >> /\ \A t \in Servers : t # s => pendings'[t] = pendings[t]
  BY <1>1, TypeParts DEF CallsOK
<1>3. Due(s)' = {} /\ \A t \in Servers : t # s => Due(t)' = Due(t)
  BY <1>1, <1>2 DEF Due
<1>4. Order'
  BY <1>2, <1>3
  DEF QInv, Order, ParkedForServer, DueInOrder, DueLater, AdmittedInOrder, AdmittedOnce
<1>5. FlushedWhenOpen'
  BY <1>1, <1>2 DEF QInv, FlushedWhenOpen
<1>6. PendingBounded'
  BY <1>2, Params DEF QInv, PendingBounded
<1> QED
  BY <1>4, <1>5, <1>6 DEF QInv

LEMMA ConnectedQueues ==
    ASSUME TypeOK, QInv, flushing = {}, NEW b \in Boxes, BoxConnected(b)
    PROVE  QInv'
<1> DEFINE s == owner[b]
<1>1. s \in Servers
  BY EventBox DEF BoxConnected, MayConnect
<1>2. /\ connecting' = connecting \ {s}
      /\ IF pendings[s] # << >> THEN FlushStart(s) ELSE UNCHANGED flushVars
      /\ UNCHANGED <<mailboxes, pendings, target, nested, admitted>>
  BY DEF BoxConnected, queueVars
<1> HIDE DEF s
<1>3. FlushedWhenOpen' /\ PendingBounded'
  BY <1>1, <1>2 DEF QInv, FlushedWhenOpen, PendingBounded, FlushStart, flushVars
<1>4. \A t \in Servers : Due(t)' = Due(t)
  BY <1>1, <1>2, QueueTypes DEF Due, FlushStart, flushVars
<1>5. Order'
  BY <1>2, <1>4
  DEF QInv, Order, ParkedForServer, DueInOrder, DueLater, AdmittedInOrder, AdmittedOnce
<1> QED
  BY <1>3, <1>5 DEF QInv

(* The other actions leave queues and flushes alone, and only delete        *)
(* entries of the mailboxes map.                                            *)
LEMMA QuietQueues ==
    ASSUME TypeOK, QInv, UNCHANGED <<flushVars, pendings, target, nested, admitted, connecting>>,
           \A t \in Servers : mailboxes'[t] \in {mailboxes[t], NoBox}
    PROVE  QInv'
  BY OrderFrame DEF QInv, FlushedWhenOpen, PendingBounded, flushVars

LEMMA BoxEventQuiet ==
    ASSUME TypeOK, NEW b \in Boxes, BoxEvent(b), ~BoxConnected(b)
    PROVE  /\ UNCHANGED <<flushVars, pendings, target, nested, admitted, connecting>>
           /\ \A t \in Servers : mailboxes'[t] \in {mailboxes[t], NoBox}
<1> USE TypeParts DEF BoxesOK, queueVars, boxVars
<1>1. CASE BoxConnectFails(b)
  BY <1>1 DEF BoxConnectFails
<1>2. CASE BoxEmitsClose(b)
  BY <1>2 DEF BoxEmitsClose, HearClose
<1>3. CASE BoxBreaks(b)
  BY <1>3 DEF BoxBreaks
<1>4. CASE BoxLost(b) \/ BoxCut(b)
  BY <1>4 DEF BoxLost, BoxCut
<1>5. ASSUME NEW i \in DOMAIN admitted, BoxReplies(b, i) \/ BoxTimesOut(b, i)
      PROVE  /\ UNCHANGED <<flushVars, pendings, target, nested, admitted, connecting>>
             /\ mailboxes' = mailboxes
  BY <1>5 DEF BoxReplies, BoxTimesOut
<1> QED
  BY <1>1, <1>2, <1>3, <1>4, <1>5 DEF BoxEvent

LEMMA StepQueues == TypeOK /\ QInv /\ [Next]_vars => QInv'
<1> SUFFICES ASSUME TypeOK, QInv, [Next]_vars PROVE QInv'
  OBVIOUS
<1>1. CASE Life
  BY <1>1, QuietQueues
  DEF Life, Start, StartTick, StopForce, StopGraceful, GraceExpires, CloseAll, boxVars, queueVars
<1>2. CASE Admin
  BY <1>2, QuietQueues
  DEF Admin, AddServers, RemoveServers, ReplaceServers, boxVars, queueVars
<1>3. ASSUME NEW i \in DOMAIN admitted, Filter(i) PROVE QInv'
  BY <1>3, QuietQueues DEF Filter, BeforePasses, BeforeFails, AfterEnds, boxVars, queueVars
<1>4. ASSUME flushing = {}, NEW b \in Boxes, BoxEvent(b) PROVE QInv'
  BY <1>4, ConnectedQueues, BoxEventQuiet, QuietQueues
<1>5. CASE UNCHANGED vars
  BY <1>5, QuietQueues DEF vars, boxVars, queueVars
<1> QED
  BY <1>1, <1>2, <1>3, <1>4, <1>5, NextCases, DispatchQueues, FlushNextQueues, FlushEndQueues

LEMMA QueuesInvariant == Spec => [](TypeOK /\ QInv)
<1>1. Init => TypeOK /\ QInv
  BY InitType, InitQueues
<1>2. (TypeOK /\ QInv) /\ [Next]_vars => (TypeOK /\ QInv)'
  BY StepType, StepQueues
<1> QED
  BY <1>1, <1>2, PTL DEF Spec

(* No call waits behind a mailbox that is ready, whatever filters, removals, *)
(* late connect callbacks and calls from inside a flush come between.        *)
THEOREM FlushComplete == Spec => []FlushedWhenOpen
<1>1. TypeOK /\ QInv => FlushedWhenOpen
  BY DEF QInv
<1> QED
  BY <1>1, QueuesInvariant, PTL

(* The bound of a pending queue is its size plus the call that fills it. *)
THEOREM QueueBound == Spec => []PendingBounded
<1>1. TypeOK /\ QInv => PendingBounded
  BY DEF QInv
<1> QED
  BY <1>1, QueuesInvariant, PTL

(* A call never overtakes an earlier one to the same server, unless it is   *)
(* made inside the flush of the queue the other waits in.                   *)
THEOREM AdmissionOrder == Spec => []AdmittedInOrder
<1>1. TypeOK /\ QInv => AdmittedInOrder
  BY DEF QInv, Order
<1> QED
  BY <1>1, QueuesInvariant, PTL

-----------------------------------------------------------------------------
(* MAILBOXES WITHIN REACH, over mqtt and mqtt2, whose closed mailboxes tell  *)
(* the station nothing but a late connect.  A new mailbox is created only    *)
(* for a server without an entry, and a mailbox leaves the map closed.       *)

Quiet == kind \in {"mqtt", "mqtt2"}

BoxInv == kind \in Kinds /\ (Quiet => LiveBoxesMapped /\ StopClosesAll)

LEMMA InitBoxes == Init => BoxInv
  BY DEF Init, BoxInv, LiveBoxesMapped, StopClosesAll, Live

LEMMA BirthMapped ==
    ASSUME TypeOK, LiveBoxesMapped, NEW s \in Servers, mailboxes[s] = NoBox,
           LazyConnect(s), UNCHANGED closed
    PROVE  LiveBoxesMapped'
<1> USE TypeParts, Params
<1>1. /\ DOMAIN owner' = 1..(Len(owner) + 1) /\ DOMAIN owner = 1..Len(owner)
      /\ owner'[Len(owner) + 1] = s /\ \A b \in DOMAIN owner : owner'[b] = owner[b]
  BY LazyConnectTypes
<1>2. /\ link' = [link EXCEPT ![Len(owner) + 1] = "connecting"]
      /\ mailboxes' = [mailboxes EXCEPT ![s] = Len(owner) + 1]
  BY DEF LazyConnect
<1>3. Len(owner) \in Nat /\ \A b \in DOMAIN owner : b \in Boxes /\ owner[b] \in Servers
  BY Domains
<1> SUFFICES ASSUME NEW b \in DOMAIN owner', Live(b)'
             PROVE  mailboxes'[owner'[b]] = b
  BY DEF LiveBoxesMapped
<1>4. CASE b = Len(owner) + 1
  BY <1>1, <1>2, <1>4 DEF BoxesOK
<1>5. CASE b \in DOMAIN owner
  <2>1. b # Len(owner) + 1
    BY <1>1, <1>3, <1>5
  <2>2. link'[b] = link[b]
    BY <1>2, <1>3, <1>5, <2>1 DEF BoxesOK
  <2>3. mailboxes[owner[b]] = b
    BY <1>5, <2>2 DEF Live, LiveBoxesMapped
  <2>4. owner[b] # s
    BY <1>1, <1>3, <1>5, <2>3
  <2> QED
    BY <1>1, <1>2, <1>3, <1>5, <2>3, <2>4 DEF BoxesOK
<1> QED
  BY <1>1, <1>3, <1>4, <1>5

(* Dispatches and flush turns. *)
LEMMA RouteBoxes ==
    ASSUME TypeOK, BoxInv, NEW s \in Servers, NEW c, Route(s, c)
    PROVE  BoxInv'
<1>1. UNCHANGED <<kind, state, graces, closed>>
  BY DEF Route, lifeVars
<1>2. CASE SameBoxes
  BY <1>1, <1>2 DEF SameBoxes, BoxInv, Quiet, LiveBoxesMapped, StopClosesAll, Live
<1>3. CASE Connects(s, c)
  BY <1>1, <1>3, BirthMapped DEF Connects, BoxInv, Quiet, StopClosesAll
<1> QED
  BY <1>2, <1>3 DEF Route, Refused, NoTarget, Waits, Admit

(* A step that brings no mailbox to life and closes those it drops. *)
LEMMA NoNewLive ==
    ASSUME TypeOK, BoxInv, UNCHANGED <<kind, owner>>,
           Quiet => \A b \in DOMAIN owner : Live(b)' => Live(b),
           Quiet => \A s \in Servers : \/ mailboxes'[s] = mailboxes[s]
                                       \/ mailboxes[s] \in closed' \cup {NoBox},
           Quiet => \/ UNCHANGED <<state, graces>>
                    \/ ~(state' = "closed" /\ graces' = 0)
                    \/ Mapped \subseteq closed'
    PROVE  BoxInv'
<1> SUFFICES ASSUME Quiet PROVE LiveBoxesMapped' /\ StopClosesAll'
  BY DEF BoxInv, Quiet
<1>0. LiveBoxesMapped /\ StopClosesAll
  BY DEF BoxInv
<1>1. \A b \in DOMAIN owner : b # NoBox /\ owner[b] \in Servers
  BY TypeParts, Domains, Params
<1>2. LiveBoxesMapped'
  <2> SUFFICES ASSUME NEW b \in DOMAIN owner, Live(b)' PROVE mailboxes'[owner[b]] = b
    BY DEF LiveBoxesMapped
  <2>1. mailboxes[owner[b]] = b /\ b \notin closed'
    BY <1>0 DEF LiveBoxesMapped, Live
  <2> QED
    BY <1>1, <2>1
<1>3. StopClosesAll'
  <2>1. CASE UNCHANGED <<state, graces>>
    BY <1>0, <2>1 DEF StopClosesAll
  <2>2. CASE Mapped \subseteq closed'
    <3>1. \A b \in DOMAIN owner : ~Live(b)'
      <4> SUFFICES ASSUME NEW b \in DOMAIN owner, Live(b)' PROVE FALSE
        OBVIOUS
      <4>1. mailboxes[owner[b]] = b
        BY <1>0 DEF LiveBoxesMapped
      <4>2. b \in Mapped
        BY <1>1, <4>1 DEF Mapped
      <4> QED
        BY <2>2, <4>2 DEF Live
    <3> QED
      BY <3>1 DEF StopClosesAll
  <2>3. CASE ~(state' = "closed" /\ graces' = 0)
    BY <2>3 DEF StopClosesAll
  <2> QED
    BY <2>1, <2>2, <2>3
<1> QED
  BY <1>2, <1>3

LEMMA LifeBoxes == TypeOK /\ BoxInv /\ Life => BoxInv'
<1> SUFFICES ASSUME TypeOK, BoxInv, Life PROVE BoxInv'
  OBVIOUS
<1>1. UNCHANGED <<kind, owner, mailboxes, link>> /\ closed \subseteq closed'
  BY DEF Life, Start, StartTick, StopForce, StopGraceful, GraceExpires, CloseAll, boxVars
<1>2. \/ UNCHANGED <<state, graces>>
      \/ ~(state' = "closed" /\ graces' = 0)
      \/ Mapped \subseteq closed'
  <2>1. CASE Start \/ StartTick
    BY <2>1 DEF Start, StartTick
  <2>2. CASE StopForce \/ GraceExpires
    BY <2>2 DEF StopForce, GraceExpires, CloseAll
  <2>3. CASE StopGraceful
    BY <2>3, TypeParts DEF StopGraceful, LifeOK
  <2> QED
    BY <2>1, <2>2, <2>3 DEF Life
<1> QED
  BY <1>1, <1>2, NoNewLive DEF Live

LEMMA AdminBoxes == TypeOK /\ BoxInv /\ Admin => BoxInv'
<1> SUFFICES ASSUME TypeOK, BoxInv, NEW S \in SUBSET Servers,
                    AddServers(S) \/ RemoveServers(S) \/ ReplaceServers(S)
             PROVE  BoxInv'
  BY DEF Admin
<1>1. /\ UNCHANGED <<lifeVars, owner, link>> /\ closed \subseteq closed'
      /\ \A s \in Servers : \/ mailboxes'[s] = mailboxes[s]
                            \/ mailboxes[s] \in closed' \cup {NoBox}
  BY DEF AddServers, RemoveServers, ReplaceServers, boxVars
<1> QED
  BY <1>1, NoNewLive DEF Live, lifeVars

LEMMA BoxEventBoxes ==
    ASSUME TypeOK, BoxInv, NEW b \in Boxes, BoxEvent(b)
    PROVE  BoxInv'
<1> USE TypeParts, Params DEF BoxesOK
<1>1. CASE BoxConnected(b)
  <2>1. /\ UNCHANGED <<lifeVars, mailboxes, owner, closed>>
        /\ link' = [link EXCEPT ![b] = IF b \in closed THEN "late" ELSE "up"]
        /\ Quiet => link[b] = "connecting"
    BY <1>1 DEF BoxConnected, MayConnect, Quiet
  <2>2. Quiet => \A x \in DOMAIN owner : Live(x)' => Live(x)
    BY <2>1, Domains DEF Live
  <2> QED
    BY <2>1, <2>2, NoNewLive DEF lifeVars
<1>2. CASE BoxConnectFails(b)
  <2>1. ~Quiet /\ kind' = kind /\ owner' = owner
    BY <1>2 DEF BoxConnectFails, MayFail, Quiet, lifeVars
  <2> QED
    BY <2>1 DEF BoxInv, Quiet
<1>3. CASE BoxEmitsClose(b)
  <2>1. /\ UNCHANGED <<lifeVars, owner>> /\ closed \subseteq closed'
        /\ Quiet => link' = link
        /\ \A s \in Servers : \/ mailboxes'[s] = mailboxes[s]
                              \/ mailboxes[s] \in closed' \cup {NoBox}
    BY <1>3 DEF BoxEmitsClose, HearClose, Quiet
  <2> QED
    BY <2>1, NoNewLive DEF Live, lifeVars
<1>4. CASE BoxBreaks(b)
  <2>1. UNCHANGED <<lifeVars, owner, mailboxes, link>> /\ closed \subseteq closed'
    BY <1>4 DEF BoxBreaks
  <2> QED
    BY <2>1, NoNewLive DEF Live, lifeVars
<1>5. CASE BoxLost(b)
  <2>1. /\ UNCHANGED <<lifeVars, owner>> /\ closed \subseteq closed'
        /\ Quiet => link' = link
        /\ \A s \in Servers : \/ mailboxes'[s] = mailboxes[s]
                              \/ mailboxes[s] \in closed' \cup {NoBox}
    BY <1>5 DEF BoxLost, Quiet
  <2> QED
    BY <2>1, NoNewLive DEF Live, lifeVars
<1>6. CASE BoxCut(b)
  <2>1. /\ UNCHANGED <<lifeVars, mailboxes, owner, closed>>
        /\ link' = [link EXCEPT ![b] = "cut"] /\ link[b] = "connecting"
    BY <1>6 DEF BoxCut
  <2>2. \A x \in DOMAIN owner : Live(x)' => Live(x)
    BY <2>1, Domains DEF Live
  <2> QED
    BY <2>1, <2>2, NoNewLive DEF lifeVars
<1>7. ASSUME NEW i \in DOMAIN admitted, BoxReplies(b, i) \/ BoxTimesOut(b, i)
      PROVE  BoxInv'
  <2>1. UNCHANGED <<lifeVars, boxVars>>
    BY <1>7 DEF BoxReplies, BoxTimesOut
  <2> QED
    BY <2>1, NoNewLive DEF Live, lifeVars, boxVars
<1> QED
  BY <1>1, <1>2, <1>3, <1>4, <1>5, <1>6, <1>7 DEF BoxEvent

LEMMA StepBoxes == TypeOK /\ BoxInv /\ [Next]_vars => BoxInv'
<1> SUFFICES ASSUME TypeOK, BoxInv, [Next]_vars PROVE BoxInv'
  OBVIOUS
<1>1. ASSUME NEW s \in Servers, Dispatch(s) PROVE BoxInv'
  BY <1>1, RouteBoxes DEF Dispatch
<1>2. CASE FlushNext
  BY <1>2, RouteBoxes, TypeParts DEF FlushNext, FlushOK
<1>3. ASSUME NEW i \in DOMAIN admitted, Filter(i) PROVE BoxInv'
  <2>1. UNCHANGED <<lifeVars, boxVars>>
    BY <1>3 DEF Filter, BeforePasses, BeforeFails, AfterEnds
  <2> QED
    BY <2>1, NoNewLive DEF Live, lifeVars, boxVars
<1>4. CASE FlushEnd \/ UNCHANGED vars
  <2>1. UNCHANGED <<lifeVars, boxVars>>
    BY <1>4 DEF FlushEnd, vars
  <2> QED
    BY <2>1, NoNewLive DEF Live, lifeVars, boxVars
<1> QED
  BY <1>1, <1>2, <1>3, <1>4, NextCases, LifeBoxes, AdminBoxes, BoxEventBoxes

LEMMA BoxesInvariant == Spec => [](TypeOK /\ BoxInv)
<1>1. Init => TypeOK /\ BoxInv
  BY InitType, InitBoxes
<1>2. (TypeOK /\ BoxInv) /\ [Next]_vars => (TypeOK /\ BoxInv)'
  BY StepType, StepBoxes
<1> QED
  BY <1>1, <1>2, PTL DEF Spec

(* Over mqtt and mqtt2 every live connection is in the mailboxes map, where *)
(* removeServer and stop find it, although closed mailboxes may still       *)
(* connect.                                                                 *)
THEOREM NoStrayBox ==
    ASSUME Kinds \subseteq {"mqtt", "mqtt2"} PROVE Spec => []LiveBoxesMapped
<1>1. TypeOK /\ BoxInv => LiveBoxesMapped
  BY DEF BoxInv, Quiet
<1> QED
  BY <1>1, BoxesInvariant, PTL

(* Over mqtt and mqtt2 a stopped station, its grace timers done, has no live *)
(* mailbox.                                                                  *)
THEOREM StopReachesAll ==
    ASSUME Kinds \subseteq {"mqtt", "mqtt2"} PROVE Spec => []StopClosesAll
<1>1. TypeOK /\ BoxInv => StopClosesAll
  BY DEF BoxInv, Quiet
<1> QED
  BY <1>1, BoxesInvariant, PTL

-----------------------------------------------------------------------------
(* CLOSED MAILBOXES TAKE NOTHING. *)

LEMMA SendStep == TypeOK /\ [Next]_vars => \A b \in closed : requests'[b] \subseteq requests[b]
<1> SUFFICES ASSUME TypeOK, [Next]_vars, NEW b \in closed
             PROVE  requests'[b] \subseteq requests[b]
  OBVIOUS
<1>1. CASE UNCHANGED requests
  BY <1>1
<1>2. ASSUME NEW i \in DOMAIN admitted, NEW x \in Boxes, requests' = [requests EXCEPT ![x] = @ \ {i}]
      PROVE  requests'[b] \subseteq requests[b]
  <2>1. b \in Boxes
    BY TypeParts, Domains DEF BoxesOK
  <2> QED
    BY <1>2, <2>1, TypeParts DEF FlowOK
<1>3. ASSUME NEW i \in DOMAIN admitted, NEW x, x \notin closed,
             requests' = [requests EXCEPT ![x] = @ \cup {i}]
      PROVE  requests'[b] \subseteq requests[b]
  BY <1>3, TypeParts DEF FlowOK
<1>4. ASSUME NEW i \in DOMAIN admitted, Filter(i) PROVE requests'[b] \subseteq requests[b]
  BY <1>1, <1>3, <1>4 DEF Filter, BeforePasses, BeforeFails, AfterEnds, Accepts
<1>5. ASSUME NEW x \in Boxes, BoxEvent(x) PROVE requests'[b] \subseteq requests[b]
  BY <1>1, <1>2, <1>5
  DEF BoxEvent, BoxConnected, BoxConnectFails, BoxEmitsClose, BoxBreaks, BoxLost,
      BoxCut, BoxReplies, BoxTimesOut, flowVars
<1>6. CASE Life \/ Admin \/ FlushNext \/ FlushEnd \/ UNCHANGED vars
  BY <1>1, <1>6
  DEF Life, Start, StartTick, StopForce, StopGraceful, GraceExpires, CloseAll,
      Admin, AddServers, RemoveServers, ReplaceServers, FlushNext, Route, FlushEnd,
      vars, flowVars
<1>7. ASSUME NEW s \in Servers, Dispatch(s) PROVE requests'[b] \subseteq requests[b]
  BY <1>1, <1>7 DEF Dispatch, Route
<1> QED
  BY <1>4, <1>5, <1>6, <1>7, NextCases

(* A mailbox on which close() has run takes no further message, over every  *)
(* transport, connected late or not.                                        *)
THEOREM ClosedTakesNothing == Spec => NoSendAfterClose
<1>1. TypeOK /\ [Next]_vars => [\A b \in closed : requests'[b] \subseteq requests[b]]_vars
  BY SendStep
<1> QED
  BY <1>1, TypeCorrect, PTL DEF Spec, NoSendAfterClose

-----------------------------------------------------------------------------
(* ANSWERS.  A filter run is in one place: the before filters, the requests *)
(* of one mailbox, or the after filters; until it leaves the last of them   *)
(* its call is unanswered.  The exception are requests that a lost          *)
(* connection was told of: they stay in the mailbox, which hears no reply   *)
(* any more, and over mqtt, mqtt2 and ws their timer answers once more.     *)

Twice == {"mqtt", "mqtt2", "ws"}
Asked(i) == \E b \in Boxes : i \in requests[b]

RunOK(i) ==
    /\ i \in inBefore => i \notin inAfter /\ i \notin told /\ ~Asked(i)
    /\ \A b, d \in Boxes : i \in requests[b] /\ i \in requests[d] => b = d
    /\ i \in inBefore \cup inAfter \/ (Asked(i) /\ i \notin told) => answers[admitted[i]] = 0
    /\ i \in inAfter => IF i \in told THEN kind = "ws2" ELSE ~Asked(i)
    /\ i \in told =>
          \A b \in Boxes : i \in requests[b] =>
             /\ answers[admitted[i]] <= 1
             /\ kind # "tcp"
             /\ Quiet => b \in closed \/ link[b] = "cut"
             /\ kind \in {"ws", "ws2"} => link[b] = "down"
    /\ answers[admitted[i]] <= (IF kind \in Twice /\ i \in told THEN 2 ELSE 1)

Unadmitted == \A c \in Calls : c \notin Ran(admitted) => answers[c] = 0

Tokens == (\A i \in DOMAIN admitted : RunOK(i)) /\ Unadmitted

LEMMA InitTokens == Init => Tokens
  BY DEF Init, Tokens, Unadmitted

LEMMA TokensSuffice == TypeOK /\ Tokens => AnsweredOncePerCause
<1> SUFFICES ASSUME TypeOK, Tokens, NEW c \in Calls
             PROVE  LET twice == kind \in {"mqtt", "mqtt2", "ws"} /\ \E i \in told : admitted[i] = c
                    IN  answers[c] <= (IF twice THEN 2 ELSE 1)
  BY DEF AnsweredOncePerCause
<1>0. answers[c] \in Nat
  BY TypeParts DEF FlowOK
<1>1. CASE c \notin Ran(admitted)
  BY <1>1 DEF Tokens, Unadmitted
<1>2. CASE c \in Ran(admitted)
  <2>1. PICK i \in DOMAIN admitted : admitted[i] = c
    BY <1>2 DEF Ran
  <2>2. answers[c] <= (IF kind \in Twice /\ i \in told THEN 2 ELSE 1)
    BY <2>1 DEF Tokens, RunOK
  <2> QED
    BY <1>0, <2>1, <2>2 DEF Twice
<1> QED
  BY <1>1, <1>2

(* What every step keeps. *)
Over == {"down", "cut"}

Steady ==
    /\ kind' = kind /\ closed \subseteq closed'
    /\ \A b \in Boxes : link[b] \in Over => link'[b] = link[b]
    /\ DOMAIN admitted \subseteq DOMAIN admitted'
    /\ \A i \in DOMAIN admitted : admitted'[i] = admitted[i]

Untouched(i) ==
    /\ (i \in inBefore') = (i \in inBefore) /\ (i \in inAfter') = (i \in inAfter)
    /\ (i \in told') = (i \in told)
    /\ \A b \in Boxes : (i \in requests'[b]) = (i \in requests[b])
    /\ answers'[admitted[i]] = answers[admitted[i]]

LEMMA RunKept ==
    ASSUME Steady, NEW i \in DOMAIN admitted, RunOK(i), Untouched(i)
    PROVE  RunOK(i)'
  BY DEF Steady, RunOK, Untouched, Asked, Quiet, Over

LEMMA UnadmittedKept ==
    ASSUME Unadmitted, Steady,
           \A c \in Calls : c \notin Ran(admitted) => answers'[c] = answers[c]
    PROVE  Unadmitted'
  BY DEF Unadmitted, Steady, Ran

(* A closed mailbox stays closed, a connection that is down or cut stays so, *)
(* and admissions are never taken back.                                     *)
LEMMA SteadyRoute ==
    ASSUME TypeOK, NEW s \in Servers, NEW c \in Nat, Route(s, c)
    PROVE  Steady
<1>1. kind' = kind /\ closed' = closed
  BY DEF Route, lifeVars
<1>2. \A b \in Boxes : link[b] \in Over => link'[b] = link[b]
  <2>1. CASE SameBoxes
    BY <2>1 DEF SameBoxes
  <2>2. CASE LazyConnect(s)
    <3>1. /\ link' = [link EXCEPT ![Len(owner) + 1] = "connecting"]
          /\ Len(owner) + 1 \in Boxes /\ Len(owner) + 1 \notin DOMAIN owner
      <4>1. Len(owner) + 1 \in Boxes /\ DOMAIN owner = 1..Len(owner)
        BY <1>1, <2>2, TypeParts, LazyConnectTypes
      <4>2. Len(owner) \in Nat
        BY TypeParts, Domains
      <4> QED
        BY <2>2, <4>1, <4>2 DEF LazyConnect
    <3>2. link[Len(owner) + 1] = "unborn"
      BY <3>1, TypeParts DEF BoxesOK
    <3> QED
      BY <3>1, <3>2, TypeParts DEF BoxesOK, Over
  <2> QED
    BY <2>1, <2>2 DEF Route, Refused, Connects, NoTarget, Waits, Admit
<1>3. admitted' = admitted \/ admitted' = Append(admitted, c)
  BY RouteQueues
<1>4. /\ DOMAIN admitted \subseteq DOMAIN admitted'
      /\ \A i \in DOMAIN admitted : admitted'[i] = admitted[i]
  BY <1>3, OneMoreRun, QueueTypes
<1> QED
  BY <1>1, <1>2, <1>4 DEF Steady

LEMMA SteadyEvent ==
    ASSUME TypeOK, NEW b \in Boxes, BoxEvent(b)
    PROVE  Steady
<1>1. UNCHANGED <<kind, admitted>>
  BY DEF BoxEvent, BoxConnected, BoxConnectFails, BoxEmitsClose, BoxBreaks, BoxLost,
         BoxCut, BoxReplies, BoxTimesOut, lifeVars, queueVars
<1>2. closed \subseteq closed'
  BY DEF BoxEvent, BoxConnected, BoxConnectFails, BoxEmitsClose, HearClose, BoxBreaks,
         BoxLost, BoxCut, BoxReplies, BoxTimesOut, boxVars
<1>3. \A x \in Boxes : link[x] \in Over => link'[x] = link[x]
  <2>1. CASE link' = link
    BY <2>1
  <2>2. ASSUME link[b] \notin Over, NEW l, link' = [link EXCEPT ![b] = l]
        PROVE  \A x \in Boxes : link[x] \in Over => link'[x] = link[x]
    BY <2>2, TypeParts DEF BoxesOK
  <2>3. CASE BoxConnected(b)
    BY <2>2, <2>3 DEF BoxConnected, MayConnect, Over
  <2>4. CASE BoxConnectFails(b)
    BY <2>2, <2>4 DEF BoxConnectFails, MayFail, Over
  <2>5. CASE BoxEmitsClose(b)
    BY <2>2, <2>5 DEF BoxEmitsClose, Over
  <2>6. CASE BoxLost(b) \/ BoxCut(b)
    BY <2>2, <2>6 DEF BoxLost, BoxCut, Over
  <2>7. CASE BoxBreaks(b) \/ \E i \in DOMAIN admitted : BoxReplies(b, i) \/ BoxTimesOut(b, i)
    BY <2>1, <2>7 DEF BoxBreaks, BoxReplies, BoxTimesOut, boxVars
  <2> QED
    BY <2>3, <2>4, <2>5, <2>6, <2>7 DEF BoxEvent
<1> QED
  BY <1>1, <1>2, <1>3 DEF Steady

(* Runs that are called back with an error are answered once more, the      *)
(* others are not.                                                          *)
LEMMA ErrorAnswers ==
    ASSUME TypeOK, QInv, NEW S \in SUBSET DOMAIN admitted, GetError(S)
    PROVE  /\ \A i \in DOMAIN admitted :
                 answers'[admitted[i]] = IF i \in S THEN answers[admitted[i]] + 1
                                         ELSE answers[admitted[i]]
           /\ \A c \in Calls : c \notin Ran(admitted) => answers'[c] = answers[c]
<1>1. \A i \in DOMAIN admitted : admitted[i] \in Calls
  BY TypeParts, Domains
<1>2. \A i \in DOMAIN admitted : (\E j \in S : admitted[j] = admitted[i]) <=> i \in S
  BY DEF QInv, Order, AdmittedOnce
<1>3. \A c \in Calls : c \notin Ran(admitted) => ~\E j \in S : admitted[j] = c
  BY DEF Ran
<1> QED
  BY <1>1, <1>2, <1>3 DEF GetError

(* A call enters the filters, or not. *)
LEMMA RouteTokens ==
    ASSUME TypeOK, TypeOK', QInv', Tokens, NEW s \in Servers, NEW c \in Nat, Route(s, c)
    PROVE  Tokens'
<1>1. Steady /\ UNCHANGED <<requests, told, inAfter, answers>>
  BY SteadyRoute, RouteQueues
<1>2. CASE UNCHANGED <<admitted, inBefore>>
  <2>1. \A i \in DOMAIN admitted : Untouched(i)
    BY <1>1, <1>2 DEF Untouched
  <2> QED
    BY <1>1, <1>2, <2>1, RunKept, UnadmittedKept DEF Tokens
<1>3. CASE /\ admitted' = Append(admitted, c)
           /\ inBefore' = inBefore \cup {Len(admitted) + 1}
  <2>2. DOMAIN admitted = 1..Len(admitted) /\ Len(admitted) \in Nat
    BY QueueTypes
  <2> PICK r \in Nat : r = Len(admitted) + 1
    BY <2>2
  <2>1. /\ DOMAIN admitted' = 1..(Len(admitted) + 1)
        /\ \A i \in DOMAIN admitted : admitted'[i] = admitted[i]
        /\ admitted'[r] = c
    BY <1>3, OneMoreRun
  <2>3. /\ DOMAIN admitted' = DOMAIN admitted \cup {r} /\ r \notin DOMAIN admitted
        /\ inBefore' = inBefore \cup {r}
    BY <1>3, <2>1, <2>2
  <2>4. \A i \in DOMAIN admitted : Untouched(i)
    BY <1>1, <2>3 DEF Untouched
  <2>5. r \notin inAfter /\ r \notin told /\ \A b \in Boxes : r \notin requests[b]
    <3>1. /\ inAfter \subseteq DOMAIN admitted /\ told \subseteq DOMAIN admitted
          /\ \A b \in Boxes : requests[b] \subseteq DOMAIN admitted
      BY TypeParts DEF FlowOK
    <3> QED
      BY <2>3, <3>1
  <2>6. c \in Calls
    <3>1. /\ admitted' \in Seq(DOMAIN target') /\ target' \in Seq(Servers)
          /\ Len(target') <= MaxCalls
      BY TypeParts DEF CallsOK
    <3>2. DOMAIN target' \subseteq Calls
      BY <3>1, LenProperties, Params
    <3>3. r \in 1..Len(admitted')
      BY <2>3, <3>1, LenProperties
    <3>4. admitted'[r] \in DOMAIN target'
      BY <3>1, <3>3, ElementOfSeq
    <3> QED
      BY <2>1, <3>2, <3>4
  <2>7. c \notin Ran(admitted)
    <3>1. \A i \in DOMAIN admitted : admitted'[i] # admitted'[r]
      BY <2>3 DEF QInv, Order, AdmittedOnce
    <3> QED
      BY <2>1, <3>1 DEF Ran
  <2>8. answers'[admitted'[r]] = 0
    BY <1>1, <2>1, <2>6, <2>7 DEF Tokens, Unadmitted
  <2>9. RunOK(r)'
    <3>1. /\ r \notin inAfter' /\ r \notin told'
          /\ \A b \in Boxes : r \notin requests'[b]
      BY <1>1, <2>5
    <3> QED
      BY <2>8, <3>1 DEF RunOK, Asked
  <2>10. \A i \in DOMAIN admitted : RunOK(i)'
    BY <1>1, <2>4, RunKept DEF Tokens
  <2>11. Unadmitted'
    BY <1>1, UnadmittedKept DEF Tokens
  <2> QED
    BY <2>3, <2>9, <2>10, <2>11 DEF Tokens
<1> QED
  BY <1>2, <1>3, RouteQueues

(* Steps that leave the runs alone. *)
LEMMA QuietTokens ==
    ASSUME Tokens, Steady, UNCHANGED <<admitted, inBefore, inAfter, told, requests, answers>>
    PROVE  Tokens'
<1>1. \A i \in DOMAIN admitted : Untouched(i)
  BY DEF Untouched
<1> QED
  BY <1>1, RunKept, UnadmittedKept DEF Tokens

(* A reply or a timeout: the request is forgotten; over ws2 a timeout is    *)
(* heard by nobody.                                                         *)
LEMMA AnswerTokens ==
    ASSUME TypeOK, QInv, Tokens, NEW b \in Boxes, NEW i \in DOMAIN admitted,
           BoxReplies(b, i) \/ BoxTimesOut(b, i)
    PROVE  Tokens'
<1>1. Steady
  BY SteadyEvent DEF BoxEvent
<1>2. /\ i \in requests[b]
      /\ requests' = [requests EXCEPT ![b] = @ \ {i}]
      /\ UNCHANGED <<kind, told, inBefore, admitted, link, closed>>
  BY DEF BoxReplies, BoxTimesOut, lifeVars, queueVars, boxVars
<1>3. /\ requests'[b] = requests[b] \ {i}
      /\ \A x \in Boxes : x # b => requests'[x] = requests[x]
  BY <1>2, TypeParts DEF FlowOK
<1>4. RunOK(i) /\ Asked(i) /\ ~Asked(i)'
  BY <1>2, <1>3 DEF Tokens, RunOK, Asked
<1>5. i \notin inBefore
  BY <1>4 DEF RunOK
<1>6. answers[admitted[i]] \in Nat
  BY TypeParts, Domains DEF FlowOK
<1>7. CASE GetReply({i}) /\ (BoxReplies(b, i) \/ kind = "tcp")
  <2>1. inAfter' = inAfter \cup {i} /\ UNCHANGED answers
    BY <1>7 DEF GetReply
  <2>2. i \notin told
    <3>1. CASE BoxReplies(b, i)
      <4>1. link[b] = "up" /\ (b \in closed => kind \in {"tcp", "ws2"})
        BY <3>1 DEF BoxReplies, Hears
      <4>2. kind \in AllKinds
        BY TypeParts DEF LifeOK
      <4> QED
        BY <1>2, <1>4, <4>1, <4>2 DEF RunOK, Quiet, AllKinds
    <3>2. CASE kind = "tcp"
      BY <1>2, <1>4, <3>2 DEF RunOK
    <3> QED
      BY <1>7, <3>1, <3>2
  <2>3. RunOK(i)'
    BY <1>2, <1>4, <1>5, <2>1, <2>2 DEF RunOK, Asked
  <2>4. \A j \in DOMAIN admitted : j # i => Untouched(j)
    BY <1>2, <1>3, <2>1 DEF Untouched
  <2> QED
    BY <1>1, <1>2, <2>1, <2>3, <2>4, RunKept, UnadmittedKept DEF Tokens
<1>8. CASE GetError({i}) /\ kind \in Twice
  <2>1. /\ \A j \in DOMAIN admitted :
              answers'[admitted[j]] = IF j \in {i} THEN answers[admitted[j]] + 1
                                      ELSE answers[admitted[j]]
        /\ \A c \in Calls : c \notin Ran(admitted) => answers'[c] = answers[c]
    BY <1>8, ErrorAnswers
  <2>2. inAfter' = inAfter
    BY <1>8 DEF GetError
  <2>3. i \notin inAfter
    BY <1>4, <1>8 DEF RunOK, Twice
  <2>4. RunOK(i)'
    <3>1. answers'[admitted'[i]] = answers[admitted[i]] + 1
      BY <1>2, <2>1
    <3>2. answers[admitted[i]] <= (IF i \in told THEN 1 ELSE 0)
      BY <1>2, <1>4, <1>6 DEF RunOK
    <3>3. answers'[admitted'[i]] <= (IF i \in told THEN 2 ELSE 1)
      BY <1>6, <3>1, <3>2
    <3> QED
      BY <1>2, <1>4, <1>5, <1>8, <2>2, <2>3, <3>3 DEF RunOK, Asked
  <2>5. \A j \in DOMAIN admitted : j # i => Untouched(j)
    BY <1>2, <1>3, <2>1, <2>2 DEF Untouched
  <2> QED
    BY <1>1, <1>2, <2>1, <2>4, <2>5, RunKept, UnadmittedKept DEF Tokens
<1>9. CASE UNCHANGED <<inAfter, answers>>
  <2>1. RunOK(i)'
    BY <1>2, <1>4, <1>9 DEF RunOK, Asked
  <2>2. \A j \in DOMAIN admitted : j # i => Untouched(j)
    BY <1>2, <1>3, <1>9 DEF Untouched
  <2> QED
    BY <1>1, <1>2, <1>9, <2>1, <2>2, RunKept, UnadmittedKept DEF Tokens
<1> QED
  BY <1>7, <1>8, <1>9 DEF BoxReplies, BoxTimesOut, Twice

(* A lost connection: every waiting callback is invoked, the requests stay. *)
LEMMA LostTokens ==
    ASSUME TypeOK, QInv, BoxInv, Tokens, NEW b \in Boxes, BoxLost(b) \/ BoxCut(b)
    PROVE  Tokens'
<1> DEFINE S == requests[b]
<1>1. Steady
  BY SteadyEvent DEF BoxEvent
<1>2. /\ IF kind = "ws2" THEN GetReply(S) ELSE GetError(S)
      /\ told' = told \cup S
      /\ UNCHANGED <<kind, requests, inBefore, admitted>>
      /\ kind # "tcp" /\ kind \in AllKinds
  BY TypeParts DEF BoxLost, BoxCut, lifeVars, queueVars, LifeOK
<1>3. S \in SUBSET DOMAIN admitted
  BY TypeParts DEF FlowOK
<1>4. Quiet => /\ b \in closed' \/ link'[b] = "cut"
               /\ b \notin closed /\ link[b] # "cut"
  <2>1. CASE BoxCut(b)
    BY <2>1, TypeParts DEF BoxCut, BoxesOK
  <2>2. CASE BoxLost(b) /\ Quiet
    <3>1. link[b] = "up" /\ b \notin closed /\ b \in DOMAIN owner
      BY <2>2, EventBox DEF BoxLost, Quiet
    <3>2. mailboxes[owner[b]] = b /\ b # NoBox
      BY <2>2, <3>1, Params DEF BoxInv, LiveBoxesMapped, Live
    <3> QED
      BY <2>2, <3>1, <3>2 DEF BoxLost
  <2> QED
    BY <2>1, <2>2
<1>5. kind \in {"ws", "ws2"} => link[b] # "down" /\ link'[b] = "down"
  BY TypeParts DEF BoxLost, BoxCut, BoxesOK
<1>6. \A i \in S : /\ RunOK(i) /\ Asked(i) /\ i \notin told /\ i \notin inBefore
                   /\ i \notin inAfter /\ answers[admitted[i]] = 0
  <2> SUFFICES ASSUME NEW i \in S
               PROVE  /\ RunOK(i) /\ Asked(i) /\ i \notin told /\ i \notin inBefore
                      /\ i \notin inAfter /\ answers[admitted[i]] = 0
    OBVIOUS
  <2>1. RunOK(i) /\ Asked(i) /\ i \in requests[b]
    BY <1>3 DEF Tokens, Asked
  <2>2. i \notin told
    BY <1>2, <1>4, <1>5, <2>1 DEF RunOK, Quiet, AllKinds
  <2>3. i \notin inBefore /\ i \notin inAfter /\ answers[admitted[i]] = 0
    BY <2>1, <2>2 DEF RunOK
  <2> QED
    BY <2>1, <2>2, <2>3
<1> HIDE DEF S
<1>7. \A i \in DOMAIN admitted : i \notin S =>
         (\A x \in Boxes : (i \in requests'[x]) = (i \in requests[x])) /\ (i \in told') = (i \in told)
  BY <1>2
<1>8. \A i \in S : \A x \in Boxes : i \in requests[x] => x = b
  BY <1>6 DEF S, RunOK
<1>9. CASE kind = "ws2"
  <2>1. inAfter' = inAfter \cup S /\ UNCHANGED answers
    BY <1>2, <1>9 DEF GetReply
  <2>2. \A i \in DOMAIN admitted : i \notin S => Untouched(i)
    BY <1>2, <1>7, <2>1 DEF Untouched
  <2>3. ASSUME NEW i \in S PROVE RunOK(i)'
    <3>1. i \in told' /\ i \notin inBefore' /\ i \in inAfter'
      BY <1>2, <1>6, <2>1
    <3>2. answers'[admitted'[i]] = 0
      BY <1>2, <1>6, <2>1
    <3>3. \A x \in Boxes : i \in requests'[x] => x = b
      BY <1>2, <1>8
    <3> QED
      BY <1>2, <1>5, <1>9, <3>1, <3>2, <3>3 DEF RunOK, Asked, Quiet
  <2> QED
    BY <1>1, <1>2, <2>1, <2>2, <2>3, RunKept, UnadmittedKept DEF Tokens
<1>10. CASE kind # "ws2"
  <2>1. /\ \A j \in DOMAIN admitted :
              answers'[admitted[j]] = IF j \in S THEN answers[admitted[j]] + 1
                                      ELSE answers[admitted[j]]
        /\ \A c \in Calls : c \notin Ran(admitted) => answers'[c] = answers[c]
    BY <1>2, <1>3, <1>10, ErrorAnswers
  <2>2. inAfter' = inAfter /\ kind \in Twice
    BY <1>2, <1>10 DEF GetError, Twice, AllKinds
  <2>3. \A i \in DOMAIN admitted : i \notin S => Untouched(i)
    BY <1>2, <1>7, <2>1, <2>2 DEF Untouched
  <2>4. ASSUME NEW i \in S PROVE RunOK(i)'
    <3>1. i \in told' /\ i \notin inBefore' /\ i \notin inAfter'
      BY <1>2, <1>6, <2>2
    <3>2. answers'[admitted'[i]] = 1
      BY <1>2, <1>3, <1>6, <2>1
    <3>3. \A x \in Boxes : i \in requests'[x] => x = b
      BY <1>2, <1>8
    <3> QED
      BY <1>2, <1>4, <1>5, <2>2, <3>1, <3>2, <3>3 DEF RunOK, Asked, Quiet
  <2> QED
    BY <1>1, <1>2, <2>1, <2>3, <2>4, RunKept, UnadmittedKept DEF Tokens
<1> QED
  BY <1>9, <1>10

LEMMA BoxEventTokens ==
    ASSUME TypeOK, QInv, BoxInv, Tokens, NEW b \in Boxes, BoxEvent(b)
    PROVE  Tokens'
<1>1. CASE BoxConnected(b) \/ BoxConnectFails(b) \/ BoxEmitsClose(b) \/ BoxBreaks(b)
  <2>1. UNCHANGED <<queueVars, flowVars>>
    BY <1>1 DEF BoxConnected, BoxConnectFails, BoxEmitsClose, BoxBreaks
  <2> QED
    BY <2>1, SteadyEvent, QuietTokens DEF queueVars, flowVars
<1> QED
  BY <1>1, LostTokens, AnswerTokens DEF BoxEvent

LEMMA FilterTokens ==
    ASSUME TypeOK, QInv, Tokens, NEW i \in DOMAIN admitted, Filter(i)
    PROVE  Tokens'
<1>1. UNCHANGED <<kind, closed, link, admitted, told>>
  BY DEF Filter, BeforePasses, BeforeFails, AfterEnds, lifeVars, boxVars, queueVars
<1>2. Steady
  BY <1>1 DEF Steady
<1>3. RunOK(i) /\ answers[admitted[i]] \in Nat /\ admitted[i] \in Calls
  BY TypeParts, Domains DEF Tokens, FlowOK
<1>4. SUFFICES /\ RunOK(i)'
               /\ \A j \in DOMAIN admitted : j # i => Untouched(j)
               /\ \A c \in Calls : c \notin Ran(admitted) => answers'[c] = answers[c]
  BY <1>1, <1>2, RunKept, UnadmittedKept DEF Tokens
<1>5. CASE i \in inBefore /\ inBefore' = inBefore \ {i}
           /\ UNCHANGED <<requests, inAfter, answers>>
  BY <1>1, <1>3, <1>5 DEF RunOK, Asked, Untouched
<1>6. ASSUME NEW b \in Boxes, i \in inBefore, inBefore' = inBefore \ {i},
             requests' = [requests EXCEPT ![b] = @ \cup {i}], UNCHANGED <<inAfter, answers>>
      PROVE  /\ RunOK(i)'
             /\ \A j \in DOMAIN admitted : j # i => Untouched(j)
             /\ \A c \in Calls : c \notin Ran(admitted) => answers'[c] = answers[c]
  <2>1. /\ requests'[b] = requests[b] \cup {i}
        /\ \A x \in Boxes : x # b => requests'[x] = requests[x]
    BY <1>6, TypeParts DEF FlowOK
  <2>2. /\ i \notin told /\ i \notin inAfter /\ ~Asked(i) /\ answers[admitted[i]] = 0
    BY <1>3, <1>6 DEF RunOK
  <2>3. \A x \in Boxes : i \in requests'[x] => x = b
    BY <2>1, <2>2 DEF Asked
  <2>4. RunOK(i)'
    BY <1>1, <1>6, <2>2, <2>3 DEF RunOK, Asked
  <2> QED
    BY <1>6, <1>1, <2>1, <2>4 DEF Untouched
<1>7. CASE i \in inBefore /\ inBefore' = inBefore \ {i} /\ UNCHANGED requests /\ GetReply({i})
  BY <1>1, <1>3, <1>7 DEF GetReply, RunOK, Asked, Untouched
<1>8. CASE i \in inBefore /\ inBefore' = inBefore \ {i} /\ UNCHANGED requests /\ GetError({i})
  <2>1. /\ \A j \in DOMAIN admitted :
              answers'[admitted[j]] = IF j \in {i} THEN answers[admitted[j]] + 1
                                      ELSE answers[admitted[j]]
        /\ \A c \in Calls : c \notin Ran(admitted) => answers'[c] = answers[c]
    BY <1>8, ErrorAnswers
  <2>2. inAfter' = inAfter
    BY <1>8 DEF GetError
  <2>3. /\ i \notin told /\ i \notin inAfter /\ ~Asked(i) /\ answers[admitted[i]] = 0
    BY <1>3, <1>8 DEF RunOK
  <2>4. answers'[admitted'[i]] = 1
    BY <1>1, <2>1, <2>3
  <2>5. RunOK(i)'
    BY <1>1, <1>8, <2>2, <2>3, <2>4 DEF RunOK, Asked
  <2> QED
    BY <1>1, <1>8, <2>1, <2>2, <2>5 DEF Untouched
<1>9. CASE AfterEnds(i)
  <2>1. /\ i \in inAfter /\ inAfter' = inAfter \ {i}
        /\ answers' = [answers EXCEPT ![admitted[i]] = @ + 1]
        /\ UNCHANGED <<requests, inBefore>>
    BY <1>9 DEF AfterEnds
  <2>2. /\ i \notin inBefore /\ answers[admitted[i]] = 0
        /\ IF i \in told THEN kind = "ws2" ELSE ~Asked(i)
    BY <1>3, <2>1 DEF RunOK
  <2>3. answers'[admitted'[i]] = 1
    BY <1>1, <1>3, <2>1, <2>2, TypeParts DEF FlowOK
  <2>4. RunOK(i)'
    BY <1>1, <1>3, <2>1, <2>2, <2>3 DEF RunOK, Asked, Quiet
  <2>5. \A c \in Calls : c # admitted[i] => answers'[c] = answers[c]
    BY <1>3, <2>1, TypeParts DEF FlowOK
  <2>6. \A j \in DOMAIN admitted : j # i => admitted[j] # admitted[i] /\ admitted[j] \in Calls
    BY TypeParts, Domains DEF QInv, Order, AdmittedOnce
  <2>7. \A j \in DOMAIN admitted : j # i => Untouched(j)
    BY <1>1, <2>1, <2>5, <2>6 DEF Untouched
  <2> QED
    BY <2>4, <2>5, <2>7 DEF Ran
<1>10. CASE BeforeFails(i)
  BY <1>5, <1>10 DEF BeforeFails
<1>11. ASSUME NEW t \in Servers, BeforePasses(i, t)
       PROVE  /\ RunOK(i)'
              /\ \A j \in DOMAIN admitted : j # i => Untouched(j)
              /\ \A c \in Calls : c \notin Ran(admitted) => answers'[c] = answers[c]
  <2>1. mailboxes[t] # NoBox => mailboxes[t] \in Boxes
    BY TypeParts, Domains DEF BoxesOK
  <2> QED
    BY <1>5, <1>6, <1>7, <1>8, <1>11, <2>1 DEF BeforePasses
<1> QED
  BY <1>9, <1>10, <1>11 DEF Filter

LEMMA StepTokens == TypeOK /\ QInv /\ BoxInv /\ Tokens /\ [Next]_vars => Tokens'
<1> SUFFICES ASSUME TypeOK, QInv, BoxInv, Tokens, [Next]_vars PROVE Tokens'
  OBVIOUS
<1>0. TypeOK' /\ QInv'
  BY StepType, StepQueues
<1>1. ASSUME NEW s \in Servers, Dispatch(s) PROVE Tokens'
  <2>1. Len(target) + 1 \in Nat
    BY QueueTypes
  <2> QED
    BY <1>0, <1>1, <2>1, RouteTokens DEF Dispatch
<1>2. CASE FlushNext
  <2>1. PICK s \in flushing : cursor <= size /\ Route(s, pendings[s][cursor])
    BY <1>2 DEF FlushNext
  <2>2. s \in Servers /\ pendings[s][cursor] \in Nat
    BY <2>1, QueueTypes, TypeParts DEF FlushOK, LoopOK
  <2> QED
    BY <1>0, <2>1, <2>2, RouteTokens
<1>3. CASE Life \/ Admin \/ FlushEnd \/ UNCHANGED vars
  <2>1. UNCHANGED <<kind, link, target, nested, admitted, flowVars>> /\ closed \subseteq closed'
    BY <1>3
    DEF Life, Start, StartTick, StopForce, StopGraceful, GraceExpires, CloseAll,
        Admin, AddServers, RemoveServers, ReplaceServers, FlushEnd,
        vars, lifeVars, boxVars, queueVars
  <2> QED
    BY <2>1, QuietTokens DEF Steady, flowVars
<1> QED
  BY <1>1, <1>2, <1>3, NextCases, BoxEventTokens, FilterTokens

(* The callback of a call is invoked once, or over mqtt, mqtt2 and ws a     *)
(* second time after a lost connection has told it, and never again, for    *)
(* every interleaving of filters, replies, timers, losses and flushes.      *)
THEOREM OneAnswer == Spec => []AnsweredOncePerCause
<1> DEFINE Inv == TypeOK /\ QInv /\ BoxInv /\ Tokens
<1>1. Init => Inv
  BY InitType, InitQueues, InitBoxes, InitTokens
<1>2. Inv /\ [Next]_vars => Inv'
  BY StepType, StepQueues, StepBoxes, StepTokens
<1>3. Inv => AnsweredOncePerCause
  BY TokensSuffice
<1> QED
  BY <1>1, <1>2, <1>3, PTL DEF Spec

-----------------------------------------------------------------------------
(* NOTHING ELSE IS LOST.  The invariant is about a flush whose mailbox is    *)
(* still there: its server is not connecting, so no call is parked any more, *)
(* and each call the loop has passed is under way or over.                   *)

Mounted(s) == met # NoBox /\ mailboxes[s] = met

Passed ==
    \A s \in flushing :
       /\ met # NoBox => met \in DOMAIN owner
       /\ Mounted(s) =>
             /\ s \notin connecting /\ Len(pendings[s]) = size
             /\ \A k \in DOMAIN pendings[s], c \in Calls :
                   k < cursor /\ pendings[s][k] = c => Running(c) \/ Settled(c)

LEMMA InitPassed == Init => Passed
  BY DEF Init, Passed

Busy(i) == i \in inBefore \cup inAfter \/ \E b \in Boxes : i \in requests[b]

(* What every step does to runs and calls. *)
Onward ==
    /\ DOMAIN admitted \subseteq DOMAIN admitted'
    /\ \A i \in DOMAIN admitted :
          /\ admitted'[i] = admitted[i]
          /\ Busy(i) => Busy(i)' \/ answers'[admitted[i]] > 0 \/ admitted[i] \in reported'
    /\ \A c \in DOMAIN target : answers[c] > 0 => answers'[c] > 0
    /\ reported \subseteq reported' /\ overflowed \subseteq overflowed'

LEMMA OnwardCalls ==
    ASSUME Onward, NEW c \in DOMAIN target, Running(c) \/ Settled(c)
    PROVE  Running(c)' \/ Settled(c)'
<1>1. CASE Settled(c)
  BY <1>1 DEF Settled, Onward
<1>2. CASE Running(c)
  <2>1. PICK i \in DOMAIN admitted : admitted[i] = c /\ Busy(i)
    BY <1>2 DEF Running, Busy
  <2>2. CASE Busy(i)'
    BY <2>1, <2>2 DEF Onward, Running, Busy
  <2>3. CASE answers'[c] > 0 \/ c \in reported'
    BY <2>3 DEF Settled
  <2> QED
    BY <2>1, <2>2, <2>3 DEF Onward
<1> QED
  BY <1>1, <1>2

LEMMA OnwardRoute ==
    ASSUME TypeOK, NEW s \in Servers, NEW c \in Nat, Route(s, c)
    PROVE  Onward
<1>1. /\ UNCHANGED <<requests, inAfter, answers>> /\ inBefore \subseteq inBefore'
      /\ admitted' = admitted \/ admitted' = Append(admitted, c)
  BY RouteQueues
<1>2. reported \subseteq reported' /\ overflowed \subseteq overflowed'
  BY DEF Route, Refused, Connects, NoTarget, Waits, Admit, SameQueue, AddToPending
<1>3. /\ DOMAIN admitted \subseteq DOMAIN admitted'
      /\ \A i \in DOMAIN admitted : admitted'[i] = admitted[i]
  BY <1>1, OneMoreRun, QueueTypes
<1>4. \A i \in DOMAIN admitted : Busy(i) => Busy(i)'
  BY <1>1 DEF Busy
<1> QED
  BY <1>1, <1>2, <1>3, <1>4 DEF Onward

(* A call that Route has been given is parked, under way, or over. *)
LEMMA RouteKeeps ==
    ASSUME TypeOK, NEW s \in Servers, NEW c \in Nat, Route(s, c)
    PROVE  /\ (c \in Ran(pendings'[s])) \/ Running(c)' \/ Settled(c)'
           /\ mailboxes[s] # NoBox /\ s \notin connecting =>
                 /\ Running(c)' \/ Settled(c)'
                 /\ UNCHANGED <<pendings, mailboxes, connecting, owner>>
<1>1. CASE Refused(c)
  BY <1>1 DEF Refused, Settled, SameBoxes, SameQueue
<1>2. CASE Connects(s, c) \/ NoTarget(s, c) \/ Waits(s, c)
  <2>1. AddToPending(s, c) /\ ~(mailboxes[s] # NoBox /\ s \notin connecting)
    BY <1>2 DEF Connects, NoTarget, Waits
  <2>2. CASE c \in overflowed'
    BY <2>1, <2>2 DEF Settled
  <2>3. CASE pendings' = [pendings EXCEPT ![s] = Append(@, c)]
    <3>1. /\ DOMAIN pendings'[s] = 1..(Len(pendings[s]) + 1)
          /\ pendings'[s][Len(pendings[s]) + 1] = c
          /\ Len(pendings[s]) \in Nat
      BY <2>3, ParkedQueue, QueueTypes
    <3> QED
      BY <2>1, <3>1 DEF Ran
  <2> QED
    BY <2>1, <2>2, <2>3 DEF AddToPending
<1>3. CASE Admit(s, c)
  <2>1. /\ DOMAIN admitted' = 1..(Len(admitted) + 1)
        /\ admitted'[Len(admitted) + 1] = c /\ Len(admitted) \in Nat
        /\ Len(admitted) + 1 \in inBefore'
    BY <1>3, OneMoreRun, QueueTypes DEF Admit
  <2>2. Running(c)'
    BY <2>1 DEF Running
  <2> QED
    BY <1>3, <2>2 DEF Admit, SameBoxes, SameQueue
<1> QED
  BY <1>1, <1>2, <1>3 DEF Route

LEMMA RouteMounted ==
    ASSUME TypeOK, NEW s \in Servers, NEW c \in Nat, Route(s, c), NEW t \in Servers
    PROVE  /\ \A k \in DOMAIN pendings[t] : /\ k \in DOMAIN pendings'[t]
                                            /\ pendings'[t][k] = pendings[t][k]
           /\ t # s => pendings'[t] = pendings[t]
           /\ t # s => (t \in connecting' => t \in connecting)
           /\ mailboxes'[t] = mailboxes[t] \/ mailboxes'[t] \notin DOMAIN owner
           /\ DOMAIN owner \subseteq DOMAIN owner'
<1>1. \/ UNCHANGED pendings
      \/ pendings' = [pendings EXCEPT ![s] = Append(@, c)]
  BY RouteQueues
<1>2. /\ \A k \in DOMAIN pendings[t] : /\ k \in DOMAIN pendings'[t]
                                       /\ pendings'[t][k] = pendings[t][k]
      /\ t # s => pendings'[t] = pendings[t]
  <2>1. CASE pendings' = [pendings EXCEPT ![s] = Append(@, c)]
    <3>1. /\ DOMAIN pendings'[s] = 1..(Len(pendings[s]) + 1)
          /\ \A k \in DOMAIN pendings[s] : pendings'[s][k] = pendings[s][k]
          /\ \A x \in Servers : x # s => pendings'[x] = pendings[x]
      BY <2>1, ParkedQueue
    <3>2. DOMAIN pendings[s] = 1..Len(pendings[s]) /\ Len(pendings[s]) \in Nat
      BY QueueTypes
    <3> QED
      BY <3>1, <3>2
  <2> QED
    BY <1>1, <2>1
<1>3. CASE SameBoxes
  BY <1>2, <1>3 DEF SameBoxes
<1>4. CASE LazyConnect(s)
  <2>1. /\ Len(owner) + 1 \in Boxes /\ DOMAIN owner = 1..Len(owner)
        /\ DOMAIN owner' = 1..(Len(owner) + 1) /\ Len(owner) \in Nat
    <3>1. UNCHANGED closed
      BY DEF Route
    <3>2. /\ Len(owner) + 1 \in Boxes /\ DOMAIN owner = 1..Len(owner)
          /\ DOMAIN owner' = 1..(Len(owner) + 1)
      BY <1>4, <3>1, TypeParts, LazyConnectTypes
    <3> QED
      BY <3>2, TypeParts, Domains
  <2>2. /\ mailboxes' = [mailboxes EXCEPT ![s] = Len(owner) + 1]
        /\ connecting' = connecting \cup {s}
    BY <1>4 DEF LazyConnect
  <2> QED
    BY <1>2, <2>1, <2>2, TypeParts DEF BoxesOK
<1> QED
  BY <1>3, <1>4 DEF Route, Refused, Connects, NoTarget, Waits, Admit

(* Filters and mailboxes never take back a call. *)
LEMMA OnwardReply ==
    ASSUME NEW S, GetReply(S), UNCHANGED <<queueVars, inBefore>>,
           \A i \in DOMAIN admitted : Busy(i) => Busy(i)' \/ i \in S
    PROVE  Onward
<1>1. S \subseteq inAfter'
  BY DEF GetReply
<1>2. \A i \in DOMAIN admitted : Busy(i) => Busy(i)'
  BY <1>1 DEF Busy
<1> QED
  BY <1>2 DEF Onward, GetReply, queueVars

LEMMA ErrorCounts ==
    ASSUME TypeOK, NEW S, GetError(S)
    PROVE  /\ \A c \in DOMAIN target : answers[c] > 0 => answers'[c] > 0
           /\ reported \subseteq reported'
           /\ \A i \in S : admitted[i] \in reported'
<1>1. \A c \in DOMAIN target : c \in Calls /\ answers[c] \in Nat
  BY TypeParts, Domains DEF FlowOK
<1> QED
  BY <1>1 DEF GetError

LEMMA OnwardEvent ==
    ASSUME TypeOK, NEW b \in Boxes, BoxEvent(b), ~SilentTimeout
    PROVE  Onward
<1>1. CASE BoxConnected(b) \/ BoxConnectFails(b) \/ BoxEmitsClose(b) \/ BoxBreaks(b)
  <2>1. UNCHANGED <<queueVars, flowVars>>
    BY <1>1 DEF BoxConnected, BoxConnectFails, BoxEmitsClose, BoxBreaks
  <2> QED
    BY <2>1 DEF Onward, Busy, queueVars, flowVars
<1>2. CASE BoxLost(b) \/ BoxCut(b)
  <2>1. UNCHANGED <<queueVars, requests, inBefore>>
    BY <1>2 DEF BoxLost, BoxCut
  <2>2. CASE GetReply(requests[b])
    BY <2>1, <2>2 DEF GetReply, Onward, Busy, queueVars
  <2>3. CASE GetError(requests[b])
    <3>1. /\ \A c \in DOMAIN target : answers[c] > 0 => answers'[c] > 0
          /\ reported \subseteq reported' /\ inAfter' = inAfter
      BY <2>3, ErrorCounts DEF GetError
    <3> QED
      BY <2>1, <3>1 DEF Onward, Busy, queueVars
  <2> QED
    BY <1>2, <2>2, <2>3 DEF BoxLost, BoxCut
<1>3. ASSUME NEW i \in DOMAIN admitted, BoxReplies(b, i) \/ BoxTimesOut(b, i)
      PROVE  Onward
  <2>1. /\ requests' = [requests EXCEPT ![b] = @ \ {i}] /\ i \in requests[b]
        /\ UNCHANGED <<queueVars, inBefore, kind>>
    BY <1>3 DEF BoxReplies, BoxTimesOut, lifeVars
  <2>2. /\ requests'[b] = requests[b] \ {i}
        /\ \A x \in Boxes : x # b => requests'[x] = requests[x]
    BY <2>1, TypeParts DEF FlowOK
  <2>3. CASE GetReply({i})
    <3>1. \A j \in DOMAIN admitted : Busy(j) => Busy(j)' \/ j \in {i}
      BY <2>1, <2>2, <2>3 DEF Busy, GetReply
    <3> QED
      BY <2>1, <2>3, <3>1, OnwardReply
  <2>4. CASE GetError({i})
    <3>1. /\ \A c \in DOMAIN target : answers[c] > 0 => answers'[c] > 0
          /\ reported \subseteq reported' /\ inAfter' = inAfter /\ admitted[i] \in reported'
      <4>1. inAfter' = inAfter
        BY <2>4 DEF GetError
      <4> QED
        BY <2>4, <4>1, ErrorCounts
    <3>2. \A j \in DOMAIN admitted : j # i => (Busy(j) => Busy(j)')
      BY <2>1, <2>2, <3>1 DEF Busy
    <3> QED
      BY <2>1, <3>1, <3>2 DEF Onward, queueVars
  <2>5. ~(kind = "ws2" /\ BoxTimesOut(b, i))
    <3>1. requests'[b] # requests[b]
      BY <2>1, <2>2
    <3>2. kind # "ws2"
      BY <3>1 DEF SilentTimeout
    <3> QED
      BY <3>2
  <2> QED
    BY <1>3, <2>3, <2>4, <2>5 DEF BoxReplies, BoxTimesOut
<1> QED
  BY <1>1, <1>2, <1>3 DEF BoxEvent

LEMMA OnwardFilter ==
    ASSUME TypeOK, NEW i \in DOMAIN admitted, Filter(i)
    PROVE  Onward
<1>0. UNCHANGED queueVars /\ inBefore' \in {inBefore, inBefore \ {i}}
  BY DEF Filter, BeforePasses, BeforeFails, AfterEnds
<1>1. admitted[i] \in Calls /\ answers[admitted[i]] \in Nat
  BY TypeParts, Domains DEF FlowOK
<1>2. ASSUME NEW t \in Servers, BeforePasses(i, t) PROVE Onward
  <2>1. CASE UNCHANGED <<requests, inAfter, answers>> /\ reported' = reported \cup {admitted[i]}
    BY <1>0, <2>1 DEF Onward, Busy, queueVars
  <2>2. CASE UNCHANGED requests /\ GetReply({i})
    <3>1. \A j \in DOMAIN admitted : j # i => (Busy(j) => Busy(j)')
      BY <1>0, <2>2 DEF Busy, GetReply
    <3>2. Busy(i)'
      BY <2>2 DEF Busy, GetReply
    <3> QED
      BY <1>0, <2>2, <3>1, <3>2 DEF Onward, GetReply, queueVars
  <2>3. CASE UNCHANGED requests /\ GetError({i})
    <3>1. /\ \A c \in DOMAIN target : answers[c] > 0 => answers'[c] > 0
          /\ reported \subseteq reported' /\ inAfter' = inAfter /\ admitted[i] \in reported'
      <4>1. inAfter' = inAfter
        BY <2>3 DEF GetError
      <4> QED
        BY <2>3, <4>1, ErrorCounts
    <3>2. \A j \in DOMAIN admitted : j # i => (Busy(j) => Busy(j)')
      BY <1>0, <2>3, <3>1 DEF Busy
    <3> QED
      BY <1>0, <3>1, <3>2 DEF Onward, queueVars
  <2>4. ASSUME NEW b \in Boxes, requests' = [requests EXCEPT ![b] = @ \cup {i}],
               UNCHANGED <<inAfter, answers, reported>>
        PROVE  Onward
    <3>1. /\ i \in requests'[b]
          /\ \A x \in Boxes : requests[x] \subseteq requests'[x]
      BY <2>4, TypeParts DEF FlowOK
    <3>2. \A j \in DOMAIN admitted : Busy(j) => Busy(j)'
      BY <1>0, <2>4, <3>1 DEF Busy
    <3> QED
      BY <1>0, <2>4, <3>2 DEF Onward, queueVars
  <2>5. mailboxes[t] # NoBox => mailboxes[t] \in Boxes
    BY TypeParts, Domains DEF BoxesOK
  <2> QED
    BY <1>2, <2>1, <2>2, <2>3, <2>4, <2>5 DEF BeforePasses
<1>3. CASE BeforeFails(i)
  BY <1>0, <1>3 DEF BeforeFails, Onward, Busy, queueVars
<1>4. CASE AfterEnds(i)
  <2>1. /\ answers' = [answers EXCEPT ![admitted[i]] = @ + 1] /\ inAfter' = inAfter \ {i}
        /\ UNCHANGED <<requests, inBefore>> /\ reported \subseteq reported'
    BY <1>4 DEF AfterEnds
  <2>2. answers'[admitted[i]] > 0
    BY <1>1, <2>1, TypeParts DEF FlowOK
  <2>3. \A c \in DOMAIN target : answers[c] > 0 => answers'[c] > 0
    <3>1. \A c \in DOMAIN target : c \in Calls
      BY TypeParts, Domains
    <3> QED
      BY <1>1, <2>1, <2>2, <3>1, TypeParts DEF FlowOK
  <2>4. \A j \in DOMAIN admitted : j # i => (Busy(j) => Busy(j)')
    BY <2>1 DEF Busy
  <2> QED
    BY <1>0, <2>1, <2>2, <2>3, <2>4 DEF Onward, queueVars
<1> QED
  BY <1>2, <1>3, <1>4 DEF Filter

(* Steps inside a flush that only drop entries of the mailboxes map. *)
LEMMA PassedFrame ==
    ASSUME TypeOK, Passed, Onward,
           UNCHANGED <<flushVars, pendings, target, owner, connecting>>,
           \A s \in Servers : mailboxes'[s] \in {mailboxes[s], NoBox}
    PROVE  Passed'
<1> SUFFICES ASSUME NEW s \in flushing
             PROVE  /\ met # NoBox => met \in DOMAIN owner
                    /\ Mounted(s)' =>
                          /\ s \notin connecting /\ Len(pendings[s]) = size
                          /\ \A k \in DOMAIN pendings[s], c \in Calls :
                                k < cursor /\ pendings[s][k] = c => Running(c)' \/ Settled(c)'
  BY DEF Passed, flushVars
<1>1. s \in Servers
  BY TypeParts DEF FlushOK
<1>2. Mounted(s)' => Mounted(s)
  BY <1>1 DEF Mounted, flushVars
<1>3. \A k \in DOMAIN pendings[s] : pendings[s][k] \in DOMAIN target
  BY <1>1, QueueTypes
<1> QED
  BY <1>2, <1>3, OnwardCalls DEF Passed

LEMMA StepPassed == TypeOK /\ Passed /\ [Next]_vars => Passed'
<1> SUFFICES ASSUME TypeOK, Passed, [Next]_vars PROVE Passed'
  OBVIOUS
<1>1. ASSUME NEW s \in Servers, Dispatch(s) PROVE Passed'
  <2>0. /\ Route(s, Len(target) + 1) /\ UNCHANGED flushVars
        /\ Len(target) + 1 \in Nat
    BY <1>1, QueueTypes DEF Dispatch
  <2>1. Onward
    BY <2>0, OnwardRoute
  <2> SUFFICES ASSUME NEW t \in flushing
               PROVE  /\ met # NoBox => met \in DOMAIN owner'
                      /\ Mounted(t)' =>
                            /\ t \notin connecting' /\ Len(pendings'[t]) = size
                            /\ \A k \in DOMAIN pendings'[t], c \in Calls :
                                  k < cursor /\ pendings'[t][k] = c => Running(c)' \/ Settled(c)'
    BY <2>0 DEF Passed, flushVars
  <2>2. t \in Servers
    BY TypeParts DEF FlushOK
  <2>3. /\ t # s => pendings'[t] = pendings[t]
        /\ t # s => (t \in connecting' => t \in connecting)
        /\ mailboxes'[t] = mailboxes[t] \/ mailboxes'[t] \notin DOMAIN owner
        /\ DOMAIN owner \subseteq DOMAIN owner'
    BY <2>0, <2>2, RouteMounted
  <2>4. met # NoBox => met \in DOMAIN owner
    BY DEF Passed
  <2> SUFFICES ASSUME Mounted(t)'
               PROVE  /\ t \notin connecting' /\ Len(pendings'[t]) = size
                      /\ \A k \in DOMAIN pendings'[t], c \in Calls :
                            k < cursor /\ pendings'[t][k] = c => Running(c)' \/ Settled(c)'
    BY <2>3, <2>4
  <2>5. Mounted(t) /\ mailboxes[t] # NoBox
    BY <2>0, <2>3, <2>4 DEF Mounted, flushVars
  <2>6. /\ t \notin connecting /\ Len(pendings[t]) = size
        /\ \A k \in DOMAIN pendings[t], c \in Calls :
              k < cursor /\ pendings[t][k] = c => Running(c) \/ Settled(c)
    BY <2>5 DEF Passed
  <2>7. t = s => UNCHANGED <<pendings, mailboxes, connecting, owner>>
    BY <2>0, <2>5, <2>6, RouteKeeps
  <2>8. pendings'[t] = pendings[t] /\ t \notin connecting'
    BY <2>3, <2>6, <2>7
  <2>9. \A k \in DOMAIN pendings[t] : pendings[t][k] \in DOMAIN target
    BY <2>2, QueueTypes
  <2> QED
    BY <2>1, <2>6, <2>8, <2>9, OnwardCalls
<1>2. ASSUME NEW s \in flushing,
             cursor <= size, cursor' = cursor + 1, Route(s, pendings[s][cursor]),
             UNCHANGED <<flushing, met, size, target, nested>>
      PROVE  Passed'
  <2> PICK p : p = pendings[s][cursor]
    OBVIOUS
  <2>0. /\ s \in Servers /\ p \in Nat /\ (\A t \in flushing : t = s)
        /\ cursor \in DOMAIN pendings[s] /\ cursor \in Nat
        /\ DOMAIN pendings[s] = 1..Len(pendings[s]) /\ Len(pendings[s]) \in Nat
        /\ \A k \in DOMAIN pendings[s] : pendings[s][k] \in DOMAIN target
    BY <1>2, QueueTypes, TypeParts DEF FlushOK, LoopOK
  <2>1. Onward
    BY <1>2, <2>0, OnwardRoute
  <2>2. /\ met # NoBox => met \in DOMAIN owner /\ met \in DOMAIN owner'
        /\ mailboxes'[s] = mailboxes[s] \/ mailboxes'[s] \notin DOMAIN owner
    BY <1>2, <2>0, RouteMounted DEF Passed
  <2>3. ASSUME Mounted(s)'
        PROVE  /\ s \notin connecting' /\ Len(pendings'[s]) = size
               /\ \A k \in DOMAIN pendings'[s], c \in Calls :
                     k < cursor' /\ pendings'[s][k] = c => Running(c)' \/ Settled(c)'
    <3>1. Mounted(s) /\ mailboxes[s] # NoBox
      BY <1>2, <2>2, <2>3 DEF Mounted
    <3>2. /\ s \notin connecting /\ Len(pendings[s]) = size
          /\ \A k \in DOMAIN pendings[s], c \in Calls :
                k < cursor /\ pendings[s][k] = c => Running(c) \/ Settled(c)
      BY <3>1 DEF Passed
    <3>3. /\ Running(p)' \/ Settled(p)'
          /\ UNCHANGED <<pendings, connecting>>
      BY <1>2, <2>0, <3>1, <3>2, RouteKeeps
    <3>4. ASSUME NEW k \in DOMAIN pendings[s], NEW c \in Calls, k < cursor', pendings[s][k] = c
          PROVE  Running(c)' \/ Settled(c)'
      <4>1. CASE k = cursor
        BY <3>3, <3>4, <4>1
      <4>2. CASE k # cursor
        <5>1. k < cursor
          BY <1>2, <2>0, <3>4, <4>2
        <5> QED
          BY <2>0, <2>1, <3>2, <3>4, <5>1, OnwardCalls
      <4> QED
        BY <4>1, <4>2
    <3> QED
      BY <3>2, <3>3, <3>4
  <2> QED
    BY <1>2, <2>0, <2>2, <2>3 DEF Passed
<1>3. CASE FlushEnd
  BY <1>3 DEF FlushEnd, Passed
<1>4. ASSUME flushing = {}, NEW b \in Boxes, BoxEvent(b) PROVE Passed'
  <2>1. CASE flushing' = {}
    BY <2>1 DEF Passed
  <2>2. CASE BoxConnected(b) /\ flushing' # {}
    <3>1. /\ FlushStart(owner[b]) /\ connecting' = connecting \ {owner[b]}
          /\ UNCHANGED <<mailboxes, owner, pendings>> /\ owner[b] \in Servers
      BY <1>4, <2>2, EventBox DEF BoxConnected, MayConnect, flushVars, queueVars
    <3>2. met' # NoBox => met' \in DOMAIN owner
      BY <3>1, TypeParts DEF FlushStart, BoxesOK
    <3>3. DOMAIN pendings[owner[b]] = 1..Len(pendings[owner[b]])
      BY <3>1, QueueTypes
    <3> QED
      BY <3>1, <3>2, <3>3 DEF Passed, FlushStart
  <2>3. CASE ~BoxConnected(b)
    BY <1>4, <2>1, <2>3, BoxEventQuiet DEF flushVars
  <2> QED
    BY <2>1, <2>2, <2>3
<1>5. ASSUME NEW i \in DOMAIN admitted, Filter(i) PROVE Passed'
  <2>1. UNCHANGED <<boxVars, flushVars, queueVars>>
    BY <1>5 DEF Filter, BeforePasses, BeforeFails, AfterEnds
  <2> QED
    BY <1>5, <2>1, OnwardFilter, PassedFrame DEF boxVars, queueVars
<1>6. CASE Life \/ Admin \/ UNCHANGED vars
  <2>1. UNCHANGED <<flushVars, queueVars, flowVars, owner, connecting>>
    BY <1>6
    DEF Life, Start, StartTick, StopForce, StopGraceful, GraceExpires, CloseAll,
        Admin, AddServers, RemoveServers, ReplaceServers, vars, boxVars
  <2>2. Onward
    BY <2>1 DEF Onward, Busy, queueVars, flowVars
  <2>3. \A s \in Servers : mailboxes'[s] \in {mailboxes[s], NoBox}
    BY <1>6
    DEF Life, Start, StartTick, StopForce, StopGraceful, GraceExpires, CloseAll,
        Admin, AddServers, RemoveServers, ReplaceServers, vars, boxVars
  <2> QED
    BY <2>1, <2>2, <2>3, PassedFrame DEF queueVars
<1>7. CASE FlushNext
  BY <1>2, <1>7 DEF FlushNext
<1> QED
  BY <1>1, <1>3, <1>4, <1>5, <1>6, <1>7, NextCases

(* A call stays where it was parked, or went onward. *)
LEMMA KeptOnward ==
    ASSUME TypeOK, Onward, NEW c \in DOMAIN target, Kept(c),
           \A s \in Servers : \A k \in DOMAIN pendings[s] :
              k \in DOMAIN pendings'[s] /\ pendings'[s][k] = pendings[s][k]
    PROVE  Kept(c)'
<1>1. CASE Running(c) \/ Settled(c)
  BY <1>1, OnwardCalls DEF Kept
<1>2. CASE \E s \in Servers : c \in Ran(pendings[s])
  BY <1>2 DEF Ran, Kept
<1> QED
  BY <1>1, <1>2 DEF Kept

LEMMA StepKept ==
    ASSUME TypeOK, Passed, [Next]_vars, ~OrphanFlushEnds, ~SilentTimeout,
           NEW c \in DOMAIN target', c \in DOMAIN target => Kept(c)
    PROVE  Kept(c)'
<1>1. ASSUME NEW s \in Servers, Dispatch(s) PROVE Kept(c)'
  <2>0. /\ Route(s, Len(target) + 1) /\ Len(target) + 1 \in Nat
        /\ Len(target) < MaxCalls /\ target' = Append(target, s)
    BY <1>1, QueueTypes DEF Dispatch
  <2>1. CASE c \in DOMAIN target
    BY <2>0, <2>1, OnwardRoute, RouteMounted, KeptOnward
  <2>2. CASE c = Len(target) + 1
    BY <2>0, <2>2, RouteKeeps DEF Kept
  <2>3. DOMAIN target' = 1..(Len(target) + 1) /\ DOMAIN target = 1..Len(target)
        /\ Len(target) \in Nat
    BY <2>0, NewCallTypes
  <2> QED
    BY <2>1, <2>2, <2>3
<1>2. CASE UNCHANGED target
  <2>0. c \in DOMAIN target /\ Kept(c)
    BY <1>2
  <2>1. CASE FlushNext
    <3>1. PICK s \in flushing : cursor <= size /\ Route(s, pendings[s][cursor])
      BY <2>1 DEF FlushNext
    <3>2. s \in Servers /\ pendings[s][cursor] \in Nat
      BY <3>1, QueueTypes, TypeParts DEF FlushOK, LoopOK
    <3> QED
      BY <2>0, <3>1, <3>2, OnwardRoute, RouteMounted, KeptOnward
  <2>2. ASSUME NEW s \in flushing, cursor > size, flushing' = {},
               pendings' = [pendings EXCEPT ![s] = << >>],
               UNCHANGED <<admitted, overflowed, flowVars>>
        PROVE  Kept(c)'
    <3>1. Mounted(s) /\ s \in Servers
      BY <2>2, TypeParts DEF OrphanFlushEnds, Mounted, FlushOK
    <3>2. /\ \A t \in Servers : t # s => pendings'[t] = pendings[t]
          /\ DOMAIN pendings[s] = 1..Len(pendings[s]) /\ Len(pendings[s]) \in Nat
          /\ cursor \in Nat /\ size \in Nat
      BY <2>2, <3>1, QueueTypes, TypeParts DEF CallsOK, FlushOK
    <3>3. \A k \in DOMAIN pendings[s] :
             pendings[s][k] = c => Running(c) \/ Settled(c)
      <4>1. c \in Calls
        BY <2>0, TypeParts, Domains
      <4> QED
        BY <2>2, <3>1, <3>2, <4>1 DEF Passed
    <3>4. (Running(c) => Running(c)') /\ (Settled(c) => Settled(c)')
      BY <2>2 DEF Running, Settled, flowVars
    <3>5. CASE Running(c) \/ Settled(c)
      BY <3>4, <3>5 DEF Kept
    <3>6. CASE \E t \in Servers : c \in Ran(pendings[t])
      <4>1. PICK t \in Servers : c \in Ran(pendings[t])
        BY <3>6
      <4>2. CASE t = s
        BY <3>3, <3>5, <4>1, <4>2 DEF Ran
      <4>3. CASE t # s
        BY <3>2, <4>1, <4>3 DEF Kept
      <4> QED
        BY <4>2, <4>3
    <3> QED
      BY <2>0, <3>5, <3>6 DEF Kept
  <2>3. CASE Onward /\ UNCHANGED pendings
    BY <2>0, <2>3, KeptOnward
  <2>4. ASSUME NEW i \in DOMAIN admitted, Filter(i) PROVE Onward /\ UNCHANGED pendings
    BY <2>4, OnwardFilter DEF Filter, BeforePasses, BeforeFails, AfterEnds, queueVars
  <2>5. ASSUME NEW b \in Boxes, BoxEvent(b) PROVE Onward /\ UNCHANGED pendings
    <3>1. UNCHANGED pendings
      BY <2>5, BoxEventQuiet DEF BoxConnected, queueVars
    <3> QED
      BY <2>5, <3>1, OnwardEvent
  <2>6. CASE Life \/ Admin \/ UNCHANGED vars
    <3>1. UNCHANGED <<queueVars, flowVars>>
      BY <2>6
      DEF Life, Start, StartTick, StopForce, StopGraceful, GraceExpires, CloseAll,
          Admin, AddServers, RemoveServers, ReplaceServers, vars
    <3> QED
      BY <2>3, <3>1 DEF Onward, Busy, queueVars, flowVars
  <2> QED
    BY <1>1, <2>1, <2>2, <2>3, <2>4, <2>5, <2>6, NextCases DEF FlushEnd
<1>3. UNCHANGED target \/ \E s \in Servers : Dispatch(s)
  BY NextCases, BoxEventQuiet
  DEF Life, Start, StartTick, StopForce, StopGraceful, GraceExpires, CloseAll,
      Admin, AddServers, RemoveServers, ReplaceServers, FlushNext, FlushEnd,
      Filter, BeforePasses, BeforeFails, AfterEnds, BoxConnected, vars, queueVars
<1> QED
  BY <1>1, <1>2, <1>3

(* A call is lost in two ways only, for any servers, calls, transports and  *)
(* interleavings: by a flush without its mailbox, or by the silent timer of *)
(* ws2.  A flush whose mailbox stays hands every parked call to the filters *)
(* or reports it.                                                           *)
THEOREM NothingElseLost == Spec => LostOnlyByOrphans
<1> DEFINE Inv == TypeOK /\ Passed
<1>1. Init => Inv
  BY InitType, InitPassed
<1>2. Inv /\ [Next]_vars => Inv'
  BY StepType, StepPassed
<1>3. Inv /\ [Next]_vars =>
         [\A c \in DOMAIN target' :
             (c \in DOMAIN target => Kept(c)) /\ ~OrphanFlushEnds /\ ~SilentTimeout
                => Kept(c)']_vars
  BY StepKept
<1> QED
  BY <1>1, <1>2, <1>3, PTL DEF Spec, LostOnlyByOrphans

=============================================================================
