---------------------------- MODULE RouterProofs ----------------------------
(* Proofs about the routers of the client, for any number of servers, calls *)
(* and changes of the list, and any weights.                                *)
EXTENDS ConsistentHash, FiniteSetTheorems, TLAPS

-----------------------------------------------------------------------------
(* LISTS AND NUMBERS *)

ListOK(q) ==
    /\ q \in Seq(Servers) /\ DOMAIN q = 1..Len(q) /\ Len(q) \in Nat
    /\ \A i, j \in 1..Len(q) : q[i] = q[j] => i = j

LEMMA ListShape == ASSUME NEW q \in Lists(Servers) PROVE ListOK(q)
<1>1. PICK k \in 0..Cardinality(Servers) : q \in [1..k -> Servers] /\ IsInjective(q)
  BY DEF Lists
<1>2. k \in Nat
  BY <1>1, FS_CardinalityType, ServersAssumption DEF ServersAssumption
<1>3. q \in Seq(Servers) /\ Len(q) = k /\ DOMAIN q = 1..k
  BY <1>1, <1>2
<1> QED
  BY <1>1, <1>2, <1>3 DEF ListOK, IsInjective

(* The remainder of the next number. *)
LEMMA NextMod ==
    ASSUME NEW a \in Nat, NEW N \in Nat \ {0}
    PROVE  /\ a % N \in 0..(N - 1)
           /\ (a + 1) % N = IF a % N = N - 1 THEN 0 ELSE (a % N) + 1
<1>1. /\ a % N \in 0..(N - 1) /\ (a + 1) % N \in 0..(N - 1)
      /\ a \div N \in Int /\ (a + 1) \div N \in Int
      /\ a = N * (a \div N) + (a % N)
      /\ a + 1 = N * ((a + 1) \div N) + ((a + 1) % N)
  OBVIOUS
<1> DEFINE r == a % N
           s == (a + 1) % N
           d == ((a + 1) \div N) - (a \div N)
<1>2. d \in Int /\ r \in 0..(N - 1) /\ s \in 0..(N - 1) /\ N * d = r + 1 - s
  BY <1>1
<1>3. d \in {0, 1}
  BY <1>2
<1> QED
  BY <1>1, <1>2, <1>3

-----------------------------------------------------------------------------
(* THE SHAPE OF THE STATE, whichever router runs *)

Counters ==
    /\ rrParam \in Nat
    /\ laCalled \in BOOLEAN /\ laParam \in [Servers -> Nat \cup {NaN, None}]
    /\ picks \in [Servers -> Nat] /\ calls \in Nat

Shape ==
    /\ routerType \in {"rr", "wrr", "la", "ch"}
    /\ ListOK(servers) /\ weight \in [Servers -> Nat]
    /\ Counters

LEMMA ShapeInit == ClientInit => Shape
<1> SUFFICES ASSUME ClientInit PROVE Shape
  OBVIOUS
<1> USE DEF ClientInit, Init
<1>1. routerType \in {"rr", "wrr", "la", "ch"}
  BY TypeAssumption DEF TypeAssumption
<1>2. ListOK(servers)
  BY ListShape
<1>3. weight \in [Servers -> Nat]
  BY WeightAssumption DEF WeightAssumption
<1>4. Counters
  BY DEF Counters
<1> QED
  BY <1>1, <1>2, <1>3, <1>4 DEF Shape

(* A call is routed to a listed server. *)
LEMMA Listed ==
    ASSUME Shape
    PROVE  /\ Range(servers) \subseteq Servers
           /\ Range(servers) = {servers[i] : i \in 1..n}
           /\ n \in Nat
  BY DEF Shape, ListOK, Range, n

LEMMA CallBackStep ==
    ASSUME Shape, NEW s \in Servers, CallBack(s)
    PROVE  /\ picks' \in [Servers -> Nat] /\ calls' \in Nat
           /\ picks'[s] = picks[s] + 1
           /\ \A t \in Servers : t # s => picks'[t] = picks[t]
           /\ UNCHANGED <<routerType, servers, weight>>
  BY DEF Shape, Counters, CallBack, listVars

(* The five operations, and those of the ring. *)
LEMMA ShapeChangeList ==
    ASSUME Shape, NEW q \in Lists(Servers), ChangeList(q) PROVE Shape'
<1>1. ListOK(q)
  BY ListShape
<1>2. picks' \in [Servers -> Nat]
  BY DEF ChangeList, Shape, Counters
<1> QED
  BY <1>1, <1>2 DEF ChangeList, Shape, Counters, paramVars, ListOK

LEMMA ShapeReweigh ==
    ASSUME Shape, NEW s \in Servers, NEW w \in Weights, Reweigh(s, w) PROVE Shape'
<1>1. w \in Nat
  BY WeightAssumption DEF WeightAssumption
<1> QED
  BY <1>1 DEF Reweigh, Shape, Counters, paramVars, ListOK

LEMMA ShapeRR == ASSUME Shape, RouteRR PROVE Shape'
<1>1. n \in Nat \ {0} /\ rrParam \in Nat
  BY Listed DEF RouteRR, Shape, Counters
<1>2. servers[(rrParam % n) + 1] \in Servers
  <2>1. rrParam % n \in 0..(n - 1)
    BY <1>1, NextMod
  <2>2. (rrParam % n) + 1 \in 1..n
    BY <1>1, <2>1
  <2> QED
    BY <2>2, Listed
<1>3. CallBack(servers[(rrParam % n) + 1])
  BY DEF RouteRR
<1> QED
  BY <1>1, <1>2, <1>3, CallBackStep DEF RouteRR, Advance, Shape, Counters, ListOK

LEMMA ShapeLA == ASSUME Shape, RouteLA PROVE Shape'
<1>1. PICK s \in Range(servers) :
         /\ CallBack(s)
         /\ \/ laParam' = [laParam EXCEPT ![s] = Increment(s)]
            \/ laParam' = [t \in Servers |-> IF t = s THEN 1
                                             ELSE IF t \in Range(servers) THEN 0
                                             ELSE None]
  BY DEF RouteLA
<1>2. s \in Servers
  BY Listed
<1>3. Increment(s) \in Nat \cup {NaN, None}
  BY <1>2 DEF Increment, Shape, Counters, NaN, None
<1>4. laParam' \in [Servers -> Nat \cup {NaN, None}]
  BY <1>1, <1>3 DEF Shape, Counters
<1> QED
  BY <1>1, <1>2, <1>4, CallBackStep DEF RouteLA, Shape, Counters, ListOK

LEMMA ShapeWRR == ASSUME Shape, RouteWRR PROVE Shape'
<1>1. PICK refilled, s :
         picks' = [t \in Servers |-> (IF refilled THEN 0 ELSE picks[t])
                                      + (IF t = s THEN 1 ELSE 0)]
  <2>1. PICK last \in Ends(Walk) :
           picks' = [t \in Servers |->
                       (IF \E k \in 1..last : Refills(Walk, k) THEN 0 ELSE picks[t])
                       + (IF t = servers[Walk[last].index + 1] THEN 1 ELSE 0)]
    BY DEF RouteWRR
  <2> QED
    BY <2>1
<1>2. picks' \in [Servers -> Nat]
  BY <1>1 DEF Shape, Counters
<1>3. calls' \in Nat /\ UNCHANGED <<listVars, rrParam, laParam, laCalled>>
  BY DEF RouteWRR, Shape, Counters
<1> QED
  BY <1>2, <1>3 DEF listVars, Shape, Counters, ListOK

LEMMA ShapeAdd == ASSUME Shape, NEW s \in Servers, AddServer(s) PROVE Shape'
<1>1. ListOK(servers')
  <2>1. CASE s \in Range(servers)
    BY <2>1 DEF AddServer, Shape
  <2>2. CASE s \notin Range(servers)
    <3>1. servers' = Append(servers, s)
      BY <2>2 DEF AddServer
    <3>2. \A i \in 1..Len(servers) : servers[i] # s
      BY <2>2, Listed DEF n
    <3> QED
      BY <3>1, <3>2 DEF Shape, ListOK
  <2> QED
    BY <2>1, <2>2
<1> QED
  BY <1>1 DEF AddServer, Shape, Counters, paramVars, histVars

LEMMA ShapeStep == Shape /\ [ClientNext]_allVars => Shape'
<1> SUFFICES ASSUME Shape, [ClientNext]_allVars PROVE Shape'
  OBVIOUS
<1>1. CASE Next
  BY <1>1, ShapeChangeList, ShapeReweigh, ShapeRR, ShapeWRR, ShapeLA DEF Next
<1>2. CASE ChRoute
  BY <1>2 DEF ChRoute, vars, listVars, paramVars, histVars, Shape, Counters, ListOK
<1>3. ASSUME NEW s \in Servers, AddServer(s) PROVE Shape'
  BY <1>3, ShapeAdd
<1>4. ASSUME NEW s \in Servers, RemoveServer(s) PROVE Shape'
  BY <1>4 DEF RemoveServer, paramVars, histVars, Shape, Counters, ListOK
<1>5. CASE UNCHANGED allVars
  BY <1>5 DEF allVars, vars, listVars, paramVars, histVars, Shape, Counters, ListOK
<1> QED
  BY <1>1, <1>2, <1>3, <1>4, <1>5 DEF ClientNext

-----------------------------------------------------------------------------
(* ROUND ROBIN.  Since the list last changed the index has gone round from   *)
(* some position; the servers it has passed in this turn are one call ahead. *)

(* i is in the part of the circle from f up to p. *)
Between(f, i, p) == IF f <= p THEN f <= i /\ i < p ELSE f <= i \/ i < p

Spread(f, m) ==
    \A i \in 0..(n - 1) :
        picks[servers[i + 1]] = IF Between(f, i, rrParam % n) THEN m + 1 ELSE m

Turning == routerType = "rr" /\ n > 0 => \E f \in 0..(n - 1), m \in Nat : Spread(f, m)

RRInv == Shape /\ Turning

(* No listed server has a call yet: the turn starts here. *)
Fresh == \A s \in Range(servers) : picks[s] = 0

LEMMA FreshTurn == Shape /\ Fresh => Turning
<1> SUFFICES ASSUME Shape, Fresh, routerType = "rr", n > 0
             PROVE  \E f \in 0..(n - 1), k \in Nat : Spread(f, k)
  BY DEF Turning
<1>1. n \in Nat \ {0} /\ rrParam \in Nat
  BY Listed DEF Shape, Counters
<1>2. rrParam % n \in 0..(n - 1)
  BY <1>1, NextMod
<1>3. \A i \in 0..(n - 1) : picks[servers[i + 1]] = 0
  <2>1. ASSUME NEW i \in 0..(n - 1) PROVE servers[i + 1] \in Range(servers)
    <3>1. i + 1 \in 1..n
      BY <1>1
    <3> QED
      BY <3>1, Listed
  <2> QED
    BY <2>1 DEF Fresh
<1>4. \A i \in 0..(n - 1) : ~Between(rrParam % n, i, rrParam % n)
  BY <1>1, <1>2 DEF Between
<1>5. Spread(rrParam % n, 0)
  BY <1>3, <1>4 DEF Spread
<1> QED
  BY <1>2, <1>5

LEMMA FreshTurnNext == Shape' /\ Fresh' => Turning'
  BY FreshTurn, PTL

LEMMA TurnRR == ASSUME RRInv, RouteRR PROVE Turning'
<1> DEFINE p == rrParam % n
<1>1. n \in Nat \ {0} /\ rrParam \in Nat /\ routerType = "rr"
  BY Listed DEF RouteRR, RRInv, Shape, Counters
<1>2. /\ p \in 0..(n - 1)
      /\ (rrParam + 1) % n = IF p = n - 1 THEN 0 ELSE p + 1
  BY <1>1, NextMod
<1>3. p + 1 \in 1..n /\ servers[p + 1] \in Servers
  BY <1>1, <1>2, Listed DEF RRInv
<1>4. PICK f \in 0..(n - 1), m \in Nat : Spread(f, m)
  BY <1>1 DEF RRInv, Turning
<1>5. /\ UNCHANGED <<servers, n>> /\ rrParam' = rrParam + 1
      /\ picks'[servers[p + 1]] = picks[servers[p + 1]] + 1
      /\ \A t \in Servers : t # servers[p + 1] => picks'[t] = picks[t]
  <2>1. CallBack(servers[p + 1])
    BY DEF RouteRR
  <2> QED
    BY <1>3, <2>1, CallBackStep DEF RouteRR, Advance, RRInv, n
<1> DEFINE r == (rrParam + 1) % n
<1>6. \A i \in 0..(n - 1) : i + 1 \in 1..n /\ servers[i + 1] \in Servers
  BY <1>1, Listed DEF RRInv
<1>7. \A i \in 0..(n - 1) : i # p => servers[i + 1] # servers[p + 1]
  BY <1>2, <1>3, <1>6 DEF RRInv, Shape, ListOK, n
<1>8. ASSUME NEW i \in 0..(n - 1)
      PROVE  picks'[servers[i + 1]] = IF i = p THEN picks[servers[i + 1]] + 1
                                              ELSE picks[servers[i + 1]]
  BY <1>5, <1>6, <1>7
<1>9. \A i \in 0..(n - 1) : picks[servers[i + 1]] = IF Between(f, i, p) THEN m + 1 ELSE m
  BY <1>4 DEF Spread
<1> HIDE DEF p
<1>10. CASE r # f
  <2>1. \A i \in 0..(n - 1) : Between(f, i, r) <=> Between(f, i, p) \/ i = p
    BY <1>1, <1>2, <1>10 DEF Between
  <2>2. ~Between(f, p, p)
    BY <1>2 DEF Between
  <2>3. \A i \in 0..(n - 1) :
           picks'[servers[i + 1]] = IF Between(f, i, r) THEN m + 1 ELSE m
    BY <1>2, <1>8, <1>9, <2>1, <2>2
  <2>4. Spread(f, m)'
    BY <1>5, <2>3 DEF Spread
  <2> QED
    BY <1>5, <2>4 DEF Turning
<1>11. CASE r = f
  <2>1. \A i \in 0..(n - 1) : ~Between(f, i, r) /\ (Between(f, i, p) <=> i # p)
    BY <1>1, <1>2, <1>11 DEF Between
  <2>2. \A i \in 0..(n - 1) :
           picks'[servers[i + 1]] = IF Between(f, i, r) THEN m + 2 ELSE m + 1
    BY <1>2, <1>8, <1>9, <2>1
  <2>3. Spread(f, m + 1)'
    BY <1>5, <2>1, <2>2 DEF Spread
  <2> QED
    BY <1>5, <2>3 DEF Turning
<1> QED
  BY <1>10, <1>11

LEMMA TurnStep == RRInv /\ [ClientNext]_allVars => Turning'
<1> SUFFICES ASSUME RRInv, [ClientNext]_allVars, routerType' = "rr" PROVE Turning'
  BY DEF Turning
<1>0. Shape'
  BY ShapeStep DEF RRInv
<1>1. ASSUME NEW q \in Lists(Servers), ChangeList(q), routerType = "rr" PROVE Turning'
  <2>1. \A s \in Range(servers)' : s \in Servers
    BY <1>0 DEF Shape, ListOK, Range
  <2>2. Fresh'
    BY <1>1, <2>1 DEF ChangeList, Fresh
  <2> QED
    BY <1>0, <2>2, FreshTurnNext
<1>2. CASE RouteRR
  BY <1>2, TurnRR
<1>3. CASE UNCHANGED <<routerType, servers, rrParam, picks>>
  BY <1>3 DEF RRInv, Turning, Spread, n
<1>4. ASSUME routerType # "rr" PROVE FALSE
  BY <1>4 DEF ClientNext, Next, ChangeList, Reweigh, RouteRR, RouteWRR, RouteLA, CallBack,
       listVars, ChRoute, AddServer, RemoveServer, allVars, vars
<1>5. ASSUME routerType = "rr", ClientNext
      PROVE  (\E q \in Lists(Servers) : ChangeList(q)) \/ RouteRR
  BY <1>5 DEF ClientNext, Next, Reweigh, RouteWRR, RouteLA
<1> QED
  BY <1>1, <1>2, <1>3, <1>4, <1>5 DEF allVars, vars, listVars, paramVars, histVars

(* Round robin is even (router.ts:58-82): RoundRobinFair, for any number of  *)
(* servers and calls, wherever the stored index stood when the list changed. *)
THEOREM RoundRobinIsFair == ClientSpec => []RoundRobinFair
<1>1. ClientInit => RRInv
  <2> SUFFICES ASSUME ClientInit PROVE RRInv
    OBVIOUS
  <2>1. Shape
    BY ShapeInit
  <2>2. Fresh
    BY <2>1, Listed DEF ClientInit, Init, Fresh
  <2> QED
    BY <2>1, <2>2, FreshTurn DEF RRInv
<1>2. RRInv /\ [ClientNext]_allVars => RRInv'
  BY ShapeStep, TurnStep DEF RRInv
<1>3. RRInv => RoundRobinFair
  <2> SUFFICES ASSUME RRInv, routerType = "rr", NEW s \in Range(servers), NEW t \in Range(servers)
               PROVE  picks[s] <= picks[t] + 1
    BY DEF RoundRobinFair
  <2>1. PICK i \in 1..n, j \in 1..n : s = servers[i] /\ t = servers[j]
    BY Listed DEF RRInv
  <2>2. n > 0 /\ n \in Nat
    BY <2>1, Listed DEF RRInv
  <2>3. PICK f \in 0..(n - 1), m \in Nat : Spread(f, m)
    BY <2>2 DEF RRInv, Turning
  <2>4. i - 1 \in 0..(n - 1) /\ j - 1 \in 0..(n - 1) /\ (i - 1) + 1 = i /\ (j - 1) + 1 = j
    BY <2>2
  <2>5. picks[s] \in {m, m + 1} /\ picks[t] \in {m, m + 1}
    BY <2>1, <2>3, <2>4 DEF Spread
  <2> QED
    BY <2>5
<1> QED
  BY <1>1, <1>2, <1>3, PTL DEF ClientSpec

-----------------------------------------------------------------------------
(* LEAST ACTIVE.  A server that has a count has the number of its calls.     *)

LAInv ==
    /\ Shape
    /\ routerType = "la" =>
          IF laCalled THEN \A s \in Servers : laParam[s] \in Nat => laParam[s] = picks[s]
                      ELSE \A s \in Servers : picks[s] = 0

(* One call: what the router looks at, and what it leaves behind. *)
LEMMA LACall ==
    ASSUME Shape, RouteLA
    PROVE  /\ laCalled' /\ UNCHANGED <<routerType, servers>>
           /\ \E s \in Range(servers) :
                 /\ s \in Servers /\ CallBack(s)
                 /\ IF laCalled
                    THEN /\ \A t \in Range(servers) : CountOf(s) <= CountOf(t)
                         /\ laParam' = [laParam EXCEPT ![s] = Increment(s)]
                    ELSE laParam' = [t \in Servers |-> IF t = s THEN 1
                                                      ELSE IF t \in Range(servers) THEN 0
                                                      ELSE None]
  BY Listed DEF RouteLA, CallBack, listVars

LEMMA LAStepCall == ASSUME LAInv, RouteLA PROVE LAInv'
<1>0. Shape /\ Shape' /\ routerType = "la"
  BY ShapeLA DEF LAInv, RouteLA
<1>1. PICK s \in Servers :
         /\ CallBack(s)
         /\ laCalled => laParam' = [laParam EXCEPT ![s] = Increment(s)]
         /\ ~laCalled => laParam' = [t \in Servers |-> IF t = s THEN 1
                                                      ELSE IF t \in Range(servers) THEN 0
                                                      ELSE None]
  BY <1>0, LACall
<1>2. /\ picks'[s] = picks[s] + 1 /\ picks[s] \in Nat
      /\ \A t \in Servers : t # s => picks'[t] = picks[t]
  BY <1>0, <1>1, CallBackStep DEF Shape, Counters
<1>3. ASSUME NEW t \in Servers, laParam'[t] \in Nat PROVE laParam'[t] = picks'[t]
  <2>1. CASE laCalled /\ t = s
    <3>1. laParam'[s] = Increment(s)
      BY <1>0, <1>1, <2>1 DEF Shape, Counters
    <3>2. laParam[s] \in Nat /\ laParam'[s] = laParam[s] + 1
      BY <1>0, <1>3, <2>1, <3>1 DEF Shape, Counters, Increment, NaN, None
    <3> QED
      BY <1>0, <1>2, <2>1, <3>2 DEF LAInv
  <2>2. CASE laCalled /\ t # s
    BY <1>0, <1>1, <1>2, <1>3, <2>2 DEF LAInv, Shape, Counters
  <2>3. CASE ~laCalled
    <3>1. picks[t] = 0 /\ picks[s] = 0
      BY <1>0, <2>3 DEF LAInv
    <3>2. laParam'[t] = IF t = s THEN 1 ELSE IF t \in Range(servers) THEN 0 ELSE None
      BY <1>1, <2>3
    <3> QED
      BY <1>2, <1>3, <3>1, <3>2 DEF None
  <2> QED
    BY <2>1, <2>2, <2>3
<1>4. laCalled'
  BY <1>0, LACall
<1> QED
  BY <1>0, <1>3, <1>4 DEF LAInv

LEMMA LAStep == LAInv /\ [ClientNext]_allVars => LAInv'
<1> SUFFICES ASSUME LAInv, [ClientNext]_allVars PROVE LAInv'
  OBVIOUS
<1>0. Shape'
  BY ShapeStep DEF LAInv
<1>1. CASE RouteLA
  BY <1>1, LAStepCall
<1>2. CASE UNCHANGED <<routerType, laParam, laCalled, picks>>
  BY <1>0, <1>2 DEF LAInv
<1>3. CASE ~RouteLA /\ ClientNext
  <2>1. UNCHANGED routerType
    BY <1>3 DEF ClientNext, Next, ChangeList, Reweigh, RouteRR, RouteWRR, CallBack,
         listVars, ChRoute, AddServer, RemoveServer, vars
  <2>2. routerType = "la" => UNCHANGED <<laParam, laCalled, picks>>
    BY <1>3 DEF ClientNext, Next, ChangeList, Reweigh, RouteRR, RouteWRR, paramVars
  <2> QED
    BY <1>0, <2>1, <2>2 DEF LAInv
<1> QED
  BY <1>1, <1>2, <1>3 DEF allVars, vars, listVars, paramVars, histVars

(* Least active picks a server with the fewest calls, as long as each listed *)
(* server has a count (router.ts:168-211): LaPicksLeastCalled.               *)
THEOREM LeastCalledIsPicked == ClientSpec => LaPicksLeastCalled
<1>1. ClientInit => LAInv
  BY ShapeInit DEF ClientInit, Init, LAInv
<1>2. LAInv /\ [ClientNext]_allVars =>
         [routerType = "la" /\ calls' > calls /\ Counted =>
            \A s, t \in Range(servers) : picks'[s] > picks[s] => picks[s] <= picks[t]]_vars
  <2> SUFFICES ASSUME LAInv, [ClientNext]_allVars, routerType = "la", calls' > calls, Counted,
                      NEW a \in Range(servers), NEW b \in Range(servers), picks'[a] > picks[a]
               PROVE  picks[a] <= picks[b]
    OBVIOUS
  <2>1. Shape /\ a \in Servers /\ b \in Servers
    BY Listed DEF LAInv
  <2>2. RouteLA
    <3>1. calls \in Nat /\ calls' # calls
      BY <2>1 DEF Shape, Counters
    <3> QED
      BY <3>1 DEF allVars, vars, histVars, ClientNext, Next, ChangeList, Reweigh, RouteRR,
         RouteWRR, ChRoute, AddServer, RemoveServer
  <2>3. CASE ~laCalled
    BY <2>1, <2>3 DEF LAInv
  <2>4. CASE laCalled
    <3>1. PICK s \in Range(servers) :
             s \in Servers /\ CallBack(s) /\ \A t \in Range(servers) : CountOf(s) <= CountOf(t)
      BY <2>1, <2>2, <2>4, LACall
    <3>2. a = s
      <4>1. a # s => picks'[a] = picks[a] /\ picks[a] \in Nat
        BY <2>1, <3>1, CallBackStep DEF Shape, Counters
      <4> QED
        BY <4>1
    <3>3. laParam[a] = picks[a] /\ laParam[b] = picks[b] /\ laParam[a] \in Nat /\ laParam[b] \in Nat
      BY <2>1, <2>4 DEF LAInv, Counted
    <3>4. CountOf(a) = laParam[a] /\ CountOf(b) = laParam[b]
      BY <3>3 DEF CountOf, None, NaN
    <3> QED
      BY <3>1, <3>2, <3>3, <3>4
  <2> QED
    BY <2>3, <2>4
<1> QED
  BY <1>1, <1>2, LAStep, PTL DEF ClientSpec, LaPicksLeastCalled

-----------------------------------------------------------------------------
(* INDUCTION, stated about a set, which needs no operator for a parameter:   *)
(* that finite sets are well founded gives a least number, hence induction.  *)

LEMMA LeastNumber ==
    ASSUME NEW X \in SUBSET Nat, X # {}
    PROVE  \E m \in X : \A k \in X : m <= k
<1> DEFINE T == {0..x : x \in X}
           R == StrictSubsetOrdering(Nat)
           S == FiniteSubsetsOf(Nat)
<1>1. IsWellFoundedOn(R, S)
  BY FS_StrictSubsetOrderingWellFounded
<1>2. T \subseteq S
  <2> SUFFICES ASSUME NEW x \in X PROVE 0..x \in S
    OBVIOUS
  <2>1. IsFiniteSet(0..x)
    BY FS_Interval
  <2> QED
    BY <2>1 DEF FiniteSubsetsOf
<1>3. T # {}
  OBVIOUS
<1> HIDE DEF T, R, S
<1>4. PICK t \in T : \A u \in T : <<u, t>> \notin R
  BY <1>1, <1>2, <1>3, WFMin
<1>5. PICK m \in X : t = 0..m
  BY <1>4 DEF T
<1>6. ASSUME NEW k \in X, k < m PROVE FALSE
  <2>1. 0..k \in T /\ 0..k \subseteq 0..m /\ 0..k # 0..m /\ 0..k \in SUBSET Nat /\ 0..m \in SUBSET Nat
    <3>1. m \in 0..m /\ m \notin 0..k
      BY <1>6
    <3>2. 0..k \subseteq 0..m /\ 0..k \in SUBSET Nat /\ 0..m \in SUBSET Nat
      BY <1>6
    <3> QED
      BY <3>1, <3>2 DEF T
  <2>2. <<0..k, 0..m>> \in R
    BY <2>1 DEF R, StrictSubsetOrdering
  <2> QED
    BY <1>4, <1>5, <2>1, <2>2
<1> QED
  BY <1>6

LEMMA Induction ==
    ASSUME NEW X, 0 \in X, \A k \in Nat : k \in X => k + 1 \in X
    PROVE  Nat \subseteq X
<1> SUFFICES ASSUME Nat \ X # {} PROVE FALSE
  OBVIOUS
<1>1. PICK m \in Nat \ X : \A k \in Nat \ X : m <= k
  <2>1. Nat \ X \in SUBSET Nat
    OBVIOUS
  <2> QED
    BY <2>1, LeastNumber
<1>2. m # 0 /\ m - 1 \in Nat /\ (m - 1) + 1 = m
  BY <1>1
<1>3. m - 1 \in X
  BY <1>1, <1>2
<1> QED
  BY <1>1, <1>2, <1>3

-----------------------------------------------------------------------------
(* WEIGHTED ROUND ROBIN: one turn of the loop, and the walk of all turns.    *)

Param == [index : 0..(n - 1), weight : Nat]

WrrShape ==
    /\ Shape /\ round \in Nat
    /\ wrrParam \in [index : Int, weight : Nat] /\ wrrParam.index >= -1

(* The weight of the server at a position, which starts at 0. *)
At(j) == weight[servers[j + 1]]

LEMMA Positions ==
    ASSUME Shape
    PROVE  /\ \A j \in 0..(n - 1) :
                 servers[j + 1] \in Range(servers) /\ servers[j + 1] \in Servers /\ At(j) \in Nat
           /\ \A s \in Range(servers) : \E j \in 0..(n - 1) : s = servers[j + 1]
           /\ \A i, j \in 0..(n - 1) : servers[i + 1] = servers[j + 1] => i = j
<1>1. n \in Nat /\ \A j \in 0..(n - 1) : j + 1 \in 1..n
  BY Listed
<1>2. ASSUME NEW j \in 0..(n - 1)
      PROVE  servers[j + 1] \in Range(servers) /\ servers[j + 1] \in Servers /\ At(j) \in Nat
  <2>1. servers[j + 1] \in Range(servers) /\ servers[j + 1] \in Servers
    BY <1>1, Listed
  <2> QED
    BY <2>1 DEF At, Shape
<1>3. ASSUME NEW s \in Range(servers) PROVE \E j \in 0..(n - 1) : s = servers[j + 1]
  <2>1. PICK i \in 1..n : s = servers[i]
    BY Listed
  <2>2. i - 1 \in 0..(n - 1) /\ (i - 1) + 1 = i
    BY <1>1
  <2> QED
    BY <2>1, <2>2
<1>4. ASSUME NEW i \in 0..(n - 1), NEW j \in 0..(n - 1), servers[i + 1] = servers[j + 1] PROVE i = j
  <2>1. i + 1 = j + 1
    BY <1>1, <1>4 DEF Shape, ListOK, n
  <2> QED
    BY <2>1
<1> QED
  BY <1>2, <1>3, <1>4

(* The full weight is that of some server, and of none less.                 *)
LEMMA FullWeight ==
    ASSUME Shape, n > 0
    PROVE  /\ getMaxWeight \in Nat
           /\ \A j \in 0..(n - 1) : At(j) <= getMaxWeight
           /\ \E j \in 0..(n - 1) : At(j) = getMaxWeight
<1> DEFINE X == {k \in Nat : k < n => \E j \in 0..k : \A i \in 0..k : At(i) <= At(j)}
<1>0. n \in Nat
  BY Listed
<1>1. 0 \in X
  <2>1. At(0) \in Nat
    BY <1>0, Positions
  <2>2. \A i \in 0..0 : i = 0
    OBVIOUS
  <2>3. \A i \in 0..0 : At(i) <= At(0)
    BY <2>1, <2>2
  <2>4. 0 \in 0..0
    OBVIOUS
  <2> QED
    BY <2>3, <2>4
<1>2. ASSUME NEW k \in Nat, k \in X PROVE k + 1 \in X
  <2> SUFFICES ASSUME k + 1 < n
               PROVE  \E j \in 0..(k + 1) : \A i \in 0..(k + 1) : At(i) <= At(j)
    OBVIOUS
  <2>1. PICK j \in 0..k : \A i \in 0..k : At(i) <= At(j)
    BY <1>0, <1>2
  <2>2. \A i \in 0..(k + 1) : At(i) \in Nat
    BY <1>0, Positions
  <2>3. \A i \in 0..(k + 1) : i \in 0..k \/ i = k + 1
    OBVIOUS
  <2>4. CASE At(k + 1) <= At(j)
    BY <2>1, <2>2, <2>3, <2>4
  <2>5. CASE ~(At(k + 1) <= At(j))
    BY <2>1, <2>2, <2>3, <2>5
  <2> QED
    BY <2>4, <2>5
<1>3. Nat \subseteq X
  <2> HIDE DEF X
  <2> QED
    BY <1>1, <1>2, Induction
<1>4. PICK j \in 0..(n - 1) : \A i \in 0..(n - 1) : At(i) <= At(j)
  <2>1. n - 1 \in X
    BY <1>0, <1>3
  <2> QED
    BY <1>0, <2>1
<1> DEFINE w == getMaxWeight
<1>5. w \in {weight[s] : s \in Range(servers)} /\ \A s \in Range(servers) : weight[s] <= w
  <2>1. At(j) \in {weight[s] : s \in Range(servers)}
    BY Positions DEF At
  <2>2. \A s \in Range(servers) : weight[s] <= At(j)
    BY <1>4, Positions DEF At
  <2> QED
    BY <2>1, <2>2 DEF getMaxWeight
<1> HIDE DEF w
<1>6. PICK i \in 0..(n - 1) : At(i) = w
  BY <1>5, Positions DEF At
<1>7. w \in Nat /\ \A k \in 0..(n - 1) : At(k) <= w
  BY <1>5, <1>6, Positions DEF At
<1> QED
  BY <1>6, <1>7 DEF w

(* One turn. *)
LEMMA OneTurn ==
    ASSUME Shape, n > 0, NEW p \in [index : Int, weight : Nat], p.index >= -1
    PROVE  /\ Turn(p) \in Param
           /\ Turn(p).index = 0 =>
                 Turn(p).weight = IF p.weight <= 1 THEN getMaxWeight ELSE p.weight - 1
           /\ Turn(p).index # 0 => Turn(p).weight = p.weight
           /\ p.index \in 0..(n - 1) =>
                 Turn(p).index = IF p.index = n - 1 THEN 0 ELSE p.index + 1
<1>1. n \in Nat \ {0} /\ p.index \in Int /\ p.weight \in Nat /\ p.index + 1 \in Nat
  BY Listed
<1> DEFINE i == (p.index + 1) % n
<1>2. i \in 0..(n - 1)
  BY <1>1, NextMod
<1>3. p.index \in 0..(n - 1) => i = IF p.index = n - 1 THEN 0 ELSE p.index + 1
  <2> SUFFICES ASSUME p.index \in 0..(n - 1)
               PROVE  i = IF p.index = n - 1 THEN 0 ELSE p.index + 1
    OBVIOUS
  <2>1. p.index \in Nat /\ p.index % n = p.index
    BY <1>1
  <2> QED
    BY <1>1, <2>1, NextMod
<1>4. getMaxWeight \in Nat
  BY FullWeight
<1>5. Turn(p) = [index  |-> i,
                 weight |-> IF i = 0 /\ (IF i = 0 THEN p.weight - 1 ELSE p.weight) <= 0
                            THEN getMaxWeight
                            ELSE IF i = 0 THEN p.weight - 1 ELSE p.weight]
  BY DEF Turn
<1> HIDE DEF i
<1>6. Turn(p).index = i /\ Turn(p).weight = IF i # 0 THEN p.weight
                                             ELSE IF p.weight <= 1 THEN getMaxWeight
                                             ELSE p.weight - 1
  BY <1>1, <1>5
<1>7. Turn(p) \in Param
  BY <1>1, <1>2, <1>4, <1>5 DEF Param
<1> QED
  BY <1>2, <1>3, <1>6, <1>7

(* The walk conforms to its equation: such a function exists for every       *)
(* number of turns.                                                          *)
LEMMA WalkEquation ==
    ASSUME MaxTurns \in Nat
    PROVE  Walk = [k \in 0..MaxTurns |-> IF k = 0 THEN wrrParam ELSE Turn(Walk[k - 1])]
<1> DEFINE X == {N \in Nat : \E g : g = [k \in 0..N |-> IF k = 0 THEN wrrParam
                                                               ELSE Turn(g[k - 1])]}
<1>1. 0 \in X
  <2> DEFINE g == [k \in 0..0 |-> wrrParam]
  <2>1. g = [k \in 0..0 |-> IF k = 0 THEN wrrParam ELSE Turn(g[k - 1])]
    OBVIOUS
  <2> QED
    BY <2>1
<1>2. ASSUME NEW N \in Nat, N \in X PROVE N + 1 \in X
  <2>1. PICK g : g = [k \in 0..N |-> IF k = 0 THEN wrrParam ELSE Turn(g[k - 1])]
    BY <1>2
  <2> DEFINE h == [k \in 0..(N + 1) |-> IF k = N + 1 THEN Turn(g[N]) ELSE g[k]]
  <2>2. ASSUME NEW k \in 0..(N + 1)
        PROVE  h[k] = IF k = 0 THEN wrrParam ELSE Turn(h[k - 1])
    <3>1. CASE k = 0
      <4>1. h[0] = g[0] /\ 0 \in 0..N
        OBVIOUS
      <4>2. g[0] = wrrParam
        BY <2>1, <4>1
      <4> QED
        BY <3>1, <4>1, <4>2
    <3>2. CASE k = N + 1
      <4>1. h[k] = Turn(g[N]) /\ h[N] = g[N] /\ k - 1 = N /\ k # 0
        BY <3>2
      <4> QED
        BY <4>1
    <3>3. CASE k # 0 /\ k # N + 1
      <4>1. k \in 0..N /\ k - 1 \in 0..N /\ k - 1 # N + 1
        BY <3>3
      <4>2. h[k] = g[k] /\ h[k - 1] = g[k - 1]
        BY <3>3, <4>1
      <4>3. g[k] = Turn(g[k - 1])
        BY <2>1, <3>3, <4>1
      <4> QED
        BY <3>3, <4>2, <4>3
    <3> QED
      BY <3>1, <3>2, <3>3
  <2>3. h = [k \in 0..(N + 1) |-> h[k]]
    OBVIOUS
  <2> HIDE DEF h
  <2>4. h = [k \in 0..(N + 1) |-> IF k = 0 THEN wrrParam ELSE Turn(h[k - 1])]
    BY <2>2, <2>3
  <2>5. N + 1 \in Nat /\ \E f : f = [k \in 0..(N + 1) |-> IF k = 0 THEN wrrParam ELSE Turn(f[k - 1])]
    BY <2>4
  <2> QED
    BY <2>5
<1>3. Nat \subseteq X
  <2> HIDE DEF X
  <2> QED
    BY <1>1, <1>2, Induction
<1>4. \E g : g = [k \in 0..MaxTurns |-> IF k = 0 THEN wrrParam ELSE Turn(g[k - 1])]
  BY <1>3
<1> QED
  BY <1>4, Zenon DEF Walk

(* What is known of each turn. *)
LEMMA Turns ==
    ASSUME WrrShape, n > 0
    PROVE  /\ MaxTurns \in Nat /\ DOMAIN Walk = 0..MaxTurns /\ Walk[0] = wrrParam
           /\ \A k \in 1..MaxTurns : Walk[k] = Turn(Walk[k - 1]) /\ Walk[k] \in Param
<1>0. n \in Nat \ {0} /\ wrrParam \in [index : Int, weight : Nat] /\ Shape
  BY Listed DEF WrrShape
<1>1. MaxTurns \in Nat
  <2>1. wrrParam.weight \in Nat
    BY <1>0
  <2>2. \A a, b \in Nat : a * (b + 2) \in Nat
    OBVIOUS
  <2> QED
    BY <1>0, <2>1, <2>2 DEF MaxTurns
<1> HIDE DEF MaxTurns
<1>2. Walk = [k \in 0..MaxTurns |-> IF k = 0 THEN wrrParam ELSE Turn(Walk[k - 1])]
  BY <1>1, WalkEquation
<1>3. Walk[0] = wrrParam /\ DOMAIN Walk = 0..MaxTurns
  BY <1>1, <1>2
<1>4. \A k \in 1..MaxTurns : Walk[k] = Turn(Walk[k - 1])
  BY <1>1, <1>2
<1>5. \A p \in Param : p \in [index : Int, weight : Nat] /\ p.index >= -1
  BY <1>0 DEF Param
<1> DEFINE X == {k \in Nat : k \in 1..MaxTurns => Walk[k] \in Param}
<1>6. 0 \in X
  OBVIOUS
<1>7. ASSUME NEW k \in Nat, k \in X PROVE k + 1 \in X
  <2> SUFFICES ASSUME k + 1 \in 1..MaxTurns PROVE Walk[k + 1] \in Param
    OBVIOUS
  <2>1. Walk[k + 1] = Turn(Walk[k])
    BY <1>4
  <2>2. Walk[k] \in [index : Int, weight : Nat] /\ Walk[k].index >= -1
    <3>1. CASE k = 0
      BY <1>3, <3>1 DEF WrrShape
    <3>2. CASE k # 0
      <4>1. k \in 1..MaxTurns
        BY <1>1, <3>2
      <4> QED
        BY <1>5, <1>7, <4>1
    <3> QED
      BY <3>1, <3>2
  <2> QED
    BY <1>0, <2>1, <2>2, OneTurn
<1>8. Nat \subseteq X
  <2> HIDE DEF X
  <2> QED
    BY <1>6, <1>7, Induction
<1> QED
  BY <1>1, <1>3, <1>4, <1>8

(* What a turn that does not end the loop does to the parameter: it goes on, *)
(* or makes the weight full and the server at the head has less.             *)
Going(p) == ~Chosen(p) /\ ~Invalid(p)

LEMMA GoingOn ==
    ASSUME Shape, n > 0, NEW p \in Param, Going(p)
    PROVE  At(p.index) < p.weight /\ (p.index = 0 => p.weight >= 1)
<1>1. p.index \in 0..(n - 1) /\ p.weight \in Nat
  BY DEF Param
<1>2. At(p.index) \in Nat
  BY <1>1, Positions
<1> QED
  BY <1>1, <1>2 DEF Going, Chosen, Invalid, At

-----------------------------------------------------------------------------
(* The loop ends.  Until the weight is made full each turn brings the next   *)
(* head of the list, or a lower weight, nearer; after that, the server with  *)
(* the full weight.                                                          *)

Distance(p) == n * p.weight + (n - 1 - p.index)

Descending(k) == Distance(Walk[k]) <= n * wrrParam.weight + n - 1 - k

Seeking(k) ==
    \E r \in 1..k :
        /\ r <= n * wrrParam.weight + n
        /\ Walk[k].index = k - r /\ Walk[k].weight = getMaxWeight
        /\ \A j \in 0..(k - r) : At(j) < getMaxWeight

LEMMA FirstTurn ==
    ASSUME WrrShape, n > 0, 1 \in 1..MaxTurns, Going(Walk[1])
    PROVE  Descending(1) \/ Seeking(1)
<1> DEFINE p == Walk[0]
           q == Walk[1]
           w == wrrParam.weight
<1>1. /\ n \in Nat \ {0} /\ Shape /\ w \in Nat /\ p = wrrParam
      /\ q = Turn(p) /\ q \in Param
  BY Listed, Turns DEF WrrShape
<1>2. /\ q.index = 0 => q.weight = IF w <= 1 THEN getMaxWeight ELSE w - 1
      /\ q.index # 0 => q.weight = w
  BY <1>1, OneTurn DEF WrrShape
<1>3. q.index \in 0..(n - 1) /\ q.weight \in Nat
  BY <1>1 DEF Param
<1>4. At(q.index) < q.weight
  BY <1>1, GoingOn
<1> HIDE DEF p, q, w
<1>5. n * w \in Nat /\ n * (w - 1) = n * w - n
  BY <1>1
<1>6. CASE q.index # 0
  <2>1. n * q.weight + (n - 1 - q.index) <= n * w + n - 1 - 1
    BY <1>1, <1>2, <1>3, <1>5, <1>6
  <2> QED
    BY <2>1 DEF Descending, Distance, q, w
<1>7. CASE q.index = 0 /\ w > 1
  <2>1. n * q.weight + (n - 1 - q.index) <= n * w + n - 1 - 1
    BY <1>1, <1>2, <1>3, <1>5, <1>7
  <2> QED
    BY <2>1 DEF Descending, Distance, q, w
<1>8. CASE q.index = 0 /\ w <= 1
  <2>1. q.weight = getMaxWeight /\ At(0) < getMaxWeight
    BY <1>2, <1>4, <1>8
  <2>2. 1 \in 1..1 /\ 1 <= n * w + n /\ q.index = 1 - 1
    BY <1>1, <1>5, <1>8
  <2>3. \A j \in 0..(1 - 1) : At(j) < getMaxWeight
    BY <2>1
  <2> QED
    BY <2>1, <2>2, <2>3 DEF Seeking, q, w
<1> QED
  BY <1>1, <1>6, <1>7, <1>8

LEMMA LaterTurn ==
    ASSUME WrrShape, n > 0, NEW k \in Nat, k \in 1..MaxTurns, k + 1 \in 1..MaxTurns,
           Going(Walk[k + 1]), Descending(k) \/ Seeking(k)
    PROVE  Descending(k + 1) \/ Seeking(k + 1)
<1> DEFINE p == Walk[k]
           q == Walk[k + 1]
           b == n * wrrParam.weight
           M == getMaxWeight
<1>1. /\ n \in Nat \ {0} /\ Shape /\ wrrParam.weight \in Nat /\ p \in Param
      /\ q = Turn(p) /\ q \in Param /\ MaxTurns \in Nat
  <2>1. (k + 1) - 1 = k
    OBVIOUS
  <2> QED
    BY <2>1, Listed, Turns DEF WrrShape
<1>2. /\ p.index \in 0..(n - 1) /\ p.weight \in Nat /\ p.index >= -1
      /\ p \in [index : Int, weight : Nat]
      /\ q.index \in 0..(n - 1) /\ q.weight \in Nat /\ b \in Nat
  BY <1>1 DEF Param
<1>3. /\ q.index = IF p.index = n - 1 THEN 0 ELSE p.index + 1
      /\ q.index = 0 => q.weight = IF p.weight <= 1 THEN M ELSE p.weight - 1
      /\ q.index # 0 => q.weight = p.weight
  BY <1>1, <1>2, OneTurn
<1>4. At(q.index) < q.weight /\ M \in Nat
  BY <1>1, GoingOn, FullWeight
<1> HIDE DEF p, q, b, M
<1>5. CASE Descending(k)
  <2>1. n * p.weight + (n - 1 - p.index) <= b + n - 1 - k
    BY <1>5 DEF Descending, Distance, p, b
  <2>2. n * p.weight \in Nat /\ n * (p.weight - 1) = n * p.weight - n
    BY <1>1, <1>2
  <2>3. CASE q.index # 0
    <3>1. n * q.weight + (n - 1 - q.index) <= b + n - 1 - (k + 1)
      BY <1>1, <1>2, <1>3, <2>1, <2>2, <2>3
    <3> QED
      BY <3>1 DEF Descending, Distance, q, b
  <2>4. CASE q.index = 0 /\ p.weight > 1
    <3>1. p.index = n - 1 /\ q.weight = p.weight - 1
      BY <1>1, <1>2, <1>3, <2>4
    <3>2. n * q.weight + (n - 1 - q.index) <= b + n - 1 - (k + 1)
      BY <1>1, <1>2, <2>1, <2>2, <2>4, <3>1
    <3> QED
      BY <3>2 DEF Descending, Distance, q, b
  <2>5. CASE q.index = 0 /\ p.weight <= 1
    <3>1. q.weight = M /\ At(0) < M
      BY <1>3, <1>4, <2>5
    <3>2. k + 1 \in 1..(k + 1) /\ k + 1 <= b + n /\ q.index = (k + 1) - (k + 1)
      BY <1>1, <1>2, <2>1, <2>2, <2>5
    <3>3. \A j \in 0..((k + 1) - (k + 1)) : At(j) < M
      BY <3>1
    <3> QED
      BY <3>1, <3>2, <3>3 DEF Seeking, q, b, M
  <2> QED
    BY <1>1, <1>2, <2>3, <2>4, <2>5
<1>6. CASE Seeking(k)
  <2>1. PICK r \in 1..k : /\ r <= b + n /\ p.index = k - r /\ p.weight = M
                          /\ \A j \in 0..(k - r) : At(j) < M
    BY <1>6 DEF Seeking, p, b, M
  <2>2. p.index # n - 1
    <3>1. PICK j \in 0..(n - 1) : At(j) = M
      BY <1>1, FullWeight DEF M
    <3> QED
      BY <1>1, <1>4, <2>1, <3>1
  <2>3. q.index = (k + 1) - r /\ q.weight = M /\ r \in 1..(k + 1)
    BY <1>1, <1>2, <1>3, <2>1, <2>2
  <2>4. \A j \in 0..((k + 1) - r) : At(j) < M
    <3>1. At((k + 1) - r) < M
      BY <1>4, <2>3
    <3>2. \A j \in 0..((k + 1) - r) : j \in 0..(k - r) \/ j = (k + 1) - r
      OBVIOUS
    <3> QED
      BY <2>1, <3>1, <3>2
  <2> QED
    BY <2>1, <2>3, <2>4 DEF Seeking, q, b, M
<1> QED
  BY <1>5, <1>6

LEMMA LoopEnds == ASSUME WrrShape, n > 0 PROVE Ends(Walk) # {}
<1> SUFFICES ASSUME Ends(Walk) = {} PROVE FALSE
  OBVIOUS
<1>1. /\ n \in Nat \ {0} /\ wrrParam.weight \in Nat /\ MaxTurns \in Nat
      /\ MaxTurns = n * wrrParam.weight + 2 * n
      /\ n * wrrParam.weight \in Nat
  <2>1. n \in Nat \ {0} /\ wrrParam.weight \in Nat /\ MaxTurns \in Nat
    BY Listed, Turns DEF WrrShape
  <2>2. \A a, b \in Nat : a * (b + 2) = a * b + 2 * a /\ a * b \in Nat
    OBVIOUS
  <2> QED
    BY <2>1, <2>2 DEF MaxTurns
<1>2. \A k \in 1..MaxTurns : Going(Walk[k])
  BY DEF Ends, Going
<1> DEFINE X == {k \in Nat : k \in 1..MaxTurns => Descending(k) \/ Seeking(k)}
<1>3. 0 \in X
  OBVIOUS
<1>4. ASSUME NEW k \in Nat, k \in X PROVE k + 1 \in X
  <2> SUFFICES ASSUME k + 1 \in 1..MaxTurns PROVE Descending(k + 1) \/ Seeking(k + 1)
    OBVIOUS
  <2>1. CASE k = 0
    <3>1. 1 \in 1..MaxTurns /\ k + 1 = 1
      BY <2>1
    <3> QED
      BY <1>1, <1>2, <3>1, FirstTurn
  <2>2. CASE k # 0
    <3>1. k \in 1..MaxTurns
      BY <1>1, <2>2
    <3> QED
      BY <1>1, <1>2, <1>4, <3>1, LaterTurn
  <2> QED
    BY <2>1, <2>2
<1>5. Nat \subseteq X
  <2> HIDE DEF X
  <2> QED
    BY <1>3, <1>4, Induction
<1>6. MaxTurns \in 1..MaxTurns /\ Walk[MaxTurns] \in Param
  <2>1. MaxTurns \in 1..MaxTurns
    BY <1>1
  <2> QED
    BY <1>1, <2>1, Turns
<1>7. Descending(MaxTurns) \/ Seeking(MaxTurns)
  BY <1>5, <1>6
<1> DEFINE p == Walk[MaxTurns]
<1>8. p.index \in 0..(n - 1) /\ p.weight \in Nat /\ n * p.weight \in Nat
  BY <1>1, <1>6 DEF Param
<1>9. CASE Descending(MaxTurns)
  <2>1. n * p.weight + (n - 1 - p.index) <= n * wrrParam.weight + n - 1 - MaxTurns
    BY <1>9 DEF Descending, Distance
  <2> QED
    BY <1>1, <1>8, <2>1
<1>10. CASE Seeking(MaxTurns)
  <2>1. PICK r \in 1..MaxTurns : r <= n * wrrParam.weight + n /\ p.index = MaxTurns - r
    BY <1>10 DEF Seeking
  <2> QED
    BY <1>1, <1>8, <2>1
<1> QED
  BY <1>7, <1>9, <1>10

-----------------------------------------------------------------------------
(* WEIGHTED ROUND ROBIN IN PROPORTION.  With the loop at position i and       *)
(* weight w, the servers before i are one call ahead of the others, and each *)
(* has had the part of its weight that lies above w.                         *)

Dealt(pk, i, w) ==
    \A j \in 0..(n - 1) :
        pk[servers[j + 1]] = IF At(j) < w THEN 0
                             ELSE At(j) - w + (IF j < i THEN 1 ELSE 0)

Zeros == [s \in Servers |-> 0]
Full  == \A j \in 0..(n - 1) : picks[servers[j + 1]] = At(j)

WRRInv ==
    /\ WrrShape
    /\ routerType = "wrr" /\ round > 0 =>
          /\ n > 0 /\ wrrParam \in Param /\ wrrParam.weight >= 1
          /\ Dealt(picks, wrrParam.index + 1, wrrParam.weight)

LEMMA DealtTurn ==
    ASSUME Shape, n > 0, NEW p \in Param, p.weight >= 1, NEW pk,
           Dealt(pk, p.index + 1, p.weight)
    PROVE  IF Turn(p).index = 0 /\ p.weight <= 1
           THEN \A j \in 0..(n - 1) : pk[servers[j + 1]] = At(j)
           ELSE Turn(p).weight >= 1 /\ Dealt(pk, Turn(p).index, Turn(p).weight)
<1> DEFINE q == Turn(p)
           D(j) == pk[servers[j + 1]]
<1>1. n \in Nat \ {0} /\ p.index \in 0..(n - 1) /\ p.weight \in Nat
      /\ p \in [index : Int, weight : Nat] /\ p.index >= -1
  BY Listed DEF Param
<1>2. /\ q.index = IF p.index = n - 1 THEN 0 ELSE p.index + 1
      /\ q.index = 0 => q.weight = IF p.weight <= 1 THEN getMaxWeight ELSE p.weight - 1
      /\ q.index # 0 => q.weight = p.weight
  BY <1>1, OneTurn
<1>3. \A j \in 0..(n - 1) : At(j) \in Nat
  BY <1>1, Positions
<1>4. \A j \in 0..(n - 1) : D(j) = IF At(j) < p.weight THEN 0
                                   ELSE At(j) - p.weight + (IF j < p.index + 1 THEN 1 ELSE 0)
  BY DEF Dealt
<1> HIDE DEF q, D
<1>5. CASE q.index = 0 /\ p.weight <= 1
  <2>1. \A j \in 0..(n - 1) : D(j) = At(j)
    BY <1>1, <1>2, <1>3, <1>4, <1>5
  <2> QED
    BY <1>5, <2>1 DEF q, D
<1>6. CASE ~(q.index = 0 /\ p.weight <= 1)
  <2>1. q.weight >= 1
    BY <1>1, <1>2, <1>6
  <2>2. \A j \in 0..(n - 1) : D(j) = IF At(j) < q.weight THEN 0
                                     ELSE At(j) - q.weight + (IF j < q.index THEN 1 ELSE 0)
    <3>1. CASE q.index # 0
      BY <1>1, <1>2, <1>3, <1>4, <3>1
    <3>2. CASE q.index = 0
      BY <1>1, <1>2, <1>3, <1>4, <1>6, <3>2
    <3> QED
      BY <3>1, <3>2
  <2> QED
    BY <1>6, <2>1, <2>2 DEF Dealt, q, D
<1> QED
  BY <1>5, <1>6 DEF q, D

(* With the full weight nobody is owed a call that it has had.               *)
LEMMA DealtFull ==
    ASSUME Shape, n > 0 PROVE Dealt(Zeros, 0, getMaxWeight)
<1>1. n \in Nat /\ getMaxWeight \in Nat
  BY Listed, FullWeight
<1>2. ASSUME NEW j \in 0..(n - 1)
      PROVE  /\ Zeros[servers[j + 1]] = 0 /\ At(j) \in Nat /\ At(j) <= getMaxWeight /\ ~(j < 0)
  <2>1. servers[j + 1] \in Servers
    BY <1>1, Positions
  <2> QED
    BY <1>1, <2>1, Positions, FullWeight DEF Zeros
<1> QED
  BY <1>1, <1>2 DEF Dealt

(* Along the walk, with index i for turn k: whether the weight was made full *)
(* again, and who has been served since.                                     *)
Refilled(k) == \E m \in 1..k : Refills(Walk, m)

StandsAt(k, i) ==
    /\ Refilled(k) \/ round > 0 =>
          /\ Walk[k] \in Param /\ Walk[k].weight >= 1
          /\ Dealt(IF Refilled(k) THEN Zeros ELSE picks, i, Walk[k].weight)
    /\ Refilled(k) /\ round > 0 => Full

Standing(k) == StandsAt(k, Walk[k].index)
Passed(k)   == StandsAt(k, Walk[k].index + 1)

LEMMA WalkStart ==
    ASSUME WRRInv, routerType = "wrr", n > 0 PROVE Passed(0)
<1>1. ~Refilled(0)
  BY DEF Refilled
<1>2. Walk[0] = wrrParam
  BY Turns DEF WRRInv
<1> QED
  BY <1>1, <1>2 DEF Passed, StandsAt, WRRInv

LEMMA WalkTurn ==
    ASSUME WRRInv, n > 0, NEW k \in Nat, k + 1 \in 1..MaxTurns, ~Invalid(Walk[k + 1]), Passed(k)
    PROVE  Standing(k + 1)
<1> DEFINE p == Walk[k]
           q == Walk[k + 1]
           M == getMaxWeight
           wraps == q.index = 0 /\ p.weight <= 1
<1>1. /\ Shape /\ WrrShape /\ n \in Nat \ {0} /\ q = Turn(p) /\ q \in Param
      /\ p \in [index : Int, weight : Nat] /\ p.index >= -1
  <2>1. (k + 1) - 1 = k /\ MaxTurns \in Nat /\ WrrShape
    BY Turns DEF WRRInv
  <2>2. p \in [index : Int, weight : Nat] /\ p.index >= -1
    <3>1. CASE k = 0
      BY <2>1, <3>1, Turns DEF WrrShape
    <3>2. CASE k # 0
      <4>1. k \in 1..MaxTurns
        BY <2>1, <3>2
      <4>2. p \in Param
        BY <2>1, <4>1, Turns
      <4> QED
        BY <4>2, Listed, <2>1 DEF Param, WrrShape
    <3> QED
      BY <3>1, <3>2
  <2> QED
    BY <2>1, <2>2, Turns, Listed DEF WrrShape
<1>2. /\ q.index = 0 => q.weight = IF p.weight <= 1 THEN M ELSE p.weight - 1
      /\ q.index \in 0..(n - 1) /\ q.weight \in Nat /\ p.weight \in Nat /\ M \in Nat
  BY <1>1, OneTurn, FullWeight DEF Param
<1>3. q.index = 0 => q.weight >= 1
  BY <1>2 DEF Invalid
<1>4. Refills(Walk, k + 1) <=> wraps
  <2>1. Refills(Walk, k + 1) <=> q.index = 0 /\ q.weight >= p.weight
    BY DEF Refills
  <2> QED
    BY <1>2, <1>3, <2>1
<1>5. Refilled(k + 1) <=> Refilled(k) \/ wraps
  <2>1. \A m \in 1..(k + 1) : m \in 1..k \/ m = k + 1
    OBVIOUS
  <2>2. k + 1 \in 1..(k + 1) /\ 1..k \subseteq 1..(k + 1)
    OBVIOUS
  <2> QED
    BY <1>4, <2>1, <2>2 DEF Refilled
<1> DEFINE pk == IF Refilled(k) THEN Zeros ELSE picks
<1>6. ASSUME Refilled(k) \/ round > 0
      PROVE  IF wraps THEN \A j \in 0..(n - 1) : pk[servers[j + 1]] = At(j)
                      ELSE q.weight >= 1 /\ Dealt(pk, q.index, q.weight)
  BY <1>1, <1>6, DealtTurn DEF Passed, StandsAt
<1>7. CASE wraps
  <2>1. Refilled(k + 1) /\ q.weight = M /\ q.weight >= 1 /\ q.index = 0
    BY <1>2, <1>3, <1>5, <1>7
  <2>2. Dealt(Zeros, q.index, q.weight)
    BY <1>1, <2>1, DealtFull
  <2>3. round > 0 => Full
    BY <1>6, <1>7 DEF Passed, StandsAt, Full
  <2> QED
    BY <1>1, <2>1, <2>2, <2>3 DEF Standing, StandsAt
<1>8. CASE ~wraps
  <2>1. Refilled(k + 1) <=> Refilled(k)
    BY <1>5, <1>8
  <2> QED
    BY <1>1, <1>6, <1>8, <2>1 DEF Passed, Standing, StandsAt
<1> QED
  BY <1>7, <1>8

(* A call: the turn that chooses its server, after others that go on.        *)
LEMMA RoutedWRR ==
    ASSUME WrrShape, RouteWRR
    PROVE  /\ routerType = "wrr" /\ n > 0 /\ UNCHANGED listVars
           /\ \E last \in 1..MaxTurns :
                 /\ \A k \in 1..(last - 1) : Going(Walk[k])
                 /\ Chosen(Walk[last]) /\ wrrParam' = Walk[last]
                 /\ picks' = [t \in Servers |->
                                 (IF Refilled(last) THEN 0 ELSE picks[t])
                                 + (IF t = servers[Walk[last].index + 1] THEN 1 ELSE 0)]
                 /\ round' = IF Refilled(last) THEN round + 1 ELSE round
<1>1. PICK last \in Ends(Walk) :
         /\ \A k \in Ends(Walk) : last <= k
         /\ ~Invalid(Walk[last]) /\ wrrParam' = Walk[last]
         /\ picks' = [t \in Servers |->
                         (IF Refilled(last) THEN 0 ELSE picks[t])
                         + (IF t = servers[Walk[last].index + 1] THEN 1 ELSE 0)]
         /\ round' = IF Refilled(last) THEN round + 1 ELSE round
  BY DEF RouteWRR, Refilled
<1>2. MaxTurns \in Nat
  BY Turns DEF RouteWRR
<1>3. last \in 1..MaxTurns /\ Chosen(Walk[last])
  BY <1>1 DEF Ends
<1>4. ASSUME NEW k \in 1..(last - 1) PROVE Going(Walk[k])
  <2>1. k \in 1..MaxTurns /\ ~(last <= k)
    BY <1>2, <1>3
  <2> QED
    BY <1>1, <2>1 DEF Ends, Going
<1> QED
  BY <1>1, <1>3, <1>4 DEF RouteWRR

(* Where the loop ends the count is as it should be.                         *)
LEMMA WalkStands ==
    ASSUME WRRInv, routerType = "wrr", n > 0, NEW last \in 1..MaxTurns,
           \A k \in 1..(last - 1) : Going(Walk[k]), Chosen(Walk[last])
    PROVE  Standing(last)
<1>0. WrrShape /\ Shape /\ MaxTurns \in Nat
  BY Turns DEF WRRInv, WrrShape
<1> DEFINE X == {k \in Nat : k < last => Passed(k)}
<1>1. 0 \in X
  BY WalkStart
<1>2. ASSUME NEW k \in Nat, k \in X PROVE k + 1 \in X
  <2> SUFFICES ASSUME k + 1 < last PROVE Passed(k + 1)
    OBVIOUS
  <2>1. k + 1 \in 1..(last - 1) /\ k + 1 \in 1..MaxTurns /\ k < last
    BY <1>0
  <2>2. Going(Walk[k + 1])
    BY <2>1
  <2>3. Standing(k + 1)
    BY <1>2, <2>1, <2>2, WalkTurn DEF Going
  <2> DEFINE p == Walk[k + 1]
  <2>4. p \in Param /\ At(p.index) < p.weight
    BY <1>0, <2>1, <2>2, Turns, GoingOn
  <2>5. \A pk : Dealt(pk, p.index, p.weight) => Dealt(pk, p.index + 1, p.weight)
    <3>1. p.index \in 0..(n - 1) /\ n \in Nat
      BY <1>0, <2>4, Listed DEF Param
    <3>2. ASSUME NEW j \in 0..(n - 1), ~(At(j) < p.weight)
          PROVE  (j < p.index) <=> (j < p.index + 1)
      BY <2>4, <3>1, <3>2
    <3> HIDE DEF p
    <3> QED
      BY <3>2 DEF Dealt
  <2> QED
    BY <2>3, <2>5 DEF Standing, Passed, StandsAt
<1>3. Nat \subseteq X
  <2> HIDE DEF X
  <2> QED
    BY <1>1, <1>2, Induction
<1>4. last - 1 \in Nat /\ (last - 1) + 1 = last /\ last - 1 < last
  BY <1>0
<1>5. Passed(last - 1)
  BY <1>3, <1>4
<1> QED
  BY <1>4, <1>5, WalkTurn DEF Chosen

LEMMA WRRCall ==
    ASSUME WRRInv, RouteWRR
    PROVE  WRRInv' /\ (round > 0 /\ round' > round => Full)
<1>0. Shape /\ WrrShape /\ Shape'
  BY ShapeWRR DEF WRRInv, WrrShape
<1>1. PICK last \in 1..MaxTurns :
         /\ \A k \in 1..(last - 1) : Going(Walk[k])
         /\ Chosen(Walk[last]) /\ wrrParam' = Walk[last]
         /\ picks' = [t \in Servers |->
                         (IF Refilled(last) THEN 0 ELSE picks[t])
                         + (IF t = servers[Walk[last].index + 1] THEN 1 ELSE 0)]
         /\ round' = IF Refilled(last) THEN round + 1 ELSE round
  BY <1>0, RoutedWRR
<1>2. routerType = "wrr" /\ n > 0 /\ UNCHANGED <<routerType, servers, weight, n>>
  BY <1>0, RoutedWRR DEF listVars, n
<1>3. Standing(last)
  BY <1>1, <1>2, WalkStands
<1>4. Walk[last] \in Param /\ round \in Nat
  BY <1>0, <1>2, Turns DEF WrrShape
<1> DEFINE p == Walk[last]
           pk == IF Refilled(last) THEN Zeros ELSE picks
<1>5. /\ p.index \in 0..(n - 1) /\ p.weight \in Nat /\ n \in Nat /\ At(p.index) >= p.weight
      /\ \A s \in Servers : pk[s] \in Nat
      /\ \A j \in 0..(n - 1) : servers[j + 1] \in Servers /\ At(j) \in Nat
      /\ \A j \in 0..(n - 1) : servers[j + 1] = servers[p.index + 1] => j = p.index
  BY <1>0, <1>1, <1>2, <1>4, Listed, Positions DEF Param, Chosen, At, Zeros, Shape, Counters
<1>6. picks' = [t \in Servers |-> pk[t] + (IF t = servers[p.index + 1] THEN 1 ELSE 0)]
  BY <1>1 DEF Zeros
<1>7. ASSUME round' > 0 PROVE p.weight >= 1 /\ Dealt(pk, p.index, p.weight)
  <2>1. Refilled(last) \/ round > 0
    BY <1>1, <1>7
  <2> QED
    BY <1>3, <2>1 DEF Standing, StandsAt
<1> HIDE DEF p, pk
<1>8. ASSUME round' > 0 PROVE Dealt(picks', p.index + 1, p.weight)
  <2>1. \A j \in 0..(n - 1) :
           picks'[servers[j + 1]] = pk[servers[j + 1]] + (IF j = p.index THEN 1 ELSE 0)
    BY <1>5, <1>6
  <2>2. \A j \in 0..(n - 1) :
           pk[servers[j + 1]] = IF At(j) < p.weight THEN 0
                                ELSE At(j) - p.weight + (IF j < p.index THEN 1 ELSE 0)
    BY <1>7, <1>8 DEF Dealt
  <2> QED
    BY <1>5, <2>1, <2>2 DEF Dealt
<1>9. round > 0 /\ round' > round => Full
  <2>1. round' > round => Refilled(last)
    BY <1>1, <1>4
  <2> QED
    BY <1>3, <2>1 DEF Standing, StandsAt
<1>10. wrrParam' = p /\ round' \in Nat /\ p \in Param
  BY <1>1, <1>4 DEF p
<1>11. WrrShape'
  <2>1. p \in [index : Int, weight : Nat] /\ p.index >= -1
    BY <1>5, <1>10 DEF Param
  <2> QED
    BY <1>0, <1>10, <2>1 DEF WrrShape
<1>12. round' > 0 => (n > 0 /\ wrrParam \in Param /\ wrrParam.weight >= 1
                      /\ Dealt(picks, wrrParam.index + 1, wrrParam.weight))'
  <2>1. Param' = Param
    BY <1>2 DEF Param
  <2>2. ASSUME Dealt(picks', p.index + 1, p.weight)
        PROVE  Dealt(picks, wrrParam.index + 1, wrrParam.weight)'
    BY <1>2, <1>10, <2>2 DEF Dealt, At
  <2> QED
    BY <1>2, <1>7, <1>8, <1>10, <2>1, <2>2
<1> QED
  BY <1>9, <1>11, <1>12 DEF WRRInv

LEMMA WRRStep == WRRInv /\ [ClientNext]_allVars => WRRInv'
<1> SUFFICES ASSUME WRRInv, [ClientNext]_allVars PROVE WRRInv'
  OBVIOUS
<1>0. Shape' /\ WrrShape
  BY ShapeStep DEF WRRInv, WrrShape
<1>1. CASE RouteWRR
  BY <1>1, WRRCall
<1>2. ASSUME UNCHANGED wrrParam, round' \in {0, round},
             routerType' = "wrr" /\ round' > 0 =>
                UNCHANGED <<routerType, servers, weight, picks, round>>
      PROVE  WRRInv'
  <2>1. WrrShape'
    BY <1>0, <1>2 DEF WrrShape
  <2> QED
    BY <1>2, <2>1 DEF WRRInv, Param, Dealt, At, n
<1>3. ASSUME ClientNext, ~RouteWRR
      PROVE  /\ UNCHANGED wrrParam /\ round' \in {0, round}
             /\ \/ round' = 0 \/ routerType' # "wrr"
                \/ UNCHANGED <<routerType, servers, weight, picks, round>>
  BY <1>3 DEF ClientNext, Next, ChangeList, Reweigh, RouteRR, RouteLA, CallBack, paramVars,
       listVars, histVars, ChRoute, AddServer, RemoveServer, vars
<1>4. CASE UNCHANGED allVars
  BY <1>2, <1>4 DEF allVars, vars, listVars, paramVars, histVars
<1>5. CASE ClientNext /\ ~RouteWRR
  <2>1. ~(0 > 0)
    OBVIOUS
  <2> QED
    BY <1>2, <1>3, <1>5, <2>1
<1> QED
  BY <1>1, <1>4, <1>5

LEMMA WRRInit == ClientInit => WRRInv
<1> SUFFICES ASSUME ClientInit PROVE WRRInv
  OBVIOUS
<1>1. Shape
  BY ShapeInit
<1>2. wrrParam = [index |-> -1, weight |-> 0] /\ round = 0
  BY DEF ClientInit, Init
<1> QED
  BY <1>1, <1>2 DEF WRRInv, WrrShape

(* The loop of wrr ends (router.ts:126-151): WrrEnds, for every list, all    *)
(* weights and every stored parameter that the program can reach.            *)
THEOREM WrrLoopEnds == ClientSpec => []WrrEnds
<1>1. WRRInv => WrrEnds
  BY LoopEnds DEF WRRInv, WrrEnds
<1> QED
  BY <1>1, WRRInit, WRRStep, PTL DEF ClientSpec

(* From one full weight to the next each server gets its weight in calls     *)
(* (router.ts:126-151): WrrProportional.                                     *)
THEOREM WeightsAreDealt == ClientSpec => WrrProportional
<1>1. WRRInv /\ [ClientNext]_allVars =>
         [routerType = "wrr" /\ round > 0 /\ round' > round =>
            \A s \in Range(servers) : picks[s] = weight[s]]_vars
  <2> SUFFICES ASSUME WRRInv, [ClientNext]_allVars, routerType = "wrr", round > 0,
                      round' > round, NEW s \in Range(servers)
               PROVE  picks[s] = weight[s]
    OBVIOUS
  <2>1. Shape /\ round \in Nat
    BY DEF WRRInv, WrrShape
  <2>2. RouteWRR
    BY <2>1 DEF allVars, vars, histVars, ClientNext, Next, ChangeList, Reweigh, RouteRR,
         RouteLA, ChRoute, AddServer, RemoveServer
  <2>3. Full
    BY <2>2, WRRCall
  <2>4. PICK i \in 1..n : s = servers[i]
    BY <2>1, Listed
  <2>5. n \in Nat /\ i - 1 \in 0..(n - 1) /\ (i - 1) + 1 = i
    BY <2>1, Listed
  <2> QED
    BY <2>3, <2>4, <2>5 DEF Full, At
<1> QED
  BY <1>1, WRRInit, WRRStep, PTL DEF ClientSpec, WrrProportional

-----------------------------------------------------------------------------
(* THE RING.  Its keys are those of whole servers, and the list of keys has  *)
(* exactly these, in order.                                                  *)

Increasing(q) == \A i, j \in DOMAIN q : i < j => q[i] < q[j]

(* The numbers of a finite set, in order. *)
LEMMA SortedShape ==
    ASSUME NEW P \in SUBSET Int, IsFiniteSet(P)
    PROVE  /\ Cardinality(P) \in Nat
           /\ DOMAIN Sorted(P) = 1..Cardinality(P) /\ Sorted(P) \in [1..Cardinality(P) -> P]
           /\ Range(Sorted(P)) = P /\ Increasing(Sorted(P))
<1> DEFINE N == Cardinality(P)
           Below(k) == {j \in P : j < k}
           rank == [k \in P |-> Cardinality(Below(k)) + 1]
           q == Sorted(P)
<1>1. N \in Nat
  BY FS_CardinalityType
<1>2. ASSUME NEW k \in P
      PROVE  /\ IsFiniteSet(Below(k)) /\ Cardinality(Below(k)) \in Nat
             /\ Cardinality(Below(k)) < N
  <2>1. Below(k) \in SUBSET P /\ Below(k) # P
    OBVIOUS
  <2> QED
    BY <1>1, <2>1, FS_Subset, FS_CardinalityType
<1>3. ASSUME NEW k \in P, NEW m \in P, k < m
      PROVE  rank[k] < rank[m]
  <2>1. Below(k) \in SUBSET Below(m) /\ k \in Below(m) /\ k \notin Below(k)
    <3>1. ~(k < k) /\ k < m /\ \A j \in P : j < k => j < m
      BY <1>3
    <3>2. \A j \in Below(k) : j \in Below(m)
      BY <3>1
    <3> QED
      BY <3>1, <3>2
  <2>2. IsFiniteSet(Below(m)) /\ Cardinality(Below(k)) \in Nat /\ Cardinality(Below(m)) \in Nat
    BY <1>2
  <2>3. Cardinality(Below(k)) # Cardinality(Below(m))
    BY <2>1, <2>2, FS_Subset
  <2>4. Cardinality(Below(k)) <= Cardinality(Below(m))
    BY <2>1, <2>2, FS_Subset
  <2> HIDE DEF Below
  <2> QED
    BY <2>2, <2>3, <2>4
<1>4. \A k \in P : rank[k] \in 1..N /\ rank[k] - 1 = Cardinality(Below(k))
  <2> HIDE DEF Below
  <2> QED
    BY <1>1, <1>2
<1>5. \A k, m \in P : rank[k] = rank[m] => k = m
  <2> SUFFICES ASSUME NEW k \in P, NEW m \in P, rank[k] = rank[m], k # m PROVE FALSE
    OBVIOUS
  <2>1. k < m \/ m < k
    OBVIOUS
  <2>2. rank[k] \in Int /\ rank[m] \in Int /\ (rank[k] < rank[m] \/ rank[m] < rank[k])
    BY <1>3, <1>4, <2>1
  <2> HIDE DEF rank
  <2> QED
    BY <2>2
<1>6. rank \in Injection(P, 1..N)
  BY <1>4, <1>5 DEF Injection, IsInjective
<1>7. \A i \in 1..N : \E k \in P : rank[k] = i
  <2>1. IsFiniteSet(1..N) /\ Cardinality(1..N) = N
    BY <1>1, FS_Interval
  <2>2. rank \in Surjection(P, 1..N)
    <3> HIDE DEF rank
    <3> QED
      BY <1>6, <2>1, FS_Injection
  <2> QED
    BY <2>2 DEF Surjection
<1>8. ASSUME NEW i \in 1..N PROVE q[i] \in P /\ rank[q[i]] = i
  <2>1. q[i] = CHOOSE k \in P : Cardinality(Below(k)) = i - 1
    BY DEF Sorted
  <2>2. \E k \in P : Cardinality(Below(k)) = i - 1
    <3>1. PICK k \in P : rank[k] = i
      BY <1>7
    <3>2. Cardinality(Below(k)) = i - 1
      BY <1>4, <3>1
    <3> QED
      BY <3>2
  <2>3. q[i] \in P /\ Cardinality(Below(q[i])) = i - 1
    BY <2>1, <2>2
  <2> HIDE DEF q, Below
  <2> QED
    BY <2>3
<1>9. DOMAIN q = 1..N /\ q = [i \in 1..N |-> q[i]]
  BY DEF Sorted
<1> HIDE DEF rank, q
<1>10. Range(q) = P
  <2>1. ASSUME NEW k \in P PROVE k \in Range(q)
    <3>1. rank[k] \in 1..N /\ q[rank[k]] = k
      BY <1>4, <1>5, <1>8
    <3> QED
      BY <1>9, <3>1 DEF Range
  <2> QED
    BY <1>8, <1>9, <2>1 DEF Range
<1>11. Increasing(q)
  <2> SUFFICES ASSUME NEW i \in 1..N, NEW j \in 1..N, i < j PROVE q[i] < q[j]
    BY <1>9 DEF Increasing
  <2>1. q[i] \in Int /\ q[j] \in Int /\ q[i] \in P /\ q[j] \in P
    BY <1>8
  <2>2. q[i] = q[j] \/ q[j] < q[i] => ~(i < j)
    BY <1>3, <1>8, <2>1
  <2> QED
    BY <2>1, <2>2
<1> QED
  BY <1>1, <1>8, <1>9, <1>10, <1>11 DEF q

(* A list of keys, perhaps with some of them doubled, in order: D are the keys. *)
Ordered(q) == \A i, j \in DOMAIN q : i < j => q[i] <= q[j]

KeysOK(ks, D) ==
    /\ D \in SUBSET Points
    /\ Len(ks) \in Nat /\ Cardinality(D) \in Nat /\ Cardinality(D) <= Len(ks)
    /\ DOMAIN ks = 1..Len(ks)
    /\ ks \in [1..Len(ks) -> D] /\ Range(ks) = D /\ Ordered(ks)

LEMMA SetOfPoints ==
    ASSUME NEW D \in SUBSET Points
    PROVE  IsFiniteSet(D) /\ D \in SUBSET Int /\ D \in SUBSET Nat
<1>1. MaxPoint \in Nat
  BY PointsAssumption DEF PointsAssumption
<1>2. IsFiniteSet(Points) /\ Points \subseteq Int /\ Points \subseteq Nat
  BY <1>1, FS_Interval DEF Points
<1> QED
  BY <1>2, FS_Subset

(* A list in order of the elements of D has at least as many places.         *)
LEMMA ListOfKeys ==
    ASSUME NEW D \in SUBSET Points, NEW L \in Nat, NEW q \in [1..L -> D],
           \A k \in D : \E i \in 1..L : q[i] = k, \A i, j \in 1..L : i < j => q[i] <= q[j]
    PROVE  KeysOK(q, D)
<1>1. DOMAIN q = 1..L /\ Len(q) = L
  <2>1. q \in Seq(D) /\ DOMAIN q = 1..L
    OBVIOUS
  <2> QED
    BY <2>1
<1>2. Range(q) = D
  <2>1. Range(q) = {q[i] : i \in 1..L}
    BY <1>1 DEF Range
  <2>2. \A i \in 1..L : q[i] \in D
    OBVIOUS
  <2> QED
    BY <2>1, <2>2
<1>3. IsFiniteSet(1..L) /\ Cardinality(1..L) = L
  BY FS_Interval
<1>4. q \in Surjection(1..L, D)
  BY DEF Surjection
<1>5. Cardinality(D) <= L
  BY <1>3, <1>4, FS_Surjection
<1>6. Cardinality(D) \in Nat
  BY SetOfPoints, FS_CardinalityType
<1>7. Ordered(q)
  BY <1>1 DEF Ordered
<1> QED
  BY <1>1, <1>2, <1>5, <1>6, <1>7 DEF KeysOK

(* Of a set of points that is not empty one is the highest. *)
LEMMA HighestPoint ==
    ASSUME NEW D \in SUBSET Points, D # {}
    PROVE  \E k \in D : \A j \in D : j <= k
<1> DEFINE X == {MaxPoint - k : k \in D}
<1>1. MaxPoint \in Nat /\ \A k \in D : k \in Nat /\ k <= MaxPoint
  BY PointsAssumption DEF PointsAssumption, Points
<1>2. X \in SUBSET Nat /\ X # {}
  BY <1>1
<1>3. PICK m \in X : \A x \in X : m <= x
  <2> HIDE DEF X
  <2> QED
    BY <1>2, LeastNumber
<1>4. PICK k \in D : m = MaxPoint - k
  BY <1>3
<1>5. \A j \in D : MaxPoint - k <= MaxPoint - j
  BY <1>3, <1>4
<1> QED
  BY <1>1, <1>5

(* The keys with those of P pushed are in order, and are these and no others. *)
LEMMA PushedOK ==
    ASSUME NEW D \in SUBSET Points, KeysOK(keys, D), NEW P \in SUBSET Points
    PROVE  KeysOK(Pushed(P), D \cup P)
<1> DEFINE all == D \cup P
           I(k) == {i \in DOMAIN keys : keys[i] <= k}
           J(k) == {j \in P : j <= k}
           upto(k) == Cardinality(I(k)) + Cardinality(J(k))
           L == Len(keys) + Cardinality(P)
           q == Pushed(P)
<1>1. /\ Len(keys) \in Nat /\ DOMAIN keys = 1..Len(keys) /\ Range(keys) = D
      /\ \A i \in DOMAIN keys : keys[i] \in D
      /\ \A k \in D : \E i \in DOMAIN keys : keys[i] = k
  BY DEF KeysOK, Range
<1>2. /\ IsFiniteSet(DOMAIN keys) /\ Cardinality(DOMAIN keys) = Len(keys)
      /\ IsFiniteSet(P) /\ Cardinality(P) \in Nat
  <2>1. \A m \in Nat : IsFiniteSet(1..m) /\ Cardinality(1..m) = m
    BY FS_Interval
  <2>2. IsFiniteSet(P)
    BY SetOfPoints
  <2>3. Cardinality(P) \in Nat
    BY <2>2, FS_CardinalityType
  <2> QED
    BY <1>1, <2>1, <2>2, <2>3
<1>3. all \in SUBSET Points /\ all \in SUBSET Nat /\ \A k \in all : k \in Int
  <2>1. all \in SUBSET Points
    OBVIOUS
  <2> HIDE DEF all
  <2> QED
    BY <2>1, SetOfPoints
<1>4. ASSUME NEW k
      PROVE  /\ IsFiniteSet(I(k)) /\ Cardinality(I(k)) \in Nat
             /\ IsFiniteSet(J(k)) /\ Cardinality(J(k)) \in Nat
             /\ upto(k) \in Nat
  <2>1. I(k) \in SUBSET (DOMAIN keys) /\ J(k) \in SUBSET P
    OBVIOUS
  <2>2. /\ IsFiniteSet(I(k)) /\ Cardinality(I(k)) \in Nat
        /\ IsFiniteSet(J(k)) /\ Cardinality(J(k)) \in Nat
    BY <1>2, <2>1, FS_Subset, FS_CardinalityType
  <2> HIDE DEF I, J
  <2> QED
    BY <2>2
<1>5. ASSUME NEW j \in all, NEW k \in all, j < k PROVE upto(j) < upto(k)
  <2>1. \A x \in all : x <= j => x <= k
    BY <1>3, <1>5
  <2>2. I(j) \in SUBSET I(k) /\ J(j) \in SUBSET J(k)
    BY <1>1, <2>1
  <2>3. I(j) # I(k) \/ J(j) # J(k)
    <3>1. k <= k /\ ~(k <= j)
      BY <1>3, <1>5
    <3>2. CASE k \in P
      BY <3>1, <3>2
    <3>3. CASE k \in D
      <4>1. PICK i \in DOMAIN keys : keys[i] = k
        BY <1>1, <3>3
      <4>2. i \in I(k) /\ i \notin I(j)
        BY <3>1, <4>1
      <4> QED
        BY <4>2
    <3> QED
      BY <3>2, <3>3
  <2>4. /\ Cardinality(I(j)) <= Cardinality(I(k)) /\ Cardinality(J(j)) <= Cardinality(J(k))
        /\ Cardinality(I(j)) # Cardinality(I(k)) \/ Cardinality(J(j)) # Cardinality(J(k))
    <3> HIDE DEF I, J
    <3> QED
      BY <1>4, <2>2, <2>3, FS_Subset
  <2>5. /\ Cardinality(I(j)) \in Nat /\ Cardinality(I(k)) \in Nat
        /\ Cardinality(J(j)) \in Nat /\ Cardinality(J(k)) \in Nat
    BY <1>4
  <2> HIDE DEF I, J
  <2> QED
    BY <2>4, <2>5
<1>6. ASSUME all # {} PROVE \E k \in all : upto(k) = L
  <2>1. PICK k \in all : \A j \in all : j <= k
    BY <1>3, <1>6, HighestPoint
  <2>2. I(k) = DOMAIN keys /\ J(k) = P
    BY <1>1, <2>1
  <2> HIDE DEF I, J, all
  <2> QED
    BY <1>2, <2>2
<1>7. L \in Nat /\ (all = {} => L = 0)
  <2>1. all = {} => Len(keys) = 0 /\ P = {}
    BY <1>1
  <2> QED
    BY <1>1, <1>2, <2>1, FS_EmptySet
<1>8. q = [i \in 1..L |-> CHOOSE k \in all : i <= upto(k) /\ \A j \in all : j < k => upto(j) < i]
  BY <1>1 DEF Pushed
<1> HIDE DEF q, L, upto, I, J
<1>9. ASSUME NEW i \in 1..L
      PROVE  q[i] \in all /\ i <= upto(q[i]) /\ \A j \in all : j < q[i] => upto(j) < i
  <2> DEFINE X == {k \in all : i <= upto(k)}
  <2>1. X \in SUBSET Nat
    BY <1>3
  <2>2. X # {}
    BY <1>6, <1>7
  <2>3. PICK k \in X : \A j \in X : k <= j
    <3> HIDE DEF X
    <3> QED
      BY <2>1, <2>2, LeastNumber
  <2>4. ASSUME NEW j \in all, j < k PROVE upto(j) < i
    <3>1. ~(k <= j)
      BY <1>3, <2>4
    <3>2. ~(i <= upto(j)) /\ upto(j) \in Nat
      BY <1>4, <2>3, <3>1
    <3> QED
      BY <1>7, <3>2
  <2> QED
    BY <1>8, <2>3, <2>4
<1>10. ASSUME NEW k \in all PROVE upto(k) \in 1..L /\ q[upto(k)] = k
  <2>1. upto(k) \in Nat /\ upto(k) <= L
    <3>1. I(k) \in SUBSET (DOMAIN keys) /\ J(k) \in SUBSET P
      BY DEF I, J
    <3>2. Cardinality(I(k)) <= Len(keys) /\ Cardinality(J(k)) <= Cardinality(P)
      BY <1>2, <3>1, FS_Subset
    <3> QED
      BY <1>1, <1>2, <1>4, <3>2 DEF upto, L
  <2>2. upto(k) # 0
    <3>1. CASE k \in P
      <4>1. k \in J(k)
        BY <1>3, <3>1 DEF J
      <4> QED
        BY <1>4, <4>1, FS_EmptySet DEF upto
    <3>2. CASE k \in D
      <4>1. PICK i \in DOMAIN keys : keys[i] = k
        BY <1>1, <3>2
      <4>2. i \in I(k)
        BY <1>3, <4>1 DEF I
      <4> QED
        BY <1>4, <4>2, FS_EmptySet DEF upto
    <3> QED
      BY <3>1, <3>2
  <2>3. upto(k) \in 1..L
    BY <1>7, <2>1, <2>2
  <2>4. PICK i \in 1..L : i = upto(k)
    BY <2>3
  <2>5. q[i] \in all /\ i <= upto(q[i]) /\ \A j \in all : j < q[i] => upto(j) < i
    BY <1>9
  <2>6. ~(k < q[i])
    BY <1>7, <2>1, <2>4, <2>5
  <2>7. ~(q[i] < k)
    <3> SUFFICES ASSUME q[i] < k PROVE FALSE
      OBVIOUS
    <3>1. upto(q[i]) < i
      BY <1>5, <2>4, <2>5
    <3> QED
      BY <1>4, <1>7, <2>5, <3>1
  <2> QED
    BY <1>3, <2>3, <2>4, <2>5, <2>6, <2>7
<1>11. ASSUME NEW i \in 1..L, NEW j \in 1..L, i < j PROVE q[i] <= q[j]
  <2> SUFFICES ASSUME q[j] < q[i] PROVE FALSE
    BY <1>3, <1>9
  <2>1. upto(q[j]) < i /\ j <= upto(q[j]) /\ upto(q[j]) \in Nat
    BY <1>4, <1>9
  <2> QED
    BY <1>7, <1>11, <2>1
<1>12. q \in [1..L -> all]
  BY <1>8, <1>9
<1> QED
  BY <1>3, <1>7, <1>10, <1>11, <1>12, ListOfKeys DEF q

(* So are those that are left when some have been spliced.                   *)
LEMMA SplicedOK ==
    ASSUME NEW D \in SUBSET Points, KeysOK(keys, D), NEW P
    PROVE  KeysOK(Spliced(P), D \ P)
<1> DEFINE J == {j \in DOMAIN keys : keys[j] \notin P}
           r == Sorted(J)
           N == Cardinality(J)
           q == Spliced(P)
<1>1. J \in SUBSET Int /\ IsFiniteSet(J)
  <2>1. J \in SUBSET (1..Len(keys)) /\ Len(keys) \in Nat
    BY DEF KeysOK
  <2>2. IsFiniteSet(1..Len(keys))
    BY <2>1, FS_Interval
  <2> QED
    BY <2>1, <2>2, FS_Subset
<1>2. N \in Nat /\ DOMAIN r = 1..N /\ r \in [1..N -> J] /\ Range(r) = J /\ Increasing(r)
  BY <1>1, SortedShape
<1>3. q = [i \in DOMAIN r |-> keys[r[i]]]
  BY DEF Spliced
<1> HIDE DEF r, q
<1>4. \A i \in 1..N : q[i] = keys[r[i]] /\ r[i] \in J
  BY <1>2, <1>3
<1>5. /\ \A k \in D : \E j \in DOMAIN keys : keys[j] = k
      /\ \A j \in DOMAIN keys : keys[j] \in D
      /\ \A i, j \in DOMAIN keys : i < j => keys[i] <= keys[j]
  BY DEF KeysOK, Range, Ordered
<1>6. \A i \in 1..N : q[i] \in D \ P
  BY <1>4, <1>5
<1>7. ASSUME NEW k \in D \ P PROVE \E i \in 1..N : q[i] = k
  <2>1. PICK j \in J : keys[j] = k
    BY <1>5
  <2>2. PICK i \in 1..N : r[i] = j
    BY <1>2 DEF Range
  <2> QED
    BY <1>4, <2>1, <2>2
<1>8. \A i, j \in 1..N : i < j => q[i] <= q[j]
  BY <1>2, <1>4, <1>5 DEF Increasing
<1>9. q \in [1..N -> D \ P] /\ D \ P \in SUBSET Points
  BY <1>2, <1>3, <1>6
<1> QED
  BY <1>2, <1>7, <1>8, <1>9, ListOfKeys DEF q

RingOK ==
    /\ DOMAIN ring \in SUBSET Points /\ ring \in [DOMAIN ring -> Servers]
    /\ \A k \in DOMAIN ring :
          k \in KeysOf(ring[k]) /\ KeysOf(ring[k]) \subseteq DOMAIN ring

HashOK ==
    /\ hash \in [Servers \X (1..Replicas) -> Points]
    /\ \A x, y \in DOMAIN hash : hash[x] = hash[y] => x = y

(* The other routers make no ring. *)
NoRing == routerType # "ch" => ring = << >>

RingInv ==
    /\ Shape
    /\ routerType = "ch" =>
          /\ HashOK /\ RingOK /\ KeysOK(keys, DOMAIN ring)
          /\ built \in BOOLEAN /\ (~built => ring = << >>)

(* A digest is that of one replica of one server.                            *)
LEMMA OneOwner ==
    ASSUME HashOK, NEW s \in Servers
    PROVE  /\ KeysOf(s) \in SUBSET Points
           /\ \A t \in Servers : \A k : k \in KeysOf(s) /\ k \in KeysOf(t) => s = t
<1>1. \A t \in Servers, i \in 1..Replicas : <<t, i>> \in DOMAIN hash /\ hash[t, i] \in Points
  BY DEF HashOK
<1>2. ASSUME NEW t \in Servers, NEW i \in 1..Replicas, NEW j \in 1..Replicas, hash[s, i] = hash[t, j]
      PROVE  s = t
  BY <1>1, <1>2 DEF HashOK
<1> QED
  BY <1>1, <1>2 DEF KeysOf

LEMMA EmptyRing ==
    /\ DOMAIN << >> = {}
    /\ \A r \in [{} -> Servers] : r = << >>
  OBVIOUS

LEMMA NoKeys == KeysOK(<< >>, {})
<1>1. Cardinality({}) = 0 /\ 1..0 = {} /\ DOMAIN << >> = {} /\ << >> \in [{} -> {}]
  BY FS_EmptySet, EmptyRing
<1>2. Range(<< >>) = {} /\ Ordered(<< >>) /\ Len(<< >>) = 0
  BY <1>1 DEF Range, Ordered
<1> QED
  BY <1>1, <1>2 DEF KeysOK

(* Servers are placed, some of them perhaps again.                           *)
LEMMA NodesAdded ==
    ASSUME HashOK, RingOK, KeysOK(keys, DOMAIN ring), NEW N \in SUBSET Servers, addNodes(N)
    PROVE  LET P == UNION {KeysOf(v) : v \in N} IN
           /\ DOMAIN ring' = DOMAIN ring \cup P /\ P \in SUBSET Points
           /\ \A k \in P : ring'[k] \in N /\ k \in KeysOf(ring'[k])
           /\ \A k \in DOMAIN ring \ P : ring'[k] = ring[k]
           /\ KeysOK(keys', DOMAIN ring')
           /\ ring' = [k \in DOMAIN ring' |-> ring'[k]]
<1> DEFINE P == UNION {KeysOf(v) : v \in N}
<1>1. P \in SUBSET Points
  BY OneOwner
<1>2. ring' = [k \in DOMAIN ring \cup P |->
                 IF k \in P THEN CHOOSE v \in N : k \in KeysOf(v) ELSE ring[k]]
  BY DEF addNodes, Placed
<1>3. \A k \in P : \E v \in N : k \in KeysOf(v)
  OBVIOUS
<1>4. keys' = Pushed(P)
  BY DEF addNodes
<1>5. KeysOK(Pushed(P), DOMAIN ring \cup P)
  BY <1>1, PushedOK DEF RingOK
<1> HIDE DEF P
<1>6. DOMAIN ring' = DOMAIN ring \cup P /\ ring' = [k \in DOMAIN ring' |-> ring'[k]]
  BY <1>2
<1>7. \A k \in P : ring'[k] \in N /\ k \in KeysOf(ring'[k])
  BY <1>2, <1>3
<1> QED
  BY <1>1, <1>2, <1>4, <1>5, <1>6, <1>7 DEF P

LEMMA RingAdds ==
    ASSUME HashOK, RingOK, KeysOK(keys, DOMAIN ring), NEW N \in SUBSET Servers, addNodes(N),
           UNCHANGED hash
    PROVE  HashOK' /\ RingOK' /\ KeysOK(keys', DOMAIN ring')
<1> DEFINE P == UNION {KeysOf(v) : v \in N}
<1>1. /\ DOMAIN ring' = DOMAIN ring \cup P /\ P \in SUBSET Points
      /\ \A k \in P : ring'[k] \in N /\ k \in KeysOf(ring'[k])
      /\ \A k \in DOMAIN ring \ P : ring'[k] = ring[k]
      /\ KeysOK(keys', DOMAIN ring') /\ ring' = [k \in DOMAIN ring' |-> ring'[k]]
  BY NodesAdded
<1>2. \A s : KeysOf(s)' = KeysOf(s)
  BY DEF KeysOf
<1>3. \A v \in N : KeysOf(v) \subseteq P
  OBVIOUS
<1> HIDE DEF P
<1>4. \A k \in DOMAIN ring' : /\ ring'[k] \in Servers /\ k \in KeysOf(ring'[k])
                              /\ KeysOf(ring'[k]) \subseteq DOMAIN ring'
  BY <1>1, <1>3 DEF RingOK
<1>5. DOMAIN ring' \in SUBSET Points
  BY <1>1 DEF RingOK
<1>6. ring' \in [DOMAIN ring' -> Servers]
  BY <1>1, <1>4
<1>7. RingOK'
  BY <1>2, <1>4, <1>5, <1>6 DEF RingOK
<1> QED
  BY <1>1, <1>7 DEF HashOK

LEMMA RingRemoves ==
    ASSUME HashOK, RingOK, KeysOK(keys, DOMAIN ring), NEW s \in Servers, removeNode(s),
           UNCHANGED hash
    PROVE  /\ HashOK' /\ RingOK' /\ KeysOK(keys', DOMAIN ring')
           /\ DOMAIN ring' = DOMAIN ring \ KeysOf(s)
           /\ \A k \in DOMAIN ring' : ring'[k] = ring[k]
           /\ \A k \in DOMAIN ring \ DOMAIN ring' : ring[k] = s
<1>1. ring' = [k \in DOMAIN ring \ KeysOf(s) |-> ring[k]] /\ keys' = Spliced(KeysOf(s))
  BY DEF removeNode
<1>2. DOMAIN ring' = DOMAIN ring \ KeysOf(s) /\ \A k \in DOMAIN ring' : ring'[k] = ring[k]
  BY <1>1
<1>3. KeysOK(keys', DOMAIN ring')
  BY <1>1, <1>2, SplicedOK DEF RingOK
<1>4. \A t : KeysOf(t)' = KeysOf(t)
  BY DEF KeysOf
<1>5. \A k \in DOMAIN ring : ring[k] \in Servers /\ k \in KeysOf(ring[k])
                             /\ KeysOf(ring[k]) \subseteq DOMAIN ring
  BY DEF RingOK
<1>6. ASSUME NEW k \in DOMAIN ring'
      PROVE  /\ ring'[k] \in Servers /\ k \in KeysOf(ring'[k])
             /\ KeysOf(ring'[k]) \subseteq DOMAIN ring'
  <2>1. k \in DOMAIN ring /\ k \notin KeysOf(s) /\ ring'[k] = ring[k] /\ ring[k] # s
    BY <1>2, <1>5
  <2> QED
    BY <1>2, <1>5, <2>1, OneOwner
<1>7. \A k \in DOMAIN ring \ DOMAIN ring' : ring[k] = s
  BY <1>2, <1>5, OneOwner
<1>8. RingOK'
  <2>1. DOMAIN ring' \in SUBSET Points
    BY <1>2 DEF RingOK
  <2>2. ring' \in [DOMAIN ring' -> Servers]
    BY <1>1, <1>2, <1>5
  <2> QED
    BY <1>4, <1>6, <2>1, <2>2 DEF RingOK
<1> QED
  BY <1>2, <1>3, <1>7, <1>8 DEF HashOK

LEMMA RingInitial == ClientInit => RingInv
<1> SUFFICES ASSUME ClientInit, routerType = "ch"
             PROVE  /\ HashOK /\ RingOK /\ KeysOK(keys, DOMAIN ring)
                    /\ built \in BOOLEAN /\ (~built => ring = << >>)
  BY ShapeInit DEF RingInv
<1>1. RingInit
  BY DEF ClientInit
<1>2. ring = << >> /\ keys = << >> /\ built = FALSE /\ HashOK
  BY <1>1 DEF RingInit, HashOK
<1>3. DOMAIN ring = {} /\ ring \in [{} -> Servers]
  BY <1>2, EmptyRing
<1> QED
  BY <1>2, <1>3, NoKeys DEF RingOK

LEMMA SameRouter == [ClientNext]_allVars => UNCHANGED routerType
  BY DEF ClientNext, Next, ChangeList, Reweigh, RouteRR, RouteWRR, RouteLA, CallBack,
     listVars, ChRoute, AddServer, RemoveServer, allVars, vars

LEMMA RingStep == RingInv /\ [ClientNext]_allVars => RingInv'
<1> SUFFICES ASSUME RingInv, [ClientNext]_allVars, routerType' = "ch"
             PROVE  (HashOK /\ RingOK /\ KeysOK(keys, DOMAIN ring)
                     /\ built \in BOOLEAN /\ (~built => ring = << >>))'
  BY ShapeStep DEF RingInv
<1>1. routerType = "ch"
  BY SameRouter
<1>2. /\ HashOK /\ RingOK /\ KeysOK(keys, DOMAIN ring) /\ Shape
      /\ built \in BOOLEAN /\ (~built => ring = << >>)
  BY <1>1 DEF RingInv
<1>3. CASE UNCHANGED <<hash, ringVars>>
  <2>1. UNCHANGED <<hash, built, ring, keys>>
    BY <1>3 DEF ringVars
  <2>2. HashOK' /\ KeysOK(keys, DOMAIN ring)'
    BY <1>2, <2>1 DEF HashOK, KeysOK
  <2>3. RingOK'
    BY <1>2, <2>1 DEF RingOK, KeysOf
  <2> QED
    BY <1>2, <2>1, <2>2, <2>3
<1>4. CASE ChRoute
  <2>1. Range(servers) \in SUBSET Servers
    BY <1>2, Listed
  <2> QED
    BY <1>2, <1>4, <2>1, RingAdds DEF ChRoute
<1>5. ASSUME NEW s \in Servers, AddServer(s), built PROVE (HashOK /\ RingOK /\ KeysOK(keys, DOMAIN ring) /\ built)'
  <2>1. {s} \in SUBSET Servers
    OBVIOUS
  <2> QED
    BY <1>2, <1>5, <2>1, RingAdds DEF AddServer
<1>6. ASSUME NEW s \in Servers, RemoveServer(s), built PROVE (HashOK /\ RingOK /\ KeysOK(keys, DOMAIN ring) /\ built)'
  BY <1>2, <1>6, RingRemoves DEF RemoveServer
<1>7. ASSUME NEW s \in Servers, AddServer(s) \/ RemoveServer(s), ~built
      PROVE  UNCHANGED <<hash, ringVars>>
  BY <1>7 DEF AddServer, RemoveServer, ringVars
<1> QED
  BY <1>1, <1>2, <1>3, <1>4, <1>5, <1>6, <1>7 DEF ClientNext, allVars

-----------------------------------------------------------------------------
(* THE SEARCH.  Between two bounds there is one key that a search can give:   *)
(* the highest that is not above the point, and without one that of the     *)
(* place below the bounds.                                                  *)

Below(p, lo, up) == {j \in lo..up : keys[j + 1] <= p}

Found(p, lo, up, k) ==
    IF Below(p, lo, up) = {} THEN k = KeyAt(lo - 1)
    ELSE \E i \in Below(p, lo, up) :
            k = keys[i + 1] /\ \A j \in Below(p, lo, up) : keys[j + 1] <= k

TheFound(p, lo, up) == CHOOSE k : Found(p, lo, up, k)

KeysSearched ==
    /\ Last \in Int /\ Last >= -1
    /\ \A i \in 0..Last : keys[i + 1] \in Int
    /\ \A i, j \in 0..Last : i < j => keys[i + 1] <= keys[j + 1]

LEMMA RingSearched == ASSUME KeysOK(keys, DOMAIN ring) PROVE KeysSearched
<1> DEFINE N == Cardinality(DOMAIN ring)
<1>1. /\ N \in Nat /\ Len(keys) \in Nat /\ N <= Len(keys) /\ DOMAIN keys = 1..Len(keys)
      /\ \A i \in 1..Len(keys) : keys[i] \in Points
      /\ \A i, j \in 1..Len(keys) : i < j => keys[i] <= keys[j]
  BY DEF KeysOK, Ordered
<1>2. Last = N - 1 /\ \A k \in Points : k \in Int
  BY DEF Last, Points
<1> HIDE DEF N
<1>3. \A i \in 0..Last : i + 1 \in 1..Len(keys)
  BY <1>1, <1>2
<1> QED
  BY <1>1, <1>2, <1>3 DEF KeysSearched

LEMMA OneFound ==
    ASSUME NEW p, NEW lo \in Int, NEW up \in Int, NEW k, NEW m, KeysSearched,
           lo >= 0, up <= Last, Found(p, lo, up, k), Found(p, lo, up, m)
    PROVE  k = m
<1>1. CASE Below(p, lo, up) = {}
  BY <1>1 DEF Found
<1>2. CASE Below(p, lo, up) # {}
  <2>1. PICK i \in Below(p, lo, up) :
           k = keys[i + 1] /\ \A j \in Below(p, lo, up) : keys[j + 1] <= k
    BY <1>2 DEF Found
  <2>2. PICK h \in Below(p, lo, up) :
           m = keys[h + 1] /\ \A j \in Below(p, lo, up) : keys[j + 1] <= m
    BY <1>2 DEF Found
  <2>3. i \in 0..Last /\ h \in 0..Last
    BY DEF Below, KeysSearched
  <2>4. k \in Int /\ m \in Int /\ k <= m /\ m <= k
    BY <2>1, <2>2, <2>3 DEF KeysSearched
  <2> QED
    BY <2>4
<1> QED
  BY <1>1, <1>2

LEMMA SomeFound ==
    ASSUME NEW p \in Int, NEW lo \in Int, NEW up \in Int, KeysSearched, lo >= 0, up <= Last
    PROVE  \E k : Found(p, lo, up, k)
<1> DEFINE X == {up - j : j \in Below(p, lo, up)}
<1>1. CASE Below(p, lo, up) = {}
  BY <1>1 DEF Found
<1>2. CASE Below(p, lo, up) # {}
  <2>1. \A j \in Below(p, lo, up) : j \in lo..up /\ up - j \in Nat /\ j \in 0..Last
    BY DEF Below, KeysSearched
  <2>2. X \in SUBSET Nat /\ X # {}
    BY <1>2, <2>1
  <2>3. PICK m \in X : \A d \in X : m <= d
    <3> HIDE DEF X
    <3> QED
      BY <2>2, LeastNumber
  <2>4. PICK i \in Below(p, lo, up) : m = up - i
    BY <2>3
  <2>5. ASSUME NEW j \in Below(p, lo, up) PROVE keys[j + 1] <= keys[i + 1]
    <3>1. up - j \in X
      OBVIOUS
    <3>2. j <= i
      BY <2>1, <2>3, <2>4, <3>1
    <3>3. j = i \/ j < i
      BY <2>1, <3>2
    <3>4. keys[j + 1] \in Int
      BY <2>1 DEF KeysSearched
    <3> QED
      BY <2>1, <3>3, <3>4 DEF KeysSearched
  <2>6. Found(p, lo, up, keys[i + 1])
    BY <1>2, <2>5 DEF Found
  <2> QED
    BY <2>6
<1> QED
  BY <1>1, <1>2

(* Bounds that have met. *)
LEMMA BoundsMet ==
    ASSUME NEW p, NEW lo \in Int
    PROVE  Found(p, lo, lo - 1, KeyAt(lo - 1))
<1>1. lo..(lo - 1) = {}
  OBVIOUS
<1> QED
  BY <1>1 DEF Found, Below

(* One look at the middle. *)
LEMMA Halves ==
    ASSUME NEW p \in Int, NEW lo \in Int, NEW up \in Int, KeysSearched,
           lo >= 0, up <= Last, lo <= up
    PROVE  LET idx == (lo + up) \div 2 IN
           /\ idx \in lo..up
           /\ keys[idx + 1] = p => Found(p, lo, up, p)
           /\ keys[idx + 1] > p => \A k : Found(p, lo, idx - 1, k) => Found(p, lo, up, k)
           /\ keys[idx + 1] < p => \A k : Found(p, idx + 1, up, k) => Found(p, lo, up, k)
<1> DEFINE idx == (lo + up) \div 2
<1>1. idx \in lo..up
  OBVIOUS
<1> HIDE DEF idx
<1>2. /\ Last \in Int /\ idx \in Int /\ \A j \in lo..up : j \in 0..Last /\ keys[j + 1] \in Int
      /\ \A j \in lo..up : j > idx => keys[j + 1] >= keys[idx + 1]
      /\ \A j \in lo..up : j < idx => keys[j + 1] <= keys[idx + 1]
  BY <1>1 DEF KeysSearched
<1>3. ASSUME keys[idx + 1] = p PROVE Found(p, lo, up, p)
  <2>1. idx \in Below(p, lo, up) /\ \A j \in Below(p, lo, up) : keys[j + 1] <= p
    BY <1>1, <1>2, <1>3 DEF Below
  <2> QED
    BY <1>3, <2>1 DEF Found
<1>4. ASSUME keys[idx + 1] > p, NEW k, Found(p, lo, idx - 1, k) PROVE Found(p, lo, up, k)
  <2>1. \A j \in lo..up : keys[j + 1] <= p => j \in lo..(idx - 1)
    <3> SUFFICES ASSUME NEW j \in lo..up, keys[j + 1] <= p PROVE j < idx
      BY <1>2
    <3>1. keys[j + 1] \in Int /\ keys[idx + 1] \in Int /\ (j < idx \/ j = idx \/ j > idx)
      BY <1>1, <1>2
    <3> QED
      BY <1>2, <1>4, <3>1
  <2>2. \A j \in lo..(idx - 1) : j \in lo..up
    BY <1>1, <1>2
  <2>3. Below(p, lo, up) = Below(p, lo, idx - 1)
    BY <2>1, <2>2 DEF Below
  <2> QED
    BY <1>4, <2>3 DEF Found
<1>5. ASSUME keys[idx + 1] < p, NEW k, Found(p, idx + 1, up, k) PROVE Found(p, lo, up, k)
  <2>1. idx \in Below(p, lo, up)
    BY <1>1, <1>2, <1>5 DEF Below
  <2>2. \A j \in Below(p, lo, up) : j \in lo..up /\ (j \in Below(p, idx + 1, up) \/ j <= idx)
    BY <1>1, <1>2 DEF Below
  <2>3. Below(p, idx + 1, up) \subseteq Below(p, lo, up)
    BY <1>1, <1>2 DEF Below
  <2>4. \A j \in Below(p, lo, up) : j <= idx => keys[j + 1] <= keys[idx + 1]
    <3> SUFFICES ASSUME NEW j \in lo..up, j <= idx PROVE keys[j + 1] <= keys[idx + 1]
      BY <2>2
    <3>1. (j = idx \/ j < idx) /\ keys[j + 1] \in Int
      BY <1>2
    <3> QED
      BY <1>2, <3>1
  <2>5. CASE Below(p, idx + 1, up) = {}
    <3>1. k = KeyAt((idx + 1) - 1)
      BY <1>5, <2>5 DEF Found
    <3>2. (idx + 1) - 1 = idx /\ ~(idx < 0)
      BY <1>1, <1>2
    <3>3. k = keys[idx + 1]
      BY <3>1, <3>2 DEF KeyAt
    <3> QED
      BY <2>1, <2>2, <2>4, <2>5, <3>3 DEF Found
  <2>6. CASE Below(p, idx + 1, up) # {}
    <3>1. PICK i \in Below(p, idx + 1, up) :
             k = keys[i + 1] /\ \A j \in Below(p, idx + 1, up) : keys[j + 1] <= k
      BY <1>5, <2>6 DEF Found
    <3>2. i \in Below(p, lo, up) /\ i \in lo..up /\ i > idx
      BY <1>1, <1>2, <2>3 DEF Below
    <3>3. keys[idx + 1] <= k
      BY <1>2, <3>1, <3>2
    <3>4. ASSUME NEW j \in Below(p, lo, up) PROVE keys[j + 1] <= k
      <4>1. CASE j \in Below(p, idx + 1, up)
        BY <3>1, <4>1
      <4>2. CASE j <= idx
        <5>1. keys[j + 1] <= keys[idx + 1]
          BY <2>4, <4>2
        <5>2. keys[j + 1] \in Int /\ keys[idx + 1] \in Int /\ k \in Int
          BY <1>1, <1>2, <2>2, <3>1, <3>2
        <5> QED
          BY <3>3, <5>1, <5>2
      <4> QED
        BY <2>2, <4>1, <4>2
    <3> QED
      BY <2>1, <3>1, <3>2, <3>4 DEF Found
  <2> QED
    BY <2>5, <2>6
<1> QED
  BY <1>1, <1>3, <1>4, <1>5 DEF idx

LoBounds == 0..(Last + 1)
UpBounds == -2..Last
Bounds   == LoBounds \X UpBounds

Looked(f, p, lo, up) ==
    LET idx == (lo + up) \div 2 IN
    IF lo > up THEN KeyAt(up)
    ELSE IF keys[idx + 1] = p THEN p
    ELSE IF keys[idx + 1] > p THEN f[<<lo, idx - 1>>]
    ELSE f[<<idx + 1, up>>]

(* There is a function that the search is, so that it is one. *)
LEMMA SearchEquation ==
    ASSUME NEW p \in Int, KeysSearched
    PROVE  \A lo \in LoBounds, up \in UpBounds :
              Search(p)[<<lo, up>>] = Looked(Search(p), p, lo, up)
<1> DEFINE g == [b \in Bounds |-> IF b[1] > b[2] THEN KeyAt(b[2])
                                   ELSE TheFound(p, b[1], b[2])]
<1>0. Last \in Int /\ Last >= -1
  BY DEF KeysSearched
<1>7. ASSUME NEW lo \in LoBounds, NEW up \in UpBounds
      PROVE  g[<<lo, up>>] = IF lo > up THEN KeyAt(up) ELSE TheFound(p, lo, up)
  <2>1. <<lo, up>> \in Bounds /\ <<lo, up>>[1] = lo /\ <<lo, up>>[2] = up
    BY DEF Bounds
  <2> QED
    BY <2>1
<1>2. g = [b \in Bounds |-> g[b]] /\ \A b \in Bounds :
         b[1] \in LoBounds /\ b[2] \in UpBounds /\ b = <<b[1], b[2]>>
  BY DEF Bounds
<1> HIDE DEF g
<1>8. ASSUME NEW lo \in LoBounds, NEW up \in UpBounds, up >= lo - 1
      PROVE  Found(p, lo, up, g[<<lo, up>>])
  <2>1. lo \in Int /\ up \in Int /\ lo >= 0 /\ up <= Last
    BY <1>0 DEF LoBounds, UpBounds
  <2>2. CASE lo > up
    <3>1. up = lo - 1 /\ g[<<lo, up>>] = KeyAt(up)
      BY <1>7, <1>8, <2>1, <2>2
    <3> QED
      BY <2>1, <3>1, BoundsMet
  <2>3. CASE ~(lo > up)
    <3>1. \E k : Found(p, lo, up, k)
      BY <2>1, SomeFound
    <3>2. g[<<lo, up>>] = TheFound(p, lo, up)
      BY <1>7, <2>3
    <3> QED
      BY <3>1, <3>2 DEF TheFound
  <2> QED
    BY <2>2, <2>3
<1>1. ASSUME NEW lo \in LoBounds, NEW up \in UpBounds PROVE g[<<lo, up>>] = Looked(g, p, lo, up)
  <2>1. CASE lo > up
    BY <1>7, <2>1 DEF Looked
  <2>2. CASE ~(lo > up)
    <3> DEFINE idx == (lo + up) \div 2
    <3>1. lo \in Int /\ up \in Int /\ lo >= 0 /\ up <= Last /\ lo <= up /\ up >= lo - 1
      BY <1>0, <2>2 DEF LoBounds, UpBounds
    <3>2. /\ idx \in lo..up
          /\ keys[idx + 1] = p => Found(p, lo, up, p)
          /\ keys[idx + 1] > p => \A k : Found(p, lo, idx - 1, k) => Found(p, lo, up, k)
          /\ keys[idx + 1] < p => \A k : Found(p, idx + 1, up, k) => Found(p, lo, up, k)
      BY <3>1, Halves
    <3>3. Found(p, lo, up, g[<<lo, up>>])
      BY <1>8, <3>1
    <3> HIDE DEF idx
    <3>4. /\ idx \in Int /\ idx \in 0..Last /\ keys[idx + 1] \in Int
          /\ idx - 1 \in UpBounds /\ idx + 1 \in LoBounds
          /\ idx - 1 >= lo - 1 /\ up >= (idx + 1) - 1
      BY <1>0, <3>1, <3>2 DEF KeysSearched, LoBounds, UpBounds
    <3>5. Found(p, lo, idx - 1, g[<<lo, idx - 1>>])
      BY <1>8, <3>4
    <3>6. Found(p, idx + 1, up, g[<<idx + 1, up>>])
      BY <1>8, <3>4
    <3>7. Found(p, lo, up, Looked(g, p, lo, up))
      <4>1. Looked(g, p, lo, up) = IF keys[idx + 1] = p THEN p
                                   ELSE IF keys[idx + 1] > p THEN g[<<lo, idx - 1>>]
                                   ELSE g[<<idx + 1, up>>]
        BY <3>1 DEF Looked, idx
      <4>2. keys[idx + 1] = p \/ keys[idx + 1] > p \/ keys[idx + 1] < p
        BY <3>4
      <4>3. keys[idx + 1] > p => keys[idx + 1] # p
        BY <3>4
      <4>4. keys[idx + 1] < p => keys[idx + 1] # p /\ ~(keys[idx + 1] > p)
        BY <3>4
      <4> QED
        BY <3>2, <3>5, <3>6, <4>1, <4>2, <4>3, <4>4
    <3> QED
      BY <3>1, <3>3, <3>7, OneFound
  <2> QED
    BY <2>1, <2>2
<1>3. g = [b \in Bounds |-> Looked(g, p, b[1], b[2])]
  BY <1>1, <1>2
<1> DEFINE G(f) == f = [b \in Bounds |-> Looked(f, p, b[1], b[2])]
<1>4. Search(p) = CHOOSE f : G(f)
  BY DEF Search, Looked, Upper, LoBounds, UpBounds, Bounds
<1>5. G(Search(p))
  <2>1. G(g)
    BY <1>3
  <2> HIDE DEF G
  <2> QED
    BY <1>4, <2>1
<1>6. ASSUME NEW lo \in LoBounds, NEW up \in UpBounds
      PROVE  Search(p)[<<lo, up>>] = Looked(Search(p), p, lo, up)
  <2>1. <<lo, up>> \in Bounds /\ <<lo, up>>[1] = lo /\ <<lo, up>>[2] = up
    BY DEF Bounds
  <2> QED
    BY <1>5, <2>1
<1> QED
  BY <1>6

(* The search gives the key that is to be found, between any bounds.         *)
LEMMA SearchResult ==
    ASSUME NEW p \in Int, KeysSearched
    PROVE  \A lo \in LoBounds, up \in UpBounds :
              up >= lo - 1 => Found(p, lo, up, Search(p)[<<lo, up>>])
<1> DEFINE f == Search(p)
           X == {d \in Nat : \A lo \in LoBounds, up \in UpBounds :
                    up >= lo - 1 /\ up - lo + 1 <= d => Found(p, lo, up, f[<<lo, up>>])}
<1>0. Last \in Int /\ Last >= -1
  BY DEF KeysSearched
<1>1. \A lo \in LoBounds, up \in UpBounds : f[<<lo, up>>] = Looked(f, p, lo, up)
  BY SearchEquation
<1> HIDE DEF f
<1>2. ASSUME NEW lo \in LoBounds, NEW up \in UpBounds, up >= lo - 1, lo > up
      PROVE  Found(p, lo, up, f[<<lo, up>>])
  <2>1. f[<<lo, up>>] = KeyAt(up)
    BY <1>1, <1>2 DEF Looked
  <2>2. lo \in Int /\ up = lo - 1
    BY <1>0, <1>2 DEF LoBounds, UpBounds
  <2> QED
    BY <2>1, <2>2, BoundsMet
<1>3. 0 \in X
  BY <1>0, <1>2 DEF LoBounds, UpBounds
<1>4. ASSUME NEW d \in Nat, d \in X PROVE d + 1 \in X
  <2> SUFFICES ASSUME NEW lo \in LoBounds, NEW up \in UpBounds, up >= lo - 1,
                      up - lo + 1 <= d + 1
               PROVE  Found(p, lo, up, f[<<lo, up>>])
    OBVIOUS
  <2>1. CASE lo > up
    BY <1>2, <2>1
  <2>2. CASE ~(lo > up)
    <3> DEFINE idx == (lo + up) \div 2
    <3>1. lo \in Int /\ up \in Int /\ lo >= 0 /\ up <= Last /\ lo <= up
      BY <1>0, <2>2 DEF LoBounds, UpBounds
    <3>2. /\ idx \in lo..up
          /\ keys[idx + 1] = p => Found(p, lo, up, p)
          /\ keys[idx + 1] > p => \A k : Found(p, lo, idx - 1, k) => Found(p, lo, up, k)
          /\ keys[idx + 1] < p => \A k : Found(p, idx + 1, up, k) => Found(p, lo, up, k)
      BY <3>1, Halves
    <3>3. f[<<lo, up>>] = IF keys[idx + 1] = p THEN p
                          ELSE IF keys[idx + 1] > p THEN f[<<lo, idx - 1>>]
                          ELSE f[<<idx + 1, up>>]
      BY <1>1, <3>1 DEF Looked
    <3> HIDE DEF idx
    <3>4. /\ idx \in 0..Last /\ keys[idx + 1] \in Int
          /\ idx - 1 \in UpBounds /\ idx + 1 \in LoBounds
          /\ idx - 1 >= lo - 1 /\ (idx - 1) - lo + 1 <= d
          /\ up >= (idx + 1) - 1 /\ up - (idx + 1) + 1 <= d
      BY <1>0, <3>1, <3>2 DEF KeysSearched, LoBounds, UpBounds
    <3>5. Found(p, lo, idx - 1, f[<<lo, idx - 1>>]) /\ Found(p, idx + 1, up, f[<<idx + 1, up>>])
      BY <1>4, <3>4
    <3>6. keys[idx + 1] = p \/ (keys[idx + 1] > p /\ keys[idx + 1] # p)
             \/ (keys[idx + 1] < p /\ keys[idx + 1] # p /\ ~(keys[idx + 1] > p))
      BY <3>4
    <3> QED
      BY <3>2, <3>3, <3>5, <3>6
  <2> QED
    BY <2>1, <2>2
<1>5. Nat \subseteq X
  <2> HIDE DEF X
  <2> QED
    BY <1>3, <1>4, Induction
<1>6. ASSUME NEW lo \in LoBounds, NEW up \in UpBounds, up >= lo - 1
      PROVE  Found(p, lo, up, f[<<lo, up>>])
  <2>1. up - lo + 1 \in Nat
    BY <1>0, <1>6 DEF LoBounds, UpBounds
  <2>2. up - lo + 1 \in X
    BY <1>5, <2>1
  <2>3. up - lo + 1 <= up - lo + 1
    BY <2>1
  <2> QED
    BY <1>6, <2>2, <2>3
<1> QED
  BY <1>6 DEF f

-----------------------------------------------------------------------------
(* A digest belongs to the highest key at or below it that the search looks  *)
(* at, or to the highest it looks at.                                       *)

Precedes(D, p, k) ==
    /\ k \in D
    /\ IF \E j \in D : j <= p THEN k <= p /\ \A j \in D : j <= p => j <= k
                               ELSE \A j \in D : j <= k

(* Without doubled keys the search looks at them all. *)
LEMMA SeenKeys ==
    ASSUME KeysOK(keys, DOMAIN ring)
    PROVE  Seen \subseteq DOMAIN ring /\ (Undoubled => Seen = DOMAIN ring)
<1> DEFINE N == Cardinality(DOMAIN ring)
<1>1. /\ N \in Nat /\ Len(keys) \in Nat /\ N <= Len(keys) /\ DOMAIN keys = 1..Len(keys)
      /\ Range(keys) = DOMAIN ring
  BY DEF KeysOK
<1>2. Seen = {keys[i + 1] : i \in 0..(N - 1)} /\ (Undoubled => Len(keys) = N)
  BY DEF Seen, Last, Undoubled
<1> HIDE DEF N
<1>3. ASSUME NEW i \in 0..(N - 1) PROVE keys[i + 1] \in DOMAIN ring
  <2>1. i + 1 \in DOMAIN keys
    BY <1>1
  <2> QED
    BY <1>1, <2>1 DEF Range
<1>4. ASSUME Undoubled, NEW k \in DOMAIN ring PROVE k \in Seen
  <2>1. PICK i \in DOMAIN keys : keys[i] = k
    BY <1>1 DEF Range
  <2>2. i - 1 \in 0..(N - 1) /\ (i - 1) + 1 = i
    BY <1>1, <1>2, <1>4
  <2> QED
    BY <1>2, <2>1, <2>2
<1> QED
  BY <1>2, <1>3, <1>4

LEMMA PositionPrecedes ==
    ASSUME KeysOK(keys, DOMAIN ring), DOMAIN ring # {}, NEW p \in Points
    PROVE  Precedes(Seen, p, KeyOf(p))
<1> DEFINE B == Below(p, 0, Last)
           k == Search(p)[<<0, Last>>]
<1>1. /\ Last \in Int /\ Last >= -1 /\ \A i \in 0..Last : keys[i + 1] \in Int
      /\ \A i, j \in 0..Last : i < j => keys[i + 1] <= keys[j + 1]
      /\ KeysSearched
  BY RingSearched DEF KeysSearched
<1>2. Last >= 0
  <2>1. Cardinality(DOMAIN ring) # 0 /\ Cardinality(DOMAIN ring) \in Nat
    BY SetOfPoints, FS_EmptySet DEF KeysOK
  <2> QED
    BY <2>1 DEF Last
<1>3. p \in Int
  BY DEF Points
<1>4. Found(p, 0, Last, k)
  <2>1. 0 \in LoBounds /\ Last \in UpBounds /\ Last >= 0 - 1
    BY <1>1, <1>2 DEF LoBounds, UpBounds
  <2> QED
    BY <1>1, <1>3, <2>1, SearchResult
<1>5. KeyOf(p) = IF Last = 0 THEN keys[1] ELSE k
  BY DEF KeyOf
<1>6. \A j \in Seen : \E i \in 0..Last : j = keys[i + 1]
  BY DEF Seen
<1>7. \A i \in 0..Last : keys[i + 1] \in Seen
  BY DEF Seen
<1> HIDE DEF k
<1>8. CASE Last = 0
  <2>1. 0..Last = {0} /\ 0 + 1 = 1
    BY <1>8
  <2>2. keys[1] \in Seen /\ keys[1] \in Int /\ \A j \in Seen : j = keys[1]
    <3>1. keys[0 + 1] \in Seen /\ keys[0 + 1] \in Int /\ \A j \in Seen : j = keys[0 + 1]
      BY <1>1, <1>6, <1>7, <2>1
    <3> QED
      BY <3>1, <2>1
  <2> QED
    BY <1>5, <1>8, <2>2 DEF Precedes
<1>9. CASE Last # 0 /\ B = {}
  <2>1. KeyOf(p) = KeyAt(0 - 1)
    BY <1>4, <1>5, <1>9 DEF Found
  <2>2. KeyOf(p) = keys[Last + 1]
    BY <2>1 DEF KeyAt
  <2>3. \A i \in 0..Last : ~(keys[i + 1] <= p)
    BY <1>9 DEF Below
  <2>4. ASSUME NEW i \in 0..Last PROVE keys[i + 1] <= keys[Last + 1]
    <3>1. i = Last \/ i < Last
      BY <1>1
    <3>2. Last \in 0..Last /\ keys[i + 1] \in Int
      BY <1>1, <1>2
    <3> QED
      BY <1>1, <3>1, <3>2
  <2>5. Last \in 0..Last
    BY <1>1, <1>2
  <2>6. KeyOf(p) \in Seen
    BY <1>7, <2>2, <2>5
  <2>7. \A j \in Seen : ~(j <= p) /\ j <= KeyOf(p)
    BY <1>6, <2>2, <2>3, <2>4
  <2> QED
    BY <2>6, <2>7 DEF Precedes
<1>10. CASE Last # 0 /\ B # {}
  <2>1. PICK i \in B : KeyOf(p) = keys[i + 1] /\ \A j \in B : keys[j + 1] <= KeyOf(p)
    BY <1>4, <1>5, <1>10 DEF Found
  <2>2. i \in 0..Last /\ keys[i + 1] <= p
    BY DEF Below
  <2>3. ASSUME NEW j \in Seen, j <= p PROVE j <= KeyOf(p)
    <3>1. PICK h \in 0..Last : j = keys[h + 1]
      BY <1>6
    <3>2. h \in B
      BY <2>3, <3>1 DEF Below
    <3> QED
      BY <2>1, <3>1, <3>2
  <2>4. KeyOf(p) \in Seen /\ KeyOf(p) <= p
    BY <1>7, <2>1, <2>2
  <2> QED
    BY <2>3, <2>4 DEF Precedes
<1> QED
  BY <1>8, <1>9, <1>10

(* Who a point belongs to. *)
Owned(p, k) == k \in DOMAIN ring /\ NodeAt(p) = ring[k] /\ Precedes(Seen, p, k)

LEMMA Owner ==
    RingInv /\ routerType = "ch" /\ ring # << >> =>
       /\ \A p \in Points : \E k \in Points : Owned(p, k)
       /\ Undoubled => Seen = DOMAIN ring
<1> SUFFICES ASSUME RingInv, routerType = "ch", ring # << >>, NEW p \in Points
             PROVE  \E k \in Points : Owned(p, k)
  BY SeenKeys DEF RingInv
<1>1. RingOK /\ KeysOK(keys, DOMAIN ring)
  BY DEF RingInv
<1>2. DOMAIN ring # {}
  BY <1>1, EmptyRing DEF RingOK
<1>3. Precedes(Seen, p, KeyOf(p)) /\ KeyOf(p) \in Seen
  BY <1>1, <1>2, PositionPrecedes DEF Precedes
<1>4. KeyOf(p) \in DOMAIN ring /\ KeyOf(p) \in Points
  BY <1>1, <1>3, SeenKeys DEF RingOK
<1> QED
  BY <1>3, <1>4 DEF Owned, NodeAt

LEMMA OwnerNext ==
    (RingInv /\ routerType = "ch" /\ ring # << >>)' =>
       /\ \A p \in Points : \E k \in Points : Owned(p, k)'
       /\ Undoubled' => Seen' = DOMAIN ring'
<1>1. (RingInv /\ routerType = "ch" /\ ring # << >>)' =>
         (/\ \A p \in Points : \E k \in Points : Owned(p, k)
          /\ Undoubled => Seen = DOMAIN ring)'
  BY Owner, PTL
<1> QED
  BY <1>1

LEMMA NoRingStep == NoRing /\ [ClientNext]_allVars => NoRing'
<1> SUFFICES ASSUME NoRing, [ClientNext]_allVars, routerType # "ch" PROVE UNCHANGED ring
  BY SameRouter DEF NoRing
<1>1. CASE UNCHANGED allVars
  BY <1>1 DEF allVars, ringVars
<1>2. CASE ClientNext
  BY <1>2 DEF ClientNext, ringVars
<1> QED
  BY <1>1, <1>2

(* The binary search finds the predecessor among the keys it looks at, all    *)
(* unless keys are doubled, and always a key of the ring                    *)
(* (consistentHash.ts:96-132): SearchFindsPredecessor, for every ring and    *)
(* point.                                                                   *)
THEOREM SearchIsRight == ClientSpec => []SearchFindsPredecessor
<1>1. RingInv /\ routerType = "ch" => SearchFindsPredecessor
  <2> SUFFICES ASSUME RingInv, routerType = "ch", ring # << >>
               PROVE  /\ Undoubled => Seen = DOMAIN ring
                      /\ \A p \in Points :
                            LET k     == KeyOf(p)
                                below == {j \in Seen : j <= p}
                            IN  /\ k \in DOMAIN ring
                                /\ IF below # {} THEN k \in below /\ \A j \in below : j <= k
                                   ELSE k \in Seen /\ \A j \in Seen : j <= k
    BY DEF SearchFindsPredecessor
  <2>1. RingOK /\ KeysOK(keys, DOMAIN ring)
    BY DEF RingInv
  <2>2. DOMAIN ring # {}
    BY <2>1, EmptyRing DEF RingOK
  <2>3. \A p \in Points : Precedes(Seen, p, KeyOf(p))
    BY <2>1, <2>2, PositionPrecedes
  <2>4. Seen \subseteq DOMAIN ring /\ (Undoubled => Seen = DOMAIN ring)
    BY <2>1, SeenKeys
  <2> QED
    BY <2>3, <2>4 DEF Precedes
<1>2. ClientInit => NoRing
  BY DEF ClientInit, RingInit, NoRing
<1>3. RingInv /\ NoRing => SearchFindsPredecessor
  BY <1>1 DEF NoRing, SearchFindsPredecessor
<1> QED
  BY <1>2, <1>3, NoRingStep, RingInitial, RingStep, PTL DEF ClientSpec

(* What a step of the ring does to who is where. *)
LEMMA MovementStep ==
    ASSUME RingInv, RingInv', [ClientNext]_allVars, ring # << >>, ring' # << >>,
           routerType = "ch", ring' # ring
    PROVE  \/ /\ DOMAIN ring \subseteq DOMAIN ring'
              /\ \A k \in DOMAIN ring' : ring'[k] \notin Ids \/ (k \in DOMAIN ring /\ ring'[k] = ring[k])
           \/ /\ DOMAIN ring' \subseteq DOMAIN ring
              /\ \A k \in DOMAIN ring' : ring'[k] = ring[k]
              /\ \A k \in DOMAIN ring \ DOMAIN ring' : ring[k] \notin Ids'
<1>1. HashOK /\ RingOK /\ KeysOK(keys, DOMAIN ring) /\ (~built => ring = << >>)
  BY DEF RingInv
<1>2. built
  BY <1>1
<1>3. ASSUME NEW s \in Servers, AddServer(s)
      PROVE  /\ DOMAIN ring \subseteq DOMAIN ring'
             /\ \A k \in DOMAIN ring' :
                   ring'[k] \notin Ids \/ (k \in DOMAIN ring /\ ring'[k] = ring[k])
  <2> DEFINE P == UNION {KeysOf(v) : v \in {s}}
  <2>1. addNodes({s}) /\ {s} \in SUBSET Servers
    BY <1>2, <1>3 DEF AddServer
  <2>2. /\ DOMAIN ring' = DOMAIN ring \cup P /\ \A k \in P : ring'[k] \in {s}
        /\ \A k \in DOMAIN ring \ P : ring'[k] = ring[k]
    BY <1>1, <2>1, NodesAdded
  <2>3. P = KeysOf(s)
    OBVIOUS
  <2>4. ASSUME s \in Ids, NEW k \in P PROVE k \in DOMAIN ring /\ ring[k] = s
    <3>1. P \subseteq DOMAIN ring
      BY <1>1, <2>3, <2>4 DEF Ids, RingOK
    <3>2. ring[k] \in Servers /\ k \in KeysOf(ring[k])
      BY <1>1, <3>1 DEF RingOK
    <3> QED
      BY <1>1, <2>3, <3>1, <3>2, OneOwner
  <2> HIDE DEF P
  <2> QED
    BY <2>2, <2>4
<1>4. ASSUME NEW s \in Servers, RemoveServer(s)
      PROVE  /\ DOMAIN ring' \subseteq DOMAIN ring
             /\ \A k \in DOMAIN ring' : ring'[k] = ring[k]
             /\ \A k \in DOMAIN ring \ DOMAIN ring' : ring[k] \notin Ids'
  <2>1. removeNode(s) /\ UNCHANGED hash
    BY <1>2, <1>4 DEF RemoveServer
  <2>2. /\ DOMAIN ring' = DOMAIN ring \ KeysOf(s)
        /\ \A k \in DOMAIN ring' : ring'[k] = ring[k]
        /\ \A k \in DOMAIN ring \ DOMAIN ring' : ring[k] = s
    BY <1>1, <2>1, RingRemoves
  <2>3. \A k \in DOMAIN ring' : ring'[k] # s
    BY <1>1, <2>2 DEF RingOK
  <2> QED
    BY <2>2, <2>3 DEF Ids
<1>5. ChRoute => ~built
  BY DEF ChRoute
<1>6. (\E s \in Servers : AddServer(s)) \/ (\E s \in Servers : RemoveServer(s)) \/ UNCHANGED ring
  BY <1>2, <1>5 DEF ClientNext, allVars, ringVars
<1> QED
  BY <1>3, <1>4, <1>6

(* Adding or removing a server moves only what it gains or loses             *)
(* (consistentHash.ts:47-83), while no key is doubled: MinimalMovement.       *)
THEOREM MovesAreMinimal == ClientSpec => MinimalMovement
<1>1. RingInv /\ RingInv' /\ NoRing /\ [ClientNext]_allVars =>
         [ring # << >> /\ ring' # << >> /\ Undoubled /\ Undoubled' =>
             \A p \in Points :
                LET old == NodeAt(p) IN
                \/ NodeAt(p)' = old
                \/ old \notin Ids'
                \/ NodeAt(p)' \notin Ids]_allVars
  <2> SUFFICES ASSUME RingInv, RingInv', NoRing, [ClientNext]_allVars,
                      ring # << >>, ring' # << >>, Undoubled, Undoubled', NEW p \in Points
               PROVE  \/ NodeAt(p)' = NodeAt(p)
                      \/ NodeAt(p) \notin Ids'
                      \/ NodeAt(p)' \notin Ids
    OBVIOUS
  <2>1. routerType = "ch" /\ routerType' = "ch"
    BY SameRouter DEF NoRing
  <2>2. PICK k \in Points : Owned(p, k)
    BY <2>1, Owner
  <2>3. PICK m \in Points : Owned(p, m)'
    BY <2>1, OwnerNext
  <2>4. /\ k \in DOMAIN ring /\ NodeAt(p) = ring[k] /\ Precedes(DOMAIN ring, p, k)
        /\ m \in DOMAIN ring' /\ NodeAt(p)' = ring'[m] /\ Precedes(DOMAIN ring', p, m)
    <3>1. Seen = DOMAIN ring /\ Seen' = DOMAIN ring'
      BY <2>1, Owner, OwnerNext
    <3> QED
      BY <2>2, <2>3, <3>1 DEF Owned, Precedes
  <2>5. ASSUME NEW A \in SUBSET Points, NEW B \in SUBSET Points, A \subseteq B,
               NEW x \in A, NEW y \in A, Precedes(B, p, x), Precedes(A, p, y)
        PROVE  x = y
    <3>1. /\ p \in Int /\ x \in Int /\ y \in Int
          /\ \A j \in B : j \in Int
      BY DEF Points
    <3>2. CASE \E j \in A : j <= p
      BY <2>5, <3>1, <3>2 DEF Precedes
    <3>3. CASE ~\E j \in A : j <= p
      BY <2>5, <3>1, <3>3 DEF Precedes
    <3> QED
      BY <3>2, <3>3
  <2>6. DOMAIN ring \in SUBSET Points /\ DOMAIN ring' \in SUBSET Points
    BY <2>1 DEF RingInv, RingOK
  <2>7. CASE ring' = ring
    BY <2>4, <2>5, <2>6, <2>7
  <2>8. CASE /\ DOMAIN ring \subseteq DOMAIN ring'
             /\ \A j \in DOMAIN ring' :
                   ring'[j] \notin Ids \/ (j \in DOMAIN ring /\ ring'[j] = ring[j])
    BY <2>4, <2>5, <2>6, <2>8
  <2>9. CASE /\ DOMAIN ring' \subseteq DOMAIN ring
             /\ \A j \in DOMAIN ring' : ring'[j] = ring[j]
             /\ \A j \in DOMAIN ring \ DOMAIN ring' : ring[j] \notin Ids'
    BY <2>4, <2>5, <2>6, <2>9
  <2> QED
    BY <2>1, <2>7, <2>8, <2>9, MovementStep
<1>2. ClientInit => NoRing
  BY DEF ClientInit, RingInit, NoRing
<1> QED
  BY <1>1, <1>2, NoRingStep, RingInitial, RingStep, PTL DEF ClientSpec, MinimalMovement
=============================================================================
