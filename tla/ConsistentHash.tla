--------------------------- MODULE ConsistentHash ---------------------------
(***************************************************************************)
(* The consistent-hash router: chRoute (lib/rpc-client/router.ts:223-250)   *)
(* and its ring (lib/util/consistentHash.ts), kept up by the events of the  *)
(* mail station; and, with it, the four stateful routers as the client is   *)
(* configured.                                                              *)
(*                                                                         *)
(* A digest is a point; the points of the replicas of all servers are       *)
(* distinct and arbitrary (md5 does not collide here).  A node stands for   *)
(* its server, be it the id (the events) or the server info (the first      *)
(* call).  Servers are of one type.  The field `nodes` of the ring is       *)
(* written and never read, and is left out.                                 *)
(***************************************************************************)
EXTENDS Router

CONSTANTS
    Replicas,     \* opts.replicas
    MaxPoint,     \* the digests are 1..MaxPoint
    MaxEvents     \* bound: servers added or removed

ASSUME PointsAssumption == Replicas \in Nat \ {0} /\ MaxPoint \in Nat /\ MaxEvents \in Nat

Points == 1..MaxPoint

VARIABLES
    hash,      \* hash[s, i]: the digest of "s:i"
    built,     \* the ring exists: a call has been routed
    ring,      \* ring[k]: the server whose node is at key k
    keys       \* the keys, sorted; those of a server added again twice

ringVars == <<built, ring, keys>>
allVars  == <<vars, hash, ringVars>>

KeysOf(s) == {hash[s, i] : i \in 1..Replicas}
Ids       == {ring[k] : k \in DOMAIN ring}

RingInit ==
    /\ hash \in [Servers \X (1..Replicas) -> Points]
    /\ \A x, y \in DOMAIN hash : hash[x] = hash[y] => x = y
    /\ built = FALSE /\ ring = << >> /\ keys = << >>

-----------------------------------------------------------------------------
(* The ring after addNode for each server of N. *)
Placed(N) ==
    LET P == UNION {KeysOf(v) : v \in N} IN
    [k \in DOMAIN ring \cup P |->
        IF k \in P THEN CHOOSE v \in N : k \in KeysOf(v) ELSE ring[k]]

(* The numbers of P in order. *)
Sorted(P) == [i \in 1..Cardinality(P) |->
                 CHOOSE k \in P : Cardinality({j \in P : j < k}) = i - 1]

(* The keys after those of P have been pushed, each once, and sorted: place i *)
(* is that of the lowest key at or below which there are i of them.          *)
Pushed(P) ==
    LET all     == Range(keys) \cup P
        upto(k) == Cardinality({i \in DOMAIN keys : keys[i] <= k})
                   + Cardinality({j \in P : j <= k})
    IN  [i \in 1..(Len(keys) + Cardinality(P)) |->
            CHOOSE k \in all : i <= upto(k) /\ \A j \in all : j < k => upto(j) < i]

(* The keys after all those of P have been spliced: the others in their order. *)
Spliced(P) ==
    LET rest == Sorted({j \in DOMAIN keys : keys[j] \notin P})
    IN  [i \in DOMAIN rest |-> keys[rest[i]]]

addNodes(N) ==
    /\ ring' = Placed(N)
    /\ keys' = Pushed(UNION {KeysOf(v) : v \in N})

(* Mutant: the last replica keeps its key. *)
removeNodePartly(s) ==
    LET P == {hash[s, i] : i \in 1..(Replicas - 1)} IN
    /\ ring' = [k \in DOMAIN ring \ P |-> ring[k]]
    /\ keys' = Spliced(P)

removeNode(s) ==
    /\ ring' = [k \in DOMAIN ring \ KeysOf(s) |-> ring[k]]
    /\ keys' = Spliced(KeysOf(s))

-----------------------------------------------------------------------------
(* The first call is routed: the ring is made from the listed servers.  The  *)
(* later calls change nothing.                                              *)
ChRoute ==
    /\ ~built /\ servers # << >>
    /\ built' = TRUE
    /\ addNodes(Range(servers))
    /\ UNCHANGED <<vars, hash>>

StationEvent == changes < MaxEvents /\ changes' = changes + 1

(* The station emits 'addServer' with the id, also for a server it has: the  *)
(* keys of that one are pushed again.                                       *)
AddServer(s) ==
    /\ StationEvent
    /\ servers' = IF s \in Range(servers) THEN servers ELSE Append(servers, s)
    /\ IF built THEN addNodes({s}) ELSE UNCHANGED <<ring, keys>>
    /\ UNCHANGED <<hash, built, routerType, weight, paramVars, histVars>>

(* removeServer leaves serversMap alone. *)
RemoveServer(s) ==
    /\ StationEvent
    /\ IF built THEN removeNode(s) ELSE UNCHANGED <<ring, keys>>
    /\ UNCHANGED <<hash, built, routerType, servers, weight, paramVars, histVars>>

(* The client: one of the routers, and only ch looks at the events. *)
ClientInit ==
    /\ Init
    /\ IF routerType = "ch" THEN RingInit
       ELSE hash = << >> /\ built = FALSE /\ ring = << >> /\ keys = << >>

ClientNext ==
    \/ routerType # "ch" /\ Next /\ UNCHANGED <<hash, ringVars>>
    \/ /\ routerType = "ch"
       /\ ChRoute \/ \E s \in Servers : AddServer(s) \/ RemoveServer(s)

ClientSpec == ClientInit /\ [][ClientNext]_allVars

-----------------------------------------------------------------------------
(* getNode *)

(* Mutant: the key just below idx is passed over. *)
UpperAt(idx) == idx - 2

Upper(idx) == idx - 1

(* The upper bound of the search: the keys of the map, not of the array. *)
Last == Cardinality(DOMAIN ring) - 1

(* The key at the position the search ends with; below the lowest key that is *)
(* the last position.                                                       *)
KeyAt(upper) == keys[IF upper < 0 THEN Last + 1 ELSE upper + 1]

(* The loop of getNodePosition between the bounds <<lower, upper>>, by the key *)
(* at the position it gives.                                                *)
Search(point) ==
    LET f[b \in (0..(Last + 1)) \X (-2..Last)] ==
           LET idx == (b[1] + b[2]) \div 2 IN
           IF b[1] > b[2] THEN KeyAt(b[2])
           ELSE IF keys[idx + 1] = point THEN point
           ELSE IF keys[idx + 1] > point THEN f[<<b[1], Upper(idx)>>]
           ELSE f[<<idx + 1, b[2]>>]
    IN  f

KeyOf(point)  == IF Last = 0 THEN keys[1] ELSE Search(point)[<<0, Last>>]
NodeAt(point) == ring[KeyOf(point)]

-----------------------------------------------------------------------------
(* PROPERTIES *)

(* The keys the search looks at: all, unless keys are doubled, and then the   *)
(* last ones are out of its reach.                                          *)
Seen      == {keys[i + 1] : i \in 0..Last}
Undoubled == Len(keys) = Cardinality(DOMAIN ring)

(* The binary search finds the nearest key at or below the point among those *)
(* it looks at, and past the lowest of them the highest: a digest belongs to *)
(* the replica before it on the circle, and always to a server of the ring,  *)
(* also when doubled keys put others out of reach.                          *)
SearchFindsPredecessor ==
    ring # << >> =>
       /\ Undoubled => Seen = DOMAIN ring
       /\ \A p \in Points :
             LET k     == KeyOf(p)
                 below == {j \in Seen : j <= p}
             IN  /\ k \in DOMAIN ring
                 /\ IF below # {} THEN k \in below /\ \A j \in below : j <= k
                    ELSE k \in Seen /\ \A j \in Seen : j <= k

(* Adding or removing a server moves only the digests that it gains or      *)
(* loses: what is mapped to the other servers stays where it was           *)
(* (consistentHash.ts:47-83).  Not while a server of the ring has been added *)
(* again: the array has its keys twice, the search goes by the size of the  *)
(* map (lines 53 and 98), and digests move although no key does.            *)
MinimalMovement ==
    [][ring # << >> /\ ring' # << >> /\ Undoubled /\ Undoubled' =>
          \A p \in Points :
             LET old == NodeAt(p) IN
             \/ NodeAt(p)' = old
             \/ old \notin Ids'
             \/ NodeAt(p)' \notin Ids]_allVars
=============================================================================
