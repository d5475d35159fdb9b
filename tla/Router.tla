------------------------------- MODULE Router -------------------------------
(***************************************************************************)
(* The stateful routers of the client (lib/rpc-client/router.ts): round     *)
(* robin (rr), weighted round robin (wrr) and least active (la), for one    *)
(* server type.  Each keeps its own parameter on the client while the       *)
(* station changes the list of servers under it; the server id goes to a    *)
(* callback that dispatches the call at once.  The fourth, by consistent    *)
(* hash (ch), is in ConsistentHash, which extends this module.              *)
(***************************************************************************)
EXTENDS Integers, Sequences, FiniteSets, Functions

CONSTANTS
    Servers,      \* ids of the servers of the type
    RouterTypes,  \* the values of client.routerType: "rr", "wrr", "la", "ch"
    Weights,      \* values of server.weight; 0 is a server without weight
    MaxCalls,     \* bound: calls routed
    MaxChanges    \* bound: changes of the list

ASSUME ServersAssumption == IsFiniteSet(Servers)
ASSUME TypeAssumption    == RouterTypes \subseteq {"rr", "wrr", "la", "ch"}
ASSUME WeightAssumption  == Weights \subseteq Nat
ASSUME BoundsAssumption  == MaxCalls \in Nat /\ MaxChanges \in Nat

NaN  == -1      \* a count that undefined + 1 has spoilt; !NaN holds as !0 does
None == -2      \* no count: undefined

VARIABLES
    routerType,  \* client.routerType, set by the constructor
    servers,     \* serversMap[serverType]
    weight,      \* servers[id].weight
    rrParam,     \* client.rrParam[serverType], 0 when there is none
    wrrParam,    \* client.wrrParam[serverType]; its initial value is (-1, 0)
    laParam,     \* client.laParam[serverType][id]
    laCalled,    \* laParam[serverType] exists
    calls,       \* history: calls routed
    changes,     \* changes of the list made
    picks,       \* picks[s]: calls routed to s since the list last changed (rr),
                 \* since wrr last took the full weight, since the start (la)
    round        \* times wrr has taken the full weight since the list changed

listVars  == <<routerType, servers, weight, changes>>
paramVars == <<rrParam, wrrParam, laParam, laCalled>>
histVars  == <<calls, picks, round>>
vars      == <<listVars, paramVars, histVars>>

n == Len(servers)

(* The lists the station can hold: no id twice, in any order. *)
Lists(S) ==
    UNION {{q \in [1..k -> S] : IsInjective(q)} : k \in 0..Cardinality(S)}

(* Only wrr reads the weights; for the others they are all the same. *)
Init ==
    /\ routerType \in RouterTypes
    /\ servers \in Lists(Servers)
    /\ weight \in [Servers -> Weights]
    /\ routerType # "wrr" => weight = [s \in Servers |-> CHOOSE w \in Weights : TRUE]
    /\ rrParam = 0
    /\ wrrParam = [index |-> -1, weight |-> 0]
    /\ laParam = [s \in Servers |-> None] /\ laCalled = FALSE
    /\ calls = 0 /\ changes = 0
    /\ picks = [s \in Servers |-> 0] /\ round = 0

-----------------------------------------------------------------------------
(* addServer, replaceServers, and the splice of failover. *)
ChangeList(q) ==
    /\ changes < MaxChanges /\ q # servers
    /\ changes' = changes + 1
    /\ servers' = q
    /\ picks' = (IF routerType = "la" THEN picks ELSE [s \in Servers |-> 0])
    /\ round' = 0
    /\ UNCHANGED <<routerType, weight, paramVars, calls>>

(* addServer with another weight for a server. *)
Reweigh(s, w) ==
    /\ routerType = "wrr" /\ changes < MaxChanges /\ weight[s] # w
    /\ changes' = changes + 1
    /\ weight' = [weight EXCEPT ![s] = w]
    /\ round' = 0
    /\ UNCHANGED <<routerType, servers, paramVars, calls, picks>>

(* cb(null, s) *)
CallBack(s) ==
    /\ calls < MaxCalls
    /\ calls' = calls + 1
    /\ picks' = [picks EXCEPT ![s] = @ + 1]
    /\ UNCHANGED listVars

-----------------------------------------------------------------------------
(* rr.  The index is stored after the callback, in which no other call is   *)
(* routed here.                                                             *)

(* Mutant: the index that is stored is reduced by one server too few. *)
AdvanceShort(i) == (i + 1) % (n + 1)

Advance(i) == i + 1

RouteRR ==
    /\ routerType = "rr" /\ n > 0
    /\ CallBack(servers[(rrParam % n) + 1])
    /\ rrParam' = Advance(rrParam)
    /\ UNCHANGED <<wrrParam, laParam, laCalled, round>>

-----------------------------------------------------------------------------
(* wrr *)

getMaxWeight ==
    CHOOSE w \in {weight[s] : s \in Range(servers)} :
       \A s \in Range(servers) : weight[s] <= w

(* Mutants of one turn of the loop: the weight never comes down; it comes    *)
(* down to 0 before it is made full again.                                   *)
TurnHolds(p) ==
    LET i == (p.index + 1) % n IN
    [index  |-> i,
     weight |-> IF p.weight <= 0 THEN getMaxWeight ELSE p.weight]

TurnByTwo(p) ==
    LET i == (p.index + 1) % n
        w == IF i = 0 THEN p.weight - 2 ELSE p.weight
    IN  [index |-> i, weight |-> IF i = 0 /\ w <= 0 THEN getMaxWeight ELSE w]

Turn(p) ==
    LET i == (p.index + 1) % n
        w == IF i = 0 THEN p.weight - 1 ELSE p.weight
    IN  [index |-> i, weight |-> IF i = 0 /\ w <= 0 THEN getMaxWeight ELSE w]

Invalid(p) == p.index = 0 /\ p.weight <= 0                \* no server has a weight
Chosen(p)  == ~Invalid(p) /\ weight[servers[p.index + 1]] >= p.weight

MaxTurns == n * (wrrParam.weight + 2)

(* The parameter after each turn of the loop, from the stored one, and the   *)
(* turns that end it.                                                       *)
Walk ==
    LET f[k \in 0..MaxTurns] == IF k = 0 THEN wrrParam ELSE Turn(f[k - 1]) IN f

Ends(walk) == {k \in 1..MaxTurns : Chosen(walk[k]) \/ Invalid(walk[k])}

(* At the head of the list the weight comes down unless it is made full.     *)
Refills(walk, k) == walk[k].index = 0 /\ walk[k].weight >= walk[k - 1].weight

RouteWRR ==
    /\ routerType = "wrr" /\ n > 0 /\ calls < MaxCalls
    /\ LET walk == Walk IN
       \E last \in Ends(walk) :
          LET p == walk[last]
              s == servers[p.index + 1]
              refilled == \E k \in 1..last : Refills(walk, k)
          IN  /\ \A k \in Ends(walk) : last <= k
              /\ ~Invalid(p)
              /\ calls' = calls + 1
              /\ wrrParam' = p
              /\ picks' = [t \in Servers |-> (IF refilled THEN 0 ELSE picks[t])
                                             + (IF t = s THEN 1 ELSE 0)]
              /\ round' = (IF refilled THEN round + 1 ELSE round)
    /\ UNCHANGED <<listVars, rrParam, laParam, laCalled>>

-----------------------------------------------------------------------------
(* la *)

(* A missing or NaN count is read as 0 and stored under the wrong key. *)
CountOf(s) == IF laParam[s] \in {None, NaN} THEN 0 ELSE laParam[s]

(* Mutant: the call is not counted. *)
IncrementLost(s) == laParam[s]

Increment(s) == IF laParam[s] \in {None, NaN} THEN NaN ELSE laParam[s] + 1

RouteLA ==
    /\ routerType = "la" /\ n > 0
    /\ laCalled' = TRUE
    /\ IF laCalled
       THEN \E s \in Range(servers) :
               /\ \A t \in Range(servers) : CountOf(s) <= CountOf(t)
               /\ CallBack(s)
               /\ laParam' = [laParam EXCEPT ![s] = Increment(s)]
       ELSE \E s \in Range(servers) :
               /\ CallBack(s)
               /\ laParam' = [t \in Servers |-> IF t = s THEN 1
                                                ELSE IF t \in Range(servers) THEN 0
                                                ELSE None]
    /\ UNCHANGED <<rrParam, wrrParam, round>>

-----------------------------------------------------------------------------
Next ==
    \/ \E q \in Lists(Servers) : ChangeList(q)
    \/ \E s \in Servers, w \in Weights : Reweigh(s, w)
    \/ RouteRR
    \/ RouteWRR
    \/ RouteLA

Spec == Init /\ [][Next]_vars

-----------------------------------------------------------------------------
(* PROPERTIES *)

(* "Round-Robin algorithm for calculating server id" (router.ts:47): as     *)
(* long as the list does not change, the numbers of calls two of its        *)
(* servers got differ by one at most, wherever the index stood before.      *)
RoundRobinFair ==
    routerType = "rr" =>
       \A s, t \in Range(servers) : picks[s] <= picks[t] + 1

(* The loop of wrr ends, with a server or with the error, whatever list and *)
(* weights the stored parameter was made for; an endless turn would hang    *)
(* the process.                                                             *)
WrrEnds == routerType = "wrr" /\ n > 0 => Ends(Walk) # {}

(* Between two moments at which wrr takes the full weight, with the list    *)
(* unchanged, each server gets exactly its weight in calls, also when the   *)
(* stored index and weight were left by another list.                       *)
WrrProportional ==
    [][routerType = "wrr" /\ round > 0 /\ round' > round =>
          \A s \in Range(servers) : picks[s] = weight[s]]_vars

(* "Least-Active algorithm for calculating server id" (router.ts:155): la   *)
(* picks a server that got the fewest calls since the client started, as    *)
(* long as each listed server has a count; one that joins after the first   *)
(* call never gets one (router.ts:182).                                     *)
Counted == laCalled => \A s \in Range(servers) : laParam[s] \in Nat

LaPicksLeastCalled ==
    [][routerType = "la" /\ calls' > calls /\ Counted =>
          \A s, t \in Range(servers) :
             picks'[s] > picks[s] => picks[s] <= picks[t]]_vars

=============================================================================
