----------------------------- MODULE KeepAlive -----------------------------
(***************************************************************************)
(* The keep-alive of a mqtt mailbox (mqtt-mailbox.ts:240-280; mqtt2 has the *)
(* same code): an interval of Keepalive ms runs checkKeepAlive, which pings, *)
(* waits for the answer, or gives the connection up.  ws2, which waits for   *)
(* 10 s and checks every 30 s (ws2-mailbox.ts:13-14), is not covered.        *)
(*                                                                         *)
(* Time is discrete.  A timer fires at its due time or up to Jitter later,  *)
(* and an interval is due again Keepalive after it ran.  A peer that is     *)
(* alive answers a ping within Delay; when it dies an answer may be on its  *)
(* way.                                                                     *)
(***************************************************************************)
EXTENDS Integers

CONSTANTS
    Keepalive,   \* opts.keepalive
    Jitter,      \* how late the event loop may run a timer
    Delay,       \* how long a live peer may take to answer a ping
    MaxTime      \* bound: the clock stops here

ASSUME KeepaliveAssumption == Keepalive \in Nat \ {0}
ASSUME EnvAssumption       == Jitter \in Nat /\ Delay \in Nat /\ MaxTime \in Nat

VARIABLES
    now,         \* Date.now()
    nextCheck,   \* when the interval is due
    lastPing, lastPong,    \* -1: never
    closed,      \* 'close' has been emitted and the station has closed the box
    owed,        \* an answer to the last ping is on its way
    alive,       \* the peer answers
    diedAt       \* when it died

vars == <<now, nextCheck, lastPing, lastPong, closed, owed, alive, diedAt>>

Init ==
    /\ now = 1 /\ nextCheck = 1 + Keepalive
    /\ lastPing = -1 /\ lastPong = -1
    /\ closed = FALSE /\ owed = FALSE /\ alive = TRUE /\ diedAt = 0

-----------------------------------------------------------------------------
(* checkKeepAlive *)

Awaiting == lastPing > 0 /\ lastPong < lastPing

(* Mutants: the timeout is one interval; it is never reached. *)
TimeoutOneInterval == Keepalive
TimeoutDoubled     == Keepalive * 4

KEEP_ALIVE_TIMEOUT == Keepalive * 2

Due == now >= nextCheck /\ ~closed /\ nextCheck' = now + Keepalive

CheckPings ==
    /\ Due
    /\ ~Awaiting
    /\ lastPing' = now
    /\ owed' = alive
    /\ UNCHANGED <<now, lastPong, closed, alive, diedAt>>

CheckWaits ==
    /\ Due
    /\ Awaiting /\ now - lastPing <= KEEP_ALIVE_TIMEOUT
    /\ UNCHANGED <<now, lastPing, lastPong, closed, owed, alive, diedAt>>

CheckCloses ==
    /\ Due
    /\ Awaiting /\ now - lastPing > KEEP_ALIVE_TIMEOUT
    /\ closed' = TRUE
    /\ lastPing' = -1
    /\ UNCHANGED <<now, lastPong, owed, alive, diedAt>>

-----------------------------------------------------------------------------
(* the environment *)

Pingresp ==
    /\ owed /\ ~closed
    /\ lastPong' = now
    /\ owed' = FALSE
    /\ UNCHANGED <<now, nextCheck, lastPing, closed, alive, diedAt>>

PeerDies ==
    /\ alive /\ ~closed
    /\ alive' = FALSE /\ diedAt' = now
    /\ owed' \in {owed, FALSE}
    /\ UNCHANGED <<now, nextCheck, lastPing, lastPong, closed>>

Tick ==
    /\ ~closed /\ now < MaxTime
    /\ now < nextCheck + Jitter
    /\ owed => now < lastPing + Delay
    /\ now' = now + 1
    /\ UNCHANGED <<nextCheck, lastPing, lastPong, closed, owed, alive, diedAt>>

Next ==
    \/ CheckPings
    \/ CheckWaits
    \/ CheckCloses
    \/ Pingresp
    \/ PeerDies
    \/ Tick

Spec == Init /\ [][Next]_vars

-----------------------------------------------------------------------------
(* PROPERTIES *)

(* The state has its shape. *)
TypeOK ==
    /\ now \in Nat /\ nextCheck \in Nat /\ diedAt \in Nat
    /\ lastPing \in Nat \cup {-1} /\ lastPong \in Nat \cup {-1}
    /\ closed \in BOOLEAN /\ owed \in BOOLEAN /\ alive \in BOOLEAN

(* A peer that answers every ping within KEEP_ALIVE_TIMEOUT is never given  *)
(* up, however late the timers run.                                         *)
NoFalseAlarm == Delay <= 2 * Keepalive /\ closed => ~alive

(* A dead peer is found out: the answer on its way, the wait for the next   *)
(* check, and three intervals after its ping (the second check comes after  *)
(* exactly KEEP_ALIVE_TIMEOUT when timers are exact, and the test is >).    *)
DetectionBound == Delay + 4 * Keepalive + 2 * Jitter

DetectedInTime == ~alive /\ ~closed => now <= diedAt + DetectionBound
=============================================================================
