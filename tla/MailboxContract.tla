-------------------------- MODULE MailboxContract --------------------------
(***************************************************************************)
(* What a mailbox promises to the mail station, the promise MailStation.tla *)
(* builds on: a message given to send() is refused at once, or accepted and *)
(* then called back, with a reply or an error; nothing is accepted before   *)
(* the connect callback or after close(), and nothing that has been called  *)
(* back is waited for again.                                                *)
(***************************************************************************)
EXTENDS Naturals

CONSTANT Sends       \* the calls of send(), numbered in the order they are made

VARIABLES
    ready,           \* the connect callback has reported success
    closed,          \* close() has run
    pending,         \* sends accepted and not called back
    settled          \* sends called back

contractVars == <<ready, closed, pending, settled>>

Init == ready = FALSE /\ closed = FALSE /\ pending = {} /\ settled = {}

Open  == ready' = TRUE /\ UNCHANGED <<closed, pending, settled>>
Close == closed' = TRUE /\ UNCHANGED <<ready, pending, settled>>

New(n) == n \notin pending /\ n \notin settled

Accept(n) ==
    /\ ready /\ ~closed /\ New(n)
    /\ pending' = pending \cup {n}
    /\ UNCHANGED <<ready, closed, settled>>

Refuse(n) ==
    /\ ~ready \/ closed
    /\ New(n)
    /\ settled' = settled \cup {n}
    /\ UNCHANGED <<ready, closed, pending>>

(* One packet may carry several replies. *)
Settle(S) ==
    /\ S # {} /\ S \subseteq pending
    /\ pending' = pending \ S
    /\ settled' = settled \cup S
    /\ UNCHANGED <<ready, closed>>

(* The peer is lost: the mailbox closes and calls back all that wait. *)
Lose ==
    /\ closed' = TRUE
    /\ pending' = {}
    /\ settled' = settled \cup pending
    /\ UNCHANGED ready

Next ==
    \/ Open
    \/ Close
    \/ Lose
    \/ \E n \in Sends : Accept(n) \/ Refuse(n)
    \/ \E S \in SUBSET Sends : Settle(S)

Spec == Init /\ [][Next]_contractVars
=============================================================================
