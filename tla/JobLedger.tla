----------------------------- MODULE JobLedger -----------------------------
(***************************************************************************)
(* What the job queue promises its clients, without the database, the      *)
(* triggers, the retries or the process: a ledger of tickets served one at *)
(* a time, oldest first.  A key has at most one open ticket; a ticket is   *)
(* served once; only the ticket in hand is closed, unless everything left  *)
(* behind is written off while nobody is served.                           *)
(***************************************************************************)
EXTENDS Integers, Sequences

CONSTANT Keys

VARIABLES
    tickets,    \* every ticket ever filed, in order
    hand        \* the ticket being served, or 0

lvars == <<tickets, hand>>

Live   == {"queued", "running"}
Closed == {"succeeded", "failed"}

Ticket == [key : Keys, state : Live \cup Closed]

OpenFor(key) ==
    {i \in DOMAIN tickets : tickets[i].key = key /\ tickets[i].state \in Live}

Waiting == {i \in DOMAIN tickets : tickets[i].state = "queued"}

Init ==
    /\ tickets \in {<<>>} \cup {<<[key |-> k, state |-> "queued"]>> : k \in Keys}
    /\ hand = 0

\* New tickets, for keys that have none open.
File ==
    /\ hand' = hand
    /\ tickets' \in Seq(Ticket)
    /\ DOMAIN tickets \subseteq DOMAIN tickets'
    /\ \A i \in DOMAIN tickets : tickets'[i] = tickets[i]
    /\ LET new == DOMAIN tickets' \ DOMAIN tickets IN
         /\ \A i \in new : /\ tickets'[i].state = "queued"
                           /\ OpenFor(tickets'[i].key) = {}
         /\ \A i, j \in new : tickets'[i].key = tickets'[j].key => i = j

Serve ==
    /\ hand = 0
    /\ hand' \in Waiting
    /\ \A i \in Waiting : hand' <= i
    /\ tickets' = [tickets EXCEPT ![hand'].state = "running"]

Finish ==
    /\ hand # 0 /\ hand' = 0
    /\ \E s \in Closed : tickets' = [tickets EXCEPT ![hand].state = s]

\* The server walks away: the ticket stays open, and nobody is serving it.
Abandon ==
    /\ hand # 0 /\ hand' = 0
    /\ UNCHANGED tickets

\* Whatever is still marked as being served is written off.
Recover ==
    /\ hand = 0 /\ hand' = 0
    /\ tickets' = [i \in DOMAIN tickets |->
                     IF tickets[i].state = "running"
                       THEN [tickets[i] EXCEPT !.state = "failed"] ELSE tickets[i]]

Next == File \/ Serve \/ Finish \/ Abandon \/ Recover

Spec == Init /\ [][Next]_lvars

\* A key has at most one open ticket.
OneOpenTicket ==
    \A i, j \in DOMAIN tickets :
        (tickets[i].key = tickets[j].key /\ {tickets[i].state, tickets[j].state} \subseteq Live)
          => i = j
=============================================================================
