-------------------------- MODULE MCTicketRuntime --------------------------
(* The durable lane with two Tickets of two sessions that send the same       *)
(* prompt, or with one Ticket.                                                *)
EXTENDS TicketRuntime, TLC

CONSTANTS t1, t2, s1, s2, r1

MCTickets == {t1, t2}
MCSessions == {s1, s2}
MCRequests == {r1}
TwoOwners == t1 :> s1 @@ t2 :> s2
SamePrompt == t1 :> r1 @@ t2 :> r1

SoleTicket == {t1}
SoleOwner == t1 :> s1
SolePrompt == t1 :> r1
=============================================================================
