-------------------------- MODULE MCTicketClients --------------------------
(* Two Tickets of two sessions: every client call, with leases that outlive *)
(* their generation.                                                        *)
EXTENDS TicketClients, TLC

CONSTANTS t1, t2, s1, s2

MCTickets == {t1, t2}
MCSessions == {s1, s2}
MCOwner == t1 :> s1 @@ t2 :> s2
=============================================================================
