-------------------------- MODULE WorkflowContract --------------------------
(***************************************************************************)
(* What a durable workflow promises to the Ticket that is linked to it and *)
(* to its owner session: it is open until it has one outcome, the outcome  *)
(* never changes, and the notice left for the owner names that outcome.    *)
(* TicketRuntime sees a workflow exactly like this.                        *)
(***************************************************************************)
CONSTANTS Outcomes

VARIABLES outcome, notice

contractVars == <<outcome, notice>>

Init == outcome = "open" /\ notice = "none"

Conclude ==
    /\ outcome = "open"
    /\ outcome' \in Outcomes
    /\ UNCHANGED notice

Announce ==
    /\ outcome # "open"
    /\ notice = "none"
    /\ notice' = outcome
    /\ UNCHANGED outcome

Spec == Init /\ [][Conclude \/ Announce]_contractVars
=============================================================================
