--------------------------- MODULE TicketContract ---------------------------
(***************************************************************************)
(* What the Ticket store promises to whoever submits a request: a request  *)
(* is accepted once, worked on by one claim at a time, and ends exactly    *)
(* once as completed, failed or cancelled.  The owner is owed one notice   *)
(* of a completed or failed request from the moment it ends; a cancelled   *)
(* request owes nothing.  Leases, generations, lanes, attempts and         *)
(* workflows are how the store keeps the promise and do not appear.        *)
(***************************************************************************)
EXTENDS Naturals

CONSTANTS Requests, Sessions, Owner

VARIABLES state, notice

contractVars == <<state, notice>>

Live == {"open", "claimed"}

Init ==
    /\ state = [r \in Requests |-> "absent"]
    /\ notice = [r \in Requests |-> "none"]

Submit(r) ==
    /\ state[r] = "absent"
    /\ state' = [state EXCEPT ![r] = "open"]
    /\ UNCHANGED notice

Take(r) ==
    /\ state[r] = "open"
    /\ state' = [state EXCEPT ![r] = "claimed"]
    /\ UNCHANGED notice

\* Claims that are given up or have expired.
Release(S) ==
    /\ \A r \in S : state[r] = "claimed"
    /\ state' = [r \in Requests |-> IF r \in S THEN "open" ELSE state[r]]
    /\ UNCHANGED notice

\* The outcome and the debt to the owner are one step.
Settle(r, outcome) ==
    /\ state[r] = "claimed"
    /\ notice[r] = "none"
    /\ state' = [state EXCEPT ![r] = outcome]
    /\ notice' = [notice EXCEPT ![r] = "owed"]

\* The owner's session stops: everything live of it is cancelled, nothing of
\* it is announced any more, and no other session is touched.
Cancel(s) ==
    /\ state' = [r \in Requests |->
                    IF Owner[r] = s /\ state[r] \in Live THEN "cancelled" ELSE state[r]]
    /\ notice' = [r \in Requests |->
                    IF Owner[r] = s /\ notice[r] = "owed" THEN "none" ELSE notice[r]]

Deliver(r) ==
    /\ notice[r] = "owed"
    /\ notice' = [notice EXCEPT ![r] = "delivered"]
    /\ UNCHANGED state

\* Failures may stay silent, successes may not.
Suppress(r) ==
    /\ state[r] = "failed"
    /\ notice[r] = "owed"
    /\ notice' = [notice EXCEPT ![r] = "none"]
    /\ UNCHANGED state

Next ==
    \/ \E r \in Requests :
          Submit(r) \/ Take(r) \/ Deliver(r) \/ Suppress(r) \/ Settle(r, "completed") \/ Settle(r, "failed")
    \/ \E S \in SUBSET Requests : Release(S)
    \/ \E s \in Sessions : Cancel(s)

Spec == Init /\ [][Next]_contractVars
=============================================================================
