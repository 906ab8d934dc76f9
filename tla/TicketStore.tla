---------------------------- MODULE TicketStore ----------------------------
(***************************************************************************)
(* The durable Ticket store of the plugin: the tables `tickets' and        *)
(* `ticket_outbox' of ticket-store.ts.  Every method of the class runs one *)
(* BEGIN IMMEDIATE ... COMMIT transaction, so every method is one atomic   *)
(* transition here.  This module holds the tables and the transactions;    *)
(* TicketClients lets any number of processes call them, TicketRuntime is  *)
(* the event loop that calls them in the shipped plugin.                   *)
(*                                                                         *)
(* Data abstractions.  A Ticket is identified by its request key, so the   *)
(* rows that may exist are the set Tickets and a row that does not exist   *)
(* yet has status "absent".  The workflow a Ticket starts has the          *)
(* identifier CNX-AUTO-<run id of the Ticket>, so workflows are named by   *)
(* Tickets too.  attempt_count and lease_generation are incremented by the *)
(* same UPDATE of claim() and by nothing else: one counter, attempts,      *)
(* stands for both, and for the random lease_token drawn with them.  There *)
(* is no clock: a lease is "live" until the action Lapse says that         *)
(* lease_expires_at has passed.                                            *)
(***************************************************************************)
EXTENDS Integers, FiniteSets

CONSTANTS
    Tickets,        \* request keys that may be accepted
    Sessions,       \* OpenClaw owner session keys
    Owner,          \* the session that sends each request
    MaxAttempts,    \* config.ticketMaximumAttempts, clamped to 1..20 by accept
    NoWorkflow      \* workflow_id IS NULL

ASSUME TicketStoreAssumption ==
    /\ IsFiniteSet(Tickets)
    /\ Owner \in [Tickets -> Sessions]
    /\ MaxAttempts \in Nat \ {0}
    /\ NoWorkflow \notin Tickets

VARIABLES
    ticket,         \* the rows of `tickets'
    outbox          \* the state of the `ticket_outbox' row of each Ticket

storeVars == <<ticket, outbox>>

Claimable == {"accepted", "waiting"}
Terminal == {"completed", "failed", "cancelled"}
Status == {"absent", "running"} \cup Claimable \cup Terminal

\* lane: what the first "routed" event says; only "durable" sets
\* workflow_eligible.  lease: lease_expires_at, NULL as "none".
\* evidence: leaseGeneration recorded with the settling event, 0 before it.
TicketRow ==
    [status   : Status,
     lane     : {"unrouted", "direct", "durable"},
     created  : Nat,
     attempts : Nat,
     lease    : {"none", "live", "lapsed"},
     workflow : Tickets \cup {NoWorkflow},
     evidence : Nat]

OutboxState == {"none", "pending", "scheduled", "delivered"}

Lease == [ticket : Tickets, generation : Nat]

TicketStoreTypeOK ==
    /\ ticket \in [Tickets -> TicketRow]
    /\ outbox \in [Tickets -> OutboxState]

TicketStoreInit ==
    /\ ticket = [t \in Tickets |->
                    [status |-> "absent", lane |-> "unrouted", created |-> 0,
                     attempts |-> 0, lease |-> "none", workflow |-> NoWorkflow,
                     evidence |-> 0]]
    /\ outbox = [t \in Tickets |-> "none"]

-----------------------------------------------------------------------------
(* Queries. *)

Owned(s) == {t \in Tickets : Owner[t] = s}

\* Mutant: the generation is not fenced.
HoldsLeaseOfAnyGeneration(l) ==
    /\ ticket[l.ticket].status = "running"
    /\ ticket[l.ticket].lease = "live"

\* The predicate of every lease-holder UPDATE: still running, the same worker,
\* token and generation, and lease_expires_at not passed.
HoldsLease(l) ==
    /\ ticket[l.ticket].status = "running"
    /\ ticket[l.ticket].attempts = l.generation
    /\ ticket[l.ticket].lease = "live"

CurrentLease(t) == [ticket |-> t, generation |-> ticket[t].attempts]

\* Mutant: rows back in the queue still count as linked and running.
LinkedRunningCountsQueued ==
    {t \in Tickets : ticket[t].status \in Claimable \cup {"running"} /\ ticket[t].workflow # NoWorkflow}

\* linkedRunning(): running rows that already have a workflow.
LinkedRunning ==
    {t \in Tickets : ticket[t].status = "running" /\ ticket[t].workflow # NoWorkflow}

\* ready(): claimable, workflow-eligible rows with attempt budget left.
Ready ==
    {t \in Tickets : /\ ticket[t].status \in Claimable
                     /\ ticket[t].lane = "durable"
                     /\ ticket[t].attempts < MaxAttempts}

\* ready(limit): the oldest of them.
ReadyBatch(limit) ==
    {t \in Ready : Cardinality({u \in Ready : ticket[u].created < ticket[t].created}) < limit}

\* Mutant: only linked rows are recovered.
ExpiredIsLinked ==
    {t \in Tickets : /\ ticket[t].status = "running" /\ ticket[t].lease = "lapsed"
                     /\ ticket[t].workflow # NoWorkflow}

Expired == {t \in Tickets : ticket[t].status = "running" /\ ticket[t].lease = "lapsed"}

-----------------------------------------------------------------------------
(* Transactions. *)

\* accept(): idempotent by request key, so only the first call changes state.
Accept(t) ==
    /\ ticket[t].status = "absent"
    /\ ticket' = [ticket EXCEPT ![t].status = "accepted",
                                ![t].created = 1 + Cardinality({u \in Tickets : ticket[u].status # "absent"})]
    /\ UNCHANGED outbox

\* route(): the first routed event of an accepted Ticket decides its lane; a
\* second call returns false or throws and changes nothing.
Route(t, lane) ==
    /\ ticket[t].status = "accepted"
    /\ ticket[t].lane = "unrouted"
    /\ ticket' = [ticket EXCEPT ![t].lane = lane]
    /\ UNCHANGED outbox

\* claim(): a fresh generation for any accepted or waiting row; it looks
\* neither at workflow_eligible nor at max_attempts.
Claim(t) ==
    /\ ticket[t].status \in Claimable
    /\ ticket' = [ticket EXCEPT ![t].status = "running",
                                ![t].attempts = @ + 1,
                                ![t].lease = "live"]
    /\ UNCHANGED outbox

\* linkWorkflow(): throws, changing nothing, unless the lease holds and the
\* Ticket has no other workflow.
LinkWorkflow(l, w) ==
    /\ HoldsLease(l)
    /\ ticket[l.ticket].workflow \in {NoWorkflow, w}
    /\ ticket' = [ticket EXCEPT ![l.ticket].workflow = w]
    /\ UNCHANGED outbox

\* heartbeat(): extends a lease that has not expired.  The new expiry is again
\* in the future, so the row only changes in what the model leaves out.
Heartbeat(l) ==
    /\ HoldsLease(l)
    /\ UNCHANGED storeVars

\* enqueueTerminal(): INSERT OR IGNORE, one outbox row per Ticket.
EnqueueTerminal(t) == [outbox EXCEPT ![t] = IF @ = "none" THEN "pending" ELSE @]

\* Mutant: the outbox row is left to a later transaction.
CompleteWithoutOutbox(l) ==
    /\ HoldsLease(l)
    /\ ticket' = [ticket EXCEPT ![l.ticket].status = "completed",
                                ![l.ticket].lease = "none",
                                ![l.ticket].evidence = l.generation]
    /\ UNCHANGED outbox

\* complete(): the fenced settlement and its outbox row in one transaction.
Complete(l) ==
    /\ HoldsLease(l)
    /\ ticket' = [ticket EXCEPT ![l.ticket].status = "completed",
                                ![l.ticket].lease = "none",
                                ![l.ticket].evidence = l.generation]
    /\ outbox' = EnqueueTerminal(l.ticket)

FailureClass == {"transient", "capability", "permanent"}

Retryable(t, class) == class # "permanent" /\ ticket[t].attempts < MaxAttempts

\* failAttempt(): back to waiting while the class and the budget allow it,
\* otherwise failed with an outbox row.  The workflow link is kept.
FailAttempt(l, class) ==
    /\ HoldsLease(l)
    /\ IF Retryable(l.ticket, class)
       THEN /\ ticket' = [ticket EXCEPT ![l.ticket].status = "waiting",
                                        ![l.ticket].lease = "none"]
            /\ UNCHANGED outbox
       ELSE /\ ticket' = [ticket EXCEPT ![l.ticket].status = "failed",
                                        ![l.ticket].lease = "none",
                                        ![l.ticket].evidence = l.generation]
            /\ outbox' = EnqueueTerminal(l.ticket)

\* Mutant: the lease is not cleared.
RecoverExpiredKeepsLease ==
    /\ ticket' = [t \in Tickets |->
                    IF t \in Expired THEN [ticket[t] EXCEPT !.status = "waiting"] ELSE ticket[t]]
    /\ UNCHANGED outbox

\* recoverExpired(): every running row whose lease has passed goes back to
\* waiting, whatever its attempt count.  (Its limit of 100 rows is not reached.)
RecoverExpired ==
    /\ ticket' = [t \in Tickets |->
                    IF t \in Expired
                    THEN [ticket[t] EXCEPT !.status = "waiting", !.lease = "none"]
                    ELSE ticket[t]]
    /\ UNCHANGED outbox

\* Time: lease_expires_at of a running row passes.
Lapse(t) ==
    /\ ticket[t].status = "running"
    /\ ticket[t].lease = "live"
    /\ ticket' = [ticket EXCEPT ![t].lease = "lapsed"]
    /\ UNCHANGED outbox

\* revokeSession() on the durable lane (Stop, Reset and Delete of the owner
\* session): every open Ticket of the session is cancelled and its pending
\* outbox rows are deleted, in one transaction.
RevokeSession(s) ==
    /\ ticket' = [t \in Tickets |->
                    IF t \in Owned(s) /\ ticket[t].status \in Claimable \cup {"running"}
                    THEN [ticket[t] EXCEPT !.status = "cancelled", !.lease = "none"]
                    ELSE ticket[t]]
    /\ outbox' = [t \in Tickets |->
                    IF t \in Owned(s) /\ outbox[t] \in {"pending", "scheduled"}
                    THEN "none" ELSE outbox[t]]

\* suppressFailedOutboxForTicket(): a failed Ticket stays silent.
SuppressFailedOutbox(t) ==
    /\ outbox' = [outbox EXCEPT ![t] = IF ticket[t].status = "failed" /\ @ \in {"pending", "scheduled"}
                                       THEN "none" ELSE @]
    /\ UNCHANGED ticket

\* markOutboxScheduled(), markOutboxDelivered() and markOutboxFailed() change
\* only a row whose delivery_status is 'pending' (here "pending", or
\* "scheduled" once scheduled_at is set).
MarkOutboxScheduled(t) ==
    /\ outbox' = [outbox EXCEPT ![t] = IF @ = "pending" THEN "scheduled" ELSE @]
    /\ UNCHANGED ticket

MarkOutboxDelivered(t) ==
    /\ outbox[t] \in {"pending", "scheduled"}
    /\ outbox' = [outbox EXCEPT ![t] = "delivered"]
    /\ UNCHANGED ticket

\* Mutant: delivery_status is not compared.
MarkOutboxFailedAnyRow(t) ==
    /\ outbox' = [outbox EXCEPT ![t] = IF @ # "none" THEN "pending" ELSE @]
    /\ UNCHANGED ticket

MarkOutboxFailed(t) ==
    /\ outbox' = [outbox EXCEPT ![t] = IF @ = "scheduled" THEN "pending" ELSE @]
    /\ UNCHANGED ticket
=============================================================================
