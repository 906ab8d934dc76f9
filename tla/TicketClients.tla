--------------------------- MODULE TicketClients ---------------------------
(***************************************************************************)
(* The Ticket store under any number of client processes.  A client calls  *)
(* the store's methods in any order and keeps the leases it was given for  *)
(* as long as it likes: it may be paused past its lease, and a restarted   *)
(* gateway may overlap with the old one.  What such a client may rely on   *)
(* is exactly what the fences in the transactions guarantee.               *)
(***************************************************************************)
EXTENDS TicketStore

CONSTANT MaxClaims     \* bound on the claims of one Ticket

ASSUME MaxClaimsAssumption == MaxClaims \in Nat

VARIABLES
    held,              \* every lease some client still remembers
    caller             \* history: the lease or the session the last call was made for

clientsVars == <<ticket, outbox, held, caller>>

ClientsTypeOK ==
    /\ TicketStoreTypeOK
    /\ held \subseteq Lease
    /\ caller \subseteq Lease \cup Sessions

ClientsInit == TicketStoreInit /\ held = {} /\ caller = {}

-----------------------------------------------------------------------------

\* A call made for whoever is in c, by which nobody learns of a lease.
For(c) == caller' = c /\ UNCHANGED held

AcceptTicket == \E t \in Tickets : Accept(t) /\ For({})

RouteTicket == \E t \in Tickets, lane \in {"direct", "durable"} : Route(t, lane) /\ For({})

\* A dispatcher that saw the Ticket in ready() some time ago claims it, or one
\* that never looked: the store does not ask for the lane.
ClaimTicket ==
    \E t \in Tickets :
        /\ ticket[t].attempts < MaxClaims
        /\ Claim(t)
        /\ held' = held \cup {[ticket |-> t, generation |-> ticket[t].attempts + 1]}
        /\ caller' = {}

\* linkedRunning() hands the current lease of a linked row to a reconciler.
ReadLinked ==
    \E t \in LinkedRunning :
        /\ held' = held \cup {CurrentLease(t)}
        /\ caller' = {}
        /\ UNCHANGED storeVars

Link == \E l \in held, w \in Tickets : LinkWorkflow(l, w) /\ For({l})

Beat == \E l \in held : Heartbeat(l) /\ For({l})

CompleteTicket == \E l \in held : Complete(l) /\ For({l})

FailTicket == \E l \in held, class \in FailureClass : FailAttempt(l, class) /\ For({l})

RecoverTickets == RecoverExpired /\ For({})

LapseLease == \E t \in Tickets : Lapse(t) /\ For({})

Revoke == \E s \in Sessions : RevokeSession(s) /\ For({s})

SuppressFailed == \E t \in Tickets : SuppressFailedOutbox(t) /\ For({})

ScheduleNotice == \E t \in Tickets : MarkOutboxScheduled(t) /\ For({})

NoticeDelivered == \E t \in Tickets : MarkOutboxDelivered(t) /\ For({})

NoticeFailed == \E t \in Tickets : MarkOutboxFailed(t) /\ For({})

ClientsNext ==
    \/ AcceptTicket \/ RouteTicket \/ ClaimTicket \/ ReadLinked \/ Link \/ Beat
    \/ CompleteTicket \/ FailTicket \/ RecoverTickets \/ LapseLease \/ Revoke
    \/ SuppressFailed \/ ScheduleNotice \/ NoticeDelivered \/ NoticeFailed

ClientsSpec == ClientsInit /\ [][ClientsNext]_clientsVars

-----------------------------------------------------------------------------
(* Safety. *)

\* No client remembers a generation the store has not reached: a stale client
\* (ticket-store.ts, lease_generation fence) is always behind, never ahead.
HeldNotAhead == \A l \in held : 1 <= l.generation /\ l.generation <= ticket[l.ticket].attempts

\* A row that counts as running can expire, and no other row has a lease:
\* otherwise recoverExpired() would miss it and nobody would ever release it.
RunningIffLeased == \A t \in Tickets : ticket[t].status = "running" <=> ticket[t].lease # "none"

\* The settlement of a Ticket, completed or failed, was written by the holder
\* of its last generation; a worker whose lease was taken over cannot settle.
SettledByLastGeneration ==
    \A t \in Tickets :
        ticket[t].evidence = (IF ticket[t].status \in {"completed", "failed"}
                              THEN ticket[t].attempts ELSE 0)

\* Only a completed or failed Ticket has an outbox row: cancelled Tickets are
\* silent (docs/releases/v0.9.0.md) and open ones have nothing to announce.
NoticeOnlyForOutcome ==
    \A t \in Tickets : outbox[t] # "none" => ticket[t].status \in {"completed", "failed"}

\* A running row was claimed at least once, so its lease has a generation.
RunningWasClaimed == \A t \in Tickets : ticket[t].status = "running" => ticket[t].attempts > 0

\* The inductive invariant: no conjunct is inductive alone.  A stale client can
\* be fenced only because it is never ahead, and only a holder settles because
\* leases and running rows coincide.
IInv ==
    /\ ClientsTypeOK
    /\ HeldNotAhead
    /\ RunningWasClaimed
    /\ RunningIffLeased
    /\ SettledByLastGeneration
    /\ NoticeOnlyForOutcome

-----------------------------------------------------------------------------
(* Action properties. *)

\* A settled or cancelled Ticket is never reopened, relinked or reclaimed,
\* whatever stale calls arrive afterwards.
TerminalRowKept ==
    \A t \in Tickets : ticket[t].status \in Terminal => ticket'[t] = ticket[t]

TerminalRowIsFrozen == [][TerminalRowKept]_clientsVars

\* A notice is owed at most once: once the Ticket is terminal, an outbox row
\* that was suppressed, deleted or delivered does not come back.
NoticeKept ==
    \A t \in Tickets :
        /\ outbox[t] = "delivered" => outbox'[t] = "delivered"
        /\ ticket[t].status \in Terminal /\ outbox[t] = "none" => outbox'[t] = "none"

NoticeIsNeverReborn == [][NoticeKept]_clientsVars

\* While a claim runs nobody else gets a generation, and the workflow of a
\* Ticket is not exchanged, whichever generation links it.  A lease that has not
\* passed is ended only by a call made with that very lease (complete,
\* failAttempt) or by the Stop, Reset or Delete of the Ticket's own session: no
\* stale lease of the same Ticket, no other session and no recovery ends it.
ClaimKept ==
    \A t \in Tickets :
        /\ ticket'[t].attempts # ticket[t].attempts => ticket[t].status # "running"
        /\ ticket[t].workflow # NoWorkflow => ticket'[t].workflow = ticket[t].workflow
        /\ HoldsLease(CurrentLease(t)) =>
              \/ ticket'[t].status = "running"
              \/ CurrentLease(t) \in caller'
              \/ Owner[t] \in caller'

LiveLeaseIsExclusive == [][ClaimKept]_clientsVars

-----------------------------------------------------------------------------
(* What the store promises, see TicketContract. *)

ClientsState(t) ==
    CASE ticket[t].status \in Claimable -> "open"
      [] ticket[t].status = "running"   -> "claimed"
      [] OTHER                          -> ticket[t].status

ClientsNotice(t) ==
    CASE outbox[t] \in {"pending", "scheduled"} -> "owed"
      [] OTHER                                  -> outbox[t]

ClientsContract == INSTANCE TicketContract
    WITH Requests <- Tickets,
         state <- [t \in Tickets |-> ClientsState(t)],
         notice <- [t \in Tickets |-> ClientsNotice(t)]

ClientsImplementContract == ClientsContract!Spec
=============================================================================
