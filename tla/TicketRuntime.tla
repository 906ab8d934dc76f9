--------------------------- MODULE TicketRuntime ---------------------------
(***************************************************************************)
(* The durable lane as the shipped plugin runs it: the ticket-recovery     *)
(* service of v091-final-entry.ts, with the dispatcher and the reconciler  *)
(* of index.ts, the admission and session hooks, and the workflow engine.  *)
(*                                                                         *)
(* The service and the hooks share one Node event loop.  A tick runs       *)
(* without an await from recoverExpired() to the end of the dispatch, so   *)
(* no hook runs in between; it awaits only while it schedules a delivery.  *)
(* What does interleave with every step are the workflow engine (separate  *)
(* processes), the passing of leases, and a crash of the gateway, after    *)
(* which the tables and the workflow directories are all that is left.     *)
(* Each step of a tick below ends at a transaction or at a call into       *)
(* another process, so a crash is possible exactly between them.           *)
(*                                                                         *)
(* The engine is coarse here (active until it ends somehow); its           *)
(* controllers, children and crashes are the module WorkflowEngine.        *)
(***************************************************************************)
EXTENDS TicketStore

CONSTANTS
    Requests,       \* durableRequestFingerprint values
    Request,        \* the fingerprint of each Ticket's prompt
    DispatchLimit,  \* config.ticketDispatchLimit
    MaxRunning,     \* config.ticketMaximumRunning
    MaxCrashes      \* bound on gateway crashes

ASSUME TicketRuntimeAssumption ==
    /\ Request \in [Tickets -> Requests]
    /\ DispatchLimit \in Nat \ {0}
    /\ MaxRunning \in Nat \ {0}
    /\ MaxCrashes \in Nat

VARIABLES
    pc,             \* where the event loop is
    batch,          \* rows or candidates the tick has still to look at
    subject,        \* the Ticket the tick is working on
    target,         \* the workflow the launch found or started
    revoking,       \* workflows a session hook has still to cancel
    flow,           \* status in each workflow's state.json
    turns,          \* outbox rows with a turn scheduled in the owner session
    crashes

vars == <<ticket, outbox, pc, batch, subject, target, revoking, flow, turns, crashes>>

Steps == {"down", "idle", "recover", "reconcile", "dispatch", "launch", "link",
          "unlaunch", "silence-reconcile", "silence-dispatch", "deliver", "await"}

FlowState == {"absent", "active", "completed", "failed", "blocked", "cancelled"}

TypeOK ==
    /\ TicketStoreTypeOK
    /\ pc \in Steps
    /\ batch \subseteq Tickets
    /\ subject \in Tickets \cup {NoWorkflow}
    /\ target \in Tickets \cup {NoWorkflow}
    /\ revoking \subseteq Tickets
    /\ flow \in [Tickets -> FlowState]
    /\ turns \subseteq Tickets
    /\ crashes \in 0..MaxCrashes

Init ==
    /\ TicketStoreInit
    /\ pc = "idle"
    /\ batch = {}
    /\ subject = NoWorkflow
    /\ target = NoWorkflow
    /\ revoking = {}
    /\ flow = [w \in Tickets |-> "absent"]
    /\ turns = {}
    /\ crashes = 0

Oldest(S) == CHOOSE t \in S : \A u \in S : ticket[t].created <= ticket[u].created

\* Mutant: only workflows some Ticket is linked to are found.
ActiveAndLinked(r) ==
    {w \in Tickets : /\ Request[w] = r /\ flow[w] = "active"
                     /\ \E t \in Tickets : ticket[t].workflow = w}

\* activeWorkflowForRequest(): any workflow directory with this fingerprint
\* that has not ended.  The owner session is not looked at.
ActiveForRequest(r) == {w \in Tickets : Request[w] = r /\ flow[w] = "active"}

\* ticketResourceAdmission() on concurrency.
HasCapacity == Cardinality(LinkedRunning) < MaxRunning

-----------------------------------------------------------------------------
(* The tick. *)

\* A pulse or a timer starts work(); the runner keeps it to one at a time.
StartTick ==
    /\ pc = "idle"
    /\ pc' = "recover"
    /\ UNCHANGED <<ticket, outbox, batch, subject, target, revoking, flow, turns, crashes>>

\* recoverExpired(), then reconcileTicketWorkflows() reads linkedRunning(),
\* which the expired rows have just left.
RecoverStep ==
    /\ pc = "recover"
    /\ RecoverExpired
    /\ batch' = LinkedRunning \ Expired
    /\ pc' = "reconcile"
    /\ UNCHANGED <<subject, target, revoking, flow, turns, crashes>>

\* One row of reconcileTicketWorkflows(): settle or keep alive the Ticket by
\* the state of its workflow.  A lost lease throws and is swallowed.
Reconciled(t) ==
    LET w == ticket[t].workflow
        l == CurrentLease(t)
    IN \/ flow[w] = "completed" /\ Complete(l)
       \/ flow[w] \in {"failed", "cancelled"} /\ FailAttempt(l, "permanent")
       \/ flow[w] = "blocked" /\ FailAttempt(l, "capability")
       \/ flow[w] = "active" /\ Heartbeat(l)
       \/ ~HoldsLease(l) /\ UNCHANGED storeVars

\* The live failAttempt() suppresses the outbox row of a failed Ticket in a
\* second transaction (v090-entry.ts), a step of its own here.
ReconcileRow ==
    /\ pc = "reconcile"
    /\ \E t \in batch :
          /\ Reconciled(t)
          /\ batch' = batch \ {t}
          /\ subject' = t
          /\ pc' = IF ticket'[t].status = "failed" THEN "silence-reconcile" ELSE "reconcile"
    /\ UNCHANGED <<target, revoking, flow, turns, crashes>>

\* dispatchTicketWorkflows(): nothing without capacity, otherwise the oldest
\* ready Tickets, read once.
ReadReady ==
    /\ pc = "reconcile"
    /\ batch = {}
    /\ batch' = IF HasCapacity THEN ReadyBatch(DispatchLimit) ELSE {}
    /\ pc' = "dispatch"
    /\ UNCHANGED <<ticket, outbox, subject, target, revoking, flow, turns, crashes>>

\* TicketDispatcher.dispatch(): the next candidate is admitted and claimed.
AdmitAndClaim ==
    /\ pc = "dispatch"
    /\ batch # {}
    /\ HasCapacity
    /\ Claim(Oldest(batch))
    /\ subject' = Oldest(batch)
    /\ batch' = batch \ {Oldest(batch)}
    /\ pc' = "launch"
    /\ UNCHANGED <<target, revoking, flow, turns, crashes>>

\* The batch is used up, or the next candidate is refused, for concurrency or
\* for the memory and disk floors, and the rest with it.  pendingOutbox() then
\* returns the unscheduled rows and those scheduled too long ago.
EndDispatch ==
    /\ pc = "dispatch"
    /\ \E overdue \in SUBSET {t \in Tickets : outbox[t] = "scheduled"} :
          batch' = {t \in Tickets : outbox[t] = "pending"} \cup overdue
    /\ pc' = "deliver"
    /\ UNCHANGED <<ticket, outbox, subject, target, revoking, flow, turns, crashes>>

\* launch(): an unfinished workflow for the same request is reused.
ReuseWorkflow ==
    /\ pc = "launch"
    /\ target' \in ActiveForRequest(Request[subject])
    /\ pc' = "link"
    /\ UNCHANGED <<ticket, outbox, batch, subject, revoking, flow, turns, crashes>>

\* startBoundWorkflow(): initialise and run the Ticket's own workflow; if it
\* exists already and has ended, it is returned as it is.
StartOwnWorkflow ==
    /\ pc = "launch"
    /\ ActiveForRequest(Request[subject]) = {}
    /\ flow' = [flow EXCEPT ![subject] = IF @ = "absent" THEN "active" ELSE @]
    /\ target' = subject
    /\ pc' = "link"
    /\ UNCHANGED <<ticket, outbox, batch, subject, revoking, turns, crashes>>

\* Compilation, the engine's command line or its spawn throws.
LaunchThrows ==
    /\ pc = "launch"
    /\ ActiveForRequest(Request[subject]) = {}
    /\ pc' = "unlaunch"
    /\ UNCHANGED <<ticket, outbox, batch, subject, target, revoking, flow, turns, crashes>>

LinkStep ==
    /\ pc = "link"
    /\ \/ LinkWorkflow(CurrentLease(subject), target) /\ pc' = "dispatch"
       \/ /\ ~HoldsLease(CurrentLease(subject)) \/ ticket[subject].workflow \notin {NoWorkflow, target}
          /\ pc' = "unlaunch"
          /\ UNCHANGED storeVars
    /\ target' = NoWorkflow
    /\ UNCHANGED <<batch, subject, revoking, flow, turns, crashes>>

\* The dispatcher's catch block.  A lost lease makes failAttempt() itself
\* throw, which ends the tick before anything is delivered.
FailLaunch ==
    /\ pc = "unlaunch"
    /\ \/ /\ FailAttempt(CurrentLease(subject), "transient")
          /\ pc' = IF ticket'[subject].status = "failed" THEN "silence-dispatch" ELSE "dispatch"
          /\ UNCHANGED batch
       \/ /\ ~HoldsLease(CurrentLease(subject))
          /\ pc' = "idle"
          /\ batch' = {}
          /\ UNCHANGED storeVars
    /\ UNCHANGED <<subject, target, revoking, flow, turns, crashes>>

Silence ==
    /\ \/ pc = "silence-reconcile" /\ pc' = "reconcile"
       \/ pc = "silence-dispatch" /\ pc' = "dispatch"
    /\ SuppressFailedOutbox(subject)
    /\ UNCHANGED <<batch, subject, target, revoking, flow, turns, crashes>>

\* deliverTicketOutbox(): mark the row, then await the scheduling of a turn.
ScheduleDelivery ==
    /\ pc = "deliver"
    /\ \E t \in batch :
          /\ MarkOutboxScheduled(t)
          /\ batch' = batch \ {t}
          /\ subject' = t
    /\ pc' = "await"
    /\ UNCHANGED <<target, revoking, flow, turns, crashes>>

\* The await comes back: OpenClaw has replaced the turn of this row ...
TurnScheduled ==
    /\ pc = "await"
    /\ turns' = turns \cup {subject}
    /\ pc' = "deliver"
    /\ UNCHANGED <<ticket, outbox, batch, subject, target, revoking, flow, crashes>>

\* ... or it rejects, and the row is unscheduled again.
SchedulingFails ==
    /\ pc = "await"
    /\ turns' = turns \ {subject}
    /\ MarkOutboxFailed(subject)
    /\ pc' = "deliver"
    /\ UNCHANGED <<batch, subject, target, revoking, flow, crashes>>

EndTick ==
    /\ pc = "deliver"
    /\ batch = {}
    /\ pc' = "idle"
    /\ subject' = NoWorkflow
    /\ UNCHANGED <<ticket, outbox, batch, target, revoking, flow, turns, crashes>>

-----------------------------------------------------------------------------
(* Hooks, run by the event loop when no tick holds it. *)

LoopFree == pc \in {"idle", "await"}

\* before_agent_run: accept() and route() without an await in between.
Submit(t) ==
    /\ LoopFree
    /\ ticket[t].status = "absent"
    /\ \E lane \in {"direct", "durable"} :
          ticket' = [ticket EXCEPT ![t].status = "accepted",
                                   ![t].lane = lane,
                                   ![t].created = 1 + Cardinality({u \in Tickets : ticket[u].status # "absent"})]
    /\ UNCHANGED <<outbox, pc, batch, subject, target, revoking, flow, turns, crashes>>

\* The gateway dies between the two transactions.
SubmitInterrupted(t) ==
    /\ LoopFree
    /\ crashes < MaxCrashes
    /\ Accept(t)
    /\ crashes' = crashes + 1
    /\ pc' = "down" /\ batch' = {} /\ subject' = NoWorkflow /\ target' = NoWorkflow /\ revoking' = {}
    /\ UNCHANGED <<flow, turns>>

\* The scheduled turn reaches the owner session.  Its prompt carries the
\* delivery marker, which a before_agent_run hook of v090.ts (priority 5000)
\* blocks as internal control text before the hook of index.ts (priority 2000)
\* can bind the run to the outbox row: the turn is used up, the row untouched.
DeliveryTurn(t) ==
    /\ LoopFree
    /\ t \in turns
    /\ turns' = turns \ {t}
    /\ UNCHANGED <<ticket, outbox, pc, batch, subject, target, revoking, flow, crashes>>

\* agent_end (Stop) and session_end (Reset, Delete): the revocation commits,
\* then the hook awaits before it cancels the workflows it was told about.
StopSession(s) ==
    /\ LoopFree
    /\ RevokeSession(s)
    /\ revoking' = revoking \cup
          {w \in Tickets : \E t \in Owned(s) : /\ ticket[t].workflow = w
                                               /\ ticket[t].status \notin Terminal}
    /\ UNCHANGED <<pc, batch, subject, target, flow, turns, crashes>>

\* cancelBoundWorkflows(): the cancel command ends an unfinished workflow; if
\* the command fails, a warning is all that happens.
CancelBoundWorkflow(w) ==
    /\ LoopFree
    /\ w \in revoking
    /\ \/ flow' = [flow EXCEPT ![w] = IF @ = "active" THEN "cancelled" ELSE @]
       \/ UNCHANGED flow
    /\ revoking' = revoking \ {w}
    /\ UNCHANGED <<ticket, outbox, pc, batch, subject, target, turns, crashes>>

-----------------------------------------------------------------------------
(* Other processes, time, crashes. *)

FlowEnds(w) ==
    /\ flow[w] = "active"
    /\ \E end \in {"completed", "failed", "blocked"} : flow' = [flow EXCEPT ![w] = end]
    /\ UNCHANGED <<ticket, outbox, pc, batch, subject, target, revoking, turns, crashes>>

LeaseLapses(t) ==
    /\ Lapse(t)
    /\ UNCHANGED <<pc, batch, subject, target, revoking, flow, turns, crashes>>

Crash ==
    /\ pc # "down"
    /\ crashes < MaxCrashes
    /\ crashes' = crashes + 1
    /\ pc' = "down" /\ batch' = {} /\ subject' = NoWorkflow /\ target' = NoWorkflow /\ revoking' = {}
    /\ UNCHANGED <<ticket, outbox, flow, turns>>

\* Mutant: every row still owed is deleted.
RestartSilencesAll ==
    /\ pc = "down"
    /\ outbox' = [t \in Tickets |-> IF outbox[t] \in {"pending", "scheduled"} THEN "none" ELSE outbox[t]]
    /\ pc' = "recover"
    /\ UNCHANGED <<ticket, batch, subject, target, revoking, flow, turns, crashes>>

\* Before any service starts, prepareV090RecoveryState() makes scheduled rows
\* deliverable again and reconcileV090LiveState() deletes rows of failed
\* Tickets; then the service runs its first tick.
Restart ==
    /\ pc = "down"
    /\ outbox' = [t \in Tickets |->
                    CASE outbox[t] \in {"pending", "scheduled"} /\ ticket[t].status = "failed" -> "none"
                      [] outbox[t] = "scheduled" /\ ticket[t].status # "failed" -> "pending"
                      [] OTHER -> outbox[t]]
    /\ pc' = "recover"
    /\ UNCHANGED <<ticket, batch, subject, target, revoking, flow, turns, crashes>>

-----------------------------------------------------------------------------

Tick ==
    \/ StartTick \/ RecoverStep \/ ReconcileRow \/ ReadReady \/ AdmitAndClaim
    \/ EndDispatch \/ ReuseWorkflow \/ StartOwnWorkflow \/ LaunchThrows \/ LinkStep
    \/ FailLaunch \/ Silence \/ ScheduleDelivery \/ TurnScheduled \/ SchedulingFails
    \/ EndTick

Hook ==
    \/ \E t \in Tickets : Submit(t) \/ SubmitInterrupted(t)
    \/ \E s \in Sessions : StopSession(s)
    \/ \E w \in Tickets : CancelBoundWorkflow(w)
    \/ \E t \in Tickets : DeliveryTurn(t)

Environment ==
    \/ \E w \in Tickets : FlowEnds(w)
    \/ \E t \in Tickets : LeaseLapses(t)
    \/ Crash \/ Restart

Next == Tick \/ Hook \/ Environment

Spec == Init /\ [][Next]_vars

\* The safety sweep and the wake-up timers keep ticking, a crashed gateway is
\* restarted, workflows end because the Host supervisor relaunches their
\* controllers, and a lease nobody renews passes.  Memory and disk pressure may
\* refuse a candidate again and again, but not forever.
WorkFairness ==
    /\ WF_vars(Tick)
    /\ WF_vars(Restart)
    /\ SF_vars(AdmitAndClaim)
    /\ \A t \in Tickets : /\ WF_vars(FlowEnds(t))
                          /\ WF_vars(ticket[t].workflow = NoWorkflow /\ LeaseLapses(t))

\* A scheduled row that nobody confirms becomes overdue; OpenClaw schedules a
\* turn when asked often enough and runs it; the Stop hook finishes.
DeliveryFairness ==
    /\ SF_vars(TurnScheduled)
    /\ \A t \in Tickets : /\ SF_vars(EndDispatch /\ t \in batch')
                          /\ SF_vars(DeliveryTurn(t))
                          /\ SF_vars(CancelBoundWorkflow(t))

WorkSpec == Spec /\ WorkFairness

FairSpec == WorkSpec /\ DeliveryFairness

-----------------------------------------------------------------------------
(* Safety. *)

\* A Ticket is completed only on the word of its own workflow: whatever the
\* tick read before a crash, a lapse or a restart, the workflow it is linked to
\* has completed, and a completed workflow stays so.
CompletedHasEvidence ==
    \A t \in Tickets :
        ticket[t].status = "completed" =>
            /\ ticket[t].workflow # NoWorkflow
            /\ flow[ticket[t].workflow] = "completed"

\* A Ticket fails only when its workflow has failed or was cancelled, or when
\* its attempts are used up; a lost lease or a throw never fails it early.
FailedIsExplained ==
    \A t \in Tickets :
        ticket[t].status = "failed" =>
            \/ ticket[t].attempts = MaxAttempts
            \/ ticket[t].workflow # NoWorkflow /\ flow[ticket[t].workflow] \in {"failed", "cancelled"}

\* ticketMaximumRunning (openclaw.plugin.json: maximum linked running Ticket
\* workflows) holds between every two transactions, also for Tickets that
\* return to the queue with a workflow they already have.
ConcurrencyIsBounded == Cardinality(LinkedRunning) <= MaxRunning

\* The outbox row of a failed Ticket is removed by a second transaction
\* (v090-entry.ts).  Nobody can deliver it in between: no hook and no delivery
\* runs, and after a crash the restart removes it before any service starts.
FailureStaysSilent ==
    \A t \in Tickets :
        ticket[t].status = "failed" =>
            \/ outbox[t] = "none"
            \/ outbox[t] = "pending" /\ pc \in {"silence-reconcile", "silence-dispatch", "down"}

\* At most one workflow runs for one request, across retries, crashes between
\* start and link, and Tickets with the same prompt.
OneActiveWorkflowPerRequest ==
    \A v, w \in Tickets : flow[v] = "active" /\ flow[w] = "active" /\ Request[v] = Request[w] => v = w

\* Only Tickets of the durable lane are claimed, linked or running, although
\* claim() (ticket-store.ts:415) asks for neither workflow_eligible nor the
\* budget: what keeps Direct Tickets out is the batch of ready() alone.
OnlyDurableIsClaimed ==
    \A t \in Tickets :
        ticket[t].attempts > 0 \/ ticket[t].status = "running" \/ ticket[t].workflow # NoWorkflow =>
            ticket[t].lane = "durable"

-----------------------------------------------------------------------------
(* What they rest on. *)

Reconciling == {"reconcile", "silence-reconcile"}
Dispatching == {"dispatch", "launch", "link", "unlaunch", "silence-dispatch"}
Silencing == {"silence-reconcile", "silence-dispatch"}

\* A step that works on a Ticket, or links a workflow, has one.
SubjectFits ==
    /\ pc \in {"launch", "link", "unlaunch", "await"} \cup Silencing => subject \in Tickets
    /\ pc = "link" => target \in Tickets

\* What the tick read of its rows still holds when it comes to them: a row to
\* reconcile has its workflow, a candidate is durable and has budget for one more
\* claim.
BatchFits ==
    /\ pc \in Reconciling => \A t \in batch : ticket[t].workflow # NoWorkflow
    /\ pc \in Dispatching =>
          \A t \in batch : ticket[t].lane = "durable" /\ ticket[t].attempts < MaxAttempts

BudgetFits ==
    \A t \in Tickets :
        /\ ticket[t].attempts <= MaxAttempts
        /\ ticket[t].status = "absent" =>
              ticket[t].attempts = 0 /\ ticket[t].workflow = NoWorkflow /\ ticket[t].lane = "unrouted"

\* Between the claim and the link there is room for the Ticket of the tick.
CapacityFits == pc \in {"launch", "link"} => Cardinality(LinkedRunning \ {subject}) < MaxRunning

\* Failed Tickets whose outbox row has not been removed yet.
Unsilenced == {t \in Tickets : ticket[t].status = "failed" /\ outbox[t] # "none"}

\* Only outcomes are announced, and the one failure that may still be is the
\* one the tick silences next, or that a crash has left to the restart.
OutboxFits ==
    /\ \A t \in Tickets : outbox[t] # "none" => ticket[t].status \in {"completed", "failed"}
    /\ Unsilenced # {} => pc \in Silencing \cup {"down"}
    /\ pc \in Silencing => Unsilenced \subseteq {subject}
    /\ \A t, u \in Unsilenced : t = u

\* The state invariants of the durable lane in one formula: whatever the tick
\* read before a crash, a stop or a lapse, outcomes have evidence, capacity is
\* respected, failures stay silent, Direct Tickets stay out and a retry finds the
\* workflow it started.
\* The last five parts are what makes it inductive.
LaneInv ==
    /\ TypeOK
    /\ CompletedHasEvidence
    /\ FailedIsExplained
    /\ ConcurrencyIsBounded
    /\ FailureStaysSilent
    /\ OneActiveWorkflowPerRequest
    /\ OnlyDurableIsClaimed
    /\ SubjectFits
    /\ BatchFits
    /\ BudgetFits
    /\ CapacityFits
    /\ OutboxFits

-----------------------------------------------------------------------------
(* What the store promises still holds with the tick's own order of calls. *)

ContractState(t) ==
    CASE ticket[t].status \in Claimable -> "open"
      [] ticket[t].status = "running"   -> "claimed"
      [] OTHER                          -> ticket[t].status

ContractNotice(t) == IF outbox[t] \in {"pending", "scheduled"} THEN "owed" ELSE outbox[t]

Contract == INSTANCE TicketContract
    WITH Requests <- Tickets,
         state <- [t \in Tickets |-> ContractState(t)],
         notice <- [t \in Tickets |-> ContractNotice(t)]

\* Every step of the event loop, a hook, the engine or a crash is a step of the
\* contract or none.
ImplementsContract == Contract!Spec

-----------------------------------------------------------------------------
(* Liveness, under Fairness. *)

\* A claimed Ticket does not stay claimed: its workflow ends and is reconciled,
\* or the claim of a crashed gateway lapses and is recovered.
ClaimsAreReleased ==
    \A t \in Tickets : ticket[t].status = "running" ~> ticket[t].status # "running"

\* A durable Ticket with attempts left is not starved: it is claimed, or its
\* session stops it.
ReadyIsServed == \A t \in Tickets : t \in Ready ~> t \notin Ready

-----------------------------------------------------------------------------
(* What the documents say and the code does not do. *)

\* index.ts:792 and docs/releases/v0.9.0.md:26: the terminal evidence of a
\* completed Ticket returns to the owner (unless the session stops).
CompletedResultReturns ==
    \A t \in Tickets :
        ticket[t].status = "completed" ~> outbox[t] \in {"delivered", "none"}

==============================================================================
