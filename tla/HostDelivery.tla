---------------------------- MODULE HostDelivery ----------------------------
(***************************************************************************)
(* How a finished result reaches the transcript of its owner session.      *)
(*                                                                         *)
(* A result is first a row of cnx_assistant_delivery.  The reply of a      *)
(* direct run is staged as a row and then appended by OpenClaw itself;     *)
(* recovered replies and workflow results are queued for the Host.         *)
(* Detached `host_delivery flush' processes, any number at once, claim     *)
(* rows, look for the row's marker in the chat history, inject the message *)
(* through the gateway and settle row and Ticket.  Stop, Reset and Delete  *)
(* move the session to a new generation meanwhile.                         *)
(*                                                                         *)
(* A delivery is named by its idempotency key; a key holds the generation, *)
(* so a deleted row can come back only within its generation.  Each        *)
(* transaction, each RPC and each file write is one step.  There is no     *)
(* clock: Lapse ends a claim, Cool ends the 30 s after a failed attempt.   *)
(***************************************************************************)
EXTENDS Integers, FiniteSets

CONSTANTS
    Sessions,
    Direct,         \* replies to direct Tickets, each with its Ticket
    Wakes,          \* results of workflows, each with its completion.json
    SessionOf,      \* owner_session_key
    Flushers,       \* slots for flush processes
    Native,         \* claim holder: the OpenClaw run itself
    None,
    Reachable,      \* sessions whose transcript RPCs succeed sooner or later
    MaxGeneration,  \* bound on revocations of each session
    MaxCrashes,     \* bound on killed flush processes and gateways
    MaxPauses,      \* bound on claims that lapse under a living holder
    MaxLates,       \* bound on injections done after their RPC timed out
    MaxScrolls      \* bound on markers pushed out of the last 24 messages

Deliveries == Direct \cup Wakes

ASSUME HostDeliveryAssumption ==
    /\ Direct \cap Wakes = {}
    /\ SessionOf \in [Deliveries -> Sessions]
    /\ IsFiniteSet(Flushers) /\ Native \notin Flushers
    /\ None \notin Deliveries \cup Flushers \cup {Native}
    /\ Reachable \subseteq Sessions
    /\ MaxGeneration \in [Sessions -> Nat] /\ MaxCrashes \in Nat /\ MaxPauses \in Nat
    /\ MaxLates \in Nat /\ MaxScrolls \in Nat

VARIABLES
    session,    \* cnx_sessions
    ticket,     \* status of each direct Ticket
    run,        \* the OpenClaw run that answers a direct Ticket
    row,        \* cnx_assistant_delivery
    ahead,      \* pending rows of the same session with a smaller delivery_id
    notice,     \* deliveryStatus in completion.json
    copies,     \* messages with the delivery's marker in the transcript
    visible,    \* deliveries whose marker chat.history still returns
    flush,      \* the flush processes
    late,       \* injections the gateway still works on, their caller gone
    faults      \* faults so far, for the bounds

vars == <<session, ticket, run, row, ahead, notice, copies, visible, flush, late, faults>>

NoGeneration == -1

Places == {"idle", "claim", "authority", "suppress", "history", "inject",
           "settle", "complete", "settle-again", "failed"}

TicketStates == {"none", "accepted", "completed", "cancelled"}
RunStates == {"none", "running", "staged", "appended", "ended"}
SessionRow == [state : {"active", "deleting", "deleted"}, gen : Nat]
DeliveryRow == [status  : {"absent", "pending", "delivered"},
                gen     : Nat \cup {NoGeneration},
                holder  : Flushers \cup {Native, None},
                lease   : {"none", "live", "lapsed"},
                cooling : BOOLEAN]
FlushState == [at : Places, on : Deliveries \cup {None}, blocked : SUBSET Sessions]
FaultCount == [crashes : 0..MaxCrashes, pauses : 0..MaxPauses,
               lates : 0..MaxLates, scrolls : 0..MaxScrolls]

TypeOK ==
    /\ session \in [Sessions -> SessionRow]
    /\ ticket \in [Direct -> TicketStates]
    /\ run \in [Direct -> RunStates]
    /\ row \in [Deliveries -> DeliveryRow]
    /\ ahead \in [Deliveries -> SUBSET Deliveries]
    /\ notice \in [Wakes -> {"pending", "delivered"}]
    /\ copies \in [Deliveries -> Nat]
    /\ visible \subseteq Deliveries
    /\ flush \in [Flushers -> FlushState]
    /\ late \subseteq Deliveries
    /\ faults \in FaultCount

NoRow == [status |-> "absent", gen |-> NoGeneration, holder |-> None, lease |-> "none", cooling |-> FALSE]

Init ==
    /\ session = [s \in Sessions |-> [state |-> "active", gen |-> 0]]
    /\ ticket = [d \in Direct |-> "none"]
    /\ run = [d \in Direct |-> "none"]
    /\ row = [d \in Deliveries |-> NoRow]
    /\ ahead = [d \in Deliveries |-> {}]
    /\ notice = [d \in Wakes |-> "pending"]
    /\ copies = [d \in Deliveries |-> 0]
    /\ visible = {}
    /\ flush = [f \in Flushers |-> [at |-> "idle", on |-> None, blocked |-> {}]]
    /\ late = {}
    /\ faults = [crashes |-> 0, pauses |-> 0, lates |-> 0, scrolls |-> 0]

-----------------------------------------------------------------------------
(* The table. *)

Pending(d) == row[d].status = "pending"

Active(s) == session[s].state = "active"

\* session_authority() = ("active", owner_generation)
Current(d) == /\ Active(SessionOf[d])
              /\ session[SessionOf[d]].gen = row[d].gen

\* delivery_is_authoritative(): a completed Ticket still owns its own result.
Authoritative(d) ==
    /\ Current(d)
    /\ d \in Direct => ticket[d] \in {"accepted", "completed"}

\* The key of d is free, or its row was deleted in this same generation.
Insertable(d) ==
    /\ Active(SessionOf[d])
    /\ row[d].status = "absent"
    /\ row[d].gen \in {NoGeneration, session[SessionOf[d]].gen}

Insert(d, holder, lease) ==
    /\ row' = [row EXCEPT ![d] = [status |-> "pending", gen |-> session[SessionOf[d]].gen,
                                  holder |-> holder, lease |-> lease, cooling |-> FALSE]]
    /\ ahead' = [ahead EXCEPT ![d] = {e \in Deliveries : Pending(e) /\ SessionOf[e] = SessionOf[d]}]

\* The rows in D leave the queue, delivered or deleted.
Dequeue(D, status) ==
    /\ row' = [d \in Deliveries |->
                 IF d \in D THEN [NoRow EXCEPT !.status = status, !.gen = row[d].gen] ELSE row[d]]
    /\ ahead' = [d \in Deliveries |-> IF d \in D THEN {} ELSE ahead[d] \ D]

Release(d, cooling) ==
    row' = [row EXCEPT ![d].holder = None, ![d].lease = "none", ![d].cooling = cooling]

\* One more message with the marker of d.
Show(d) ==
    /\ copies' = [copies EXCEPT ![d] = @ + 1]
    /\ visible' = visible \cup {d}

-----------------------------------------------------------------------------
(* The plugin: runs, recovery, wakes, and what the user does to a session. *)

Submit(d) ==
    /\ ticket[d] = "none"
    /\ Active(SessionOf[d])
    /\ ticket' = [ticket EXCEPT ![d] = "accepted"]
    /\ run' = [run EXCEPT ![d] = "running"]
    /\ UNCHANGED <<session, row, ahead, notice, copies, visible, flush, late, faults>>

\* stageDashboardDirectResult() from before_message_write: the row is claimed
\* for the run.  Without staging the reply goes out with no marker.
Stage(d) ==
    /\ run[d] = "running"
    /\ \/ /\ ticket[d] = "accepted"
          /\ Insertable(d)
          /\ Insert(d, Native, "live")
          /\ run' = [run EXCEPT ![d] = "staged"]
       \/ /\ ~(ticket[d] = "accepted" /\ Insertable(d))
          /\ run' = [run EXCEPT ![d] = "ended"]
          /\ UNCHANGED <<row, ahead>>
    /\ UNCHANGED <<session, ticket, notice, copies, visible, flush, late, faults>>

\* OpenClaw appends the reply with the marker.
AppendReply(d) ==
    /\ run[d] = "staged"
    /\ run' = [run EXCEPT ![d] = "appended"]
    /\ Show(d)
    /\ UNCHANGED <<session, ticket, row, ahead, notice, flush, late, faults>>

\* Mutant: the row is settled whatever became of the Ticket.
SettleNativeOfRevoked(d) ==
    /\ run[d] = "appended"
    /\ run' = [run EXCEPT ![d] = "ended"]
    /\ \/ /\ Pending(d)
          /\ ticket' = [ticket EXCEPT ![d] = IF @ = "accepted" THEN "completed" ELSE @]
          /\ Dequeue({d}, "delivered")
       \/ ~Pending(d) /\ UNCHANGED <<ticket, row, ahead>>
    /\ UNCHANGED <<session, notice, copies, visible, flush, late, faults>>

\* settleDashboardNativeDelivery() on the transcript update, whoever holds
\* the claim by now.
SettleNative(d) ==
    /\ run[d] = "appended"
    /\ run' = [run EXCEPT ![d] = "ended"]
    /\ \/ /\ ticket[d] = "accepted" /\ Pending(d)
          /\ ticket' = [ticket EXCEPT ![d] = "completed"]
          /\ Dequeue({d}, "delivered")
       \/ /\ ~(ticket[d] = "accepted" /\ Pending(d))
          /\ UNCHANGED <<ticket, row, ahead>>
    /\ UNCHANGED <<session, notice, copies, visible, flush, late, faults>>

\* The run is interrupted, its transport fails, or its receipt is lost:
\* recordPendingDeliveryFailure() leaves row and claim as they are.
EndRun(d) ==
    /\ run[d] \in {"running", "staged", "appended"}
    /\ run' = [run EXCEPT ![d] = "ended"]
    /\ UNCHANGED <<session, ticket, row, ahead, notice, copies, visible, flush, late, faults>>

\* Direct recovery has answered an interrupted request: markResponseReady().
QueueRecovered(d) ==
    /\ run[d] = "ended"
    /\ ticket[d] = "accepted"
    /\ Insertable(d)
    /\ Insert(d, None, "none")
    /\ UNCHANGED <<session, ticket, run, notice, copies, visible, flush, late, faults>>

\* executeCompatibilityWake() ends in queueAssistantDelivery().
QueueWake(d) ==
    /\ notice[d] = "pending"
    /\ Insertable(d)
    /\ Insert(d, None, "none")
    /\ UNCHANGED <<session, ticket, run, notice, copies, visible, flush, late, faults>>

\* Mutant: the Tickets of the session are left to their runs.
RevokeSparesTickets(s, state) ==
    /\ session[s].gen < MaxGeneration[s]
    /\ session' = [session EXCEPT ![s] = [state |-> state, gen |-> @.gen + 1]]
    /\ Dequeue({d \in Wakes : SessionOf[d] = s /\ Pending(d)}, "absent")
    /\ UNCHANGED <<ticket, run, notice, copies, visible, flush, late, faults>>

\* revokeSession() for Stop and Reset ("active") and for Delete ("deleting"):
\* a pending direct result stays in the table for the next flush to suppress.
Revoke(s, state) ==
    /\ session[s].gen < MaxGeneration[s]
    /\ session' = [session EXCEPT ![s] = [state |-> state, gen |-> @.gen + 1]]
    /\ ticket' = [d \in Direct |-> IF SessionOf[d] = s /\ ticket[d] = "accepted"
                                   THEN "cancelled" ELSE ticket[d]]
    /\ Dequeue({d \in Wakes : SessionOf[d] = s /\ Pending(d)}, "absent")
    /\ UNCHANGED <<run, notice, copies, visible, flush, late, faults>>

\* finalizeSessionDeletion() after a Delete, and a new OpenClaw session under
\* the same key: reactivateSessionForLifecycle() keeps the generation.
FollowLifecycle(s) ==
    /\ \/ /\ session[s].state = "deleting"
          /\ session' = [session EXCEPT ![s].state = "deleted"]
       \/ /\ session[s].state = "deleted"
          /\ session' = [session EXCEPT ![s].state = "active"]
    /\ UNCHANGED <<ticket, run, row, ahead, notice, copies, visible, flush, late, faults>>

-----------------------------------------------------------------------------
(* A flush process: flush_deliveries(). *)

At(f, place) == flush[f].at = place

Goto(f, place) == flush' = [flush EXCEPT ![f].at = place]

NextItem(f) == flush' = [flush EXCEPT ![f].at = "claim", ![f].on = None]

\* mark_failed(), settle_delivery(): the row is still pending under this claim.
Mine(f) == Pending(flush[f].on) /\ row[flush[f].on].holder = f

Unclaimed(d) == Pending(d) /\ row[d].lease # "live" /\ ~row[d].cooling

\* Mutant: the order within the session is dropped.
ClaimableInAnyOrder(d) == Unclaimed(d)

\* The WHERE clause of claim_next_delivery(): the oldest pending row of its session.
Claimable(d) == Unclaimed(d) /\ ahead[d] = {}

\* Spawned by kickHostDelivery(), detached.
Kick(f) ==
    /\ At(f, "idle")
    /\ Goto(f, "claim")
    /\ UNCHANGED <<session, ticket, run, row, ahead, notice, copies, visible, late, faults>>

\* The code takes the sessions in the order of their keys; here any.
ClaimNext(f) ==
    /\ At(f, "claim")
    /\ \E d \in Deliveries :
          /\ Claimable(d)
          /\ SessionOf[d] \notin flush[f].blocked
          /\ row' = [row EXCEPT ![d].holder = f, ![d].lease = "live"]
          /\ flush' = [flush EXCEPT ![f].at = "authority", ![f].on = d]
    /\ UNCHANGED <<session, ticket, run, ahead, notice, copies, visible, late, faults>>

EndFlush(f) ==
    /\ At(f, "claim")
    /\ ~\E d \in Deliveries : Claimable(d) /\ SessionOf[d] \notin flush[f].blocked
    /\ flush' = [flush EXCEPT ![f] = [at |-> "idle", on |-> None, blocked |-> {}]]
    /\ UNCHANGED <<session, ticket, run, row, ahead, notice, copies, visible, late, faults>>

CheckAuthority(f) ==
    /\ At(f, "authority")
    /\ Goto(f, IF Authoritative(flush[f].on) THEN "history" ELSE "suppress")
    /\ UNCHANGED <<session, ticket, run, row, ahead, notice, copies, visible, late, faults>>

\* suppress_delivery() deletes the pending row, whoever has claimed it.
Suppress(f) ==
    /\ At(f, "suppress")
    /\ Dequeue({flush[f].on} \cap {d \in Deliveries : Pending(d)}, "absent")
    /\ NextItem(f)
    /\ UNCHANGED <<session, ticket, run, notice, copies, visible, late, faults>>

\* history_contains(), or the RPC fails.
ReadHistory(f) ==
    /\ At(f, "history")
    /\ \/ Goto(f, IF flush[f].on \in visible THEN "settle" ELSE "inject")
       \/ Goto(f, "failed")
    /\ UNCHANGED <<session, ticket, run, row, ahead, notice, copies, visible, late, faults>>

\* chat.inject appends and confirms, appends although the caller sees an error,
\* fails, or is still under way when the caller gives up.
Inject(f) ==
    /\ At(f, "inject")
    /\ \/ Show(flush[f].on) /\ Goto(f, "settle") /\ UNCHANGED <<late, faults>>
       \/ Show(flush[f].on) /\ Goto(f, "failed") /\ UNCHANGED <<late, faults>>
       \/ Goto(f, "failed") /\ UNCHANGED <<copies, visible, late, faults>>
       \/ /\ faults.lates < MaxLates
          /\ late' = late \cup {flush[f].on}
          /\ faults' = [faults EXCEPT !.lates = @ + 1]
          /\ Goto(f, "failed")
          /\ UNCHANGED <<copies, visible>>
    /\ UNCHANGED <<session, ticket, run, row, ahead, notice>>

\* Mutant: a lost claim is taken for lost authority.
SettleOrSuppress(f) ==
    LET d == flush[f].on IN
    /\ At(f, "settle")
    /\ \/ (~Mine(f) \/ ~Current(d)) /\ Goto(f, "suppress") /\ UNCHANGED <<ticket, row, ahead>>
       \/ /\ Mine(f) /\ Current(d) /\ d \in Wakes
          /\ Goto(f, "complete") /\ UNCHANGED <<ticket, row, ahead>>
       \/ /\ Mine(f) /\ Current(d) /\ d \in Direct
          /\ ticket' = [ticket EXCEPT ![d] = "completed"]
          /\ Dequeue({d}, "delivered") /\ NextItem(f)
    /\ UNCHANGED <<session, run, notice, copies, visible, late, faults>>

\* The first transaction of settle_delivery().  A direct Ticket that is neither
\* accepted nor completed raises; a workflow result leaves the transaction to
\* write completion.json.
Settle(f) ==
    LET d == flush[f].on IN
    /\ At(f, "settle")
    /\ \/ ~Mine(f) /\ NextItem(f) /\ UNCHANGED <<ticket, row, ahead>>
       \/ Mine(f) /\ ~Current(d) /\ Goto(f, "suppress") /\ UNCHANGED <<ticket, row, ahead>>
       \/ /\ Mine(f) /\ Current(d) /\ d \in Wakes
          /\ Goto(f, "complete") /\ UNCHANGED <<ticket, row, ahead>>
       \/ /\ Mine(f) /\ Current(d) /\ d \in Direct
          /\ IF ticket[d] \in {"accepted", "completed"}
             THEN /\ ticket' = [ticket EXCEPT ![d] = "completed"]
                  /\ Dequeue({d}, "delivered") /\ NextItem(f)
             ELSE Goto(f, "failed") /\ UNCHANGED <<ticket, row, ahead>>
    /\ UNCHANGED <<session, run, notice, copies, visible, late, faults>>

\* _write_completion()
WriteCompletion(f) ==
    /\ At(f, "complete")
    /\ notice' = [notice EXCEPT ![flush[f].on] = "delivered"]
    /\ Goto(f, "settle-again")
    /\ UNCHANGED <<session, ticket, run, row, ahead, copies, visible, late, faults>>

\* The second transaction looks at row, claim and authority again.
SettleWake(f) ==
    LET d == flush[f].on IN
    /\ At(f, "settle-again")
    /\ \/ ~Mine(f) /\ NextItem(f) /\ UNCHANGED <<row, ahead>>
       \/ Mine(f) /\ ~Current(d) /\ Goto(f, "suppress") /\ UNCHANGED <<row, ahead>>
       \/ Mine(f) /\ Current(d) /\ Dequeue({d}, "delivered") /\ NextItem(f)
    /\ UNCHANGED <<session, ticket, run, notice, copies, visible, late, faults>>

\* Mutant: a failed row is due again at once, in the same flush.
MarkFailedDueAgain(f) ==
    /\ At(f, "failed")
    /\ \/ Mine(f) /\ Release(flush[f].on, FALSE)
       \/ ~Mine(f) /\ UNCHANGED row
    /\ NextItem(f)
    /\ UNCHANGED <<session, ticket, run, ahead, notice, copies, visible, late, faults>>

\* mark_failed(), which host_delivery_v092 replaces; the session sits out the
\* rest of this flush.
MarkFailed(f) ==
    /\ At(f, "failed")
    /\ \/ Mine(f) /\ Release(flush[f].on, TRUE)
       \/ ~Mine(f) /\ UNCHANGED row
    /\ flush' = [flush EXCEPT ![f] = [at |-> "claim", on |-> None,
                                      blocked |-> @.blocked \cup {SessionOf[flush[f].on]}]]
    /\ UNCHANGED <<session, ticket, run, ahead, notice, copies, visible, late, faults>>

-----------------------------------------------------------------------------
(* Faults and time. *)

\* The flush process dies; its claim stays in the row.
Crash(f) ==
    /\ ~At(f, "idle")
    /\ faults.crashes < MaxCrashes
    /\ faults' = [faults EXCEPT !.crashes = @ + 1]
    /\ flush' = [flush EXCEPT ![f] = [at |-> "idle", on |-> None, blocked |-> {}]]
    /\ UNCHANGED <<session, ticket, run, row, ahead, notice, copies, visible, late>>

\* The gateway dies, with every run and every injection in it.
CrashGateway ==
    /\ \/ late # {}
       \/ \E d \in Direct : run[d] \in {"running", "staged", "appended"}
    /\ faults.crashes < MaxCrashes
    /\ faults' = [faults EXCEPT !.crashes = @ + 1]
    /\ run' = [d \in Direct |-> IF run[d] = "none" THEN "none" ELSE "ended"]
    /\ late' = {}
    /\ UNCHANGED <<session, ticket, row, ahead, notice, copies, visible, flush>>

\* The gateway gets to an injection whose caller has given up.
InjectLate(d) ==
    /\ d \in late
    /\ late' = late \ {d}
    /\ Show(d)
    /\ UNCHANGED <<session, ticket, run, row, ahead, notice, flush, faults>>

\* The holder of the claim may still act on it.
Held(d) ==
    \/ row[d].holder = Native /\ run[d] = "staged"
    \/ \E f \in Flushers : flush[f].on = d /\ row[d].holder = f

\* claim_expires_at passes.  60 s are longer than all timeouts of a flush
\* together, 120 s longer than an append: for a living holder it takes a
\* suspended machine, and counts as a fault.
Lapse(d) ==
    /\ Pending(d) /\ row[d].lease = "live"
    /\ row' = [row EXCEPT ![d].lease = "lapsed"]
    /\ \/ ~Held(d) /\ UNCHANGED faults
       \/ /\ Held(d) /\ faults.pauses < MaxPauses
          /\ faults' = [faults EXCEPT !.pauses = @ + 1]
    /\ UNCHANGED <<session, ticket, run, ahead, notice, copies, visible, flush, late>>

\* DELIVERY_RETRY_AFTER_SECONDS pass.
Cool(d) ==
    /\ row[d].cooling
    /\ row' = [row EXCEPT ![d].cooling = FALSE]
    /\ UNCHANGED <<session, ticket, run, ahead, notice, copies, visible, flush, late, faults>>

\* HISTORY_LIMIT newer messages push the marker of an unsettled row out of sight.
Scroll(d) ==
    /\ Pending(d) /\ d \in visible
    /\ faults.scrolls < MaxScrolls
    /\ visible' = visible \ {d}
    /\ faults' = [faults EXCEPT !.scrolls = @ + 1]
    /\ UNCHANGED <<session, ticket, run, row, ahead, notice, copies, flush, late>>

FlushStep(f) ==
    \/ ClaimNext(f) \/ EndFlush(f) \/ CheckAuthority(f) \/ Suppress(f)
    \/ ReadHistory(f) \/ Inject(f) \/ Settle(f)
    \/ WriteCompletion(f) \/ SettleWake(f) \/ MarkFailed(f)

Next ==
    \/ \E d \in Direct :
          \/ Submit(d) \/ Stage(d) \/ AppendReply(d)
          \/ SettleNative(d) \/ EndRun(d) \/ QueueRecovered(d)
    \/ \E d \in Wakes : QueueWake(d)
    \/ \E s \in Sessions :
          \/ \E state \in {"active", "deleting"} : Revoke(s, state)
          \/ FollowLifecycle(s)
    \/ \E f \in Flushers : Kick(f) \/ FlushStep(f) \/ Crash(f)
    \/ \E d \in Deliveries : InjectLate(d) \/ Lapse(d) \/ Cool(d) \/ Scroll(d)
    \/ CrashGateway

Spec == Init /\ [][Next]_vars

\* assistantDeliveryDue(): what the plugin's timer waits for.
DeliveryDue == \E d \in Deliveries : Unclaimed(d) /\ Current(d)

\* The plugin kicks a flush while one is due, processes run, a staged run ends,
\* time passes.  A reachable session answers sooner or later; of any other
\* session nothing is assumed.
Fairness ==
    /\ WF_vars(\E f \in Flushers : DeliveryDue /\ Kick(f))
    /\ \A f \in Flushers : WF_vars(FlushStep(f))
    /\ \A d \in Direct : WF_vars(AppendReply(d) \/ SettleNative(d) \/ EndRun(d))
    /\ \A d \in Deliveries :
          /\ WF_vars(Cool(d))
          /\ WF_vars(~Held(d) /\ Lapse(d))
          /\ SessionOf[d] \in Reachable =>
                /\ SF_vars(\E f \in Flushers :
                      flush[f].on = d /\ ReadHistory(f) /\ flush'[f].at # "failed")
                /\ SF_vars(\E f \in Flushers :
                      flush[f].on = d /\ Inject(f) /\ copies' # copies)

FairSpec == Spec /\ Fairness

-----------------------------------------------------------------------------
(* Safety. *)

\* What counts as delivered has been shown: a settled row, a completed Ticket
\* and a completion.json marked delivered each have their message in the
\* transcript, although native run, flush processes and crashes interleave.
DeliveredWasShown ==
    /\ \A d \in Deliveries : row[d].status = "delivered" => copies[d] > 0
    /\ \A d \in Direct : ticket[d] = "completed" => copies[d] > 0
    /\ \A d \in Wakes : notice[d] = "delivered" => copies[d] > 0

\* Row and Ticket end together, whether the native run or the Host settles: a
\* delivered result never has a cancelled Ticket, a completed Ticket never a
\* row that is still to be delivered.
RowAndTicketAgree ==
    \A d \in Direct : ticket[d] = "completed" <=> row[d].status = "delivered"

\* "Exactly-once-ish" (docs/BASELINE.md:71) made precise: a second copy needs a
\* claim that lapsed under a living holder, an injection done after its
\* timeout, or a marker that left the history window.  Crashes, lost replies
\* and competing flush processes alone never duplicate a message.
CopiesAreExplained ==
    \A d \in Deliveries : copies[d] <= 1 + faults.pauses + faults.lates + faults.scrolls

\* What the properties above rest on.  A process works on a delivery exactly
\* between its claim and the end of the item, and only on one whose turn it was.
Taken(d) == row[d].gen # NoGeneration /\ ahead[d] = {}
FlusherWorks(f) ==
    LET d == flush[f].on IN
    /\ flush[f].at \in {"idle", "claim"} <=> d = None
    /\ d # None => Taken(d)
    /\ flush[f].at \in {"complete", "settle-again"} => d \in Wakes
    /\ flush[f].at = "suppress" => row[d].gen # session[SessionOf[d]].gen
    /\ flush[f].at \in {"settle", "complete", "settle-again"} => copies[d] > 0
FlushersWork == (\A f \in Flushers : FlusherWorks(f)) /\ \A d \in late : Taken(d)

\* A row belongs to the generation it was inserted in; a row that was deleted
\* belongs to a former one and never comes back.
RowIsOfItsGeneration(d) ==
    LET r == row[d] s == session[SessionOf[d]] IN
    /\ r.gen <= s.gen
    /\ r.gen = s.gen => s.state = "active"
    /\ r.status = "absent" => r.gen # s.gen
    /\ r.gen = NoGeneration => r.status = "absent" /\ copies[d] = 0 /\ d \notin visible
RowsAreOfTheirGeneration == \A d \in Deliveries : RowIsOfItsGeneration(d)

\* The Ticket is revoked with the generation of its row, and its run comes first.
TicketFollowsRow(d) ==
    /\ row[d].gen # NoGeneration =>
          /\ ticket[d] # "none"
          /\ ticket[d] = "accepted" => row[d].gen = session[SessionOf[d]].gen
          /\ row[d].gen = session[SessionOf[d]].gen => ticket[d] \in {"accepted", "completed"}
    /\ run[d] \in {"none", "running"} => row[d].gen = NoGeneration
    /\ run[d] \in {"staged", "appended"} => row[d].gen # NoGeneration
    /\ run[d] = "appended" => copies[d] > 0
TicketsFollowRows == \A d \in Direct : TicketFollowsRow(d)

\* A delivery that chat.history returns was shown.
VisibleWasShown == \A d \in visible : copies[d] > 0

\* Who is about to show d whatever happens: processes that are injecting, a
\* staged run (Native), an injection left in the gateway (None).  Who is about
\* to look for it, and may show it then.
Showing(d) ==
    {f \in Flushers : flush[f].on = d /\ flush[f].at = "inject"}
    \cup {x \in {Native} : d \in Direct /\ run[d] = "staged"}
    \cup {x \in {None} : d \in late}
Looking(d) == {f \in Flushers : flush[f].on = d /\ flush[f].at \in {"authority", "history"}}

\* The claim of x is in force.
Owns(x, d) == Pending(d) /\ row[d].lease = "live" /\ row[d].holder = x /\ x # None
Strays(d) == {x \in Showing(d) \cup Looking(d) : ~Owns(x, d)}
Exposed(d) == Showing(d) \cup {x \in Looking(d) : ~Owns(x, d) /\ (Pending(d) \/ d \notin visible)}

\* The faults that explain a further copy.
Excuses == faults.pauses + faults.lates + faults.scrolls

\* The books are balanced: the copies shown and those that may still be shown by
\* someone are covered by the faults, with the one copy that is due to spare as
\* long as a claimed row has no visible marker.
Unseen(d) == Pending(d) /\ d \notin visible
Covered(d) ==
    /\ copies[d] + Cardinality(Exposed(d)) <= 1 + Excuses
    /\ Unseen(d) => copies[d] + Cardinality(Strays(d)) <= Excuses
CopiesAreCovered == \A d \in Deliveries : Covered(d)

\* The state invariants of delivery in one formula, which is inductive: what
\* counts as delivered was shown, row and Ticket end together, and every further
\* copy has its cause.
DeliveryInv ==
    /\ TypeOK
    /\ DeliveredWasShown
    /\ RowAndTicketAgree
    /\ CopiesAreExplained
    /\ FlushersWork
    /\ RowsAreOfTheirGeneration
    /\ TicketsFollowRows
    /\ VisibleWasShown
    /\ CopiesAreCovered

\* docs/releases/v0.9.0.md:28: nothing settles after the generation of its
\* session has changed.  The native settlement does not look at the generation;
\* it relies on the revocation having cancelled the Ticket.
SettlesInItsGeneration ==
    [][\A d \in Deliveries : Pending(d) /\ row'[d].status = "delivered" => Current(d)]_vars

\* A pending result leaves the table undelivered only when it has no authority
\* any more, although a flush process deletes the row long after it looked, and
\* even when another process has claimed it since.
NoValidResultIsLost ==
    [][\A d \in Deliveries : Pending(d) /\ row'[d].status = "absent" => ~Authoritative(d)']_vars

\* docs/releases/v0.9.0.md:27, order within a session: the Host shows a result
\* for the first time only when no older one of the session is pending.
HostKeepsOrder ==
    [][\A d \in Deliveries :
          copies[d] = 0 /\ copies'[d] = 1 /\ run' = run => ahead[d] = {}]_vars

-----------------------------------------------------------------------------
(* Liveness, under Fairness. *)

\* docs/releases/v0.9.0.md:27, isolation: a result of a reachable session is
\* settled unless its authority is revoked, even if other sessions never answer.
ReachableResultSettles ==
    \A d \in Deliveries : SessionOf[d] \in Reachable =>
        (Pending(d) /\ Authoritative(d) ~> ~(Pending(d) /\ Authoritative(d)))

==============================================================================
