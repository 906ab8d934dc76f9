-------------------------- MODULE DirectRecovery --------------------------
(***************************************************************************)
(* What becomes of a Direct Ticket whose run dies, stalls or fails: the    *)
(* lease around each provider call of the original run (v091-direct-model- *)
(* call-lease.ts), the Host supervisor that claims a lease, quiesces the   *)
(* Gateway and authorises a recovery (host_stall_v091.py for an expired    *)
(* lease, host_provider_v092.py for a terminal error), and the recovery    *)
(* worker of the plugin (v091-/v094-/v095-direct-recovery.ts).             *)
(*                                                                         *)
(* One session, one Ticket, one Host process at a time, one Gateway. A     *)
(* step of the plugin is what its JavaScript thread does between two       *)
(* database transactions, so the Host may act between any two of them.     *)
(***************************************************************************)
EXTENDS Integers, FiniteSets

CONSTANTS
    Supervisors,   \* what a tick of the Host claims: "stall", "terminal"
    Surfaces,      \* where the request came from: "dashboard", "channel"
    MaxGen,        \* bound: Stops and Resets of the session
    MaxCalls,      \* bound: provider calls of the original run
    MaxAttempts,   \* bound: recovery attempts
    MaxTries,      \* MAX_STALL_RECOVERY_ATTEMPTS
    MaxUpsets      \* bound: crashes, failed steps, operator commands, promotions elsewhere,
                   \* idle spells of the session

ASSUME RecoveryAssumption ==
    /\ Supervisors \subseteq {"stall", "terminal"}
    /\ Surfaces \subseteq {"dashboard", "channel"}
    /\ {MaxGen, MaxCalls, MaxAttempts, MaxTries, MaxUpsets} \subseteq Nat

VARIABLES
    gw,        \* the Gateway process (and with it the plugin): down, starting, up
    fence,     \* the lane trigger of v095-direct-recovery.ts is installed
    sess,      \* cnx_sessions: state, generation; live: it has a session_id and was
               \* updated within DIRECT_RECOVERY_SESSION_LIVENESS_MS
    ticket,    \* tickets: status, workflow_eligible, response_ready_at
    call,      \* cnx_direct_model_call: the row of the Ticket
    run,       \* the original run inside the Gateway
    rec,       \* cnx_direct_recovery: the row of the Ticket
    results,   \* cnx_assistant_delivery: the direct_result rows
    cand,      \* the row dueDirectRecovery returned, not claimed yet
    runner,    \* the recovery attempts in progress inside the Gateway; taken: what the
               \* attempt is for was given to another while it was in progress
    host,      \* the Host process: which job, which step; whether a start of the
               \* operator ever met a running Gateway
    upsets     \* of the kinds MaxUpsets bounds, so far

vars == <<gw, fence, sess, ticket, call, run, rec, results, cand, runner, host, upsets>>
plugin == <<run, cand, runner>>

Attempts == 1..MaxAttempts
NoCandidate == [gen |-> 0, att |-> 0]
NoRunner == [at |-> "none", gen |-> 0, taken |-> FALSE]

Init ==
    /\ gw = "up"
    /\ fence \in BOOLEAN   \* not on a database the Gateway has just created
    /\ sess = [state |-> "active", gen |-> 0, live |-> TRUE]
    /\ ticket = [status |-> "accepted", eligible |-> FALSE, ready |-> FALSE]
    /\ call = [state |-> "none", id |-> 0, error |-> FALSE, due |-> FALSE, old |-> FALSE, tries |-> 0]
    /\ \E s \in Surfaces :
          run = [at |-> "thinking", id |-> 0, surface |-> s, staged |-> FALSE, receipt |-> FALSE]
    /\ rec = [state |-> "none", gen |-> 0, att |-> 0, run |-> 0, due |-> FALSE]
    /\ results = {}
    /\ cand = NoCandidate
    /\ runner = [a \in Attempts |-> NoRunner]
    /\ host = [at |-> "idle", job |-> "none", id |-> 0, joined |-> FALSE]
    /\ upsets = 0

-----------------------------------------------------------------------------
(* Shared reads.                                                           *)

\* The Ticket is still in the Direct lane: accepted, not eligible, no workflow.
Direct == ticket.status = "accepted" /\ ~ticket.eligible

\* The session is active, in generation g.
Current(g) == sess.state = "active" /\ sess.gen = g

\* The row the plugin, the Host delivery and the fences look for.
Durable == results # {}

\* claimIdentity: the attempt still holds the authority it was started with.
Authorized(a) ==
    /\ Direct
    /\ Current(runner[a].gen)
    /\ rec.state = "running" /\ rec.run = a /\ rec.gen = runner[a].gen

\* queueRecovery: the row becomes pending for the generation of the session.
Queued == [rec EXCEPT !.state = "pending", !.gen = sess.gen, !.run = 0, !.due = TRUE]

\* markDirectRecovery: only for a Direct Ticket of an active session; the
\* Ticket forgets that it was ready.
MarkDirectRecovery ==
    IF Direct /\ sess.state = "active"
    THEN rec' = Queued /\ ticket' = [ticket EXCEPT !.ready = FALSE]
    ELSE UNCHANGED <<rec, ticket>>

-----------------------------------------------------------------------------
(* The original run and its provider calls.                                *)

\* model_call_started. The lease is recorded for a Direct Ticket without an
\* answer, never over a row the Host is recovering.
CallStart ==
    /\ gw = "up" /\ run.at = "thinking" /\ run.id < MaxCalls
    /\ run' = [run EXCEPT !.at = "calling", !.id = @ + 1]
    /\ call' = IF Direct /\ ~ticket.ready /\ call.state # "recovering"
               THEN [state |-> "active", id |-> run.id + 1, error |-> FALSE,
                     due |-> FALSE, old |-> FALSE, tries |-> 0]
               ELSE call
    /\ UNCHANGED <<gw, fence, sess, ticket, rec, results, cand, runner, host, upsets>>

\* model_call_ended, with or without an error; a row the Host claimed is left.
CallEnd ==
    /\ gw = "up" /\ run.at = "calling"
    /\ run' = [run EXCEPT !.at = "thinking"]
    /\ \E error \in BOOLEAN :
          call' = IF call.state = "active" /\ call.id = run.id
                  THEN [call EXCEPT !.state = "ended", !.error = error, !.due = FALSE] ELSE call
    /\ UNCHANGED <<gw, fence, sess, ticket, rec, results, cand, runner, host, upsets>>

\* stageDashboardDirectResult at before_message_write: one row per generation;
\* a second text for the same generation is refused.
Stage ==
    /\ gw = "up" /\ run.at = "thinking" /\ run.id > 0 /\ run.surface = "dashboard"
    /\ Direct /\ sess.state = "active"
    /\ ~\E r \in results : r.gen = sess.gen
    /\ results' = results \cup {[gen |-> sess.gen, att |-> 0]}
    /\ ticket' = [ticket EXCEPT !.ready = TRUE]
    /\ run' = [run EXCEPT !.staged = TRUE]
    /\ UNCHANGED <<gw, fence, sess, call, rec, cand, runner, host, upsets>>

\* settleDashboardNativeDelivery: the transcript shows the staged text.
NativeSettle ==
    /\ gw = "up" /\ run.staged
    /\ run' = [run EXCEPT !.staged = FALSE]
    /\ ticket' = IF Direct /\ ticket.ready THEN [ticket EXCEPT !.status = "completed"] ELSE ticket
    /\ UNCHANGED <<gw, fence, sess, call, rec, results, cand, runner, host, upsets>>

\* agent_end of a run that succeeded: finalizeDirectRun. A durable Dashboard
\* answer is left to its delivery; any other waits for a receipt, if the
\* surface sends one, or is complete.
Succeed ==
    /\ gw = "up" /\ run.at = "thinking" /\ run.id > 0
    /\ \E expects \in BOOLEAN :
          /\ run.surface = "dashboard" => expects
          /\ ticket' = CASE ~Direct -> ticket
                         [] Direct /\ ~expects -> [ticket EXCEPT !.ready = TRUE, !.status = "completed"]
                         [] Direct /\ expects -> [ticket EXCEPT !.ready = TRUE]
          /\ run' = [run EXCEPT !.at = "succeeded", !.receipt = expects /\ run.surface = "channel"]
    /\ UNCHANGED <<gw, fence, sess, call, rec, results, cand, runner, host, upsets>>

\* agent_end of a run that failed, first part: hostRecoveryOwnsRun. While the
\* Host owns the call the end of the run is an observation only.
Fail ==
    /\ gw = "up" /\ run.at \in {"thinking", "calling"}
    /\ run' = [run EXCEPT !.at = IF call.state = "recovering" THEN "failed" ELSE "failing"]
    /\ UNCHANGED <<gw, fence, sess, ticket, call, rec, results, cand, runner, host, upsets>>

\* Second part: an interrupted run is queued for recovery, any other failure
\* is final.
FinalizeFailure ==
    /\ gw = "up" /\ run.at = "failing"
    /\ run' = [run EXCEPT !.at = "failed"]
    /\ \/ MarkDirectRecovery
       \/ /\ ticket' = IF Direct THEN [ticket EXCEPT !.status = "failed"] ELSE ticket
          /\ rec' = rec
    /\ UNCHANGED <<gw, fence, sess, call, results, cand, runner, host, upsets>>

\* Third part, also of a run that succeeded: a failing run whose last call
\* ended in an error leaves terminal evidence, else an open lease is closed.
EndRun ==
    /\ gw = "up" /\ run.at \in {"succeeded", "failed"}
    /\ run' = [run EXCEPT !.at = "over"]
    /\ call' = IF run.at = "failed" /\ call.state = "ended" /\ call.error
               THEN [call EXCEPT !.state = "terminal_error", !.error = FALSE]
               ELSE IF call.state = "active" THEN [call EXCEPT !.state = "ended", !.due = FALSE] ELSE call
    /\ UNCHANGED <<gw, fence, sess, ticket, rec, results, cand, runner, host, upsets>>

\* message_sent of a surface that reports delivery: confirmDirectDelivery or
\* failDirectDelivery.
Receipt ==
    /\ gw = "up" /\ run.receipt
    /\ run' = [run EXCEPT !.receipt = FALSE]
    /\ IF Durable THEN UNCHANGED <<ticket, rec>>   \* the durable row is settled by its delivery
       ELSE \/ /\ ticket' = IF Direct /\ ticket.ready THEN [ticket EXCEPT !.status = "completed"] ELSE ticket
               /\ rec' = rec
            \/ MarkDirectRecovery
    /\ UNCHANGED <<gw, fence, sess, call, results, cand, runner, host, upsets>>

\* Mutant: an unverifiable answer of the Dashboard is skipped, not failed.
RecoverChannel ==
    /\ gw = "up" /\ Direct /\ ticket.ready /\ ~Durable
    /\ run.surface = "channel" /\ sess.state = "active"
    /\ rec' = Queued
    /\ ticket' = [ticket EXCEPT !.ready = FALSE]
    /\ UNCHANGED <<gw, fence, sess, call, results, host, upsets, plugin>>

\* recoverUndeliveredDirect, two minutes later: an answer of the Dashboard that
\* was never staged cannot be verified and fails, unless the Host owns its call;
\* any other answer is queued again.
RecoverUndelivered ==
    /\ gw = "up" /\ Direct /\ ticket.ready /\ ~Durable
    /\ IF run.surface = "dashboard" /\ call.state # "recovering"
       THEN ticket' = [ticket EXCEPT !.status = "failed"] /\ rec' = rec
       ELSE /\ sess.state = "active"
            /\ rec' = Queued
            /\ ticket' = [ticket EXCEPT !.ready = FALSE]
    /\ UNCHANGED <<gw, fence, sess, call, results, host, upsets, plugin>>

\* revokeSession: Stop, Reset and Delete advance the generation, Delete also
\* retires the session. Open work is cancelled; direct_result rows are kept.
Revoke ==
    /\ gw # "down" /\ sess.state = "active"
    /\ sess.gen < MaxGen
    /\ \E s \in {"active", "deleting"}, live \in {sess.live, TRUE} :   \* with a session_id from now on
          sess' = [state |-> s, gen |-> sess.gen + 1, live |-> live]
    /\ ticket' = IF ticket.status \in {"accepted", "waiting", "workflow"}
                 THEN [ticket EXCEPT !.status = "cancelled", !.ready = FALSE] ELSE ticket
    /\ rec' = IF rec.state = "none" THEN rec
              ELSE [rec EXCEPT !.state = "cancelled", !.run = 0, !.due = FALSE]
    /\ UNCHANGED <<gw, fence, call, results, host, upsets, plugin>>

\* The session is left alone for longer than its liveness window, or never had a
\* session_id. No more than a revocation makes it live again.
SessionIdles ==
    /\ sess.live /\ upsets < MaxUpsets
    /\ upsets' = upsets + 1
    /\ sess' = [sess EXCEPT !.live = FALSE]
    /\ UNCHANGED <<gw, fence, ticket, call, rec, results, host, plugin>>

-----------------------------------------------------------------------------
(* The recovery worker of the plugin.                                      *)

\* next_attempt_at is reached.
BackOffEnds ==
    /\ rec.state = "pending" /\ ~rec.due
    /\ rec' = [rec EXCEPT !.due = TRUE]
    /\ UNCHANGED <<gw, fence, sess, ticket, call, results, host, upsets, plugin>>

\* Mutant: the age of the row is not compared with the longest inference.
ResetYoung ==
    /\ gw = "up" /\ rec.state = "running"
    /\ Direct /\ Current(rec.gen)
    /\ rec' = [rec EXCEPT !.state = "pending", !.run = 0, !.due = TRUE]
    /\ UNCHANGED <<gw, fence, sess, ticket, call, results, host, upsets, plugin>>

\* resetStaleDirectRecovery: a running row older than any inference can last
\* (its runner is gone) becomes pending again, with the same attempt count.
ResetStale ==
    /\ gw = "up" /\ rec.state = "running" /\ \A a \in Attempts : runner[a].at = "none"
    /\ Direct /\ Current(rec.gen)
    /\ rec' = [rec EXCEPT !.state = "pending", !.run = 0, !.due = TRUE]
    /\ UNCHANGED <<gw, fence, sess, ticket, call, results, host, upsets, plugin>>

\* dueDirectRecovery: a read-only look at the row, fenced against a session
\* that is not live and a call that is still active or owned by the Host.
Due ==
    /\ gw = "up" /\ cand = NoCandidate /\ rec.att < MaxAttempts
    /\ rec.state = "pending" /\ rec.due
    /\ Direct /\ Current(rec.gen) /\ sess.live
    /\ call.state \notin {"active", "recovering"}
    /\ cand' = [gen |-> rec.gen, att |-> rec.att + 1]
    /\ UNCHANGED <<gw, fence, sess, ticket, call, run, rec, results, runner, host, upsets>>

\* claim: one conditional update. It does not look at the call again.
Claim ==
    /\ gw = "up" /\ cand # NoCandidate
    /\ cand' = NoCandidate
    /\ IF /\ rec.state = "pending" /\ rec.gen = cand.gen
          /\ Direct /\ Current(cand.gen)
       THEN /\ rec' = [rec EXCEPT !.state = "running", !.att = @ + 1, !.run = cand.att, !.due = FALSE]
            /\ runner' = [runner EXCEPT ![cand.att] = [at |-> "owner", gen |-> cand.gen, taken |-> FALSE]]
       ELSE UNCHANGED <<rec, runner>>
    /\ UNCHANGED <<gw, fence, sess, ticket, call, run, results, host, upsets>>

Leave(a) == runner' = [runner EXCEPT ![a] = NoRunner]

\* retry: back to pending with a back-off, if the attempt is still the one.
Retry(a) == rec' = IF Authorized(a) THEN [rec EXCEPT !.state = "pending", !.run = 0] ELSE rec

\* getSessionMessages of the owner returned or failed; the inference starts if
\* the claim still stands.
Launch(a) ==
    /\ gw = "up" /\ runner[a].at = "owner"
    /\ \/ Authorized(a) /\ runner' = [runner EXCEPT ![a].at = "infer"] /\ rec' = rec
       \/ Leave(a) /\ Retry(a)
    /\ UNCHANGED <<gw, fence, sess, ticket, call, run, results, cand, host, upsets>>

\* waitForClaimRevocation sees that the claim is gone and aborts the inference.
AbortRevoked(a) ==
    /\ gw = "up" /\ runner[a].at = "infer" /\ ~Authorized(a)
    /\ runner' = [runner EXCEPT ![a].at = "abort"]
    /\ UNCHANGED <<gw, fence, sess, ticket, call, run, rec, results, cand, host, upsets>>

\* An error of the store other than BUSY reaches waitForClaimRevocation: the
\* attempt is given up and its row retried, if the store allows that, while the
\* inference goes on with nobody to abort it or to take its answer.
WatchFails(a) ==
    /\ gw = "up" /\ runner[a].at = "infer" /\ upsets < MaxUpsets
    /\ upsets' = upsets + 1
    /\ runner' = [runner EXCEPT ![a].at = "loose", ![a].taken = TRUE]
    /\ Retry(a) \/ rec' = rec
    /\ UNCHANGED <<gw, fence, sess, ticket, call, run, results, cand, host>>

\* The aborted inference settles, or is not waited for any longer; an inference
\* that nobody watches ends.
AbortSettles(a) ==
    /\ gw = "up" /\ runner[a].at \in {"abort", "loose"}
    /\ Leave(a)
    /\ UNCHANGED <<gw, fence, sess, ticket, call, run, rec, results, cand, host, upsets>>

\* The inference failed, was aborted, was empty or ran on another model.
InferenceFails(a) ==
    /\ gw = "up" /\ runner[a].at = "infer"
    /\ Leave(a) /\ Retry(a)
    /\ UNCHANGED <<gw, fence, sess, ticket, call, run, results, cand, host, upsets>>

\* The store refuses the retry: the attempt ends and its row stays running.
RetryFails(a) ==
    /\ gw = "up" /\ runner[a].at \in {"owner", "infer", "abort"} /\ upsets < MaxUpsets
    /\ upsets' = upsets + 1
    /\ Leave(a)
    /\ UNCHANGED <<gw, fence, sess, ticket, call, run, rec, results, cand, host>>

\* The condition of markResponseReady, read in its own transaction.
HoldsClaim(a) == Authorized(a)

\* markResponseReady: the answer is committed once per generation; an answer
\* that differs from the committed one raises and is retried.
MarkResponseReady(a) ==
    LET committed == \E r \in results : r.gen = runner[a].gen IN
    /\ gw = "up" /\ runner[a].at = "infer"
    /\ Leave(a)
    /\ \/ /\ ~HoldsClaim(a)
          /\ UNCHANGED <<ticket, rec, results>>
       \/ /\ HoldsClaim(a)
          /\ results' = IF committed THEN results ELSE results \cup {[gen |-> runner[a].gen, att |-> a]}
          /\ ticket' = [ticket EXCEPT !.ready = TRUE]
          /\ rec' = [rec EXCEPT !.state = "awaiting", !.run = 0, !.due = FALSE]
       \/ /\ HoldsClaim(a) /\ committed
          /\ Retry(a)
          /\ UNCHANGED <<ticket, results>>
    /\ UNCHANGED <<gw, fence, sess, call, run, cand, host, upsets>>

\* settle_delivery of host_delivery.py for a direct result of the current
\* generation; it raises unless the Ticket is Direct and ready.
Deliver ==
    /\ \E r \in results : Current(r.gen)
    /\ Direct /\ ticket.ready
    /\ ticket' = [ticket EXCEPT !.status = "completed"]
    /\ rec' = IF rec.state = "none" THEN rec ELSE [rec EXCEPT !.state = "done", !.run = 0, !.due = FALSE]
    /\ UNCHANGED <<gw, fence, sess, call, results, host, upsets, plugin>>

-----------------------------------------------------------------------------
(* The Host supervisor and the operator commands.                          *)

\* The deadline of the recorded call passes; RECLAIM_AFTER_SECONDS pass since a
\* claim was taken, and that deadline with them.
DeadlinePasses ==
    /\ \/ call.state = "active" /\ ~call.due /\ call' = [call EXCEPT !.due = TRUE]
       \/ call.state = "recovering" /\ ~call.old /\ call' = [call EXCEPT !.old = TRUE]
    /\ UNCHANGED <<gw, fence, sess, ticket, rec, results, host, upsets, plugin>>

\* Mutant: a claim whose owner died is never taken over.
ClaimOnce(s) ==
    CASE s = "stall" -> call.due /\ call.state = "active"
      [] s = "terminal" -> call.state = "terminal_error"

\* What the two supervisors take. The stall tick also takes over the claim of
\* either that was left, once the deadline of the call has passed.
Claimable(s) ==
    CASE s = "stall" -> \/ call.state = "active" /\ call.due
                        \/ call.state = "recovering" /\ call.old
      [] s = "terminal" -> call.state = "terminal_error"

\* claim_expired_direct_model_call and claim_terminal_error_direct_model_call.
\* The stall tick needs a Gateway that answers its probe.
ClaimCall ==
    /\ host.at = "idle"
    /\ Direct /\ ~ticket.ready /\ call.tries < MaxTries
    /\ \E s \in Supervisors :
          /\ s = "stall" => gw = "up"
          /\ Claimable(s)
          /\ host' = [host EXCEPT !.at = "claimed", !.job = s, !.id = call.id]
    /\ call' = [call EXCEPT !.state = "recovering", !.old = FALSE, !.tries = @ + 1]
    /\ UNCHANGED <<gw, fence, sess, ticket, rec, results, upsets, plugin>>

\* The Gateway process ends: what its memory held is gone.
Forgotten ==
    /\ run' = [at |-> "over", id |-> 0, surface |-> run.surface, staged |-> FALSE, receipt |-> FALSE]
    /\ cand' = NoCandidate
    /\ runner' = [a \in Attempts |-> NoRunner]
Killed == gw' = "down" /\ Forgotten

\* A Gateway starts: its registration installs the lane trigger on the
\* database it finds.
Started == gw' = "starting" /\ fence' = TRUE

\* lifecycle prepare and stop of a recovery.
Quiesce ==
    /\ host.at = "claimed"
    /\ Killed
    /\ host' = [host EXCEPT !.at = "stopped"]
    /\ UNCHANGED <<fence, sess, ticket, call, rec, results, upsets>>

\* reconcile_direct_delivery_before_recovery: an answer that is durable puts
\* the Ticket back into the Direct lane, one that is not fails it.
Held == ticket.status \in {"accepted", "waiting"} /\ ticket.ready
Fence ==
    /\ host.at = "stopped"
    /\ host' = [host EXCEPT !.at = "fenced"]
    /\ ticket' = IF Held THEN [ticket EXCEPT !.status = IF Durable THEN "accepted" ELSE "failed",
                                             !.eligible = FALSE] ELSE ticket
    /\ rec' = IF Held /\ ~Durable /\ rec.state # "none"
              THEN [rec EXCEPT !.state = "cancelled", !.run = 0, !.due = FALSE] ELSE rec
    /\ UNCHANGED <<gw, fence, sess, call, results, upsets, plugin>>

\* reconcile_direct_delivery_authority, in a transaction of its own: a durable
\* answer takes the recovery row away from inference.
Suppress ==
    /\ host.at = "fenced"
    /\ host' = [host EXCEPT !.at = "suppressed"]
    /\ rec' = IF Held /\ Durable /\ rec.state \in {"pending", "running"}
              THEN [rec EXCEPT !.state = "awaiting", !.run = 0, !.due = FALSE] ELSE rec
    /\ UNCHANGED <<gw, fence, sess, ticket, call, results, upsets, plugin>>

\* Mutant: the durable row is not looked for.
NothingReady == ticket.status \in {"accepted", "waiting"} /\ ~ticket.ready

\* Mutant: the status of the Ticket is not read.
NothingStaged == ~ticket.ready /\ ~Durable

\* What a classification must find before it authorises an inference.
NothingAnswered ==
    /\ ticket.status \in {"accepted", "waiting"}
    /\ ~ticket.ready
    /\ ~Durable

\* classify_quiesced_direct_model_call and its terminal-error counterpart:
\* hold the call, or put the Ticket into the Direct lane with a pending row.
Classify ==
    /\ host.at = "suppressed" /\ host.job \in Supervisors
    /\ call.state = "recovering" /\ call.id = host.id
    /\ host' = [host EXCEPT !.at = "classified"]
    /\ IF NothingAnswered
       THEN /\ sess.state = "active"
            /\ ticket' = [ticket EXCEPT !.status = "accepted", !.eligible = FALSE]
            /\ rec' = Queued
            /\ call' = [call EXCEPT !.state = "interrupted", !.due = FALSE, !.old = FALSE]
       ELSE /\ call' = [call EXCEPT !.state = "ended", !.due = FALSE, !.old = FALSE]
            /\ UNCHANGED <<ticket, rec>>
    /\ UNCHANGED <<gw, fence, sess, results, upsets, plugin>>

\* lifecycle start at the end of a recovery.
StartGateway ==
    /\ host.at = "classified"
    /\ host' = [host EXCEPT !.at = "idle", !.job = "none", !.id = 0]
    /\ Started
    /\ UNCHANGED <<sess, ticket, call, rec, results, upsets, plugin>>

\* A step of a recovery fails. The stall tick gives the call back with a new
\* deadline and leaves the Gateway as it is; the terminal recovery starts the
\* Gateway it has stopped and leaves the call as it is.
StepFails ==
    /\ host.job \in Supervisors /\ upsets < MaxUpsets
    /\ upsets' = upsets + 1
    /\ host' = [host EXCEPT !.at = "idle", !.job = "none", !.id = 0]
    /\ IF host.job = "stall"
       THEN /\ call' = IF call.state = "recovering" /\ call.id = host.id
                       THEN [call EXCEPT !.state = "active", !.due = FALSE, !.old = FALSE] ELSE call
            /\ UNCHANGED <<gw, fence>>
       ELSE /\ call' = call
            /\ IF host.at = "claimed" THEN UNCHANGED <<gw, fence>> ELSE Started
    /\ UNCHANGED <<sess, ticket, rec, results, plugin>>

\* start and restart of the operator: the Gateway is started, after a stop for
\* restart, and then interrupted Direct work is promoted.
Command ==
    /\ host.at = "idle" /\ upsets < MaxUpsets
    /\ upsets' = upsets + 1
    /\ \/ /\ Started /\ Forgotten
          /\ host' = [host EXCEPT !.at = "stopped", !.job = "promote"]
       \/ /\ UNCHANGED plugin
          /\ IF gw = "down" THEN Started ELSE UNCHANGED <<gw, fence>>
          /\ host' = [host EXCEPT !.at = "stopped", !.job = "promote", !.joined = @ \/ gw # "down"]
    /\ UNCHANGED <<sess, ticket, call, rec, results>>

\* The lane trigger ignores an update that would take a Ticket with a recovery
\* row out of the Direct lane.
LaneLocked == fence /\ rec.state # "none"

\* promote_interrupted_direct_v091, after its two fences.
Promote ==
    /\ host.at = "suppressed" /\ host.job = "promote"
    /\ host' = [host EXCEPT !.at = "idle", !.job = "none"]
    /\ ticket' = IF Direct /\ ~ticket.ready /\ sess.state = "active" /\ ~LaneLocked
                 THEN [ticket EXCEPT !.status = "waiting", !.eligible = TRUE] ELSE ticket
    /\ UNCHANGED <<gw, fence, sess, call, rec, results, upsets, plugin>>

\* The generic dispatcher binds a workflow to a promoted Ticket.
Bind ==
    /\ gw = "up" /\ ticket.status = "waiting" /\ ticket.eligible
    /\ ticket' = [ticket EXCEPT !.status = "workflow"]
    /\ UNCHANGED <<gw, fence, sess, call, rec, results, host, upsets, plugin>>

\* supervisor_tick of host_v091.py: a Gateway that does not answer is restarted.
HardHang ==
    /\ host.at = "idle" /\ gw = "down"
    /\ Started
    /\ UNCHANGED <<sess, ticket, call, rec, results, host, upsets, plugin>>

\* The Host process dies between two steps; the Gateway process dies.
HostDies ==
    /\ host.at # "idle" /\ upsets < MaxUpsets
    /\ upsets' = upsets + 1
    /\ host' = [host EXCEPT !.at = "idle", !.job = "none", !.id = 0]
    /\ UNCHANGED <<gw, fence, sess, ticket, call, rec, results, plugin>>
GatewayDies ==
    /\ gw # "down" /\ upsets < MaxUpsets
    /\ upsets' = upsets + 1
    /\ Killed
    /\ UNCHANGED <<fence, sess, ticket, call, rec, results, host>>

\* prepareV090RecoveryState, one transaction: a promoted Ticket that is not
\* bound yet returns to the Direct lane with a pending row, the row of a
\* settled Ticket is cancelled, a running row becomes pending.
Reopens == ticket.status = "waiting" /\ ticket.eligible /\ sess.state = "active"
Prepared ==
    \/ /\ Reopens
       /\ ticket' = [status |-> "accepted", eligible |-> FALSE, ready |-> FALSE]
       /\ rec' = Queued
    \/ /\ ~Reopens
       /\ ticket' = ticket
       /\ rec' = IF rec.state # "none" /\ ticket.status \in {"completed", "failed", "cancelled"}
                 THEN [rec EXCEPT !.state = "cancelled", !.run = 0, !.due = FALSE]
                 ELSE IF /\ rec.state = "running" /\ ticket.status \in {"accepted", "waiting", "workflow"}
                         /\ Current(rec.gen)
                 THEN [rec EXCEPT !.state = "pending", !.run = 0, !.due = TRUE]
                 ELSE rec

\* The startup fence of the Gateway: the services wait for it.
StartUp ==
    /\ gw = "starting" /\ gw' = "up"
    /\ Prepared
    /\ UNCHANGED <<fence, sess, call, results, host, upsets, plugin>>

\* The reconciliation tick of the running Gateway finds promoted work, or the
\* open row of a settled Ticket (reconcileV090LiveState).
Reconcile ==
    /\ gw = "up"
    /\ \/ ticket.status = "waiting" /\ ticket.eligible
       \/ ticket.status \in {"completed", "failed", "cancelled"} /\ rec.state \notin {"none", "cancelled"}
    /\ Prepared
    /\ UNCHANGED <<gw, fence, sess, call, results, host, upsets, plugin>>

\* The tick finds promoted work of another session and prepares the whole
\* database: the row an attempt is in progress for becomes pending too.
ReconcileElsewhere ==
    /\ gw = "up" /\ upsets < MaxUpsets
    /\ upsets' = upsets + 1
    /\ Prepared
    /\ runner' = [a \in Attempts |-> [runner[a] EXCEPT !.taken = @ \/ runner[a].at # "none"]]
    /\ UNCHANGED <<gw, fence, sess, call, run, results, cand, host>>

-----------------------------------------------------------------------------
Run == CallStart \/ CallEnd \/ Stage \/ NativeSettle \/ Succeed \/ Fail
       \/ FinalizeFailure \/ EndRun \/ Receipt \/ RecoverUndelivered \/ Revoke \/ SessionIdles

Worker ==
    \/ BackOffEnds \/ ResetStale \/ Due \/ Claim \/ Deliver
    \/ \E a \in Attempts : \/ Launch(a) \/ AbortRevoked(a) \/ WatchFails(a) \/ AbortSettles(a)
                           \/ InferenceFails(a) \/ RetryFails(a) \/ MarkResponseReady(a)

Host ==
    \/ DeadlinePasses \/ ClaimCall \/ Quiesce \/ Fence \/ Suppress \/ Classify
    \/ StartGateway \/ StepFails \/ Command \/ Promote \/ Bind \/ StartUp \/ Reconcile
    \/ ReconcileElsewhere \/ HardHang \/ HostDies \/ GatewayDies

Next == Run \/ Worker \/ Host
Spec == Init /\ [][Next]_vars

\* The delivery wake-ups of the running plugin, for a session that is live
\* (assistantDeliveryAuthority).
Wakes == gw = "up" /\ sess.live /\ Deliver

\* The delivery of the plugin and the minute tick of the Host go on.  Nothing
\* obliges a provider call or an inference to end, a due recovery to be claimed
\* (the session may be idle), an idle session to be delivered to or a user to act.
FairSpec ==
    /\ Spec
    /\ WF_vars(RecoverUndelivered) /\ WF_vars(Wakes)
    /\ WF_vars(DeadlinePasses) /\ WF_vars(ClaimCall)
    /\ WF_vars(Quiesce) /\ WF_vars(Fence) /\ WF_vars(Suppress) /\ WF_vars(Classify)
    /\ WF_vars(StartGateway) /\ WF_vars(Promote) /\ WF_vars(HardHang) /\ WF_vars(StartUp)

-----------------------------------------------------------------------------
(* Properties.                                                             *)

SessionRow == [state : {"active", "deleting"}, gen : 0..MaxGen, live : BOOLEAN]
TicketRow == [status : {"accepted", "waiting", "workflow", "completed", "failed", "cancelled"},
              eligible : BOOLEAN, ready : BOOLEAN]
CallRow == [state : {"none", "active", "ended", "terminal_error", "recovering", "interrupted"},
            id : 0..MaxCalls, error : BOOLEAN, due : BOOLEAN, old : BOOLEAN, tries : 0..MaxTries]
RunState == [at : {"thinking", "calling", "succeeded", "failing", "failed", "over"},
             id : 0..MaxCalls, surface : Surfaces, staged : BOOLEAN, receipt : BOOLEAN]
RecoveryRow == [state : {"none", "pending", "running", "awaiting", "cancelled", "done"},
                gen : 0..MaxGen, att : 0..MaxAttempts, run : 0..MaxAttempts, due : BOOLEAN]
Answer == [gen : 0..MaxGen, att : 0..MaxAttempts]
RunnerState == [at : {"none", "owner", "infer", "abort", "loose"}, gen : 0..MaxGen, taken : BOOLEAN]
HostState == [at : {"idle", "claimed", "stopped", "fenced", "suppressed", "classified"},
              job : {"none", "promote"} \cup Supervisors, id : 0..MaxCalls, joined : BOOLEAN]

TypeOK ==
    /\ gw \in {"down", "starting", "up"} /\ fence \in BOOLEAN
    /\ sess \in SessionRow
    /\ ticket \in TicketRow
    /\ call \in CallRow
    /\ run \in RunState
    /\ rec \in RecoveryRow
    /\ results \subseteq Answer
    /\ cand \in Answer
    /\ runner \in [Attempts -> RunnerState]
    /\ host \in HostState
    /\ upsets \in 0..MaxUpsets

\* Recovery never thinks beside the run it replaces: while a recovery attempt
\* is in inference, watched or not, the original run has left its loop. Only an
\* operator `start` that met a running Gateway is excepted: it promotes the
\* Ticket of a live run (host_legacy_v094.py:640).
RecoveryRunsAlone ==
    ~host.joined => \A a \in Attempts : runner[a].at \in {"infer", "abort", "loose"} => run.at \notin {"thinking", "calling"}

\* One inference at a time recovers a Dashboard request, across retries,
\* revocations and attempts that are still being aborted, but for those whose
\* row was given to another: by a watch that failed (v094-direct-recovery.ts:505)
\* or a tick that prepared the database for another session (v091-final-entry.ts:334).
\* (A channel receipt that fails late queues a second attempt beside the first.)
OneInference ==
    run.surface = "dashboard" /\ ~host.joined =>
        Cardinality({a \in Attempts : runner[a].at \in {"infer", "abort"} /\ ~runner[a].taken}) <= 1

\* One authority recovers a Ticket: while a recovery row is open the generic
\* dispatcher never has the Ticket, though every start and restart promotes
\* interrupted work and the row may be queued at any step of a promotion.
OneAuthority ==
    ~host.joined => (rec.state \in {"pending", "running"} => ticket.status \notin {"waiting", "workflow"})

\* What the properties above rest on.  A Gateway that is not up holds nothing
\* alive: no run, no receipt, no recovery attempt.
QuietWhenDown ==
    gw # "up" => /\ run.at = "over" /\ ~run.receipt
                 /\ \A a \in Attempts : runner[a].at = "none"

\* From its stop to its start by a recovery the Gateway stays down, because only
\* an idle Host starts it otherwise.
HostHoldsGateway ==
    /\ host.at = "idle" <=> host.job = "none"
    /\ host.at \in {"claimed", "classified"} => host.job \in Supervisors
    /\ host.job \in Supervisors /\ host.at # "claimed" => gw = "down"

\* A start that met no running Gateway promotes nothing alive, and the lane
\* trigger is in place.
PromotesTheDead ==
    ~host.joined /\ host.job = "promote" => fence /\ run.at = "over"

\* A recovery row is opened only after the run has left its loop, and a Ticket
\* in the hands of the dispatcher has neither a run nor a row.
RowFollowsRun ==
    ~host.joined =>
        /\ rec.state # "none" => run.at \in {"succeeded", "failed", "over"}
        /\ ticket.status \in {"waiting", "workflow"} => run.at = "over" /\ rec.state = "none"

\* An answer that nothing stored is the answer of the run itself, so no row has
\* been opened yet; only a channel sends receipts, after its run.
UnstoredAnswerIsFirst ==
    /\ run.receipt => run.surface = "channel" /\ run.at \in {"succeeded", "over"}
    /\ ticket.ready /\ ~Durable => run.at \in {"succeeded", "over"}
    /\ ~host.joined /\ ticket.ready /\ ~Durable => rec.state = "none"

\* No attempt, or one that has lost its row to another.
Idles(a) == runner[a].at = "none" \/ runner[a].taken

\* A candidate is the next attempt of the row, which only a claim counts up; an
\* attempt has a row.
AttemptsCount ==
    /\ cand = NoCandidate \/ cand.att = rec.att + 1
    /\ \A a \in Attempts : runner[a].at # "none" => rec.state # "none"

\* The row of a Dashboard request returns to pending only when no attempt is
\* left, or what is left was taken its row, so a new claim never meets an old
\* one that still counts on it.
OneAttempt ==
    run.surface = "dashboard" /\ ~host.joined =>
        /\ rec.state = "pending" => \A a \in Attempts : Idles(a)
        /\ rec.state = "running" => \A a \in Attempts \ {rec.run} : Idles(a)
        /\ \A a, b \in Attempts : ~Idles(a) /\ ~Idles(b) => a = b

\* The state invariants of the module in one formula, which is inductive.
RecoveryInv ==
    /\ TypeOK
    /\ RecoveryRunsAlone
    /\ OneInference
    /\ OneAuthority
    /\ QuietWhenDown
    /\ HostHoldsGateway
    /\ PromotesTheDead
    /\ RowFollowsRun
    /\ UnstoredAnswerIsFirst
    /\ AttemptsCount
    /\ OneAttempt

\* The Host authorises an inference only in silence: no answer is durable, none
\* is on its way to the user, and neither the original run nor a recovery is
\* alive to produce one, although each was looked at in an earlier step.
AuthorizedInSilence ==
    [][call.state # "interrupted" /\ call'.state = "interrupted" =>
          /\ results = {} /\ ~ticket.ready
          /\ run.at = "over" /\ \A a \in Attempts : runner[a].at = "none"]_vars

\* A settled Ticket is final: no recovery, fence, promotion or late receipt
\* reopens it or settles it otherwise, and no further answer is committed.
SettledIsFinal ==
    [][ticket.status \in {"completed", "failed", "cancelled"} =>
          ticket'.status = ticket.status /\ results' = results]_vars

\* A call the Host has claimed is not held for ever: the recovery finishes,
\* gives the call back, or a later tick takes the claim over, across crashes of
\* either process and failing steps.  A claim cut off in the last of its tries
\* is not taken over (host_stall_v091.py:66), so the property is about fewer
\* upsets than tries: MaxUpsets < MaxTries.
Claimed == call.state = "recovering" /\ Direct /\ ~ticket.ready
ClaimIsSettled == Claimed ~> ~Claimed

\* An answer the Ticket waits for does not wait for ever while its session is
\* live: it is delivered, found undelivered and queued or failed, fenced by the
\* Host, or revoked.  (Nothing wakes the delivery for a session without a
\* session_id or not updated for 15 minutes, v091-direct-recovery.ts:63-74.)
AnswerIsSettled == Direct /\ ticket.ready ~> ~(Direct /\ ticket.ready) \/ ~sess.live

=============================================================================
