--------------------------- MODULE WorkflowEngine ---------------------------
(***************************************************************************)
(* One durable workflow as workflow.py runs it: detached controller        *)
(* processes that fence each other by a PID in state.json, the child       *)
(* processes of command steps, the supervisor and the plugin that launch   *)
(* controllers, and the cancel command.                                    *)
(*                                                                         *)
(* The file lock is an OS lock: it is free unless a process is inside a    *)
(* locked section, and death frees it.  A locked section is one step here  *)
(* unless it writes two files, or leaves the lock to the next step: a      *)
(* controller in "choosing", "announcing" or "leaving" holds the lock, so  *)
(* it can die between the two writes.                                      *)
(*                                                                         *)
(* A process slot is used again only when no live PID check can meet the   *)
(* old process: PIDs do not come back while state.json still names them.   *)
(* The content of outputs is one bit per step, whether they are such that  *)
(* the step counts as done.  Attempts are only ever compared with a        *)
(* ceiling, so they are not counted beyond TransientMaximum, the higher    *)
(* one.                                                                    *)
(***************************************************************************)
EXTENDS Integers, FiniteSets

CONSTANTS
    Steps,              \* ids of the manifest's steps
    Position,           \* their order in the manifest
    DependsOn,          \* step.dependsOn
    Command,            \* steps with a command executor; the others run inline
    Validated,          \* steps with a validator
    Idempotent,         \* steps whose interrupted run may be repeated
    MaximumAttempts,    \* step.maximumAttempts
    TransientMaximum,   \* step.transientMaximumAttempts
    Controllers,        \* slots for `workflow.py run' processes
    Children,           \* slots for executor processes
    None,
    MaxCrashes          \* bound on controllers and cancel commands that die

ASSUME WorkflowEngineAssumption ==
    /\ IsFiniteSet(Steps)
    /\ Position \in [Steps -> Nat]
    /\ DependsOn \in [Steps -> SUBSET Steps]
    /\ Command \subseteq Steps
    /\ Validated \subseteq Steps
    /\ Idempotent \subseteq Steps
    /\ MaximumAttempts \in [Steps -> 1..20]
    /\ TransientMaximum \in [Steps -> 1..20]
    /\ \A s \in Steps : TransientMaximum[s] >= MaximumAttempts[s]
    /\ None \notin Steps \cup Controllers \cup Children
    /\ MaxCrashes \in Nat

VARIABLES
    status,         \* state.json: status
    controller,     \* state.json: controllerPid
    step,           \* state.json: steps
    notice,         \* completion.json: workflowStatus, "none" without the file
    good,           \* steps whose declared outputs exist and are valid
    proc,           \* the controller processes
    child,          \* the step each executor process works on, or None
    launching,      \* launchers that have decided to start a controller
    canceller,      \* the cancel command: "idle", or "announcing" with the lock
    crashes

vars == <<status, controller, step, notice, good, proc, child, launching, canceller, crashes>>

Outcomes == {"completed", "blocked", "failed", "cancelled"}

StepStatus == {"pending", "running", "completed", "blocked", "cancelled"}

Launchers == {"plugin", "host"}

Places == {"dead", "launched", "ticking", "choosing", "started", "spawned",
           "waiting", "announcing", "releasing", "leaving"}

StepRow == [status : StepStatus, attempts : Nat, runner : Children \cup {None}]

Process == [at : Places, step : Steps \cup {None}, child : Children \cup {None}]

Dead == [at |-> "dead", step |-> None, child |-> None]

TypeOK ==
    /\ status \in {"ready", "running"} \cup Outcomes
    /\ controller \in Controllers \cup {None}
    /\ step \in [Steps -> StepRow]
    /\ notice \in {"none"} \cup Outcomes
    /\ good \subseteq Steps
    /\ proc \in [Controllers -> Process]
    /\ child \in [Children -> Steps \cup {None}]
    /\ launching \subseteq Launchers
    /\ canceller \in {"idle", "announcing"}
    /\ crashes \in 0..MaxCrashes

\* initialize(): the plugin has just written manifest.json, owner.json and
\* state.json, and is about to spawn the first controller.
Init ==
    /\ status = "ready"
    /\ controller = None
    /\ step = [s \in Steps |-> [status |-> "pending", attempts |-> 0, runner |-> None]]
    /\ notice = "none"
    /\ good = {}
    /\ proc = [c \in Controllers |-> Dead]
    /\ child = [k \in Children |-> None]
    /\ launching = {"plugin"}
    /\ canceller = "idle"
    /\ crashes = 0

-----------------------------------------------------------------------------

Ended == status \in Outcomes

At(c, place) == proc[c].at = place

LockFree ==
    /\ canceller = "idle"
    /\ \A c \in Controllers : proc[c].at \notin {"choosing", "announcing", "leaving"}

Alive(c) == c # None /\ ~At(c, "dead")

Goto(c, place) == proc' = [proc EXCEPT ![c].at = place]

\* Steps state.json shows as running under a live recorded process.
LiveRunner(s) == step[s].status = "running" /\ step[s].runner # None /\ child[step[s].runner] # None

\* choose_step(): pending steps whose dependencies are all completed.
Runnable ==
    {s \in Steps : /\ step[s].status = "pending"
                   /\ \A d \in DependsOn[s] : step[d].status = "completed"}

FreshChild(k) ==
    /\ child[k] = None
    /\ \A s \in Steps : step[s].status = "running" => step[s].runner # k
    /\ \A c \in Controllers : proc[c].child # k

-----------------------------------------------------------------------------
(* Launching. *)

\* discover_workflows() and startBoundWorkflow(): the decision is taken
\* without the lock.  Only the supervisor looks for live processes.
Decide(x) ==
    /\ ~Ended
    /\ x = "host" => ~Alive(controller) /\ \A s \in Steps : ~LiveRunner(s)
    /\ launching' = launching \cup {x}
    /\ UNCHANGED <<status, controller, step, notice, good, proc, child, canceller, crashes>>

\* launch_controller(): Popen of `workflow.py run', whatever happened since.
Launch(x, c) ==
    /\ x \in launching
    /\ At(c, "dead") /\ controller # c
    /\ Goto(c, "launched")
    /\ launching' = launching \ {x}
    /\ UNCHANGED <<status, controller, step, notice, good, child, canceller, crashes>>

\* Mutant: the PID of a dead controller fences as well.
ClaimIfUnrecorded(c) ==
    /\ At(c, "launched")
    /\ LockFree
    /\ IF controller # None
       THEN Goto(c, "dead") /\ UNCHANGED controller
       ELSE Goto(c, "ticking") /\ controller' = c
    /\ UNCHANGED <<status, step, notice, good, child, launching, canceller, crashes>>

\* claim_controller(): fenced by a live recorded PID; it does not look at the
\* status.
Claim(c) ==
    /\ At(c, "launched")
    /\ LockFree
    /\ IF Alive(controller)
       THEN Goto(c, "dead") /\ UNCHANGED controller
       ELSE Goto(c, "ticking") /\ controller' = c
    /\ UNCHANGED <<status, step, notice, good, child, launching, canceller, crashes>>

-----------------------------------------------------------------------------
(* tick(), first locked section. *)

Interrupted == {s \in Steps : step[s].status = "running"}

\* Mutant: every interrupted step is repeated.
ReconciledAsPending(s) == IF s \in Validated /\ s \in good THEN "completed" ELSE "pending"

\* reconcile_interrupted() for a step whose recorded runner is not alive.
Reconciled(s) ==
    IF s \in Validated /\ s \in good THEN "completed"
    ELSE IF s \in Idempotent THEN "pending"
    ELSE "blocked"

\* A live recorded runner: the tick is "busy" and so is the run.
ObserveBusy(c) ==
    /\ At(c, "ticking")
    /\ LockFree
    /\ \E s \in Steps : LiveRunner(s)
    /\ Goto(c, "releasing")
    /\ UNCHANGED <<status, controller, step, notice, good, child, launching, canceller, crashes>>

\* Mutant: the runner PID is not looked at.
ReconcileWithRunner(c) ==
    /\ At(c, "ticking")
    /\ LockFree
    /\ step' = [s \in Steps |-> IF s \in Interrupted
                                THEN [step[s] EXCEPT !.status = Reconciled(s)]
                                ELSE step[s]]
    /\ status' = IF \E s \in Interrupted : Reconciled(s) = "blocked" THEN "blocked" ELSE status
    /\ Goto(c, "choosing")
    /\ UNCHANGED <<controller, notice, good, child, launching, canceller, crashes>>

Reconcile(c) ==
    /\ At(c, "ticking")
    /\ LockFree
    /\ \A s \in Steps : ~LiveRunner(s)
    /\ step' = [s \in Steps |-> IF s \in Interrupted
                                THEN [step[s] EXCEPT !.status = Reconciled(s)]
                                ELSE step[s]]
    /\ status' = IF \E s \in Interrupted : Reconciled(s) = "blocked" THEN "blocked" ELSE status
    /\ Goto(c, "choosing")
    /\ UNCHANGED <<controller, notice, good, child, launching, canceller, crashes>>

\* The workflow has ended already: nothing is announced here.
FindEnded(c) ==
    /\ At(c, "choosing")
    /\ Ended
    /\ Goto(c, "releasing")
    /\ UNCHANGED <<status, controller, step, notice, good, child, launching, canceller, crashes>>

Conclude(c) ==
    /\ At(c, "choosing")
    /\ ~Ended
    /\ Runnable = {}
    /\ status' = CASE \A s \in Steps : step[s].status = "completed" -> "completed"
                   [] \E s \in Steps : step[s].status = "blocked"   -> "blocked"
                   [] OTHER                                         -> "failed"
    /\ Goto(c, "announcing")
    /\ UNCHANGED <<controller, step, notice, good, child, launching, canceller, crashes>>

OneMore(s) == IF step[s].attempts < TransientMaximum[s] THEN step[s].attempts + 1 ELSE step[s].attempts

\* Mutant: the status is not looked at.
StartStepRegardless(c) ==
    /\ At(c, "choosing")
    /\ \E s \in Runnable :
          /\ \A u \in Runnable : Position[s] <= Position[u]
          /\ step' = [step EXCEPT ![s] = [status |-> "running", attempts |-> OneMore(s), runner |-> None]]
          /\ proc' = [proc EXCEPT ![c] = [at |-> "started", step |-> s, child |-> None]]
    /\ status' = "running"
    /\ UNCHANGED <<controller, notice, good, child, launching, canceller, crashes>>

StartStep(c) ==
    /\ At(c, "choosing")
    /\ ~Ended
    /\ \E s \in Runnable :
          /\ \A u \in Runnable : Position[s] <= Position[u]
          /\ step' = [step EXCEPT ![s] = [status |-> "running", attempts |-> OneMore(s), runner |-> None]]
          /\ proc' = [proc EXCEPT ![c] = [at |-> "started", step |-> s, child |-> None]]
    /\ status' = "running"
    /\ UNCHANGED <<controller, notice, good, child, launching, canceller, crashes>>

-----------------------------------------------------------------------------
(* tick(), execution without the lock. *)

\* run_argv(): the child exists from here on, whatever becomes of its parent.
Spawn(c, k) ==
    /\ At(c, "started")
    /\ proc[c].step \in Command
    /\ FreshChild(k)
    /\ child' = [child EXCEPT ![k] = proc[c].step]
    /\ proc' = [proc EXCEPT ![c].at = "spawned", ![c].child = k]
    /\ UNCHANGED <<status, controller, step, notice, good, launching, canceller, crashes>>

\* record_runner(): raises if the step is no longer running, and the finally
\* of run_workflow() releases the controller.
RecordRunner(c) ==
    /\ At(c, "spawned")
    /\ LockFree
    /\ IF step[proc[c].step].status = "running"
       THEN Goto(c, "waiting") /\ step' = [step EXCEPT ![proc[c].step].runner = proc[c].child]
       ELSE Goto(c, "releasing") /\ UNCHANGED step
    /\ UNCHANGED <<status, controller, notice, good, child, launching, canceller, crashes>>

\* run_ollama() and run_concat() work in the controller itself.
RunInline(c) ==
    /\ At(c, "started")
    /\ proc[c].step \notin Command
    /\ good' \in {good \ {proc[c].step}, good \cup {proc[c].step}}
    /\ Goto(c, "waiting")
    /\ UNCHANGED <<status, controller, step, notice, child, launching, canceller, crashes>>

\* An executor process ends, by itself, by its timeout or by a reboot, and
\* leaves its outputs as it leaves them.
ChildExits(k) ==
    /\ child[k] # None
    /\ good' \in {good \ {child[k]}, good \cup {child[k]}}
    /\ child' = [child EXCEPT ![k] = None]
    /\ UNCHANGED <<status, controller, step, notice, proc, launching, canceller, crashes>>

-----------------------------------------------------------------------------
(* tick(), last locked section, and release. *)

Finished(c) == At(c, "waiting") /\ (proc[c].child # None => child[proc[c].child] = None)

\* The executor and the validator succeeded and the outputs exist.
StepCompletes(c) ==
    /\ Finished(c)
    /\ LockFree
    /\ proc[c].step \in good
    /\ step' = [step EXCEPT ![proc[c].step].status = "completed", ![proc[c].step].runner = None]
    /\ proc' = [proc EXCEPT ![c] = [at |-> IF Ended THEN "announcing" ELSE "ticking",
                                    step |-> None, child |-> None]]
    /\ UNCHANGED <<status, controller, notice, good, child, launching, canceller, crashes>>

\* The ceiling depends on the class of the failure.
StepFails(c) ==
    /\ Finished(c)
    /\ LockFree
    /\ \E maximum \in {MaximumAttempts[proc[c].step], TransientMaximum[proc[c].step]} :
       LET again == step[proc[c].step].attempts < maximum
       IN /\ step' = [step EXCEPT ![proc[c].step].status = IF again THEN "pending" ELSE "blocked",
                                  ![proc[c].step].runner = None]
          /\ status' = IF again THEN status ELSE "blocked"
          /\ proc' = [proc EXCEPT ![c] = [at |-> IF status' \in Outcomes THEN "announcing" ELSE "ticking",
                                          step |-> None, child |-> None]]
    /\ UNCHANGED <<controller, notice, good, child, launching, canceller, crashes>>

\* queue_terminal_completion(): one completion.json per workflow.
QueueCompletion == notice' = IF Ended /\ notice = "none" THEN status ELSE notice

Announce(c) ==
    /\ \/ At(c, "announcing") /\ Goto(c, "releasing")
       \/ At(c, "leaving") /\ Goto(c, "dead")
    /\ QueueCompletion
    /\ UNCHANGED <<status, controller, step, good, child, launching, canceller, crashes>>

\* release_controller(), from the finally of run_workflow().
Release(c) ==
    /\ At(c, "releasing")
    /\ LockFree
    /\ controller' = IF controller = c THEN None ELSE controller
    /\ proc' = [proc EXCEPT ![c] = [at |-> IF controller = c THEN "leaving" ELSE "dead",
                                    step |-> None, child |-> None]]
    /\ UNCHANGED <<status, step, notice, good, child, launching, canceller, crashes>>

\* An exception in run_workflow(): a program, a prompt file or a validator that
\* cannot be opened, output that cannot be decoded, 10 seconds without the
\* lock.  Outside a locked section of its own the controller releases itself and
\* leaves the step as it is, running; no attempt is settled.  Beside a live
\* runner ObserveBusy has the same effect.
Raise(c) ==
    /\ \/ At(c, "started") \/ At(c, "spawned") \/ Finished(c) \/ At(c, "releasing")
       \/ At(c, "ticking") /\ \A s \in Steps : ~LiveRunner(s)
    /\ IF At(c, "releasing")
       THEN proc' = [proc EXCEPT ![c] = Dead]
       ELSE Goto(c, "releasing")
    /\ UNCHANGED <<status, controller, step, notice, good, child, launching, canceller, crashes>>

-----------------------------------------------------------------------------
(* Cancellation and crashes. *)

\* Mutant: the controller is left alive.
CancelSparesController ==
    /\ LockFree
    /\ ~Ended
    /\ child' = [k \in Children |-> IF \E s \in Interrupted : step[s].runner = k THEN None ELSE child[k]]
    /\ step' = [s \in Steps |-> IF s \in Interrupted
                                THEN [step[s] EXCEPT !.status = "cancelled", !.runner = None]
                                ELSE step[s]]
    /\ status' = "cancelled"
    /\ controller' = None
    /\ canceller' = "announcing"
    /\ UNCHANGED <<notice, good, proc, launching, crashes>>

\* cancel_workflow(): terminate the recorded controller and the recorded
\* runners of running steps, then save.
Cancel ==
    /\ LockFree
    /\ ~Ended
    /\ proc' = [c \in Controllers |-> IF c = controller THEN Dead ELSE proc[c]]
    /\ child' = [k \in Children |-> IF \E s \in Interrupted : step[s].runner = k THEN None ELSE child[k]]
    /\ step' = [s \in Steps |-> IF s \in Interrupted
                                THEN [step[s] EXCEPT !.status = "cancelled", !.runner = None]
                                ELSE step[s]]
    /\ status' = "cancelled"
    /\ controller' = None
    /\ canceller' = "announcing"
    /\ UNCHANGED <<notice, good, launching, crashes>>

AnnounceCancel ==
    /\ canceller = "announcing"
    /\ QueueCompletion
    /\ canceller' = "idle"
    /\ UNCHANGED <<status, controller, step, good, proc, child, launching, crashes>>

\* A killed controller leaves its child alive.
Crash(c) ==
    /\ ~At(c, "dead")
    /\ crashes < MaxCrashes
    /\ crashes' = crashes + 1
    /\ proc' = [proc EXCEPT ![c] = Dead]
    /\ UNCHANGED <<status, controller, step, notice, good, child, launching, canceller>>

CancelCrashes ==
    /\ canceller = "announcing"
    /\ crashes < MaxCrashes
    /\ crashes' = crashes + 1
    /\ canceller' = "idle"
    /\ UNCHANGED <<status, controller, step, notice, good, proc, child, launching>>

-----------------------------------------------------------------------------

ControllerStep(c) ==
    \/ Claim(c) \/ ObserveBusy(c) \/ Reconcile(c) \/ FindEnded(c) \/ Conclude(c)
    \/ StartStep(c) \/ (\E k \in Children : Spawn(c, k)) \/ RecordRunner(c)
    \/ RunInline(c) \/ StepCompletes(c) \/ StepFails(c) \/ Announce(c) \/ Release(c)

Next ==
    \/ \E x \in Launchers : Decide(x)
    \/ \E x \in Launchers, c \in Controllers : Launch(x, c)
    \/ \E c \in Controllers : ControllerStep(c) \/ Raise(c) \/ Crash(c)
    \/ \E k \in Children : ChildExits(k)
    \/ Cancel \/ AnnounceCancel \/ CancelCrashes

Spec == Init /\ [][Next]_vars

\* Processes run, children end, and the Host supervisor keeps discovering
\* resumable workflows and launching controllers for them.
Fairness ==
    /\ \A c \in Controllers : WF_vars(ControllerStep(c))
    /\ \A k \in Children : WF_vars(ChildExits(k))
    /\ WF_vars(AnnounceCancel)
    /\ WF_vars(Decide("host"))
    /\ SF_vars(\E c \in Controllers : Launch("host", c))

FairSpec == Spec /\ Fairness

-----------------------------------------------------------------------------
(* Safety. *)

\* A controller between its claim and its release.
Working(c) == proc[c].at \notin {"dead", "launched", "leaving"}

\* One controller works at a time, although launchers decide without the lock
\* on what they once saw, and controllers die without releasing.
OneController == \A c, d \in Controllers : Working(c) /\ Working(d) => c = d

\* The step a controller executes is still running when it comes back with the
\* result, which tick() does not check: nobody has reconciled, cancelled or
\* restarted the step meanwhile.
ExecutionIsOwned ==
    \A c \in Controllers :
        At(c, "started") \/ At(c, "spawned") \/ At(c, "waiting") =>
            /\ step[proc[c].step].status = "running"
            /\ At(c, "waiting") => step[proc[c].step].runner = proc[c].child

\* A step has been attempted only with all its dependencies completed, and
\* they still are: no recovery takes a completed step back.
DependenciesFirst ==
    \A s \in Steps : step[s].attempts > 0 => \A d \in DependsOn[s] : step[d].status = "completed"

\* A working controller is the recorded one: a claim replaces only a dead PID,
\* and what takes the record away kills its controller.
WorkingIsRecorded == \A c \in Controllers : Working(c) => controller = c

Executing(c) == proc[c].at \in {"started", "spawned", "waiting"}

\* The engine runs one step at a time: the step of the controller that executes
\* is the only one marked running, no runner is recorded for it before its
\* child is, and none is left when the next step is chosen.
OneStepRuns ==
    \A c \in Controllers :
        /\ Executing(c) => proc[c].step \in Steps /\ Interrupted = {proc[c].step}
        /\ At(c, "started") => proc[c].child = None
        /\ At(c, "started") \/ At(c, "spawned") => step[proc[c].step].runner = None
        /\ At(c, "choosing") => Interrupted = {}

\* An ended workflow has no running step, so no late controller finds work to
\* reconcile in it, and completion.json names the outcome of state.json.
EndIsClean ==
    /\ Ended => Interrupted = {}
    /\ notice # "none" => Ended /\ notice = status

\* The state invariants of the engine in one formula, which is inductive:
\* controllers exclude each other, what runs or is recorded belongs to the
\* controller that started it, nothing runs before what it depends on, and
\* nothing runs any more once the outcome is reached.
EngineInv ==
    /\ TypeOK
    /\ OneController
    /\ ExecutionIsOwned
    /\ DependenciesFirst
    /\ WorkingIsRecorded
    /\ OneStepRuns
    /\ EndIsClean

\* While the recorded runner of a running step lives, nobody reconciles,
\* repeats or settles the step: the PID in state.json fences the orphans of
\* dead controllers.  Only cancellation ends both.
LiveRunnerFences ==
    [][\A s \in Steps :
          LiveRunner(s) /\ child'[step[s].runner] # None => step'[s] = step[s]]_vars

\* A step that is not idempotent is attempted again only after its controller
\* saw it fail; after a crash in the middle it is completed or blocked.
NoBlindRepetition ==
    [][\A s \in Steps \ Idempotent :
          step[s].status = "running" /\ step'[s].status = "pending" =>
              \E c \in Controllers : Finished(c) /\ proc[c].step = s]_vars

\* The outcome is reached once and the notice names it.
Contract == INSTANCE WorkflowContract
    WITH outcome <- IF Ended THEN status ELSE "open"

ImplementsContract == Contract!Spec

-----------------------------------------------------------------------------
(* Liveness, under Fairness. *)

\* Every workflow ends, however its controllers die and whatever fails, unless
\* its controllers raise again and again: an interrupted idempotent step is
\* requeued without a look at its attempts (workflow.py:424) and the supervisor
\* launches the next controller for it, for ever.  What TicketRuntime assumes of
\* the engine.
EveryWorkflowEnds == <>Ended \/ []<><<\E c \in Controllers : Raise(c)>>_vars

==============================================================================
