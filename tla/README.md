# CogentNexus-OpenClaw in TLA+

This directory models and verifies the durable core of CogentNexus-OpenClaw (package 0.9.4 with its v0.9.5 host
modules): the layer that takes requests sent to OpenClaw, commits them before any inference, runs them as verified
workflows or recovers them when a run dies, returns each result to its owner, and installs, starts, stops and routes
the Gateway it manages. `P/` below is `src/plugins/cogentnexus-openclaw/src/`, `S/` is
`src/skills/cogentnexus-openclaw/scripts/`.

## 1. The system

| Component | Code | State | Operations |
|---|---|---|---|
| Ticket store | `P/ticket-store.ts`, policies in `P/v090-entry.ts`, `P/v090.ts` | SQLite tables `tickets`, `ticket_outbox` | accept, route, claim, linkWorkflow, heartbeat, complete, failAttempt, recoverExpired, outbox marks, revokeSession |
| Dispatch and reconciliation loop | `P/v091-final-entry.ts`, `P/index.ts`, `P/ticket-dispatcher.ts` | one Node event loop, timers | recover, reconcile, admit, claim, launch, link, deliver; admission and stop hooks; restart |
| Workflow engine | `S/workflow.py` | `state.json`, `owner.json`, `completion.json`, an OS file lock, controller and child processes | init, run, tick, supervise, cancel |
| Session authority | `P/v090.ts` | table `cnx_sessions` | reactivate, revoke (Stop, Reset, Delete), finalise deletion |
| Direct recovery | `P/v091-`, `v094-`, `v095-direct-recovery.ts` | table `cnx_direct_recovery` | queue, claim, launch, retry, revoke, commit the answer |
| Model-call lease, Host stall recovery | `P/v091-direct-model-call-lease.ts`, `S/host_stall_v091.py`, `S/host_provider_v092.py` | table `cnx_direct_model_call` | started, ended, claim, quiesce, fence, classify, start |
| Host delivery | `S/host_delivery*.py` | table `cnx_assistant_delivery`, chat history | claim, check authority, inject, settle |
| Context handoff, bindings, lanes | `S/runtime.py` | `handoff.json`, `context-bindings.json`, `concurrency.json`, lock files | checkpoint, claim, release, bind, monitor, acquire |
| Host controllers and lifecycle | `S/host*.py`, `S/supervisor_quiescence.py`, `S/reset_v095.py` | `controller.json`, scheduler, policy, plugin, watchdog value, markers | enable, disable, start, stop, restart, reset, supervisor tick |
| Provider routing | `S/openclaw_route_v092*.py`, `S/cnxclaw*.py`, `S/lifecycle_v092.py` | `openclaw.json`, route state, rollback copy, `controller.json` | plan, begin, commit, rollback, recover, restore native |
| Namespace ownership | `S/namespace_ownership.py`, `src/scripts/install.ps1` | marker, manifest, plugin slots, backups, rollover transaction | fresh install, upgrade, preflight, quarantine, recovery, plan |
| Task ledger | `S/cogent.py`, `S/recovery_controller.py` | `state.json`, revisions, `ledger.jsonl`, `transaction.json`, writer lock | init, commit, rollback, recover, run, verify |
| Channel delivery, context guards, native fences | `P/v095-delivery-*.ts`, `P/v09?-context-guard.ts`, `P/v099-*.ts` | several tables | adapters, compaction, restart fences |

How they interact. The hooks of the plugin write Tickets inside `before_agent_run`. A Ticket of the durable lane is
claimed by the loop, which starts a detached `workflow.py run`; loop and workflow share only `state.json`. A Ticket of
the direct lane is answered by the run itself: the answer is staged as a row of `cnx_assistant_delivery`, and the plugin
or a flush process of the Host settles it once the transcript shows it. When a direct run dies, stalls or ends in a
provider error, either the plugin or the Host supervisor queues a row of `cnx_direct_recovery`, and a recovery worker
repeats the inference. Stop, Reset and Delete revoke everything of a session in one transaction and cancel its workflows
afterwards. The Host commands decide whether a Gateway runs at all and with which plugin, route and policy; the scheduled
tick repairs what died. The installer decides which payload owns the workspace.

What is hard: stale workers behind leases; crashes between two transactions, between a process start and the record of
it, between two files; decisions taken without a lock; rollbacks that fail half way; two supervisors and a plugin with
authority over one Ticket; and the promise that accepted work ends. The `hazards` of `PROJECT.json` list each at its
line.

## 2. Modules

| Module | What it is |
|---|---|
| `TicketStore` | the tables and one operator per transaction of the store; no process of its own |
| `TicketContract` | abstract: a request is open, claimed, then ends once; one notice per outcome |
| `TicketClients` | the store under any number of clients that remember leases as long as they like |
| `TicketProofs` | TLAPS proofs about `TicketClients` and `TicketRuntime` |
| `TicketRuntime` | the store driven by the shipped event loop, with hooks, crashes and restarts |
| `WorkflowContract` | abstract: a workflow is open until it has one outcome, the notice names it |
| `WorkflowEngine` | controllers, children, launchers, cancel and crashes of one workflow |
| `HostDelivery` | results on their way to the transcript: native runs, flush processes, gateway, Stop and Delete |
| `DirectRecovery` | a Direct Ticket whose run dies, stalls or fails: call lease, two supervisors, recovery worker, answer |
| `ContextHandoff` | the files `runtime.py` shares between sessions, under its file locks |
| `TaskLedger` | the files of one task under `cogent.py` and the journal that makes them one transaction |
| `HostLifecycle` | operator commands and the supervisor tick over the durable Host state |
| `RouteTransaction` | the provider route of `openclaw.json` under a rollback copy |
| `NamespaceOwnership` | the installer's durable protocol |
| `WorkflowEngineProofs`, `HostDeliveryProofs`, `DirectRecoveryProofs`, `ContextHandoffProofs`, `TaskLedgerProofs`, `RouteTransactionProofs` | TLAPS proofs about the module each is named after |
| `InstallationProofs` | TLAPS proofs about `HostLifecycle` and `NamespaceOwnership`, whose processes are lists of steps still to take |
| `MC...` | small constants for TLC |

### TicketStore, TicketClients

Each method of the store is one `BEGIN IMMEDIATE` transaction and so one operator. A Ticket is named by its request key.
`attempts` stands for `attempt_count`, `lease_generation` and the random `lease_token`, which the one UPDATE of `claim`
changes together. There is no clock: `Lapse` makes a live lease lapsed, and every lease predicate asks for a live one.
`TicketClients` allows any call in any order with any lease ever seen, which is more than the plugin does; what holds
here rests on the fences in the SQL alone, so a client may also claim a Ticket that is not durable. The history variable
`caller` says for which lease or session a call was made. `evidence` is the generation in the settling event. `HoldsLease` is the WHERE
clause of complete, failAttempt, heartbeat and linkWorkflow.

### TicketRuntime

`pc` walks through one tick of `work()` in `P/v091-final-entry.ts`. A tick does not await before it delivers, so hooks
interleave only in `idle` and `await`; every step ends at a transaction or a call to another process, so `Crash` may fall
between any two. `Restart` is the pre-runtime fence plus `prepareV090RecoveryState`. The failed outbox row is deleted by
a second transaction (`Silence`), the dispatcher's catch block is `FailLaunch`, the reuse of a running workflow
`ReuseWorkflow`. A workflow is only its status here; `WorkflowContract` says what is assumed of it and `WorkflowEngine`
implements that contract. The lane is a free choice at admission (the classifier is text), memory and disk floors are the
choice of `EndDispatch`, and the accept/route pair is one step unless the gateway dies between them
(`SubmitInterrupted`).

### WorkflowEngine

One workflow. A locked section is one step; where it writes two files, the process stays in `choosing`, `announcing` or
`leaving` with the lock and may die there. `Decide` is taken without the lock by the plugin (any unfinished workflow) or
by the supervisor (no live controller or runner), and may be stale when `Launch` acts on it. A child exists from `Spawn`,
its PID is in `state.json` only after `RecordRunner`. `good` says whether the outputs of a step are valid. `Raise` is
an exception inside `tick` (a program, prompt file or validator that cannot be opened, undecodable output, the lock
timeout of ten seconds, the 100-tick limit): the finally block releases the controller and the step stays running. It has
no budget. PIDs are not reused while `state.json` names them; a claim that times out, and the operator commands `tick`,
`bind-owner` and `rebind-session-owner`, are left out.

### HostDelivery

A delivery is named by its idempotency key; `row` is its row of `cnx_assistant_delivery`, `ahead` the pending rows of the
session with a smaller `delivery_id` (ids only grow, so a set replaces the numbers). `flush[f].at` walks through
`flush_deliveries`: every transaction, RPC and file write is a step, so that any other process, the user or a crash may
come in between. The claim token is the name of the holder. `run` is the OpenClaw run of a direct request: `Stage` is
`before_message_write`, `AppendReply` OpenClaw's own append, `SettleNative` the transcript update. `visible` are the
markers `chat.history` still returns, `late` injections whose caller has timed out. Recovery and the workflow wake are
only their last transaction (`QueueRecovered`, `QueueWake`). Left out: the row limit of a flush, a `completion.json` that
is missing or of another revision, the ticket and notice targets, the liveness cutoff of sessions silent for long, Stop
of a deleted session (`FollowLifecycle` and `Revoke` only keep the order of generations).

### DirectRecovery

One session, one Ticket, one Host process at a time, one Gateway. `call` is the lease row around each provider call,
`rec` the recovery row, `run` the original run in the Gateway, `runner` the attempts of the recovery worker, `cand` the
row it has read and not yet claimed, `host` the step of the supervisor. `Quiesce` stops the Gateway; `Fence`, `Suppress`
and `Classify` are the Host's looks at what was answered meanwhile, each its own transaction; `Classify` gives the call
back, retires it or authorises an inference. The worker's steps lie between its awaits, so a revocation, a reset or a
late answer may come before each. `Revoke` is Stop and Reset (generation grows) or Delete. `Command` is an operator
`start` or `restart`, which promotes interrupted Direct work to the durable lane (`Promote`) before the fence of
`P/v095-direct-recovery.ts`; `fence` says whether the database already has that trigger, for it is installed only
`if existsSync` of the database (`P/v091-release-entry.ts:185`). `host.joined` records the one command that promotes
beside a live Gateway (`S/host_legacy_v094.py:640`), which the properties except. `WatchFails` is an error of the store
other than BUSY in the watch of a claim (`P/v094-direct-recovery.ts:505`): the attempt is retried while its inference goes
on unwatched; `ReconcileElsewhere` is a tick of the running Gateway that prepares the whole database for another session
(`P/v091-final-entry.ts:334`), which also gives back the row of an attempt in progress. An attempt that lost its row in
either way is `taken`, and `OneInference` counts only the others. `sess.live` stands for a session id and an update within
15 minutes, which claiming a recovery and waking a delivery ask for (`P/v091-direct-recovery.ts:58-74`). Left out: several
Tickets, the v096 and v097 wrappers, the resume tag, the relabelling of aborted runs as cancelled
(`P/v090-entry.ts:100`) and the disposal of rows nobody needs.

### ContextHandoff

Three files, three lock files. A command reads without the lock where the code does (`Previous`, `Registry`, `Observe`,
which stands for up to 30 s in OpenClaw), takes the lock, reads again, writes and leaves. A lock grows old (`Ages`); a
waiter sees that (`Stale`) and then removes the file that is there (`Break`), also under a first owner that only slept,
and also the fresh one that a faster waiter has put in its place: `hazard.broken` records that a live holder lost its
lock, and the properties hold until then. `history.overtaken` records that the operator bound the task again while a
monitor held the binding before. `Limit` is the number of lanes of each kind. Any live lease may expire at any time; a claim
counts (`Works`) until its deadline, its result, or until its own session claims the same handoff again, which `claim`
allows. `MaxCommands` is given per program.

### TaskLedger

A commit is journal, ledger line, revision, state, removal of the journal: five file operations, each a step, and a
process may die between any two (`Dies`, which may tear the line being appended). Every command that takes the lock
replays a journal it finds. `report` is the verification report, written without the lock; `fresh` says whether the
artifact still has the content it names. A FAILURE event carries in `rev` whether its class has an automatic strategy.
`broken` records that the lock of a live holder was removed: of one asleep for 30 s, or of one that took it between the
two calls with which a waiter finds a lock stale (`FindsStale`) and removes it (`Break`).

### HostLifecycle

A process is the sequence of steps it still has to take, `todo["op"]` for the operator's command and `todo["tick"]` for
the scheduled tick; each step is one file write or OpenClaw command, may fail (`OpFails`, `TickFails`), and may be the
last before a crash (`Killed`, `Reboot`). `OpFails` starts the rollback of `EnableUndo` or `DisableUndo`. `Meddle` is a
user who edits the configuration or a Gateway that dies. The lease of a running enable does not expire. `op` remembers
what the command found and whether a tick overlapped it (`raced`), a rollback step failed (`dirty`) or the state root was
removed (`wiped`). `HostInv` has a part per command (`EnableFits`, `DisableFits`, `DisableUndoFits`, `StopFits`) that says
what is done, what lies ahead and what a rollback still owes (`Open`) at every place of its program.

### RouteTransaction

One command at a time. Each `pc` is one write of one file, so a death between any two leaves what the next command finds.
`config` has the owned fields only: the model and the timeouts. `backup` is the rollback copy, `st` the route state with
its open transaction and baseline, `ctl` the selection and the open transition of `controller.json`. `Edit` is the
operator or the Host changing the model meanwhile. A Host command that changes mode or Gateway, inside a command
(`RunHost`, `Disable`, `Done`) or between two (`Control`), writes `controller.json` with its canonical fields only
(`HostWrites`); `hist.dropped` says that selection and transition went that way. `provider_transition` and `lifecycle_v092.reset` are compatibility
API that the v0.9.5 command line no longer reaches; `disable`, `cloud` and `reset95` are what it does reach.

### NamespaceOwnership

`run.steps` is the list of installer steps left; `Proceed` takes the first. A plugin slot is the direct wrapper or one of
the npm projects of OpenClaw; `manifest` is the slot `ownership.json` binds, `active` the one OpenClaw has registered,
payload 0 the previous version's and `outdated` says that the manifest is of that version too, as an installation the run
starts from may be (`Previous`). A failing step (`Fail`) unwinds a fresh attempt (`UndoRoot`, root by root) or leaves an
upgrade as it is. A failing `transaction-record` does neither, since `install.ps1` looks at no exit code of it
(`RecordFails`, `run.missed`). The marker is not written atomically: a write that stops in the middle leaves the state
root without a readable marker (`Torn`). The upgrade part assumes the controller in passthrough with schema 1, as
`_require_passthrough` (`S/namespace_ownership.py:775`) reads the raw mode. Hashes are payload numbers. `OtherWorkspace`
is the installer of another workspace of the same user, with which the application data root is shared; it may make that
root at any moment, also between the test for it (`TestAppData`), its record and the provisioning of the runtime, and
`foreign` remembers on which side of the record it came. `OwnershipInv` says for every kind of run what it may rely on at
each place of its program (`FreshFits`, `UndoFits`, `UpgradeFits`, `RecoverFits`, `PlanFits`), which plugin slots may be
occupied (`SlotsFit`) and what of the last complete installation is kept (`KeptFits`).

## 3. Runs

| Run | Instance | Shows |
|---|---|---|
| `store_clients` | 2 Tickets, 2 sessions, 2 attempts, 3 claims each | fences (settlement by the last generation, one notice per outcome), exclusive leases, the contract |
| `lane` | 2 Tickets of 2 sessions with one prompt, 1 slot, 1 row per dispatch, 1 crash | `LaneInv` (evidence, explained failures, concurrency, silence, one workflow per request, only durable Tickets claimed), the contract, no starvation, claims are released |
| `lane_result` | one Ticket, no crash | a documented promise the code does not keep, section 5 |
| `engine` | 3 steps (a validated idempotent command, a non-idempotent command listed before the step it depends on, an inline step), 2 controllers, 2 crashes | `EngineInv` (one controller, owned execution, dependencies first), fencing, no blind repetition, the contract, every workflow ends |
| `delivery_safety` | a native reply and a workflow result of one session, 2 flush processes, 1 revocation, 1 crash, 1 lapse under a living holder, 1 late injection, 1 marker out of the window | `DeliveryInv` (shown before settled, row and Ticket agree, copies explained), generation, no loss, order |
| `delivery_liveness` | 2 sessions, 3 results, 1 flush process, 1 crash, 1 revocation, session b never answers | results of session a settle |
| `recovery` | 2 provider calls, 2 recovery attempts, 1 revocation, 3 tries, 2 upsets, both surfaces and supervisors | `RecoveryInv` (recovery alone, one counted inference, one authority), authorised only in silence, settled is final, claims, and answers of live sessions, do not wait for ever |
| `context_handoff` | 2 sessions and the supervisor in three programs, 1 lane of a kind, 5 commands in the handoff program and 4 in the others, 2 revisions, 1 fault | `HandoffInv` (one live worker, results of their handoff, one checkpoint, bounded lanes), no binding resurrected or replaced by an older one, no lost lane |
| `task_ledger` | 2 processes, 3 commands, 1 fault | `LedgerInv` (ledger explains state, completion verified, retries charged), durable commits, the journal is replayed |
| `host_lifecycle` | 2 commands, 1 fault | `HostInv` (user's value kept, rollbacks, commit order, complete disable), stop is respected, the Gateway comes back |
| `route` | 2 providers, 4 models, 3 commands, 2 edits, 1 death | `RouteInv` (copy, baseline, selection), an undone switch is undone |
| `ownership` | a direct slot and 2 projects, 3 payloads, 3 crashes, 2 failing steps, 1 foreign installer | `OwnershipInv` (journalled, prior generation kept, re-entrant), restore or quarantine, nothing authorised in quarantine, foreign data, a half made installation ends |

The state invariants of a module are one formula, its `...Inv`, a conjunction of named parts that each have their own
comment. Every property has a mutant: a definition of the module preceded by a note `Mutant` or `mutant` that changes
one definition as a plausible bug would, and under which the run finds the property violated.

Bounds. Two Tickets are what it takes to compete for a slot, for a workflow and for a session; a third adds no new kind
of conflict, because the transactions touch one row or all rows of a session. Two attempts give a first, a last and a
spent attempt. Three claims let a client hold two stale leases. Two crashes let a recovery crash itself; where a run has
one (`lane`, `route`, `task_ledger`), the restart is a fresh process that finds the same files and the second crash
would meet states the first already made reachable at an earlier command. Two controllers suffice because a slot is
reused as soon as its process is dead and not named in `state.json`; two children are an orphan and a child in use. In `HostDelivery` each kind of fault has its budget, because `CopiesAreExplained` counts copies against the
faults that happened. In `DirectRecovery` two calls make the lease row be reused, two attempts make a retry overlap an
attempt that is still being aborted, and `MaxUpsets < MaxTries` because a claim cut off in its last try is not reclaimed.
Two Host commands make every command meet what every other left; three route commands are a switch, its recovery and a
second switch. Three payloads make an upgrade replace an upgrade and the previous version be upgraded. Three programs of `context_handoff` give each lock file
its writers without multiplying unrelated files. The runs that switch deadlock checking off are those whose bounded
operator, user or workflow has nothing left to do.

## 4. Fairness

`TicketRuntime!WorkFairness`: the tick continues (the wake-up timer is re-armed while `idleWorkHint` sees open work), a
crashed gateway is restarted by the Host, workflows end (checked by `engine`), the lease of a row nobody renews passes,
and pressure on memory or disk does not refuse a candidate for ever. `DeliveryFairness`, used only for the violated
`CompletedResultReturns`, adds that OpenClaw runs a scheduled turn and overdue rows are found. `WorkflowEngine!Fairness`:
processes run, children end (a live controller enforces the step timeout; of an orphan it is an assumption) and the
supervisor keeps discovering and launching; `EveryWorkflowEnds` claims nothing of a workflow whose controllers raise again
and again. `HostDelivery!Fairness`: the plugin's timer starts a flush while a row is
due, flush processes run, a staged run ends within its claim, claims and pauses expire, and the RPCs of a reachable
session succeed sooner or later; of other sessions nothing is assumed. `DirectRecovery!FairSpec`: the delivery timer of
the plugin, for sessions that are live (`Wakes`), and the minute tick of the Host go on, and a Gateway that starts gets up;
no provider call or inference has to end, no user has to act, and no recovery row has to be claimed. `HostLifecycle!Spec`: the scheduler starts the tick,
processes run on, a lease reaches its deadline. `TaskLedger!Spec`: processes run, somebody shows the task now and then,
locks age. `NamespaceOwnership!OwnershipSpec`: an installer that runs goes on, and the operator reruns it after a crash.
`ContextHandoff` and `RouteTransaction` have no liveness: every next command is the operator's choice. Strong fairness
stands where another process can take the chance away again and again.

## 5. Findings and known limits

`lane_result`: the turn that carries a completed result is blocked as internal control text by a hook of higher priority
than the one that would bind it; the row is rescheduled for ever. `P/index.ts:792` announces that terminal evidence
returns automatically.

Seen while modelling, kept out of the properties by a named exception or a comment:

- A gateway crash in the last attempt leaves the Ticket in `waiting` with its attempts used up (`P/ticket-store.ts:499`);
  `README.md:36` of the repository promises an end.
- Deduplication compares the request hash and not the owner (`P/index.ts:321`); docs/releases/v0.9.0.md:29.
- A controller killed between `Popen` and `record_runner` leaves a child nobody fences (`S/workflow.py:229`); a crash
  or an exception requeues a step past `maximumAttempts` (`S/workflow.py:424`), so a step whose program cannot be started
  is launched again for ever: the exception in `EveryWorkflowEnds`; a crash between `state.json` and `completion.json` loses
  the notice (`S/workflow.py:443`).
- `HostDelivery` shows no settlement across a Stop, but a message may still appear after one: a flush process looks at
  the generation once, and `chat.inject` knows no generation (`S/host_delivery.py:449`). A settlement that always raises
  holds back its session (`:331`). `next_actionable_delivery` ignores that a stale head hides a valid row (`:286`).
- The workflows of a stopped session are cancelled after the revocation committed (`P/v090.ts:41`); Stop and Reset write
  the state active over deleting or deleted (`P/v090.ts:32`).
- A claim of a call interrupted for the third time is never reclaimed (`S/host_stall_v091.py:66`). A channel receipt that
  fails late queues a second attempt beside the first. An error of the store other than BUSY in the watch of a claim
  retries an attempt beside its own running inference (`P/v094-direct-recovery.ts:505`, `:701`), and a live tick with
  promoted work of any session sets every running row back to pending (`P/v091-final-entry.ts:334`, `P/v090.ts:48`): in
  both cases two inferences may run for one request, of which one answer is kept. The answer of a session without an id or
  not updated for 15 minutes wakes no delivery (`P/v091-direct-recovery.ts:69`), the exception in `AnswerIsSettled`. An operator `start` that meets a live Gateway promotes the Ticket
  of a live run. A run that was interrupted after it staged an answer is queued again (`P/v090.ts:43`).
- The plugin reads `controller.json` in the schema of the previous release (`P/v091-release-entry.ts:128`), so an enable
  of a fresh installation starts the Gateway without it. A tick that read MANAGED before a stop or disable restarts the
  Gateway after it (`op.raced`). A reset removes the watchdog snapshot (`op.wiped`). The raw mode a refused start reads
  is absent in the new schema (`S/host_control.py:91`), so its watchdog fence stays until the next disable. The Host tick
  clears a maintenance marker the operator set meanwhile.
- `begin` and `restore_native` write back a whole `openclaw.json` read up to a minute before
  (`S/openclaw_route_v092_legacy.py:445`, `:519`). A death between the removal of the copy and the write of the state
  leaves a transaction every later begin refuses (`hist.cut`). Every Host command that changes mode or Gateway drops
  `selectedProvider` and `providerTransition` from `controller.json` (`S/host_state_v095.py:55`), that of the switch
  itself too, after which a death between the commits of route and selection leaves no sign (`hist.dropped`).
- A crash between manifest and `transaction-commit` leaves the marker incomplete for the life of the installation
  (`S/namespace_ownership.py:285`); an upgrade that later quarantines the manifest exposes it to the next preflight. The
  rollback removes the state root, and its own marker, before roots of the same depth (`:314`). An upgrade that dies
  between the removal of the skill and its replacement is refused on the next run, and so is an upgrade from the previous
  version that stopped where OpenClaw had removed the bound plugin, because the re-entry verifies the manifest for the
  current version only (`:1429`); a managed generation of the previous version cannot be rolled over at all (`:560`).
- A failed `transaction-record` is ignored (`src/scripts/install.ps1:397`, `:554`): the root is made without a record, and
  a rollback leaves it; the exception in `ArtifactsAreJournalled`. A marker cut off by a death leaves residue no later run
  removes. An application data root that another workspace makes after this attempt looked for it, is removed by the
  rollback (`S/namespace_ownership.py:315`); the exception in `ForeignDataSurvives`.
- A lock older than its limit is removed under a first owner that only slept (`S/runtime.py:118`, `S/cogent.py:73`),
  and between the two calls that find and remove it (`S/runtime.py:119`, `S/cogent.py:74`) a second waiter may have put
  a fresh one in its place, which is then removed with nobody asleep. A monitor that read a binding before the operator
  removed it and bound the task again writes the old one over the new one, since it goes by the name of the task
  (`S/runtime.py:833`); and two checkpoints may give one generation twice (`S/runtime.py:697`). A power loss that cuts
  a ledger line makes every reader of the ledger refuse the task. A rollback gives retries back with the rest of the
  content.
- A pulse that arrives while `work()` throws is lost until the timer of `armActiveWake` (`P/v091-final-entry.ts:161`).

## 6. Proofs

Everything here holds for every value of the constants that satisfies the named assumption of the module
(`TicketStoreAssumption`, `WorkflowEngineAssumption`, ...), which TLC evaluates in every run. The assumptions give the
bounds their types, keep the markers `None`, `NoOne`, `none` and `nobody` apart from the names of processes and sessions
(in `NamespaceOwnership` also from payloads and from the content of files that may be absent),
and say what the code's own tables say: `transientMaximum` is never below `maximumAttempts` (`WorkflowEngine`), a model
the provider lists is a model of that provider (`RouteTransaction`). `HostDelivery` has finitely many flush processes,
`WorkflowEngine` finitely many steps, the store finitely many Tickets, because their properties count.

Each module's `...Inv` is inductive. Its first parts are what the system promises, the later ones are what the steps need
from each other; TLC checks all of it in the runs, and each proof has one lemma per action or group of actions, and one
per part an action can disturb.

| Module | Theorems | The argument |
|---|---|---|
| `TicketClients` | `StoreInvariant` and its parts, `TerminalIsFrozen`, `NoticeStaysGone`, `LeaseIsExclusive`, `Refinement` | a remembered lease is never ahead of its row (so a stale one is recognised), a running row was claimed and has a lease, no other row has one (so settlement implies the last generation, and a call that ends a live lease was made with it or by its session) |
| `TicketRuntime` | `LaneIsSafe`, `LaneImplementsContract` | every transaction is reduced to how it moves one row and one notice; `SubjectFits`, `BatchFits` and `CapacityFits` say that what the tick read is still true where it is used, because a hook between two ticks finds no tick under way, and that a candidate is durable although `claim` does not ask; `OutboxFits` says that at most one failure is unsilenced and which |
| `WorkflowEngine` | `EngineIsSafe` and its parts, `RunnersFence`, `NothingRepeatsBlindly`, `EngineImplementsContract` | a working controller is the recorded one (`WorkingIsRecorded`), hence there is one; only its step is marked running, and none is left when the next is chosen (`OneStepRuns`), so a recorded live runner is never stepped over; an ended workflow has nothing running (`EndIsClean`), so the outcome is given once |
| `HostDelivery` | `DeliveryIsSafe` and its parts, `SettlesInItsGeneration`, `NoValidResultIsLost`, `HostKeepsOrder` | `FlushersWork` ties each flush process to a claimed row, `RowsAreOfTheirGeneration` and `TicketsFollowRows` say which generation a row and a Ticket may be of; copies are a balance (`CopiesAreCovered`): those shown, plus the processes that may still show one, are at most one more than the faults that happened, and every step moves at most one process from one side to the other |
| `DirectRecovery` | `RecoveryIsSafe` and its parts, `AuthorizationsAreSilent`, `SettlementsAreFinal` | a Gateway that is not up keeps nothing alive (`QuietWhenDown`) and stays down while a recovery has claimed the call (`HostHoldsGateway`); a recovery row is opened only behind its run (`RowFollowsRun`) and no answer is overlooked (`UnstoredAnswerIsFirst`); attempts are counted by claims alone (`AttemptsCount`), and a row goes back to pending when none is left that was not taken its row (`OneAttempt`) |
| `ContextHandoff` | `HandoffIsSafe`, `BindingsAreNotUndone`, `LanesAreKept` | `CommandFits` says what a command has read under which lock and that it is still in the file; who waits or has left holds no lock; `FilesFit` that a live lease of a prepared handoff is the one in the file; `RegistryFits` that the registry and what a monitor remembers of it never run ahead of the history; `ReadIsCurrent` that a monitor holds the binding of the file until the task is bound again |
| `TaskLedger` | `TaskIsSafe`, `CommitsAreDurable` | `WritersExclude`: the lock has one writer; `FilesFit`: with its journal, each crash point has one of few shapes, in which ledger, revisions and state differ by at most the transaction the journal names; the state told is the one after a replay, so no crash point is an exception |
| `HostLifecycle` | `HostIsSound` and its parts, `StopHolds` | a command is a suffix of its program or of a rollback (`PlaceFits`); orders of steps (what comes before, what follows) are facts about the few lists of the code and every suffix inherits them; every action is one of five kinds of step (a command begins, advances, turns to its rollback, stops, or something passes beside it), and each part of `HostInv` is kept by each kind |
| `RouteTransaction` | `RouteIsSafe` and its parts, `UndoingRestores` | a transaction is pending exactly between its first write and its last (`PendingIsOpen`, `SwitchIsOpen`), the copy is what was there before it (`CopyIsBefore`), the baseline is native (`BaselineIsNative`), a recorded route belongs to its provider (`RoutesBelong`); the selection is followed until a Host command drops it |
| `NamespaceOwnership` | `OwnershipIsSound`, `GivingUpIsExact`, `QuarantineHolds`, `ForeignDataStays` | a run is a suffix of the program of its mode (`RunFits`); before the first installation is complete at most the slot of the candidate is occupied, afterwards at most two generations are, and of two one is bound or named by the transaction (`SlotsFit`); so an upgrade that dies leaves a workspace the next run classifies, a recovery finds what it restores, and the generation to replace is in a slot or among the backups; a root is removed only when the marker of the running attempt names it, and such a marker never names what was there when the attempt looked (`UndoFits`, `ForeignFits`); what an upgrade's transaction calls old is the last complete payload (`OriginFits`) |

Refinement. `TicketClients` and `TicketRuntime` implement `TicketContract`, `WorkflowEngine` implements
`WorkflowContract`, by the mappings in the modules, and each step is shown to be a step of the contract or a stutter. For
`TicketRuntime` this needs `OutboxFits`: a restart removes the notices of all failed rows at once, which is one step of
the contract only because at most one such row exists.

What the proofs changed. The proof of `OneLiveWorker` failed at a worker that claims its own handoff again and then
releases the older lease, and TLC finds that behaviour with five commands: the older lease is refused (its generation is
past), and the property counted it as work. `Works` says now what the code does. `OutboxFits` first allowed several
unsilenced failures, which made the contract unprovable although it held. `FailedEnableIsNative` promised too much about
the watchdog: its rollback restores a value from the snapshot, which an earlier reset has removed; with three commands
and three faults TLC finds it, and the property now names the exception (`op.wiped`).
`UpgradeIsReentrant` was not inductive alone: that an interrupted upgrade is taken up rests on there being no third
generation, which nothing said before `SlotsFit`.

Only model-checked: liveness, since the provers here do not reason about fairness. These are `ReadyIsServed`,
`ClaimsAreReleased`, `EveryWorkflowEnds`, `ReachableResultSettles`, `ClaimIsSettled`, `AnswerIsSettled`,
`JournalIsReplayed`, `GatewayComesBack` and `FreshAttemptEnds`. Every state invariant, action property and refinement of
the passing runs is stated by a theorem.

## 7. Plan

Next: the steps a liveness argument rests on and that need no fairness (a measure that no step of a process lets grow, a
helpful step that stays possible), stated as action properties where a run can break them; and the longest proofs
(`HostDelivery`, `HostLifecycle`) in fewer, larger lemmas.

Not modelled: text classification, manifests and retrieval (`P/admission.ts`, `P/knowledge-store.ts`,
`P/evaluation.ts`), which have no state to relate; token accounting and compaction (`P/*context-guard.ts`), arithmetic on
transcript sizes; native task fences (`P/v099-*.ts`), which follow a host API outside the repository; the Discord and
WebChat adapters, whose transports are outside too; provider probes and event parsing (`S/provider_events_v092.py`),
legacy migration and clean reinstall of the installers, schedulers and resource probes, which are I/O.
