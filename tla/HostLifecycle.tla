---------------------------- MODULE HostLifecycle ----------------------------
(***************************************************************************)
(* The operator commands of the Host (enable, disable, start, stop,        *)
(* restart, reset) and the scheduled supervisor tick, which run as two     *)
(* processes over the same durable state: controller.json, the plugin and  *)
(* policy surfaces, the scheduler adapter, the maintenance marker, the     *)
(* watchdog snapshot and the quiescence lease.  A process is the sequence  *)
(* of steps it still has to take; every step is one file write or one      *)
(* OpenClaw command, may fail, and may be the last one before a crash.     *)
(***************************************************************************)
EXTENDS Naturals, Sequences

CONSTANTS Commands,      \* the commands the operator gives
          MaxCommands, \* how many of them
          MaxFaults     \* crashes, failing steps, deaths of the Gateway, user edits

ASSUME LifecycleAssumption ==
  /\ Commands \subseteq {"enable", "disable", "start", "stop", "restart", "reset"}
  /\ MaxCommands \in Nat /\ MaxFaults \in Nat

VARIABLES
  host,    \* controller.json: schema, mode and desired Gateway state
  surf,    \* plugin enabled, policy block in AGENTS.md, scheduler adapter
  watch,   \* diagnostics.stuckSessionAbortMs and the snapshot of its owner
  gw,      \* the Gateway process: up, and running the plugin
  marker,  \* maintenance.json: none, manual, or healthy-runtime ("restart")
  lease,   \* supervisor-quiescence.json
  todo,    \* the steps each process still has to take
  seen,    \* the marker each runtime pulse read under the supervisor lock
  op,      \* the last command: what it found, how it fares, how it ended
  budget   \* commands and faults so far

vars == <<host, surf, watch, gw, marker, lease, todo, seen, op, budget>>

NoSnap == [original |-> "none", applied |-> FALSE]
Native == [schema |-> 2, mode |-> "passthrough", desired |-> "running"]
Down == [up |-> FALSE, live |-> FALSE]
AllOff == [plugin |-> FALSE, policy |-> FALSE, adapter |-> FALSE]
NoOp == [cmd |-> "none", result |-> "none", host |-> Native, surf |-> AllOff, live |-> FALSE, value |-> "native",
            undoing |-> FALSE, dirty |-> FALSE, raced |-> FALSE, drifted |-> FALSE, withdrawn |-> {}, wiped |-> FALSE]
Start == [commands |-> 0, faults |-> 0, reboots |-> 0]

Pulse == <<"readMarker", "heal">>
EnableCore == <<"lease", "pluginOff", "configure", "policyOn", "adapterOn",
                  "pluginOn", "commit", "markRestart", "bounce", "ensureUp",
                  "verify">>
EnableSteps == <<"capture", "fence">> \o EnableCore \o Pulse \o <<"release">>
DisableCore == <<"adapterOff", "policyOff", "pluginOff", "cancel", "bounce",
                  "commitOff">>
DisableSteps == <<"restoreValue", "dropSnapshot">> \o DisableCore \o <<"boundary">>
StartSteps == <<"admit", "commit", "ensureUp">> \o Pulse
RestartSteps == <<"admit", "commit", "markRestart", "bounce">> \o Pulse
StopSteps == <<"admit", "commitStop", "stopGateway">>
ResetSteps == DisableCore \o <<"adapterOff", "wipe">> \o EnableCore \o Pulse
                  \o <<"release", "boundary">>

(* What reads controller.json as it lies on disk finds a mode only in the   *)
(* old schema; the Host itself derives one from either.                    *)
RawMode == IF host.schema = 1 THEN host.mode ELSE "absent"

Fenced == IF RawMode = "passthrough" THEN <<>> ELSE <<"capture", "fence">>

Steps(cmd) == CASE cmd = "enable"  -> EnableSteps
                [] cmd = "disable" -> DisableSteps
                [] cmd = "start"   -> Fenced \o StartSteps
                [] cmd = "restart" -> Fenced \o RestartSteps
                [] cmd = "stop"    -> StopSteps
                [] OTHER           -> ResetSteps

Who == {"op", "tick"}
StepNames == {"capture", "fence", "restoreValue", "dropSnapshot", "lease", "release", "configure",
              "pluginOn", "pluginOff", "policyOn", "policyOff", "policyRestore", "adapterOn", "adapterOff",
              "admit", "commit", "commitStop", "commitOff", "stateRollback", "wipe", "verify", "cancel",
              "prepare", "stopGateway", "markRestart", "bounce", "boundary", "ensureUp", "readMarker",
              "heal", "inspect", "recheck", "gate", "probe", "regate"}
Controller == [schema : 1..2, mode : {"managed", "maintenance", "passthrough"}, desired : {"running", "stopped"}]
Surface == [plugin : BOOLEAN, policy : BOOLEAN, adapter : BOOLEAN]
Values == {"native", "managed", "user"}
Snapshot == [original : Values \cup {"none"}, applied : BOOLEAN]
Operation == [cmd : Commands \cup {"none"}, result : {"none", "ok", "failed", "crashed"}, host : Controller,
              surf : Surface, live : BOOLEAN, value : Values, undoing : BOOLEAN, dirty : BOOLEAN, raced : BOOLEAN,
              drifted : BOOLEAN, withdrawn : SUBSET {"plugin", "policy", "adapter"}, wiped : BOOLEAN]

TypeOK ==
  /\ host \in Controller /\ surf \in Surface
  /\ watch \in [value : Values, snap : Snapshot]
  /\ gw \in [up : BOOLEAN, live : BOOLEAN] /\ (gw.live => gw.up)
  /\ marker \in {"none", "manual", "restart"} /\ seen \in [Who -> {"none", "manual", "restart"}]
  /\ lease \in {"free", "held", "stale"}
  /\ todo \in [Who -> Seq(StepNames)]
  /\ op \in Operation
  /\ budget \in [commands : Nat, faults : Nat, reboots : Nat]

(* A fresh installation, or one whose controller.json the previous release *)
(* wrote, disabled or enabled.                                             *)
Init ==
  /\ \E enabled \in BOOLEAN, schema \in 1..2 :
       /\ enabled => schema = 1
       /\ host = [schema |-> schema, desired |-> "running",
                  mode |-> IF enabled THEN "managed" ELSE "passthrough"]
       /\ surf = [plugin |-> enabled, policy |-> enabled, adapter |-> enabled]
       /\ watch = IF enabled
                  THEN [value |-> "managed", snap |-> [original |-> "native", applied |-> TRUE]]
                  ELSE [value |-> "native", snap |-> NoSnap]
       /\ gw = [up |-> TRUE, live |-> enabled]
  /\ marker = "none" /\ lease = "free"
  /\ todo = [w \in Who |-> <<>>] /\ seen = [w \in Who |-> "none"]
  /\ op = NoOp
  /\ budget = Start

-----------------------------------------------------------------------------
(* Control of a process. *)
At(w, step) == todo[w] # <<>> /\ Head(todo[w]) = step
Busy(w) == todo[w] # <<>>
Fault == budget.faults < MaxFaults /\ budget' = [budget EXCEPT !.faults = @ + 1]

(* The Gateway reads plugin config and controller.json when its process    *)
(* starts; the plugin registers under managed and passthrough authority.   *)
Authorized == RawMode \in {"managed", "passthrough"}
Boot == [up |-> TRUE, live |-> surf.plugin /\ Authorized]

(* A process goes on with rest; the command, by now o, ends with its last. *)
Result(o) == IF o.undoing THEN "failed" ELSE "ok"

OpContinues(rest, o) ==
  /\ todo' = [todo EXCEPT !["op"] = rest]
  /\ op' = IF rest = <<>> THEN [o EXCEPT !.result = Result(o)] ELSE o

OpAdvances(o) == OpContinues(Tail(todo["op"]), o)

TickContinues(rest) == todo' = [todo EXCEPT !["tick"] = rest] /\ UNCHANGED op

Continue(w, rest) == IF w = "op" THEN OpContinues(rest, op) ELSE TickContinues(rest)
Advance(w) == Continue(w, Tail(todo[w]))

Issue(cmd) ==
  /\ ~Busy("op") /\ budget.commands < MaxCommands /\ cmd \in Commands
  /\ op' = [NoOp EXCEPT !.cmd = cmd, !.host = host, !.surf = surf, !.live = gw.live, !.value = watch.value,
                        !.raced = Busy("tick"), !.withdrawn = op.withdrawn,
                        !.wiped = op.wiped]
  /\ todo' = [todo EXCEPT !["op"] = Steps(cmd)]
  /\ budget' = [budget EXCEPT !.commands = @ + 1]
  /\ UNCHANGED <<host, surf, watch, gw, marker, lease, seen>>

-----------------------------------------------------------------------------
(* The rollback of a command whose step failed. *)
EnableUndoHasty(step) ==  \* mutant: a failed registration registered nothing
  (IF step \in {"pluginOn", "commit", "markRestart", "bounce", "ensureUp", "verify"}
   THEN <<"adapterOff">> ELSE <<>>)
  \o <<"pluginOff", "cancel", "policyRestore">>
  \o (IF step = "pluginOff" THEN <<>> ELSE <<"bounce">>)
  \o <<"stateRollback", "release">>

EnableUndo(step) ==
  (IF step \in {"adapterOn", "pluginOn", "commit", "markRestart", "bounce", "ensureUp", "verify"}
   THEN <<"adapterOff">> ELSE <<>>)
  \o <<"pluginOff", "cancel", "policyRestore">>
  \o (IF step = "pluginOff" THEN <<>> ELSE <<"bounce">>)
  \o <<"stateRollback", "release">>

DisableUndo(step) ==
  (IF step = "adapterOff" THEN <<>> ELSE <<"policyRestore">>)
  \o (IF op.host.mode = "passthrough" THEN <<>>
      ELSE (IF step \in {"adapterOff", "policyOff"} THEN <<>> ELSE <<"pluginOn">>)
           \o <<"adapterOn">>
           \o (IF op.host.desired = "running" THEN <<"ensureUp">> ELSE <<>>))

InEnable(step) == step \in {EnableCore[i] : i \in 2..Len(EnableCore)}
InDisable(step) == step \in {DisableCore[i] : i \in 1..Len(DisableCore)}

Undo(step) ==
  CASE op.cmd = "enable" /\ InEnable(step) -> EnableUndo(step) \o <<"restoreValue", "dropSnapshot">>
    [] op.cmd = "enable" /\ step = "lease" -> <<"restoreValue", "dropSnapshot">>
    [] op.cmd = "disable" /\ InDisable(step) -> DisableUndo(step) \o <<"capture", "fence">>
    [] op.cmd = "reset" /\ InEnable(step) /\ ~InDisable(step) -> EnableUndo(step) \o DisableCore
    [] op.cmd = "reset" -> DisableCore
    [] OTHER -> <<>>

(* A failing restart may have taken the Gateway down, a failing            *)
(* registration may have registered the adapter.                           *)
Partial(step) ==
  \/ UNCHANGED <<gw, surf>>
  \/ step \in {"bounce", "boundary"} /\ gw' = Down /\ UNCHANGED surf
  \/ step = "adapterOn" /\ surf' = [surf EXCEPT !.adapter = TRUE] /\ UNCHANGED gw

(* The pulse and the release of the lease swallow their errors; so does    *)
(* every step of a rollback, which goes on without it, except that the     *)
(* snapshot is kept when the value could not be restored.                  *)
OpFails ==
  /\ Busy("op")
  /\ LET step == Head(todo["op"])
         rest == IF ~op.undoing THEN Undo(step)
                 ELSE IF step \in {"restoreValue", "capture"} THEN <<>> ELSE Tail(todo["op"])
     IN /\ step \notin {"readMarker", "heal", "release"}
        /\ Partial(step)
        /\ OpContinues(rest, [op EXCEPT !.undoing = TRUE, !.dirty = @ \/ op.undoing])
  /\ Fault
  /\ UNCHANGED <<host, watch, marker, lease, seen>>

(* An error ends the tick: the next one starts over. *)
TickFails ==
  /\ Busy("tick")
  /\ Partial(Head(todo["tick"]))
  /\ TickContinues(<<>>) /\ Fault
  /\ UNCHANGED <<host, watch, marker, lease, seen>>

-----------------------------------------------------------------------------
(* The watchdog fence around the commands. *)
Captured == IF watch.snap = NoSnap THEN [original |-> watch.value, applied |-> FALSE]
            ELSE watch.snap

Capture ==
  /\ At("op", "capture")
  /\ LET moved == watch.snap.applied /\ watch.value # "managed"
     IN /\ watch' = [watch EXCEPT !.snap =
              IF moved THEN [@ EXCEPT !.applied = FALSE] ELSE Captured]
        /\ IF moved THEN OpContinues(<<>>, [op EXCEPT !.undoing = TRUE]) ELSE Advance("op")
  /\ UNCHANGED <<host, surf, gw, marker, lease, seen, budget>>

Fence ==
  /\ At("op", "fence")
  /\ watch' = [value |-> "managed", snap |-> [watch.snap EXCEPT !.applied = TRUE]]
  /\ Advance("op")
  /\ UNCHANGED <<host, surf, gw, marker, lease, seen, budget>>

RestoreValue ==
  /\ At("op", "restoreValue")
  /\ watch' = [watch EXCEPT !.value =
       IF watch.snap = NoSnap \/ @ # "managed" THEN @ ELSE watch.snap.original]
  /\ Advance("op")
  /\ UNCHANGED <<host, surf, gw, marker, lease, seen, budget>>

DropSnapshot ==
  /\ At("op", "dropSnapshot")
  /\ watch' = [watch EXCEPT !.snap = NoSnap]
  /\ Advance("op")
  /\ UNCHANGED <<host, surf, gw, marker, lease, seen, budget>>

-----------------------------------------------------------------------------
(* The quiescence lease of enable. *)
Acquire ==
  /\ At("op", "lease") /\ lease # "held"
  /\ lease' = "held" /\ Advance("op")
  /\ UNCHANGED <<host, surf, watch, gw, marker, seen, budget>>

Refused ==
  /\ At("op", "lease") /\ lease = "held"
  /\ OpContinues(Undo("lease"), [op EXCEPT !.undoing = TRUE])
  /\ UNCHANGED <<host, surf, watch, gw, marker, lease, seen, budget>>

Release ==
  /\ At("op", "release")
  /\ lease' = "free" /\ Advance("op")
  /\ UNCHANGED <<host, surf, watch, gw, marker, seen, budget>>

LeaseStays ==  \* mutant: the deadline is not looked at
  /\ lease = "held" /\ ~Busy("op") /\ lease' = "held"
  /\ UNCHANGED <<host, surf, watch, gw, marker, todo, seen, op, budget>>

(* The lease outlives no living holder: enable ends within its 900 s. *)
LeaseExpires ==
  /\ lease = "held" /\ ~Busy("op") /\ lease' = "stale"
  /\ UNCHANGED <<host, surf, watch, gw, marker, todo, seen, op, budget>>

-----------------------------------------------------------------------------
(* Surfaces: what a command or the repair of the tick switches. *)
Switch(w, step, new) ==
  /\ At(w, step) /\ surf' = new
  /\ LET o == [op EXCEPT !.withdrawn =
                 {k \in DOMAIN surf : ~new[k] /\ (surf[k] \/ k \in op.withdrawn)}]
     IN IF w = "op" THEN OpAdvances(o) ELSE Advance(w)
  /\ UNCHANGED <<host, watch, gw, marker, lease, seen, budget>>

PluginOn(w) == Switch(w, "pluginOn", [surf EXCEPT !.plugin = TRUE])
PluginOff(w) == Switch(w, "pluginOff", [surf EXCEPT !.plugin = FALSE])
Configure(w) == Switch(w, "configure", surf)
PolicyOn(w) == Switch(w, "policyOn", [surf EXCEPT !.policy = TRUE])
PolicyOff(w) == Switch(w, "policyOff", [surf EXCEPT !.policy = FALSE])
PolicyRestore(w) == Switch(w, "policyRestore", [surf EXCEPT !.policy = op.surf.policy])
AdapterOn(w) == Switch(w, "adapterOn", [surf EXCEPT !.adapter = TRUE])
AdapterOff(w) == Switch(w, "adapterOff", [surf EXCEPT !.adapter = FALSE])

Surfaces(w) ==
  \/ PluginOn(w) \/ PluginOff(w) \/ Configure(w) \/ PolicyOn(w)
  \/ PolicyOff(w) \/ PolicyRestore(w) \/ AdapterOn(w) \/ AdapterOff(w)

(* A disabled Host refuses start, stop and restart. *)
Admit ==
  /\ At("op", "admit")
  /\ IF host.mode = "passthrough" THEN OpContinues(<<>>, [op EXCEPT !.undoing = TRUE])
     ELSE Advance("op")
  /\ UNCHANGED <<host, surf, watch, gw, marker, lease, seen, budget>>

(* controller.json: a transition that changes nothing writes nothing, and  *)
(* every write is of the new schema.                                       *)
Transitioned(mode, desired) ==
  IF host.mode = mode /\ host.desired = desired THEN host
  ELSE [schema |-> 2, mode |-> mode, desired |-> desired]

Commit(step, new) ==
  /\ At("op", step) /\ host' = new /\ Advance("op")
  /\ UNCHANGED <<surf, watch, gw, marker, lease, seen, budget>>

Transitions ==
  \/ Commit("commit", Transitioned("managed", "running"))
  \/ Commit("commitStop", Transitioned("maintenance", "stopped"))
  \/ Commit("commitOff", IF host.mode = "passthrough" THEN host
                         ELSE Transitioned("passthrough", "running"))
  \/ Commit("stateRollback", Native)

Wipe ==
  /\ At("op", "wipe")
  /\ host' = Native /\ marker' = "none" /\ lease' = "free"
  /\ watch' = [watch EXCEPT !.snap = NoSnap]
  /\ OpAdvances([op EXCEPT !.wiped = TRUE])
  /\ UNCHANGED <<surf, gw, seen, budget>>

-----------------------------------------------------------------------------
(* The runtime lifecycle commands and the Gateway. *)
Runtime(w, step, newGw, newMarker) ==
  /\ At(w, step) /\ gw' = newGw /\ marker' = newMarker /\ Advance(w)
  /\ UNCHANGED <<host, surf, watch, lease, seen, budget>>

EnsuredUp == IF gw.up THEN gw ELSE Boot

Cancel(w) == Runtime(w, "cancel", gw, "none")
Prepare(w) == Runtime(w, "prepare", gw, "manual")
StopGateway(w) == Runtime(w, "stopGateway", Down, IF marker = "none" THEN "manual" ELSE marker)
MarkRestart(w) == Runtime(w, "markRestart", gw, "restart")
Bounce(w) == Runtime(w, "bounce", Boot, marker)
Boundary(w) == Runtime(w, "boundary", Boot, marker)
EnsureUp(w) == Runtime(w, "ensureUp", EnsuredUp, "none")

Lifecycle(w) ==
  \/ Cancel(w) \/ Prepare(w) \/ StopGateway(w) \/ MarkRestart(w)
  \/ Bounce(w) \/ Boundary(w) \/ EnsureUp(w)

(* enable verifies the Gateway it has restarted. *)
Verify ==
  /\ At("op", "verify")
  /\ IF gw.up THEN Advance("op") ELSE OpContinues(Undo("verify"), [op EXCEPT !.undoing = TRUE])
  /\ UNCHANGED <<host, surf, watch, gw, marker, lease, seen, budget>>

(* One pulse of runtime.py supervisor tick: it is skipped while the other  *)
(* process is inside its own, it stops at a manual marker, and it acts on  *)
(* the marker it has read.                                                 *)
Other(w) == CHOOSE v \in Who : v # w

ReadMarker(w) ==
  /\ At(w, "readMarker")
  /\ LET skipped == At(Other(w), "heal") \/ marker = "manual"
     IN /\ Continue(w, IF skipped THEN Tail(Tail(todo[w])) ELSE Tail(todo[w]))
        /\ seen' = IF skipped THEN seen ELSE [seen EXCEPT ![w] = marker]
  /\ UNCHANGED <<host, surf, watch, gw, marker, lease, budget>>

Heal(w) ==
  /\ At(w, "heal")
  /\ gw' \in {gw, EnsuredUp}
  /\ marker' = IF gw'.up /\ seen[w] = "restart" THEN "none" ELSE marker
  /\ seen' = [seen EXCEPT ![w] = "none"] /\ Advance(w)
  /\ UNCHANGED <<host, surf, watch, lease, budget>>

-----------------------------------------------------------------------------
(* The scheduled tick. *)
TickStart ==
  /\ surf.adapter /\ ~Busy("tick")
  /\ todo' = [todo EXCEPT !["tick"] = <<"inspect", "gate">>]
  /\ op' = [op EXCEPT !.raced = @ \/ Busy("op")]
  /\ UNCHANGED <<host, surf, watch, gw, marker, lease, seen, budget>>

Supervised == host.mode = "managed" /\ host.desired = "running"

TickGoes(rest) ==
  /\ TickContinues(rest)
  /\ UNCHANGED <<host, surf, watch, gw, marker, lease, seen, budget>>

Drifted == Supervised /\ RawMode = "managed" /\ ~surf.plugin

Inspect ==
  /\ At("tick", "inspect")
  /\ TickGoes(IF Drifted
              THEN <<"pluginOn", "bounce", "recheck", "gate">> ELSE <<"gate">>)

Recheck ==
  /\ At("tick", "recheck")
  /\ TickGoes(IF Supervised /\ RawMode = "managed" /\ surf.plugin THEN <<"gate">> ELSE <<>>)

QuiescedByLease == lease = "held"  \* mutant: the mode is not looked at again
Quiesced == lease = "held" \/ ~Supervised

Gate ==
  /\ At("tick", "gate")
  /\ IF Quiesced THEN TickGoes(<<>>)
     ELSE \/ TickGoes(<<"probe">>)
          \/ TickGoes(<<"prepare", "stopGateway", "ensureUp">>)

Probe ==
  /\ At("tick", "probe")
  /\ IF ~gw.up THEN TickGoes(<<"markRestart", "bounce">>)
     ELSE TickGoes(<<>>) \/ TickGoes(<<"regate">>)

Regate ==
  /\ At("tick", "regate")
  /\ TickGoes(IF Quiesced THEN <<>>
              ELSE IF gw.up THEN Pulse ELSE <<"ensureUp">> \o Pulse)

-----------------------------------------------------------------------------
(* The environment. *)
Killed(w) ==
  /\ Busy(w)
  /\ todo' = [todo EXCEPT ![w] = <<>>]
  /\ op' = IF w = "op" THEN [op EXCEPT !.result = "crashed"] ELSE op
  /\ Fault
  /\ UNCHANGED <<host, surf, watch, gw, marker, lease, seen>>

Reboot ==
  /\ budget.faults < MaxFaults
  /\ budget' = [budget EXCEPT !.faults = @ + 1, !.reboots = @ + 1]
  /\ todo' = [w \in Who |-> <<>>]
  /\ op' = IF Busy("op") THEN [op EXCEPT !.result = "crashed"] ELSE op
  /\ gw' \in {Down, Boot}
  /\ UNCHANGED <<host, surf, watch, marker, lease, seen>>

(* The Gateway dies; the user changes the watchdog or disables the plugin. *)
Meddle ==
  /\ Fault
  /\ \/ gw.up /\ gw' = Down /\ UNCHANGED <<surf, watch, op>>
     \/ /\ watch.value # "user" /\ watch' = [watch EXCEPT !.value = "user"]
        /\ UNCHANGED <<gw, surf, op>>
     \/ /\ surf.plugin /\ surf' = [surf EXCEPT !.plugin = FALSE]
        /\ op' = [op EXCEPT !.drifted = TRUE] /\ UNCHANGED <<gw, watch>>
  /\ UNCHANGED <<host, marker, lease, todo, seen>>

Step(w) ==
  Surfaces(w) \/ Lifecycle(w) \/ ReadMarker(w) \/ Heal(w)

OpStep ==
  \/ Step("op") \/ Capture \/ Fence \/ RestoreValue \/ DropSnapshot
  \/ Acquire \/ Refused \/ Release \/ Admit \/ Transitions \/ Wipe \/ Verify

TickStep == Step("tick") \/ Inspect \/ Recheck \/ Gate \/ Probe \/ Regate

Next ==
  \/ \E cmd \in Commands : Issue(cmd)
  \/ OpStep \/ OpFails \/ TickStart \/ TickStep \/ TickFails
  \/ LeaseExpires \/ Reboot \/ Meddle
  \/ \E w \in Who : Killed(w)

(* The scheduler starts a tick every minute, a process runs its steps, and *)
(* a lease that is not released reaches its deadline.                      *)
Spec == Init /\ [][Next]_vars
        /\ WF_vars(TickStart) /\ WF_vars(TickStep) /\ WF_vars(OpStep)
        /\ WF_vars(LeaseExpires)

-----------------------------------------------------------------------------
(* Properties. *)
OK(cmd) == op.cmd = cmd /\ op.result = "ok"
Failed(cmd) == op.cmd = cmd /\ op.result = "failed" /\ ~op.dirty

(* While OpenClaw runs with the watchdog value CogentNexus wrote, the      *)
(* value the user had is on disk, whatever failed or crashed; a reset,     *)
(* which removes the state root with the snapshot in it, is the exception. *)
NativeValueIsKept ==
  watch.value = "managed" /\ ~op.wiped => watch.snap.original \notin {"none", "managed"}

(* An enable of a disabled Host that fails leaves it as it was: disabled,  *)
(* no plugin, no scheduler, the policy block and the watchdog as before.   *)
FailedEnableIsNative ==
  Failed("enable") /\ ~op.raced /\ op.host.mode = "passthrough" =>
    /\ host.mode = "passthrough" /\ surf.policy = op.surf.policy
    /\ surf.plugin => op.surf.plugin
    /\ surf.adapter => op.surf.adapter
    /\ gw.live => op.live \/ op.surf.plugin
    /\ watch.value = "managed" => op.value = "managed" \/ op.wiped

(* A disable that fails before its commit leaves the Host resumable in the *)
(* state it had: mode, policy, and the scheduler if it was not disabled.   *)
FailedDisableIsUndone ==
  Failed("disable") /\ host = op.host /\ host.mode # "passthrough" =>
    /\ surf.policy = op.surf.policy
    /\ op.surf.adapter => surf.adapter

(* From the commit of an enable on, a restart of the machine finds what    *)
(* resumes the Host: the scheduler and the policy, unless a command took   *)
(* them away since.                                                        *)
CommitIsResumable ==
  host.mode = "managed" =>
    \A k \in {"adapter", "policy"} : surf[k] \/ k \in op.withdrawn

(* A disable that reports success has removed every trace, and no tick it  *)
(* did not overlap brings one back.                                        *)
DisableIsComplete ==
  OK("disable") /\ ~op.raced =>
    /\ host.mode = "passthrough" /\ ~gw.live
    /\ ~op.wiped => watch.value # "managed"
    /\ surf = AllOff

(* A Gateway that stop has stopped is not started by the supervisor.       *)
StopIsRespected ==
  [][OK("stop") /\ ~op.raced /\ budget'.reboots = budget.reboots
       => (gw'.up => gw.up)]_vars

(* A Gateway that died is brought back while the Host is to be running.    *)
GatewayComesBack ==
  Supervised /\ surf.adapter /\ ~gw.up
    ~> gw.up \/ ~Supervised \/ ~surf.adapter

-----------------------------------------------------------------------------
(* What the properties rest on: where a command is, and what it has left   *)
(* to do about what it has done.                                           *)

(* The programs of a command; start and restart fence the watchdog first   *)
(* if they find another raw mode than passthrough.                         *)
Programs(cmd) ==
  IF cmd = "enable" THEN {EnableSteps}
  ELSE IF cmd = "disable" THEN {DisableSteps}
  ELSE IF cmd = "start" THEN {StartSteps, <<"capture", "fence">> \o StartSteps}
  ELSE IF cmd = "restart" THEN {RestartSteps, <<"capture", "fence">> \o RestartSteps}
  ELSE IF cmd = "stop" THEN {StopSteps} ELSE {ResetSteps}

Rest(q, n) == SubSeq(q, n, Len(q))

(* A running command is at a place of its program or of a rollback.        *)
PlaceFits ==
  Busy("op") => \E q \in (IF op.undoing THEN {Undo(step) : step \in StepNames} ELSE Programs(op.cmd)) :
                   \E n \in 1..Len(q) : todo["op"] = Rest(q, n)

(* A command has a result when nothing is left of it, and has failed only  *)
(* behind its rollback.                                                    *)
ResultFits ==
  /\ Busy("op") <=> op.cmd # "none" /\ op.result = "none"
  /\ op.result = "failed" => op.undoing
  /\ op.result = "ok" => ~op.undoing

Has(q, step) == \E i \in 1..Len(q) : q[i] = step
Ahead(step) == Has(todo["op"], step)

(* Only a reset loses the value of the user; it is captured when the fence *)
(* is put up, and back when its snapshot is dropped.                       *)
WatchFits ==
  /\ watch.snap.original = "managed" => op.wiped
  /\ watch.snap.original = "none" => watch.snap = NoSnap
  /\ At("op", "fence") => watch.snap.original # "none"
  /\ At("op", "dropSnapshot") => watch.value # "managed" \/ op.wiped

(* What a Host that is not disabled needs is on, or a command took it off; *)
(* a command that will commit one has it on by then.                       *)
Kept(k) == surf[k] \/ k \in op.withdrawn
CommitFits ==
  /\ \A k \in {"adapter", "policy"} :
       /\ host.mode # "passthrough" => Kept(k)
       /\ Ahead("commit") => \/ Kept(k) \/ Ahead("admit")
                             \/ Ahead(IF k = "adapter" THEN "adapterOn" ELSE "policyOn")
  /\ Ahead("commitStop") => Ahead("admit") \/ host.mode # "passthrough"

(* A tick beside a command is a race; it switches nothing but the plugin,  *)
(* and only of a Host it has seen managed; its pulses are whole.           *)
TickNames == {"inspect", "pluginOn", "bounce", "recheck", "gate", "probe", "prepare", "stopGateway",
              "ensureUp", "markRestart", "regate", "readMarker", "heal"}
TickFits ==
  /\ Busy("op") /\ ~op.raced => ~Busy("tick")
  /\ Has(todo["tick"], "pluginOn") => op.raced \/ host.mode = "managed"
  /\ \A i \in 1..Len(todo["tick"]) :
       /\ todo["tick"][i] \in TickNames
       /\ todo["tick"][i] = "readMarker" => i < Len(todo["tick"]) /\ todo["tick"][i + 1] = "heal"

(* What a command has done and its rollback still has to take back.        *)
Open(done, undo) == IF op.undoing THEN Ahead(undo) ELSE ~Ahead(done)

(* An enable of a disabled Host is native but for what lies behind it, and *)
(* its rollback but for what lies ahead.                                   *)
EnableFits ==
  op.cmd = "enable" /\ op.result \in {"none", "failed"} /\ ~op.dirty /\ ~op.raced
    /\ op.host.mode = "passthrough" =>
      /\ host.mode = "passthrough" \/ Open("commit", "stateRollback")
      /\ surf.policy = op.surf.policy \/ Open("policyOn", "policyRestore")
      /\ (surf.plugin => op.surf.plugin) \/ Open("pluginOn", "pluginOff")
      /\ (surf.adapter => op.surf.adapter) \/ Open("adapterOn", "adapterOff")
      /\ (gw.live => op.live \/ op.surf.plugin) \/ Open("pluginOn", "bounce")
      /\ (watch.value = "managed" => op.value = "managed" \/ op.wiped) \/ Open("fence", "restoreValue")

(* A disable takes away what lies behind it.                               *)
DisableFits ==
  op.cmd = "disable" /\ op.result \in {"none", "ok"} /\ ~op.undoing =>
    /\ host.mode = "passthrough" \/ Ahead("commitOff")
    /\ ~op.raced =>
         /\ surf.adapter => Ahead("adapterOff")
         /\ surf.policy => Ahead("policyOff")
         /\ surf.plugin => Ahead("pluginOff")
         /\ gw.live => Ahead("bounce")
         /\ watch.value = "managed" => op.wiped \/ Ahead("restoreValue")
         /\ op.result = "ok" => ~Busy("tick")

(* A disable before its commit has the policy and the scheduler it found,  *)
(* or its rollback puts them back.                                         *)
DisableUndoFits ==
  op.cmd = "disable" /\ op.result \in {"none", "failed"} /\ ~op.dirty
    /\ host = op.host /\ host.mode # "passthrough" =>
      /\ surf.policy = op.surf.policy \/ Open("policyOff", "policyRestore")
      /\ (op.surf.adapter => surf.adapter) \/ Open("adapterOff", "adapterOn")

(* After a stop the tick finds nothing to do.                              *)
StopFits ==
  op.cmd = "stop" /\ ~op.undoing /\ ~op.raced /\ op.result \in {"none", "ok"} =>
    /\ host.mode = "maintenance" \/ Ahead("commitStop")
    /\ op.result = "ok" => \A i \in 1..Len(todo["tick"]) : todo["tick"][i] \in {"inspect", "gate"}

(* The state invariants of the Host in one formula: through enable, disable,   *)
(* their rollbacks and deaths the native value is never lost, a failed command *)
(* leaves the mode it found, and a commit has everything its mode needs.       *)
HostInv ==
    /\ TypeOK
    /\ NativeValueIsKept
    /\ FailedEnableIsNative
    /\ FailedDisableIsUndone
    /\ CommitIsResumable
    /\ DisableIsComplete
    /\ PlaceFits
    /\ ResultFits
    /\ WatchFits
    /\ CommitFits
    /\ TickFits
    /\ EnableFits
    /\ DisableFits
    /\ DisableUndoFits
    /\ StopFits

==============================================================================
