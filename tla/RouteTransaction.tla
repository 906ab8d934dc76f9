--------------------------- MODULE RouteTransaction ---------------------------
(***************************************************************************)
(* The provider route of OpenClaw: commands of the operator rewrite the    *)
(* model and the timeouts in openclaw.json under a rollback copy, and put  *)
(* the native values back.  A command may die between any two writes; the  *)
(* operator and the Host edit openclaw.json meanwhile.                     *)
(***************************************************************************)
EXTENDS Naturals, FiniteSets

CONSTANTS Providers,     \* PROVIDER_PREFIX
          Models,        \* model references
          Owner,         \* _prefix_owner of each
          Listed,        \* the route the provider catalog or the environment gives
          Slow,          \* providers whose begin sets timeouts and compat
          NoOne,         \* no provider, no model
          MaxCommands, MaxEdits, MaxCrashes

ASSUME RouteAssumption ==
  /\ Owner \in [Models -> Providers \cup {NoOne}] /\ NoOne \notin Providers \cup Models
  /\ Listed \in [Providers -> Models \cup {NoOne}]
  /\ \A p \in Providers : Listed[p] # NoOne => Owner[Listed[p]] = p
  /\ Slow \subseteq Providers

VARIABLES
  config,   \* openclaw.json: the owned fields
  st,       \* openclaw-route-v092.json
  backup,   \* openclaw-route-v092.before.json
  ctl,      \* controller.json
  op,       \* the running command, with what it holds in memory
  hist,     \* the route before the transaction, how it ended, and whether the Host rewrote
            \* controller.json since a switch put its transition or its selection there
  budget

vars == <<config, st, backup, ctl, op, hist, budget>>

(* The owned fields, in openclaw.json and in a copy of it. *)
Fields == [model : Models, knobs : {"native", "managed"}]
NoCopy == [model |-> NoOne, knobs |-> "unknown"]
RouteState == [routes : [Providers -> Models \cup {NoOne}], baseline : Fields \cup {NoCopy},
               tx : Models \cup {NoOne}, exists : BOOLEAN]
Idle == [pc |-> "idle"]
Missing == [routes |-> [p \in Providers |-> NoOne], baseline |-> [model |-> NoOne, knobs |-> "unknown"],
            tx |-> NoOne, exists |-> FALSE]
Owned(c) == [model |-> c.model, knobs |-> c.knobs]

Init ==
  /\ \E m \in Models : config = [model |-> m, knobs |-> "native"]
  /\ st = Missing /\ backup = NoCopy
  /\ ctl = [mode |-> "passthrough", selected |-> NoOne, transition |-> NoOne]
  /\ op = Idle
  /\ hist = [outcome |-> "none", before |-> NoCopy, edited |-> FALSE,
             cut |-> FALSE, dropped |-> FALSE, to |-> NoOne]
  /\ budget = [commands |-> 0, edits |-> 0, crashes |-> 0]

(* Where a command is: before the transaction of its switch, in it, on its *)
(* way to the native route, and undoing a transaction.                     *)
Opened == {"apply", "check", "host", "verify", "rollback", "undo", "commit"}
Switching == Opened \cup {"write", "save", "unlink", "recheckback", "rolledback", "committed", "select"}
Returning == {"native", "nativecheck", "forget", "done"}
Places == Switching \cup Returning \cup {"plan", "intend", "disable", "recover", "recheck", "recovered"}
Commands == [cmd : {"switch", "reset", "disable", "cloud", "reset95"}, target : Providers \cup {NoOne},
             buf : RouteState, cfg : Fields \cup {NoCopy}, orig : Fields \cup {NoCopy},
             ret : {"native", "write"}, pc : Places]

TypeOK ==
  /\ config \in Fields
  /\ st \in RouteState
  /\ backup \in Fields \cup {NoCopy}
  /\ ctl \in [mode : {"passthrough", "managed"}, selected : Providers \cup {NoOne},
              transition : Providers \cup {NoOne}]
  /\ op \in Commands \cup {Idle}
  /\ hist \in [outcome : {"none", "open", "undone", "committed"}, before : Fields \cup {NoCopy},
               edited : BOOLEAN, cut : BOOLEAN, dropped : BOOLEAN, to : Providers \cup {NoOne}]
  /\ budget \in [commands : Nat, edits : Nat, crashes : Nat]

-----------------------------------------------------------------------------
(* Resolving a route. *)
Resolve(p) ==
  CASE Owner[config.model] = p -> config.model
    [] Owner[config.model] # p /\ st.routes[p] # NoOne -> st.routes[p]
    [] Owner[config.model] # p /\ st.routes[p] = NoOne /\ Listed[p] # NoOne -> Listed[p]
    [] OTHER -> IF st.baseline.model \in Models /\ Owner[st.baseline.model] = p
                THEN st.baseline.model ELSE NoOne

Planned(p) == Resolve(p) # NoOne /\ (p \in Slow => Listed[p] = Resolve(p))

(* The operator names the provider, or the open transition does, or the   *)
(* selection: any provider.                                                *)
Issue(cmd, p) ==
  /\ op = Idle /\ budget.commands < MaxCommands
  /\ op' = [cmd |-> cmd, target |-> p, buf |-> Missing, cfg |-> NoCopy, orig |-> NoCopy, ret |-> "native",
            pc |-> CASE cmd \in {"switch", "reset"} -> "plan"
                     [] cmd \in {"disable", "reset95"} -> "disable"
                     [] OTHER -> "recover"]
  /\ budget' = [budget EXCEPT !.commands = @ + 1]
  /\ UNCHANGED <<config, st, backup, ctl, hist>>

At(pc) == op.pc = pc
Goto(pc) == op' = [op EXCEPT !.pc = pc]
Failed == op' = IF op.cmd = "reset" /\ op.pc # "plan" THEN [op EXCEPT !.cmd = "disable", !.pc = "disable"] ELSE Idle

Plan ==
  /\ At("plan")
  /\ \/ Planned(op.target) /\ Goto(IF op.cmd = "switch" THEN "intend" ELSE "disable")
     \/ Failed
  /\ UNCHANGED <<config, st, backup, ctl, hist, budget>>

(* begin_transition and seed_transition. *)
Intended(c, p) == [c EXCEPT !.transition = p]

Intend ==
  /\ At("intend")
  /\ ctl' = Intended(ctl, op.target)
  /\ hist' = [hist EXCEPT !.dropped = FALSE]
  /\ op' = [op EXCEPT !.pc = "recover", !.ret = "write"]
  /\ UNCHANGED <<config, st, backup, budget>>

-----------------------------------------------------------------------------
(* recover_pending and rollback: the owned fields come from the copy.      *)
MergeModel(c, copy) == [c EXCEPT !.model = copy.model]  \* mutant: the timeouts stay
Merge(c, copy) == [c EXCEPT !.model = copy.model, !.knobs = copy.knobs]

Recover ==
  /\ At("recover")
  /\ \/ st.tx = NoOne /\ Goto(op.ret) /\ UNCHANGED config
     \/ st.tx # NoOne /\ backup = NoCopy /\ Failed /\ UNCHANGED config
     \/ st.tx # NoOne /\ backup # NoCopy /\ config' = Merge(config, backup) /\ Goto("recheck")
  /\ UNCHANGED <<st, backup, ctl, hist, budget>>

Recheck ==
  /\ At("recheck")
  /\ \/ backup' = NoCopy /\ Goto("recovered")
     \/ Failed /\ UNCHANGED backup  \* validation failed
  /\ UNCHANGED <<config, st, ctl, hist, budget>>

Close(outcome) ==
  /\ st' = [st EXCEPT !.tx = NoOne, !.exists = TRUE]
  /\ hist' = [hist EXCEPT !.outcome = outcome]

Recovered ==
  /\ At("recovered") /\ Close("undone") /\ Goto(op.ret)
  /\ UNCHANGED <<config, backup, ctl, budget>>

RollBack ==
  /\ At("rollback")
  /\ \/ backup = NoCopy /\ Goto("rolledback") /\ UNCHANGED config
     \/ backup # NoCopy /\ config' = Merge(config, backup) /\ Goto("recheckback")
  /\ UNCHANGED <<st, backup, ctl, hist, budget>>

RecheckBack ==
  /\ At("recheckback")
  /\ \/ backup' = NoCopy /\ Goto("rolledback")
     \/ Failed /\ UNCHANGED backup
  /\ UNCHANGED <<config, st, ctl, hist, budget>>

RolledBack ==
  /\ At("rolledback") /\ Close("undone") /\ Failed
  /\ UNCHANGED <<config, backup, ctl, budget>>

-----------------------------------------------------------------------------
(* begin. *)
CaptureAlways(baseline, c) == Owned(c)  \* mutant: = for setdefault
Capture(baseline, c) == IF baseline.model = NoOne THEN Owned(c) ELSE baseline

(* _restore_managed_knobs, then the profile of a slow provider. *)
Knobs(p, baseline) == IF p \in Slow THEN "managed" ELSE baseline.knobs

Write ==
  /\ At("write")
  /\ IF ~Planned(op.target) THEN Failed /\ UNCHANGED <<backup, hist>>
     ELSE LET route == Resolve(op.target)
              baseline == Capture(st.baseline, config)
              current == Owner[config.model]
          IN /\ backup' = config
             /\ op' = [op EXCEPT !.pc = "save", !.orig = config,
                  !.buf = [exists |-> TRUE, baseline |-> baseline, tx |-> route,
                           routes |-> [p \in Providers |-> IF p = current THEN config.model ELSE st.routes[p]]],
                  !.cfg = [config EXCEPT !.model = route,
                           !.knobs = Knobs(op.target, baseline)]]
             /\ hist' = [hist EXCEPT !.outcome = "open", !.before = config, !.edited = FALSE]
  /\ UNCHANGED <<config, st, ctl, budget>>

Save ==
  /\ At("save") /\ st' = op.buf /\ Goto("apply")
  /\ UNCHANGED <<config, backup, ctl, hist, budget>>

Apply ==
  /\ At("apply") /\ config' = op.cfg /\ Goto("check")
  /\ UNCHANGED <<st, backup, ctl, hist, budget>>

Check ==
  /\ At("check") /\ (Goto("host") \/ Goto("undo"))
  /\ UNCHANGED <<config, st, backup, ctl, hist, budget>>

(* The whole file is written back, also what others have changed in it.    *)
Undo ==
  /\ At("undo") /\ config' = op.orig /\ Goto("unlink")
  /\ UNCHANGED <<st, backup, ctl, hist, budget>>

Unlink ==
  /\ At("unlink") /\ backup' = NoCopy /\ Goto("rolledback")
  /\ UNCHANGED <<config, st, ctl, hist, budget>>

-----------------------------------------------------------------------------
(* A Host command that changes the mode or the wanted Gateway writes only    *)
(* the canonical fields of controller.json: selection and transition go.     *)
Canonical(m) == [mode |-> m, selected |-> NoOne, transition |-> NoOne]

HostWrites(modes) ==
  \/ UNCHANGED <<ctl, hist>>
  \/ /\ \E m \in modes : ctl' = Canonical(m)
     /\ hist' = [hist EXCEPT !.dropped = TRUE]

(* provider_transition goes on to the Host, verifies and commits. *)
RunHost ==
  /\ At("host")
  /\ HostWrites({ctl.mode, "managed"})
  /\ (Goto("verify") \/ Goto("rollback"))
  /\ UNCHANGED <<config, st, backup, budget>>

Verify ==
  /\ At("verify")
  /\ \/ Owner[config.model] = op.target /\ Goto("commit")
     \/ Goto("rollback")
  /\ UNCHANGED <<config, st, backup, ctl, hist, budget>>

Commit ==
  /\ At("commit") /\ backup' = NoCopy /\ Goto("committed")
  /\ UNCHANGED <<config, st, ctl, hist, budget>>

Committed ==
  /\ At("committed")
  /\ st' = [st EXCEPT !.tx = NoOne, !.routes[op.target] = st.tx]
  /\ hist' = [hist EXCEPT !.outcome = "committed", !.to = op.target]
  /\ Goto("select")
  /\ UNCHANGED <<config, backup, ctl, budget>>

Select ==
  /\ At("select")
  /\ ctl' = [ctl EXCEPT !.selected = op.target, !.transition = NoOne]
  /\ hist' = [hist EXCEPT !.dropped = FALSE]
  /\ op' = Idle
  /\ UNCHANGED <<config, st, backup, budget>>

-----------------------------------------------------------------------------
(* restore_native. *)
Native ==
  /\ At("native")
  /\ IF st.baseline.model = NoOne THEN Goto("done") /\ UNCHANGED config
     ELSE /\ config' = [config EXCEPT !.model = st.baseline.model, !.knobs = st.baseline.knobs]
          /\ op' = [op EXCEPT !.pc = "nativecheck", !.orig = config]
  /\ UNCHANGED <<st, backup, ctl, hist, budget>>

NativeCheck ==
  /\ At("nativecheck")
  /\ \/ backup' = NoCopy /\ Goto("forget") /\ UNCHANGED config
     \/ config' = op.orig /\ Failed /\ UNCHANGED backup
  /\ UNCHANGED <<st, ctl, hist, budget>>

Forget ==
  /\ At("forget") /\ st' = Missing /\ Goto("done")
  /\ UNCHANGED <<config, backup, ctl, hist, budget>>

Disable ==
  /\ At("disable")
  /\ \/ /\ HostWrites({"passthrough"}) /\ ctl'.mode = "passthrough"
        /\ (op' = [op EXCEPT !.pc = "recover", !.ret = "native"] \/ op' = Idle)
     \/ op' = Idle /\ UNCHANGED <<ctl, hist>>
  /\ UNCHANGED <<config, st, backup, budget>>

(* What follows: disable ends, cloud leaves, a reset wipes the root. *)
Done ==
  /\ At("done")
  /\ CASE op.cmd = "disable" -> op' = Idle /\ UNCHANGED <<st, backup, ctl, hist>>
       [] op.cmd = "cloud" ->
            /\ op' = Idle /\ HostWrites({"passthrough"})
            /\ UNCHANGED <<st, backup>>
       [] OTHER ->
            /\ st' = Missing /\ backup' = NoCopy
            /\ \E m \in {"passthrough", "managed"} :
                 /\ (op.cmd = "reset" => m = "passthrough")
                 /\ ctl' = Canonical(m)
            /\ op' = IF op.cmd = "reset" THEN [op EXCEPT !.pc = "intend"] ELSE Idle
            /\ hist' = [hist EXCEPT !.outcome = "none"]
  /\ UNCHANGED <<config, budget>>

-----------------------------------------------------------------------------
(* The environment. *)
Crash ==
  /\ op # Idle /\ budget.crashes < MaxCrashes
  /\ budget' = [budget EXCEPT !.crashes = @ + 1]
  /\ hist' = [hist EXCEPT !.cut = @ \/ op.pc \in {"recovered", "rolledback", "committed"}]
  /\ op' = Idle
  /\ UNCHANGED <<config, st, backup, ctl>>

\* Enable, start and stop of the Host between two commands.
Control ==
  /\ op = Idle /\ HostWrites({"passthrough", "managed"})
  /\ UNCHANGED <<config, st, backup, op, budget>>

Edit(m) ==
  /\ budget.edits < MaxEdits
  /\ budget' = [budget EXCEPT !.edits = @ + 1]
  /\ config' = [config EXCEPT !.model = m]
  /\ hist' = [hist EXCEPT !.edited = @ \/ m # config.model]
  /\ UNCHANGED <<st, backup, ctl, op>>

Next ==
  \/ \E p \in Providers : Issue("switch", p) \/ Issue("reset", p)
  \/ \E cmd \in {"disable", "cloud", "reset95"} : Issue(cmd, NoOne)
  \/ Plan \/ Intend \/ Recover \/ Recheck \/ Recovered
  \/ Write \/ Save \/ Apply \/ Check \/ Undo \/ Unlink
  \/ RunHost \/ Verify \/ RollBack \/ RecheckBack \/ RolledBack
  \/ Commit \/ Committed \/ Select
  \/ Native \/ NativeCheck \/ Forget \/ Disable \/ Done
  \/ Crash \/ Control \/ \E m \in Models : Edit(m)

Spec == Init /\ [][Next]_vars
-----------------------------------------------------------------------------
(* Properties. *)

(* While a transaction is pending its rollback copy exists, except when a  *)
(* command died between the removal of the copy and the write of the state.*)
PendingHasCopy ==
  st.tx # NoOne /\ backup = NoCopy =>
    hist.cut \/ op.pc \in {"recovered", "rolledback", "committed"}

(* Whenever the managed timeouts are in openclaw.json, the native ones are *)
(* on record to be put back, whatever was interrupted before.              *)
ManagedKnobsAreRemembered ==
  config.knobs = "managed" => st.baseline.knobs = "native"

(* A transaction that is undone, by the command or after its death, leaves *)
(* the route as it was before it, if the operator did not choose a model   *)
(* meanwhile.                                                              *)
UndoneIsUndone ==
  [][hist.outcome = "open" /\ hist'.outcome = "undone" /\ ~hist.edited
       => Owned(config') = Owned(hist.before)]_vars

(* A controller without an open transition selects the provider whose      *)
(* route was committed last: a death between the two commits shows, unless *)
(* a Host command has rewritten controller.json since (host.transition     *)
(* keeps neither field, host_state_v095.py:55-70).                         *)
CommitIsRemembered ==
  hist.outcome = "committed" /\ ~hist.dropped => ctl.selected = hist.to \/ ctl.transition # NoOne

(* A command that switches holds the transition of its provider until it has *)
(* selected it, through its recovery and its failures to reset, unless the   *)
(* Host has dropped it meanwhile.                                            *)
SwitchIsOpen ==
  /\ op.pc # "idle" /\ op.cmd \in {"switch", "reset"} => op.target \in Providers
  /\ op.pc \in {"plan", "intend"} => op.cmd \in {"switch", "reset"}
  /\ op.pc \in Switching => op.cmd \in {"switch", "reset"} /\ (ctl.transition # NoOne \/ hist.dropped)
  /\ op.pc \in {"recover", "recheck", "recovered"} /\ op.ret = "write" =>
       op.cmd \in {"switch", "reset"} /\ (ctl.transition # NoOne \/ hist.dropped)
  /\ At("select") => hist.outcome = "committed" /\ hist.to = op.target

(* Every route on record belongs to the provider it is recorded for, and so  *)
(* does the one that a switch has planned and made pending.                  *)
RoutesBelong ==
  /\ \A p \in Providers : st.routes[p] # NoOne => Owner[st.routes[p]] = p
  /\ At("save") =>
       /\ op.buf.tx # NoOne /\ Owner[op.buf.tx] = op.target
       /\ \A p \in Providers : op.buf.routes[p] # NoOne => Owner[op.buf.routes[p]] = p
  /\ op.pc \in Opened \cup {"committed"} => Owner[st.tx] = op.target

(* A transaction is pending from its first write to its last, and begins and *)
(* ends with none; its copy is there as long as it may have to be undone.    *)
PendingIsOpen ==
  /\ op.pc \in {"write", "save"} \cup Returning => st.tx = NoOne
  /\ op.pc \in Opened \cup {"unlink", "recheck", "recheckback", "recovered", "rolledback", "committed"} =>
       st.tx # NoOne
  /\ op.pc \in Opened \cup {"save", "unlink", "recheck", "recheckback"} => backup # NoCopy
  /\ ~st.exists => st = Missing
  /\ At("save") => op.buf.exists

(* The baseline on record is native, as is openclaw.json without one, and it *)
(* is there before anything managed is written and until nothing managed is  *)
(* left to come back.                                                        *)
BaselineIsNative ==
  /\ st.baseline = NoCopy \/ st.baseline.knobs = "native"
  /\ st.tx # NoOne \/ At("nativecheck") => st.baseline # NoCopy
  /\ backup.knobs = "managed" => st.baseline.knobs = "native"
  /\ At("save") => op.buf.baseline.knobs = "native"
  /\ op.pc \in {"nativecheck", "forget", "done"} => config.knobs = "native"
  /\ At("forget") => backup = NoCopy
  /\ op.pc \in {"apply", "save", "check", "undo", "nativecheck"} => op.orig \in Fields
  /\ op.pc \in {"apply", "save"} => op.cfg \in Fields

(* What an open transaction would put back is the route before it.          *)
CopyIsBefore ==
  hist.outcome = "open" /\ ~hist.edited =>
    /\ backup # NoCopy /\ (st.tx # NoOne \/ At("save")) => backup = hist.before
    /\ op.pc \in {"apply", "save", "check", "undo"} => op.orig = hist.before
    /\ op.pc \in {"unlink", "recheck", "recheckback", "recovered", "rolledback"} => config = hist.before

(* The state invariants of a route transaction in one formula, which is      *)
(* inductive: what is pending can be undone, what is managed can be made     *)
(* native again, and a committed route is the selected one or still in       *)
(* transition until the Host drops both, because every write of a command    *)
(* leaves the next one enough to go on with.                                 *)
RouteInv ==
    /\ TypeOK
    /\ PendingHasCopy
    /\ ManagedKnobsAreRemembered
    /\ CommitIsRemembered
    /\ SwitchIsOpen
    /\ RoutesBelong
    /\ PendingIsOpen
    /\ BaselineIsNative
    /\ CopyIsBefore

==============================================================================
