---------------------------- MODULE ContextHandoff ----------------------------
(***************************************************************************)
(* The files runtime.py shares between sessions: the handoff of a task,    *)
(* the registry that binds the task to a session, and the concurrency      *)
(* lanes.  A session runs one command of the runtime at a time; a command  *)
(* reads, takes a file lock, reads again, writes and leaves, and other     *)
(* sessions act in between.                                                *)
(***************************************************************************)
EXTENDS Naturals, FiniteSets

CONSTANTS Sessions,     \* the sessions that run commands
          Programs,     \* the commands of each of them: one choice or several
          Kinds,        \* kinds of lanes
          Limit,        \* inferenceLanes and its like
          MaxCommands,  \* of each program
          MaxRevision, MaxFaults

ASSUME HandoffAssumption ==
  /\ {"none", "nobody"} \cap Sessions = {}
  /\ (\A p \in Programs : DOMAIN p = Sessions) /\ Limit \in Nat \ {0}
  /\ MaxCommands \in [Programs -> Nat] /\ MaxRevision \in Nat /\ MaxFaults \in Nat

VARIABLES
  handoff,   \* tasks/<id>/handoff.json
  binding,   \* the binding of the task in context-bindings.json
  lanes,     \* the leases in concurrency.json
  rev,       \* the revision of the task
  lock,      \* the lock files: who made each, and whether it is 120 s old
  does,      \* the commands the sessions run in this behaviour
  loc,       \* the command each session runs, with what it has read
  held,      \* the handoff leases each session was given
  results,   \* the releases that were accepted
  expired,   \* the leases past their deadline
  history,   \* the monitor's last checkpoint, whether one was made twice, the last binding, and
             \* whether it was made while a monitor held an earlier one
  hazard,    \* a live holder lost its lock, monitors overlapped, one died
  budget

vars == <<handoff, binding, lanes, rev, does, lock, loc, held, results, expired, history, hazard, budget>>
Files == <<handoff, binding, lanes, rev>>
Notes == <<does, held, results, history, hazard>>

NoBinding == [epoch |-> 0, last |-> <<"none", 0>>]
NoHandoff == [id |-> 0, gen |-> 0, status |-> "missing", worker |-> "none", lease |-> 0]
NoCopy == [handoff |-> NoHandoff, bindings |-> NoBinding, lanes |-> {}]
Free == [by |-> "nobody", old |-> FALSE]
Actions == {"CONTINUE", "HANDOFF", "ROTATE"}  \* context_decision, without CHECKPOINT, which differs in its name
Locks == {"handoff", "bindings", "lanes"}

(* The file lock a command takes; the monitor takes that of the handoff for *)
(* a checkpoint and goes on to that of the registry.                        *)
LockOf(cmd) == IF cmd \in {"checkpoint", "claim", "release"} THEN "handoff"
               ELSE IF cmd \in {"bind", "unbind", "monitor"} THEN "bindings" ELSE "lanes"

(* context checkpoint first reads the generation and the revision, without *)
(* the lock; so does the monitor, with the registry.                       *)
FirstStep(cmd) == IF cmd = "checkpoint" THEN "previous"
                  ELSE IF cmd = "monitor" THEN "registry" ELSE "lock"

(* The command a session runs, with what it has read so far. *)
Command(cmd, lease, kind) ==
  [cmd |-> cmd, lease |-> lease, kind |-> kind, lk |-> LockOf(cmd), step |-> FirstStep(cmd),
   copy |-> NoCopy, reg |-> NoBinding, prev |-> 0]
Idle == Command("idle", 0, "none")

Commands == {"checkpoint", "claim", "bind", "unbind", "monitor", "status", "release", "acquire", "free"}
Plain == Commands \ {"release", "acquire", "free"}

Init ==
  /\ handoff = NoHandoff /\ binding = NoBinding /\ lanes = {} /\ rev = 1
  /\ does \in Programs /\ lock = [k \in Locks |-> Free]
  /\ loc = [s \in Sessions |-> Idle] /\ held = [s \in Sessions |-> {}]
  /\ results = {} /\ expired = {}
  /\ history = [last |-> <<0, NoBinding.last>>, twice |-> FALSE, epoch |-> 0, overtaken |-> FALSE]
  /\ hazard = [broken |-> FALSE, overlap |-> FALSE, died |-> FALSE]
  /\ budget = [commands |-> 0, faults |-> 0, leases |-> 0, handoffs |-> 0]

Running(s) == loc[s].cmd # "idle"
At(s, step) == Running(s) /\ loc[s].step = step
Critical(s) == Running(s) /\ loc[s].step \in {"write", "leave"}
Monitors(s) == loc[s].cmd = "monitor"
Informed(s) == Monitors(s) /\ loc[s].step # "registry"
Live(lease) == lease \notin expired /\ \A r \in results : r.lease # lease

Handoff == [id : Nat, gen : Nat, status : {"missing", "prepared", "claimed", "released"},
            worker : Sessions \cup {"none"}, lease : Nat]
Mark == (Actions \cup {"none"}) \X Nat
Binding == [epoch : Nat, last : Mark]
Lane == [lease : Nat, owner : Sessions, kind : Kinds]
Steps == {"previous", "registry", "sessions", "lock", "unlink", "write", "leave"}
Reading == [handoff : Handoff, bindings : Binding, lanes : SUBSET Lane]
Progress == [cmd : Commands \cup {"idle"}, lease : Nat, kind : Kinds \cup {"none"}, lk : Locks, step : Steps,
             copy : Reading, reg : Binding, prev : Nat]

TypeOK ==
  /\ handoff \in Handoff /\ binding \in Binding /\ lanes \in SUBSET Lane /\ rev \in Nat
  /\ does \in Programs
  /\ lock \in [Locks -> [by : Sessions \cup {"nobody"}, old : BOOLEAN]]
  /\ loc \in [Sessions -> Progress]
  /\ held \in [Sessions -> SUBSET [lease : Nat, id : Nat]]
  /\ results \in SUBSET [lease : Nat, given : SUBSET Nat] /\ expired \in SUBSET Nat
  /\ history \in [last : Nat \X Mark, twice : BOOLEAN, epoch : Nat, overtaken : BOOLEAN]
  /\ hazard \in [broken : BOOLEAN, overlap : BOOLEAN, died : BOOLEAN]
  /\ budget \in [commands : Nat, faults : Nat, leases : Nat, handoffs : Nat]

-----------------------------------------------------------------------------
(* Commands.                                                               *)
Becomes(s, l) == loc' = [loc EXCEPT ![s] = l]

Issue(s, cmd, lease, kind) ==
  /\ ~Running(s) /\ cmd \in does[s] /\ budget.commands < MaxCommands[does]
  /\ Becomes(s, Command(cmd, lease, kind))
  /\ hazard' = [hazard EXCEPT !.overlap = @ \/ (cmd = "monitor" /\ \E t \in Sessions : Monitors(t))]
  /\ budget' = [budget EXCEPT !.commands = @ + 1]
  /\ UNCHANGED <<Files, does, lock, held, results, expired, history>>

Stays == UNCHANGED <<Files, lock, Notes, expired, budget>>

Previous(s) ==
  /\ At(s, "previous")
  /\ Becomes(s, [loc[s] EXCEPT !.prev = handoff.gen, !.step = "lock"])
  /\ Stays

Registry(s) ==
  /\ At(s, "registry")
  /\ Becomes(s, IF binding = NoBinding THEN Idle ELSE [loc[s] EXCEPT !.reg = binding, !.step = "sessions"])
  /\ Stays

(* The monitor asks OpenClaw how full the session is: unknown, or an       *)
(* action with a fresh count or not.                                       *)
Due(reg, action) == reg.last # <<action, rev>>

ToCheckpoint(l, mark) ==
  [l EXCEPT !.reg = [@ EXCEPT !.last = mark], !.lk = "handoff", !.step = "previous"]

Observe(s) ==
  /\ At(s, "sessions")
  /\ \/ Becomes(s, Idle)
     \/ \E action \in Actions, fresh \in BOOLEAN :
          Becomes(s, IF fresh /\ action # "CONTINUE" /\ Due(loc[s].reg, action)
                     THEN ToCheckpoint(loc[s], <<action, rev>>)
                     ELSE [loc[s] EXCEPT !.step = "lock"])
  /\ Stays

-----------------------------------------------------------------------------
(* file_lock. *)
Taken(k) == lock[k] # Free

(* What the command reads under the lock. *)
Copy(k) == IF k = "handoff" THEN [NoCopy EXCEPT !.handoff = handoff]
           ELSE IF k = "bindings" THEN [NoCopy EXCEPT !.bindings = binding]
           ELSE [NoCopy EXCEPT !.lanes = lanes]

Acquire(s) ==
  /\ At(s, "lock") /\ ~Taken(loc[s].lk)
  /\ lock' = [lock EXCEPT ![loc[s].lk] = [by |-> s, old |-> FALSE]]
  /\ Becomes(s, [loc[s] EXCEPT !.copy = Copy(loc[s].lk), !.step = "write"])
  /\ UNCHANGED <<Files, Notes, expired, budget>>

(* A waiter finds the lock file older than its limit, and then removes the   *)
(* file that is there: if another waiter was faster, a fresh one.            *)
Stale(s) ==
  /\ At(s, "lock") /\ lock[loc[s].lk].old
  /\ Becomes(s, [loc[s] EXCEPT !.step = "unlink"])
  /\ Stays

Break(s) ==
  /\ At(s, "unlink")
  /\ Becomes(s, [loc[s] EXCEPT !.step = "lock"])
  /\ LET k == loc[s].lk IN
     /\ lock' = [lock EXCEPT ![k] = Free]
     /\ hazard' = [hazard EXCEPT !.broken =
          @ \/ \E t \in Sessions : lock[k].by = t /\ Critical(t) /\ loc[t].lk = k]
  /\ UNCHANGED <<Files, does, held, results, history, expired, budget>>

TimesOut(s) ==
  /\ At(s, "lock") /\ Taken(loc[s].lk) /\ ~lock[loc[s].lk].old
  /\ Becomes(s, Idle)
  /\ hazard' = [hazard EXCEPT !.died = @ \/ Monitors(s)]
  /\ UNCHANGED <<Files, does, lock, held, results, history, expired, budget>>

(* The monitor goes on from its checkpoint to the registry. *)
Leave(s) ==
  /\ At(s, "leave")
  /\ lock' = [lock EXCEPT ![loc[s].lk] = Free]
  /\ Becomes(s, IF Monitors(s) /\ loc[s].lk = "handoff"
                THEN [loc[s] EXCEPT !.lk = "bindings", !.step = "lock", !.copy = NoCopy] ELSE Idle)
  /\ UNCHANGED <<Files, Notes, expired, budget>>

Leaving(s) == Becomes(s, [loc[s] EXCEPT !.step = "leave", !.copy = NoCopy])

Refuse(s) ==
  /\ Leaving(s) /\ UNCHANGED <<Files, lock, Notes, expired, budget>>

-----------------------------------------------------------------------------
(* The handoff. *)
Prepare(s) ==
  /\ At(s, "write") /\ loc[s].lk = "handoff" /\ loc[s].cmd \in {"checkpoint", "monitor"}
  /\ budget' = [budget EXCEPT !.handoffs = @ + 1]
  /\ handoff' = [NoHandoff EXCEPT !.id = budget'.handoffs, !.gen = loc[s].prev + 1, !.status = "prepared"]
  /\ history' = IF loc[s].cmd = "checkpoint" THEN history
                ELSE LET mark == <<loc[s].reg.epoch, loc[s].reg.last>>
                     IN [history EXCEPT !.last = mark, !.twice = @ \/ mark = history.last]
  /\ Leaving(s)
  /\ UNCHANGED <<binding, lanes, rev, does, lock, held, results, hazard, expired>>

Claimable(h, s) ==
  h.status # "missing" /\ (h.status = "claimed" => h.lease \in expired \/ h.worker = s)

Claim(s) ==
  /\ At(s, "write") /\ loc[s].cmd = "claim"
  /\ LET h == loc[s].copy.handoff IN
     IF ~Claimable(h, s) THEN Refuse(s)
     ELSE /\ budget' = [budget EXCEPT !.leases = @ + 1]
          /\ handoff' = [h EXCEPT !.status = "claimed", !.worker = s, !.lease = budget'.leases]
          /\ held' = [held EXCEPT ![s] = @ \cup {[lease |-> budget'.leases, id |-> h.id]}]
          /\ Leaving(s)
          /\ UNCHANGED <<binding, lanes, rev, does, lock, results, history, hazard, expired>>

MatchesWorker(h, s, lease) == h.worker = s  \* mutant: the lease is not compared
Matches(h, s, lease) == h.worker = s /\ h.lease = lease

Given(id) == {h.lease : h \in {i \in UNION {held[s] : s \in Sessions} : i.id = id}}

Release(s) ==
  /\ At(s, "write") /\ loc[s].cmd = "release"
  /\ LET h == loc[s].copy.handoff IN
     IF ~Matches(h, s, loc[s].lease) THEN Refuse(s)
     ELSE /\ handoff' = [h EXCEPT !.status = "released", !.worker = "none", !.lease = 0]
          /\ results' = results \cup {[lease |-> loc[s].lease, given |-> Given(h.id)]}
          /\ Leaving(s)
          /\ UNCHANGED <<binding, lanes, rev, does, lock, held, history, hazard, expired, budget>>

-----------------------------------------------------------------------------
(* The registry. *)
Bind(s) ==
  /\ At(s, "write") /\ loc[s].cmd = "bind"
  /\ history' = [history EXCEPT !.epoch = @ + 1,
                                !.overtaken = @ \/ \E t \in Sessions : Informed(t)]
  /\ binding' = [epoch |-> history'.epoch, last |-> NoBinding.last]
  /\ Leaving(s)
  /\ UNCHANGED <<handoff, lanes, rev, does, lock, held, results, hazard, expired, budget>>

Unbind(s) ==
  /\ At(s, "write") /\ loc[s].cmd = "unbind"
  /\ binding' = NoBinding
  /\ Leaving(s)
  /\ UNCHANGED <<handoff, lanes, rev, lock, Notes, expired, budget>>

(* The monitor writes its copy back, over the binding the registry has.    *)
MergedWhole(current, reg) == reg  \* mutant: writes the registry it has read
Merged(current, reg) == IF current = NoBinding THEN NoBinding ELSE reg

Merge(s) ==
  /\ At(s, "write") /\ Monitors(s) /\ loc[s].lk = "bindings"
  /\ binding' = Merged(loc[s].copy.bindings, loc[s].reg)
  /\ Leaving(s)
  /\ UNCHANGED <<handoff, lanes, rev, lock, Notes, expired, budget>>

-----------------------------------------------------------------------------
(* The lanes: every command first drops the leases past their deadline.    *)
Clean(leases) == {l \in leases : l.lease \notin expired}

Admitted(leases, s, kind) ==
  /\ \A l \in leases : ~(l.owner = s /\ l.kind = kind)
  /\ Cardinality({l \in leases : l.kind = kind}) < Limit

AcquireLane(s) ==
  /\ At(s, "write") /\ loc[s].cmd = "acquire"
  /\ LET leases == Clean(loc[s].copy.lanes) IN
     IF ~Admitted(leases, s, loc[s].kind) THEN Refuse(s)
     ELSE /\ budget' = [budget EXCEPT !.leases = @ + 1]
          /\ lanes' = leases \cup {[lease |-> budget'.leases, owner |-> s, kind |-> loc[s].kind]}
          /\ Leaving(s)
          /\ UNCHANGED <<handoff, binding, rev, lock, Notes, expired>>

LaneStatus(s) ==
  /\ At(s, "write") /\ loc[s].cmd = "status"
  /\ lanes' = Clean(loc[s].copy.lanes)
  /\ Leaving(s)
  /\ UNCHANGED <<handoff, binding, rev, lock, Notes, expired, budget>>

GivenUpByOwner(l, s, lease) == l.owner = s  \* mutant: or for and
GivenUp(l, s, lease) == l.lease = lease /\ l.owner = s

ReleaseLane(s) ==
  /\ At(s, "write") /\ loc[s].cmd = "free"
  /\ LET leases == Clean(loc[s].copy.lanes) IN
     IF \A l \in leases : ~GivenUp(l, s, loc[s].lease) THEN Refuse(s)
     ELSE /\ lanes' = {l \in leases : ~GivenUp(l, s, loc[s].lease)}
          /\ Leaving(s)
          /\ UNCHANGED <<handoff, binding, rev, lock, Notes, expired, budget>>

-----------------------------------------------------------------------------
(* The environment: the task advances, deadlines pass, commands die, and a *)
(* holder may sleep until its lock is 120 s old.                           *)
Advance ==
  /\ rev < MaxRevision /\ rev' = rev + 1
  /\ UNCHANGED <<handoff, binding, lanes, lock, loc, Notes, expired, budget>>

Expire(lease) ==
  /\ lease \notin expired
  /\ expired' = expired \cup {lease}
  /\ UNCHANGED <<Files, lock, loc, Notes, budget>>

Fault == budget.faults < MaxFaults /\ budget' = [budget EXCEPT !.faults = @ + 1]

Dies(s) ==
  /\ Running(s) /\ Fault
  /\ Becomes(s, Idle)
  /\ hazard' = [hazard EXCEPT !.died = @ \/ Monitors(s)]
  /\ UNCHANGED <<Files, does, lock, held, results, history, expired>>

Ages(k) ==
  /\ lock[k] # Free /\ ~lock[k].old
  /\ IF Critical(lock[k].by) /\ loc[lock[k].by].lk = k THEN Fault ELSE UNCHANGED budget
  /\ lock' = [lock EXCEPT ![k] = [by |-> lock[k].by, old |-> TRUE]]
  /\ UNCHANGED <<Files, loc, Notes, expired>>

Next ==
  \/ \E s \in Sessions :
       \/ \E cmd \in Plain : Issue(s, cmd, 0, "none")
       \/ \E h \in held[s] : Issue(s, "release", h.lease, "none")
       \/ \E kind \in Kinds : Issue(s, "acquire", 0, kind)
       \/ \E l \in lanes : Issue(s, "free", l.lease, "none")
       \/ Previous(s) \/ Registry(s) \/ Observe(s)
       \/ Acquire(s) \/ Stale(s) \/ Break(s) \/ TimesOut(s) \/ Leave(s)
       \/ Prepare(s) \/ Claim(s) \/ Release(s)
       \/ Bind(s) \/ Unbind(s) \/ Merge(s)
       \/ AcquireLane(s) \/ LaneStatus(s) \/ ReleaseLane(s) \/ Dies(s)
  \/ Advance
  \/ \E lease \in 1..budget.leases : Expire(lease)
  \/ \E k \in Locks : Ages(k)

Spec == Init /\ [][Next]_vars

-----------------------------------------------------------------------------
(* Properties. *)

(* A claim counts until its deadline, its result, or until its session      *)
(* claims the same handoff again.                                          *)
Works(s, h) == Live(h.lease) /\ \A i \in held[s] : i.id = h.id => i.lease <= h.lease

(* Two sessions never both work on the same prepared handoff, unless a live *)
(* holder lost its lock: it slept past the limit, or its lock was fresh and *)
(* a waiter removed it for the stale one it had seen before.                *)
OneLiveWorker ==
  ~hazard.broken => \A s, t \in Sessions : \A h \in held[s], i \in held[t] :
    s # t /\ h.id = i.id => ~(Works(s, h) /\ Works(t, i))

(* An accepted result was sent with a lease of the handoff that was in the *)
(* file, and nobody had been given that handoff since: a worker that was   *)
(* displaced by a checkpoint or by another claim is refused.               *)
ResultOfItsHandoff ==
  ~hazard.broken => \A r \in results : r.lease \in r.given /\ \A l \in r.given : l <= r.lease

(* What the operator did to a binding is not undone by the monitor, which    *)
(* asks OpenClaw between its read and its write of the registry: a removed   *)
(* binding does not come back, and none is replaced by an older one, unless  *)
(* the operator made it while a monitor held the older one                   *)
(* (runtime.py:833 goes by the name of the task alone).                      *)
BindingIsNotUndone ==
  [][~hazard'.broken /\ binding' # binding =>
       /\ binding = NoBinding => binding'.epoch > history.epoch
       /\ binding'.epoch < binding.epoch => binding' = NoBinding \/ history.overtaken]_vars

(* The monitor never checkpoints a binding twice in a row for the same     *)
(* action and revision, unless another monitor ran at the same time or one *)
(* was cut off between its checkpoint and its write of the registry.       *)
CheckpointOnce == history.twice => hazard.overlap \/ hazard.died

(* The leases within their deadline never exceed the lanes of their kind.  *)
LanesAreBounded ==
  ~hazard.broken => \A kind \in Kinds :
    Cardinality({l \in Clean(lanes) : l.kind = kind}) <= Limit

(* A lane lease is only lost by its own release or at its deadline. *)
LeaseIsKept ==
  [][~hazard'.broken => \A l \in lanes : l \in lanes' \/ l.lease \in expired
       \/ \E s \in Sessions : At(s, "write") /\ loc[s].cmd = "free" /\ loc[s].lease = l.lease]_vars

-----------------------------------------------------------------------------
(* What the properties rest on. *)

(* Each command takes its own lock, and the monitor is the only one that   *)
(* takes two; only it looks at the registry first.                         *)
CommandFits(s) ==
  /\ Running(s) => IF Monitors(s) THEN loc[s].lk \in {"handoff", "bindings"}
                   ELSE loc[s].lk = LockOf(loc[s].cmd)
  /\ At(s, "previous") => loc[s].lk = "handoff"
  /\ At(s, "registry") \/ At(s, "sessions") => Monitors(s) /\ loc[s].lk = "bindings"
  /\ Running(s) /\ loc[s].cmd = "acquire" => loc[s].kind \in Kinds

(* While no lock of a live holder was removed, whoever writes holds its    *)
(* lock, and what it has read is still what is in the file.                *)
HolderFits(s) ==
  /\ Critical(s) => lock[loc[s].lk].by = s
  /\ At(s, "write") => loc[s].copy = Copy(loc[s].lk)

(* Leases are given once, and those of the handoff in the file are not     *)
(* above the one it names; who works on it is whom it names.               *)
ClaimsFit ==
  /\ handoff.status = "claimed" <=> handoff.worker \in Sessions
  /\ handoff.id <= budget.handoffs
  /\ handoff.status = "claimed" => [lease |-> handoff.lease, id |-> handoff.id] \in held[handoff.worker]
  /\ \A s \in Sessions : \A h \in held[s] :
       /\ h.lease <= budget.leases /\ h.id <= budget.handoffs
       /\ h.id = handoff.id =>
            /\ handoff.status = "claimed" => h.lease <= handoff.lease
            /\ Works(s, h) => handoff.status = "claimed" /\ handoff.worker = s
  /\ \A lease \in expired : lease <= budget.leases
  /\ \A r \in results : r.lease <= budget.leases

(* The lanes are finitely many. *)
LanesFit == IsFiniteSet(lanes)

(* Every file and every lease is as its writers left it, until the first   *)
(* lock is taken from a live holder.                                       *)
FilesFit == ~hazard.broken =>
  /\ \A s \in Sessions : HolderFits(s)
  /\ ClaimsFit /\ LanesFit

(* A binding tells of the monitor's last checkpoint if it is of its epoch. *)
Tells(b) == b.epoch = history.last[1] => b.last = history.last[2]

Checkpointed(s) == IF loc[s].lk = "handoff" THEN At(s, "leave") ELSE At(s, "lock") \/ At(s, "unlink") \/ At(s, "write")

(* The monitor holds a registry entry that tells of the last checkpoint,   *)
(* until it decides on the next, which differs.                            *)
MonitorFits(s) ==
  /\ ~At(s, "registry") => loc[s].reg.epoch \in 1..history.epoch
  /\ At(s, "sessions") => Tells(loc[s].reg)
  /\ loc[s].lk = "handoff" /\ ~At(s, "leave") => <<loc[s].reg.epoch, loc[s].reg.last>> # history.last
  /\ Checkpointed(s) => Tells(loc[s].reg)

(* Between the checkpoint and the write of the registry only the monitor   *)
(* knows of it; at any other time the binding tells of it.                 *)
RegistryFits == ~hazard.overlap /\ ~hazard.died =>
  /\ \A s, t \in Sessions : Monitors(s) /\ Monitors(t) => s = t
  /\ \A s \in Sessions : Monitors(s) => MonitorFits(s)
  /\ binding.epoch <= history.epoch /\ history.last[1] <= history.epoch
  /\ (binding.epoch = 0 => binding = NoBinding) /\ Tells(NoBinding)
  /\ (\E s \in Sessions : Monitors(s) /\ Checkpointed(s)) \/ Tells(binding)

(* A monitor holds the binding of the file, if there is one, until the      *)
(* operator binds the task again.                                           *)
ReadIsCurrent ==
  /\ ~hazard.broken /\ ~history.overtaken =>
       \A s \in Sessions : Informed(s) => binding = NoBinding \/ loc[s].reg.epoch = binding.epoch
  /\ binding.epoch <= history.epoch
  /\ \A s \in Sessions : Informed(s) => loc[s].reg.epoch <= history.epoch

(* The state invariants of handoffs and lanes in one formula: one live worker for *)
(* a handoff, results only of its last lease, no checkpoint twice, lanes bounded. *)
HandoffInv ==
    /\ TypeOK
    /\ \A s \in Sessions : CommandFits(s)
    /\ FilesFit
    /\ RegistryFits
    /\ ReadIsCurrent
    /\ OneLiveWorker
    /\ ResultOfItsHandoff
    /\ CheckpointOnce
    /\ LanesAreBounded

==============================================================================
