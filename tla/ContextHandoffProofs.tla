-------------------------- MODULE ContextHandoffProofs --------------------------
(***************************************************************************)
(* Proofs about ContextHandoff.                                            *)
(***************************************************************************)
EXTENDS ContextHandoff, FiniteSetTheorems, TLAPS

-----------------------------------------------------------------------------
(* The command a session runs. *)

\* Every field of a command is typed.
LEMMA ProgressFields ==
  ASSUME NEW l \in Progress
  PROVE  /\ l.cmd \in Commands \cup {"idle"} /\ l.lease \in Nat /\ l.kind \in Kinds \cup {"none"}
         /\ l.lk \in Locks /\ l.step \in Steps /\ l.copy \in Reading /\ l.reg \in Binding /\ l.prev \in Nat
  BY DEF Progress

\* The empty files, and what a command reads under a lock (read_json() in runtime.py).
LEMMA EmptyFiles ==
  /\ NoBinding \in Binding /\ NoHandoff \in Handoff /\ NoCopy \in Reading
  /\ NoCopy.handoff = NoHandoff /\ NoCopy.bindings = NoBinding /\ NoCopy.lanes = {}
  <1>1. NoBinding \in Binding
    BY DEF NoBinding, Binding, Mark
  <1>2. NoHandoff \in Handoff
    BY DEF NoHandoff, Handoff
  <1> QED
    BY <1>1, <1>2 DEF NoCopy, Reading

LEMMA CopyIsReading ==
  ASSUME TypeOK, NEW k \in Locks
  PROVE  /\ Copy(k) \in Reading
         /\ k = "handoff" => Copy(k).handoff = handoff
         /\ k = "bindings" => Copy(k).bindings = binding
         /\ k = "lanes" => Copy(k).lanes = lanes
  <1> USE EmptyFiles
  <1>1. handoff \in Handoff /\ binding \in Binding /\ lanes \in SUBSET Lane
    BY DEF TypeOK
  <1>2. CASE k = "handoff"
    BY <1>1, <1>2 DEF Copy, Reading
  <1>3. CASE k = "bindings"
    BY <1>1, <1>3 DEF Copy, Reading
  <1>4. CASE k = "lanes"
    BY <1>1, <1>4 DEF Copy, Reading
  <1> QED
    BY <1>2, <1>3, <1>4 DEF Locks

\* A new command, or none (main()).
LEMMA StartsCommand ==
  ASSUME NEW cmd \in Commands \cup {"idle"}, NEW lease \in Nat, NEW kind \in Kinds \cup {"none"}
  PROVE  LET m == Command(cmd, lease, kind)
         IN /\ m \in Progress
            /\ m.cmd = cmd /\ m.kind = kind /\ m.lk = LockOf(cmd) /\ m.step = FirstStep(cmd)
  <1>1. LockOf(cmd) \in Locks
    BY DEF LockOf, Locks
  <1>2. FirstStep(cmd) \in Steps
    BY DEF FirstStep, Steps
  <1> QED
    BY <1>1, <1>2, EmptyFiles DEF Command, Progress

LEMMA IdleIsProgress == Idle \in Progress /\ Idle.cmd = "idle"
  BY StartsCommand DEF Idle

\* A command that goes on without a lock (prepare_handoff(), monitor_context_bindings()).
LEMMA ReadsOn ==
  ASSUME NEW l \in Progress
  PROVE  /\ \A n \in Nat : LET m == [l EXCEPT !.prev = n, !.step = "lock"]
            IN /\ m \in Progress /\ m.step = "lock"
               /\ m.cmd = l.cmd /\ m.lk = l.lk /\ m.kind = l.kind /\ m.reg = l.reg
         /\ \A b \in Binding : LET m == [l EXCEPT !.reg = b, !.step = "sessions"]
            IN /\ m \in Progress /\ m.step = "sessions"
               /\ m.cmd = l.cmd /\ m.lk = l.lk /\ m.kind = l.kind /\ m.reg = b
         /\ \A st \in {"lock", "unlink"} : LET m == [l EXCEPT !.step = st]
            IN /\ m \in Progress /\ m.step = st
               /\ m.cmd = l.cmd /\ m.lk = l.lk /\ m.kind = l.kind /\ m.reg = l.reg
  <1>1. {"lock", "unlink", "sessions"} \subseteq Steps
    BY DEF Steps
  <1> QED
    BY <1>1 DEF Progress

\* The monitor decides on a checkpoint (monitor_context_bindings()).
LEMMA DecidesOnCheckpoint ==
  ASSUME NEW l \in Progress, NEW mark \in Mark
  PROVE  LET m == ToCheckpoint(l, mark)
         IN /\ m \in Progress /\ m.step = "previous" /\ m.lk = "handoff"
            /\ m.cmd = l.cmd /\ m.kind = l.kind /\ m.reg.epoch = l.reg.epoch /\ m.reg.last = mark
  <1> DEFINE b == [l.reg EXCEPT !.last = mark]
  <1>1. l.reg \in Binding
    BY ProgressFields
  <1>2. b \in Binding /\ b.epoch = l.reg.epoch /\ b.last = mark
    BY <1>1 DEF Binding
  <1>3. "previous" \in Steps /\ "handoff" \in Locks
    BY DEF Steps, Locks
  <1> HIDE DEF b
  <1>4. LET m == [l EXCEPT !.reg = b, !.lk = "handoff", !.step = "previous"]
        IN /\ m \in Progress /\ m.step = "previous" /\ m.lk = "handoff"
           /\ m.cmd = l.cmd /\ m.kind = l.kind /\ m.reg = b
    BY <1>2, <1>3 DEF Progress
  <1> QED
    BY <1>2, <1>4 DEF b, ToCheckpoint

\* A command takes its lock and reads, is done under it, or goes on to the next (file_lock()).
LEMMA LocksOn ==
  ASSUME NEW l \in Progress
  PROVE  /\ \A c \in Reading : LET m == [l EXCEPT !.copy = c, !.step = "write"]
            IN /\ m \in Progress /\ m.step = "write" /\ m.copy = c
               /\ m.cmd = l.cmd /\ m.lk = l.lk /\ m.kind = l.kind /\ m.reg = l.reg
         /\ LET m == [l EXCEPT !.step = "leave", !.copy = NoCopy]
            IN /\ m \in Progress /\ m.step = "leave"
               /\ m.cmd = l.cmd /\ m.lk = l.lk /\ m.kind = l.kind /\ m.reg = l.reg
         /\ LET m == [l EXCEPT !.lk = "bindings", !.step = "lock", !.copy = NoCopy]
            IN /\ m \in Progress /\ m.step = "lock" /\ m.lk = "bindings"
               /\ m.cmd = l.cmd /\ m.kind = l.kind /\ m.reg = l.reg
  <1>1. {"write", "leave", "lock"} \subseteq Steps /\ "bindings" \in Locks /\ NoCopy \in Reading
    BY EmptyFiles DEF Steps, Locks
  <1> QED
    BY <1>1 DEF Progress

\* Only the session that acts changes its command.
LEMMA Moves ==
  ASSUME TypeOK, NEW s \in Sessions, NEW l \in Progress, Becomes(s, l)
  PROVE  /\ loc' \in [Sessions -> Progress] /\ loc'[s] = l
         /\ \A t \in Sessions : t # s => loc'[t] = loc[t]
  <1>1. loc \in [Sessions -> Progress]
    BY DEF TypeOK
  <1> QED
    BY <1>1 DEF Becomes

\* A session that leaves its lock (the finally of file_lock()).
LEMMA LeavesFile ==
  ASSUME TypeOK, NEW s \in Sessions, Leaving(s)
  PROVE  /\ loc' \in [Sessions -> Progress]
         /\ loc'[s].step = "leave" /\ loc'[s].cmd = loc[s].cmd /\ loc'[s].lk = loc[s].lk
         /\ loc'[s].kind = loc[s].kind /\ loc'[s].reg = loc[s].reg
         /\ \A t \in Sessions : t # s => loc'[t] = loc[t]
  <1>1. loc[s] \in Progress
    BY DEF TypeOK
  <1> DEFINE m == [loc[s] EXCEPT !.step = "leave", !.copy = NoCopy]
  <1>2. /\ m \in Progress /\ m.step = "leave"
        /\ m.cmd = loc[s].cmd /\ m.lk = loc[s].lk /\ m.kind = loc[s].kind /\ m.reg = loc[s].reg
    BY <1>1, LocksOn
  <1>3. Becomes(s, m)
    BY DEF Leaving
  <1> HIDE DEF m
  <1> QED
    BY <1>2, <1>3, Moves

-----------------------------------------------------------------------------
(* What each action does to the commands. *)

Acts(s) == loc' \in [Sessions -> Progress] /\ \A t \in Sessions : t # s => loc'[t] = loc[t]
Quits(s) == Acts(s) /\ loc'[s].cmd = "idle"
Leaves(s) == /\ Acts(s) /\ loc'[s].step = "leave" /\ loc'[s].cmd = loc[s].cmd /\ loc'[s].lk = loc[s].lk
             /\ loc'[s].kind = loc[s].kind /\ loc'[s].reg = loc[s].reg

LEMMA Moving ==
  ASSUME TypeOK, NEW s \in Sessions, NEW l \in Progress, Becomes(s, l)
  PROVE  Acts(s) /\ loc'[s] = l
  BY Moves DEF Acts

LEMMA Quitting ==
  ASSUME TypeOK, NEW s \in Sessions, Becomes(s, Idle)
  PROVE  Quits(s)
  BY Moving, IdleIsProgress DEF Quits

LEMMA LeavingMoves ==
  ASSUME TypeOK, NEW s \in Sessions, Leaving(s)
  PROVE  Leaves(s)
  BY LeavesFile DEF Leaves, Acts

LEMMA IssueMoves ==
  ASSUME TypeOK, NEW s \in Sessions, NEW cmd \in Commands, NEW lease \in Nat, NEW kind \in Kinds \cup {"none"},
         Issue(s, cmd, lease, kind)
  PROVE  Acts(s) /\ loc'[s] = Command(cmd, lease, kind)
  <1>1. Command(cmd, lease, kind) \in Progress
    BY StartsCommand
  <1>2. Becomes(s, Command(cmd, lease, kind))
    BY DEF Issue
  <1> QED
    BY <1>1, <1>2, Moving

LEMMA PreviousMoves ==
  ASSUME TypeOK, NEW s \in Sessions, Previous(s)
  PROVE  /\ Acts(s) /\ loc'[s].step = "lock" /\ loc'[s].cmd = loc[s].cmd /\ loc'[s].lk = loc[s].lk
         /\ loc'[s].kind = loc[s].kind /\ loc'[s].reg = loc[s].reg
  <1> DEFINE m == [loc[s] EXCEPT !.prev = handoff.gen, !.step = "lock"]
  <1>1. loc[s] \in Progress /\ handoff.gen \in Nat
    BY DEF TypeOK, Handoff
  <1>2. /\ m \in Progress /\ m.step = "lock" /\ m.cmd = loc[s].cmd /\ m.lk = loc[s].lk
        /\ m.kind = loc[s].kind /\ m.reg = loc[s].reg
    BY <1>1, ReadsOn
  <1>3. Becomes(s, m)
    BY DEF Previous
  <1> HIDE DEF m
  <1> QED
    BY <1>2, <1>3, Moving

LEMMA RegistryMoves ==
  ASSUME TypeOK, NEW s \in Sessions, Registry(s)
  PROVE  IF binding = NoBinding THEN Quits(s)
         ELSE /\ Acts(s) /\ loc'[s].step = "sessions" /\ loc'[s].cmd = loc[s].cmd /\ loc'[s].lk = loc[s].lk
              /\ loc'[s].kind = loc[s].kind /\ loc'[s].reg = binding
  <1> DEFINE m == [loc[s] EXCEPT !.reg = binding, !.step = "sessions"]
  <1>1. loc[s] \in Progress /\ binding \in Binding
    BY DEF TypeOK
  <1>2. /\ m \in Progress /\ m.step = "sessions" /\ m.cmd = loc[s].cmd /\ m.lk = loc[s].lk
        /\ m.kind = loc[s].kind /\ m.reg = binding
    BY <1>1, ReadsOn
  <1>3. Becomes(s, IF binding = NoBinding THEN Idle ELSE m)
    BY DEF Registry
  <1> HIDE DEF m
  <1>4. CASE binding = NoBinding
    BY <1>3, <1>4, Quitting
  <1>5. CASE binding # NoBinding
    BY <1>2, <1>3, <1>5, Moving
  <1> QED
    BY <1>4, <1>5

LEMMA ObserveMoves ==
  ASSUME TypeOK, NEW s \in Sessions, Observe(s)
  PROVE  \/ Quits(s)
         \/ /\ Acts(s) /\ loc'[s].step = "previous" /\ loc'[s].lk = "handoff" /\ loc'[s].cmd = loc[s].cmd
            /\ loc'[s].kind = loc[s].kind /\ loc'[s].reg.epoch = loc[s].reg.epoch
            /\ loc'[s].reg.last # loc[s].reg.last
         \/ /\ Acts(s) /\ loc'[s].step = "lock" /\ loc'[s].cmd = loc[s].cmd /\ loc'[s].lk = loc[s].lk
            /\ loc'[s].kind = loc[s].kind /\ loc'[s].reg = loc[s].reg
  <1>1. loc[s] \in Progress /\ rev \in Nat
    BY DEF TypeOK
  <1>2. CASE Becomes(s, Idle)
    BY <1>2, Quitting
  <1>3. ASSUME NEW action \in Actions, NEW fresh \in BOOLEAN,
               Becomes(s, IF fresh /\ action # "CONTINUE" /\ Due(loc[s].reg, action)
                          THEN ToCheckpoint(loc[s], <<action, rev>>)
                          ELSE [loc[s] EXCEPT !.step = "lock"])
        PROVE  \/ /\ Acts(s) /\ loc'[s].step = "previous" /\ loc'[s].lk = "handoff" /\ loc'[s].cmd = loc[s].cmd
                  /\ loc'[s].kind = loc[s].kind /\ loc'[s].reg.epoch = loc[s].reg.epoch
                  /\ loc'[s].reg.last # loc[s].reg.last
               \/ /\ Acts(s) /\ loc'[s].step = "lock" /\ loc'[s].cmd = loc[s].cmd /\ loc'[s].lk = loc[s].lk
                  /\ loc'[s].kind = loc[s].kind /\ loc'[s].reg = loc[s].reg
    <2> DEFINE m == ToCheckpoint(loc[s], <<action, rev>>)
               n == [loc[s] EXCEPT !.step = "lock"]
    <2>1. <<action, rev>> \in Mark
      BY <1>1 DEF Mark
    <2>2. /\ m \in Progress /\ m.step = "previous" /\ m.lk = "handoff" /\ m.cmd = loc[s].cmd
          /\ m.kind = loc[s].kind /\ m.reg.epoch = loc[s].reg.epoch /\ m.reg.last = <<action, rev>>
      BY <1>1, <2>1, DecidesOnCheckpoint
    <2>3. /\ n \in Progress /\ n.step = "lock" /\ n.cmd = loc[s].cmd /\ n.lk = loc[s].lk
          /\ n.kind = loc[s].kind /\ n.reg = loc[s].reg
      BY <1>1, ReadsOn
    <2>4. Becomes(s, IF fresh /\ action # "CONTINUE" /\ Due(loc[s].reg, action) THEN m ELSE n)
      BY <1>3
    <2> HIDE DEF m, n
    <2>5. CASE fresh /\ action # "CONTINUE" /\ Due(loc[s].reg, action)
      <3>1. Acts(s) /\ loc'[s] = m
        BY <2>2, <2>4, <2>5, Moving
      <3>2. m.reg.last # loc[s].reg.last
        BY <2>2, <2>5 DEF Due
      <3> QED
        BY <3>1, <3>2, <2>2
    <2>6. CASE ~(fresh /\ action # "CONTINUE" /\ Due(loc[s].reg, action))
      <3>1. Acts(s) /\ loc'[s] = n
        BY <2>3, <2>4, <2>6, Moving
      <3>2. /\ Acts(s) /\ loc'[s].step = "lock" /\ loc'[s].cmd = loc[s].cmd /\ loc'[s].lk = loc[s].lk
            /\ loc'[s].kind = loc[s].kind /\ loc'[s].reg = loc[s].reg
        BY <3>1, <2>3
      <3> QED
        BY <3>2
    <2> QED
      BY <2>5, <2>6
  <1> QED
    BY <1>2, <1>3 DEF Observe

LEMMA StaleMoves ==
  ASSUME TypeOK, NEW s \in Sessions, NEW st \in {"lock", "unlink"}, Becomes(s, [loc[s] EXCEPT !.step = st])
  PROVE  /\ Acts(s) /\ loc'[s].step = st /\ loc'[s].cmd = loc[s].cmd /\ loc'[s].lk = loc[s].lk
         /\ loc'[s].kind = loc[s].kind /\ loc'[s].reg = loc[s].reg
  <1> DEFINE m == [loc[s] EXCEPT !.step = st]
  <1>1. loc[s] \in Progress
    BY DEF TypeOK
  <1>2. /\ m \in Progress /\ m.step = st /\ m.cmd = loc[s].cmd /\ m.lk = loc[s].lk
        /\ m.kind = loc[s].kind /\ m.reg = loc[s].reg
    BY <1>1, ReadsOn
  <1> HIDE DEF m
  <1> QED
    BY <1>2, Moving DEF m

LEMMA AcquireMoves ==
  ASSUME TypeOK, NEW s \in Sessions, Acquire(s)
  PROVE  /\ Acts(s) /\ loc'[s].step = "write" /\ loc'[s].copy = Copy(loc[s].lk)
         /\ loc'[s].cmd = loc[s].cmd /\ loc'[s].lk = loc[s].lk
         /\ loc'[s].kind = loc[s].kind /\ loc'[s].reg = loc[s].reg
  <1> DEFINE c == Copy(loc[s].lk)
             m == [loc[s] EXCEPT !.copy = c, !.step = "write"]
  <1>1. loc[s] \in Progress /\ loc[s].lk \in Locks
    BY ProgressFields DEF TypeOK
  <1>2. c \in Reading
    BY <1>1, CopyIsReading
  <1>3. Becomes(s, m)
    BY DEF Acquire
  <1> HIDE DEF c
  <1>4. /\ m \in Progress /\ m.step = "write" /\ m.copy = c /\ m.cmd = loc[s].cmd /\ m.lk = loc[s].lk
        /\ m.kind = loc[s].kind /\ m.reg = loc[s].reg
    BY <1>1, <1>2, LocksOn
  <1> HIDE DEF m
  <1> QED
    BY <1>3, <1>4, Moving DEF c

LEMMA LeaveMoves ==
  ASSUME TypeOK, NEW s \in Sessions, Leave(s)
  PROVE  IF Monitors(s) /\ loc[s].lk = "handoff"
         THEN /\ Acts(s) /\ loc'[s].step = "lock" /\ loc'[s].lk = "bindings" /\ loc'[s].cmd = loc[s].cmd
              /\ loc'[s].kind = loc[s].kind /\ loc'[s].reg = loc[s].reg
         ELSE Quits(s)
  <1> DEFINE m == [loc[s] EXCEPT !.lk = "bindings", !.step = "lock", !.copy = NoCopy]
  <1>1. loc[s] \in Progress
    BY DEF TypeOK
  <1>2. /\ m \in Progress /\ m.step = "lock" /\ m.lk = "bindings" /\ m.cmd = loc[s].cmd
        /\ m.kind = loc[s].kind /\ m.reg = loc[s].reg
    BY <1>1, LocksOn
  <1>3. Becomes(s, IF Monitors(s) /\ loc[s].lk = "handoff" THEN m ELSE Idle)
    BY DEF Leave
  <1> HIDE DEF m
  <1>4. CASE Monitors(s) /\ loc[s].lk = "handoff"
    BY <1>2, <1>3, <1>4, Moving
  <1>5. CASE ~(Monitors(s) /\ loc[s].lk = "handoff")
    BY <1>3, <1>5, Quitting
  <1> QED
    BY <1>4, <1>5

-----------------------------------------------------------------------------
(* Types, and the lock each command takes. *)

Hazards == [broken : BOOLEAN, overlap : BOOLEAN, died : BOOLEAN]
Budgets == [commands : Nat, faults : Nat, leases : Nat, handoffs : Nat]
Holder == [by : Sessions \cup {"nobody"}, old : BOOLEAN]
Histories == [last : Nat \X Mark, twice : BOOLEAN, epoch : Nat, overtaken : BOOLEAN]
AllFit == \A t \in Sessions : CommandFits(t)

LEMMA CommandsStayFit ==
  ASSUME NEW s \in Sessions, AllFit, Acts(s), CommandFits(s)'
  PROVE  AllFit'
  BY DEF AllFit, Acts, CommandFits, Running, At, Monitors

LEMMA QuittingFits ==
  ASSUME NEW s \in Sessions, AllFit, Quits(s)
  PROVE  AllFit'
  <1>1. CommandFits(s)' /\ Acts(s)
    BY DEF Quits, CommandFits, Running, At, Monitors
  <1> QED
    BY <1>1, CommandsStayFit

LEMMA LeavingFits ==
  ASSUME NEW s \in Sessions, AllFit, Running(s), Leaves(s)
  PROVE  AllFit'
  <1>1. CommandFits(s)
    BY DEF AllFit
  <1>2. CommandFits(s)' /\ Acts(s)
    BY <1>1 DEF Leaves, CommandFits, Running, At, Monitors
  <1> QED
    BY <1>2, CommandsStayFit

LEMMA Counted ==
  ASSUME NEW b \in Budgets
  PROVE  /\ [b EXCEPT !.commands = @ + 1] \in Budgets
         /\ [b EXCEPT !.commands = @ + 1].leases = b.leases /\ [b EXCEPT !.commands = @ + 1].handoffs = b.handoffs
         /\ [b EXCEPT !.faults = @ + 1] \in Budgets
         /\ [b EXCEPT !.faults = @ + 1].leases = b.leases /\ [b EXCEPT !.faults = @ + 1].handoffs = b.handoffs
         /\ [b EXCEPT !.leases = @ + 1] \in Budgets
         /\ [b EXCEPT !.leases = @ + 1].leases = b.leases + 1 /\ [b EXCEPT !.leases = @ + 1].handoffs = b.handoffs
         /\ [b EXCEPT !.handoffs = @ + 1] \in Budgets
         /\ [b EXCEPT !.handoffs = @ + 1].leases = b.leases /\ [b EXCEPT !.handoffs = @ + 1].handoffs = b.handoffs + 1
         /\ b.leases \in Nat /\ b.handoffs \in Nat
  BY DEF Budgets

LEMMA Noted ==
  ASSUME NEW h \in Hazards, NEW e \in BOOLEAN
  PROVE  /\ [h EXCEPT !.broken = e] \in Hazards /\ [h EXCEPT !.broken = e].broken = e
         /\ [h EXCEPT !.broken = e].overlap = h.overlap /\ [h EXCEPT !.broken = e].died = h.died
         /\ [h EXCEPT !.overlap = e] \in Hazards /\ [h EXCEPT !.overlap = e].overlap = e
         /\ [h EXCEPT !.overlap = e].broken = h.broken /\ [h EXCEPT !.overlap = e].died = h.died
         /\ [h EXCEPT !.died = e] \in Hazards /\ [h EXCEPT !.died = e].died = e
         /\ [h EXCEPT !.died = e].broken = h.broken /\ [h EXCEPT !.died = e].overlap = h.overlap
  BY DEF Hazards

\* TypeOK as a list, with names for its records.
LEMMA Typed ==
  TypeOK <=>
    /\ handoff \in Handoff /\ binding \in Binding /\ lanes \in SUBSET Lane /\ rev \in Nat
    /\ does \in Programs /\ lock \in [Locks -> Holder] /\ loc \in [Sessions -> Progress]
    /\ held \in [Sessions -> SUBSET [lease : Nat, id : Nat]]
    /\ results \in SUBSET [lease : Nat, given : SUBSET Nat] /\ expired \in SUBSET Nat
    /\ history \in Histories /\ hazard \in Hazards /\ budget \in Budgets
  BY DEF TypeOK, Holder, Histories, Hazards, Budgets

\* What an action that touches no file, lease or note leaves typed.
LEMMA TypedMove ==
  ASSUME TypeOK, NEW s \in Sessions, Acts(s), UNCHANGED <<Files, does, held, results, expired, history>>,
         lock' \in [Locks -> Holder], hazard' \in Hazards, budget' \in Budgets
  PROVE  TypeOK'
  BY Typed DEF TypeOK, Acts, Files, Holder, Histories, Hazards, Budgets

LEMMA IssueTypes ==
  ASSUME TypeOK, AllFit, NEW s \in Sessions, NEW cmd \in Commands, NEW lease \in Nat, NEW kind \in Kinds \cup {"none"},
         cmd = "acquire" => kind \in Kinds, Issue(s, cmd, lease, kind)
  PROVE  TypeOK' /\ AllFit'
  <1> DEFINE m == Command(cmd, lease, kind)
  <1>1. Acts(s) /\ loc'[s] = m
    BY IssueMoves
  <1>2. m.cmd = cmd /\ m.kind = kind /\ m.lk = LockOf(cmd) /\ m.step = FirstStep(cmd)
    BY StartsCommand
  <1>3. hazard' \in Hazards /\ budget' \in Budgets
    <2> DEFINE e == hazard.overlap \/ (cmd = "monitor" /\ \E t \in Sessions : Monitors(t))
    <2>1. e \in BOOLEAN
      OBVIOUS
    <2>2. hazard' = [hazard EXCEPT !.overlap = e] /\ budget' = [budget EXCEPT !.commands = @ + 1]
      BY DEF Issue
    <2> HIDE DEF e
    <2> QED
      BY <2>1, <2>2, Noted, Counted, Typed
  <1>4. UNCHANGED <<Files, does, lock, held, results, expired, history>>
    BY DEF Issue
  <1>5. TypeOK'
    BY <1>1, <1>3, <1>4, TypedMove, Typed
  <1>6. CommandFits(s)'
    <2>1. FirstStep(cmd) = "previous" => cmd = "checkpoint"
      BY DEF FirstStep
    <2>2. FirstStep(cmd) \in {"registry", "sessions"} => cmd = "monitor"
      BY DEF FirstStep
    <2>3. LockOf("monitor") = "bindings" /\ LockOf("checkpoint") = "handoff"
      BY DEF LockOf
    <2> HIDE DEF m
    <2> QED
      BY <1>1, <1>2, <2>1, <2>2, <2>3 DEF CommandFits, Running, At, Monitors
  <1> QED
    BY <1>1, <1>5, <1>6, CommandsStayFit

LEMMA ReadingTypes ==
  ASSUME TypeOK, AllFit, NEW s \in Sessions, Previous(s) \/ Registry(s) \/ Observe(s) \/ Stale(s)
  PROVE  TypeOK' /\ AllFit'
  <1>1. UNCHANGED <<Files, lock, Notes, expired, budget>>
    BY DEF Previous, Registry, Observe, Stale, Stays
  <1>2. /\ UNCHANGED <<Files, does, held, results, expired, history>>
        /\ lock' \in [Locks -> Holder] /\ hazard' \in Hazards /\ budget' \in Budgets
    BY <1>1, Typed DEF Notes
  <1>3. CommandFits(s)
    BY DEF AllFit
  <1>4. CASE Previous(s)
    <2>1. Acts(s) /\ CommandFits(s)'
      BY <1>3, <1>4, PreviousMoves DEF Previous, CommandFits, Running, At, Monitors
    <2> QED
      BY <1>2, <2>1, TypedMove, CommandsStayFit
  <1>5. CASE Registry(s)
    <2>1. CASE binding = NoBinding
      <3>1. Quits(s) /\ Acts(s)
        BY <1>5, <2>1, RegistryMoves DEF Quits
      <3> QED
        BY <1>2, <3>1, TypedMove, QuittingFits
    <2>2. CASE binding # NoBinding
      <3>1. Acts(s) /\ CommandFits(s)'
        BY <1>3, <1>5, <2>2, RegistryMoves DEF Registry, CommandFits, Running, At, Monitors
      <3> QED
        BY <1>2, <3>1, TypedMove, CommandsStayFit
    <2> QED
      BY <2>1, <2>2
  <1>6. CASE Observe(s)
    <2>1. At(s, "sessions")
      BY <1>6 DEF Observe
    <2>2. Acts(s)
      BY <1>6, ObserveMoves DEF Quits
    <2>3. CommandFits(s)'
      BY <1>3, <1>6, <2>1, ObserveMoves DEF Quits, CommandFits, Running, At, Monitors
    <2> QED
      BY <1>2, <2>2, <2>3, TypedMove, CommandsStayFit
  <1>7. CASE Stale(s)
    <2>1. Acts(s) /\ CommandFits(s)'
      BY <1>3, <1>7, StaleMoves DEF Stale, CommandFits, Running, At, Monitors
    <2> QED
      BY <1>2, <2>1, TypedMove, CommandsStayFit
  <1> QED
    BY <1>4, <1>5, <1>6, <1>7

LEMMA LockTypes ==
  ASSUME TypeOK, AllFit, NEW s \in Sessions, Acquire(s) \/ Break(s) \/ TimesOut(s) \/ Leave(s) \/ Dies(s)
  PROVE  TypeOK' /\ AllFit'
  <1>1. CommandFits(s) /\ loc[s].lk \in Locks
    BY Typed, ProgressFields DEF AllFit
  <1>2. lock \in [Locks -> Holder] /\ hazard \in Hazards /\ budget \in Budgets
    BY Typed
  <1>3. [by |-> s, old |-> FALSE] \in Holder /\ Free \in Holder
    BY DEF Holder, Free
  <1>4. CASE Acquire(s)
    <2>1. Acts(s) /\ CommandFits(s)'
      BY <1>1, <1>4, AcquireMoves DEF Acquire, CommandFits, Running, At, Monitors
    <2>2. UNCHANGED <<Files, does, held, results, expired, history, hazard, budget>> /\ lock' \in [Locks -> Holder]
      BY <1>2, <1>3, <1>4 DEF Acquire, Notes
    <2> QED
      BY <1>2, <2>1, <2>2, TypedMove, CommandsStayFit
  <1>5. CASE Break(s)
    <2> DEFINE k == loc[s].lk
               e == hazard.broken \/ \E t \in Sessions : lock[k].by = t /\ Critical(t) /\ loc[t].lk = k
    <2>1. Acts(s) /\ CommandFits(s)'
      BY <1>1, <1>5, StaleMoves DEF Break, CommandFits, Running, At, Monitors
    <2>2. AllFit'
      BY <2>1, CommandsStayFit
    <2>3. lock' \in [Locks -> Holder] /\ UNCHANGED <<Files, does, held, results, expired, history, budget>>
      BY <1>2, <1>3, <1>5 DEF Break
    <2>4. hazard' = [hazard EXCEPT !.broken = e]
      BY <1>5 DEF Break
    <2>5. e \in BOOLEAN
      OBVIOUS
    <2> HIDE DEF e
    <2>6. hazard' \in Hazards
      BY <1>2, <2>4, <2>5, Noted
    <2> QED
      BY <1>2, <2>1, <2>2, <2>3, <2>6, TypedMove
  <1>6. CASE TimesOut(s) \/ Dies(s)
    <2> DEFINE e == hazard.died \/ Monitors(s)
    <2>1. Quits(s) /\ Acts(s)
      BY <1>6, Quitting DEF TimesOut, Dies, Quits
    <2>2. UNCHANGED <<Files, does, lock, held, results, expired, history>>
      BY <1>6 DEF TimesOut, Dies
    <2>3. hazard' = [hazard EXCEPT !.died = e]
      BY <1>6 DEF TimesOut, Dies
    <2>4. e \in BOOLEAN
      BY DEF Monitors
    <2>5. budget' = budget \/ budget' = [budget EXCEPT !.faults = @ + 1]
      BY <1>6 DEF TimesOut, Dies, Fault
    <2> HIDE DEF e
    <2>6. hazard' \in Hazards
      BY <1>2, <2>3, <2>4, Noted
    <2>7. budget' \in Budgets
      BY <1>2, <2>5, Counted
    <2> QED
      BY <1>2, <2>1, <2>2, <2>6, <2>7, TypedMove, QuittingFits
  <1>7. CASE Leave(s)
    <2>1. /\ UNCHANGED <<Files, does, held, results, expired, history, hazard, budget>>
          /\ lock' \in [Locks -> Holder] /\ At(s, "leave")
      BY <1>2, <1>3, <1>7 DEF Leave, Notes
    <2>2. CASE Monitors(s) /\ loc[s].lk = "handoff"
      <3>1. Acts(s) /\ CommandFits(s)'
        BY <1>1, <1>7, <2>1, <2>2, LeaveMoves DEF CommandFits, Running, At, Monitors
      <3> QED
        BY <1>2, <2>1, <3>1, TypedMove, CommandsStayFit
    <2>3. CASE ~(Monitors(s) /\ loc[s].lk = "handoff")
      <3>1. Quits(s) /\ Acts(s)
        BY <1>7, <2>3, LeaveMoves DEF Quits
      <3> QED
        BY <1>2, <2>1, <3>1, TypedMove, QuittingFits
    <2> QED
      BY <2>2, <2>3
  <1> QED
    BY <1>4, <1>5, <1>6, <1>7

-----------------------------------------------------------------------------
(* What the actions under a lock write. *)

Idles == UNCHANGED <<Files, lock, Notes, expired, budget>>

LEMMA Refusing ==
  ASSUME TypeOK, NEW s \in Sessions, Refuse(s)
  PROVE  Leaves(s) /\ Idles
  BY LeavingMoves DEF Refuse, Idles

\* prepare_handoff(): a new handoff without a worker, noted when the monitor makes it.
LEMMA PrepareWrites ==
  ASSUME TypeOK, NEW s \in Sessions, Prepare(s)
  PROVE  /\ Leaves(s) /\ UNCHANGED <<binding, lanes, rev, does, lock, held, results, hazard, expired>>
         /\ handoff' \in Handoff /\ handoff'.id = budget.handoffs + 1
         /\ handoff'.status = "prepared" /\ handoff'.worker = "none"
         /\ budget' \in Budgets /\ budget'.leases = budget.leases /\ budget'.handoffs = budget.handoffs + 1
         /\ history' \in Histories /\ history'.epoch = history.epoch /\ history'.overtaken = history.overtaken
         /\ IF loc[s].cmd = "checkpoint" THEN history' = history
            ELSE /\ history'.last = <<loc[s].reg.epoch, loc[s].reg.last>>
                 /\ history'.twice => history.twice \/ <<loc[s].reg.epoch, loc[s].reg.last>> = history.last
  <1>1. Leaves(s)
    BY LeavingMoves DEF Prepare
  <1>2. budget' \in Budgets /\ budget'.leases = budget.leases /\ budget'.handoffs = budget.handoffs + 1
    BY Counted, Typed DEF Prepare
  <1>3. loc[s] \in Progress /\ loc[s].prev \in Nat /\ loc[s].reg \in Binding /\ budget'.handoffs \in Nat
    BY <1>2, Counted, ProgressFields, Typed
  <1>4. /\ handoff' \in Handoff /\ handoff'.id = budget.handoffs + 1
        /\ handoff'.status = "prepared" /\ handoff'.worker = "none"
    <2>1. handoff' = [id |-> budget'.handoffs, gen |-> loc[s].prev + 1, status |-> "prepared", worker |-> "none", lease |-> 0]
      BY DEF Prepare, NoHandoff
    <2> QED
      BY <1>2, <1>3, <2>1 DEF Handoff
  <1>5. /\ history' \in Histories /\ history'.epoch = history.epoch /\ history'.overtaken = history.overtaken
        /\ IF loc[s].cmd = "checkpoint" THEN history' = history
           ELSE /\ history'.last = <<loc[s].reg.epoch, loc[s].reg.last>>
                /\ history'.twice => history.twice \/ <<loc[s].reg.epoch, loc[s].reg.last>> = history.last
    <2> DEFINE mark == <<loc[s].reg.epoch, loc[s].reg.last>>
               again == history.twice \/ mark = history.last
    <2>1. mark \in Nat \X Mark
      BY <1>3 DEF Binding
    <2>2. again \in BOOLEAN
      OBVIOUS
    <2>3. history \in Histories
      BY Typed
    <2>4. CASE loc[s].cmd = "checkpoint"
      BY <2>3, <2>4 DEF Prepare
    <2>5. CASE loc[s].cmd # "checkpoint"
      <3>1. history' = [history EXCEPT !.last = mark, !.twice = again]
        BY <2>5 DEF Prepare
      <3> HIDE DEF mark, again
      <3>2. /\ history' \in Histories /\ history'.epoch = history.epoch /\ history'.overtaken = history.overtaken
            /\ history'.last = mark /\ history'.twice = again
        BY <2>1, <2>2, <2>3, <3>1 DEF Histories
      <3> QED
        BY <2>5, <3>2 DEF mark, again
    <2> QED
      BY <2>4, <2>5
  <1>6. UNCHANGED <<binding, lanes, rev, does, lock, held, results, hazard, expired>>
    BY DEF Prepare
  <1> QED
    BY <1>1, <1>2, <1>4, <1>5, <1>6

\* handoff_claim(): a new lease on the handoff that was read, if nobody works on it.
LEMMA ClaimWrites ==
  ASSUME TypeOK, NEW s \in Sessions, Claim(s)
  PROVE  LET h == loc[s].copy.handoff IN
         IF ~Claimable(h, s) THEN Leaves(s) /\ Idles
         ELSE /\ Leaves(s) /\ UNCHANGED <<binding, lanes, rev, does, lock, results, history, hazard, expired>>
              /\ handoff' \in Handoff /\ handoff'.id = h.id /\ handoff'.status = "claimed"
              /\ handoff'.worker = s /\ handoff'.lease = budget.leases + 1
              /\ budget' \in Budgets /\ budget'.leases = budget.leases + 1 /\ budget'.handoffs = budget.handoffs
              /\ held' = [held EXCEPT ![s] = @ \cup {[lease |-> budget.leases + 1, id |-> h.id]}]
              /\ held' \in [Sessions -> SUBSET [lease : Nat, id : Nat]]
  <1> DEFINE h == loc[s].copy.handoff
  <1>1. h \in Handoff /\ h.id \in Nat
    BY ProgressFields, Typed DEF Reading, Handoff
  <1>2. CASE ~Claimable(h, s)
    BY <1>2, Refusing DEF Claim
  <1>3. CASE Claimable(h, s)
    <2> HIDE DEF h
    <2>1. /\ Leaving(s) /\ UNCHANGED <<binding, lanes, rev, does, lock, results, history, hazard, expired>>
          /\ budget' = [budget EXCEPT !.leases = @ + 1]
          /\ handoff' = [h EXCEPT !.status = "claimed", !.worker = s, !.lease = budget'.leases]
          /\ held' = [held EXCEPT ![s] = @ \cup {[lease |-> budget'.leases, id |-> h.id]}]
      BY <1>3 DEF Claim, h
    <2>2. budget' \in Budgets /\ budget'.leases = budget.leases + 1 /\ budget'.handoffs = budget.handoffs
          /\ budget'.leases \in Nat
      BY <2>1, Counted, Typed
    <2>3. /\ handoff' \in Handoff /\ handoff'.id = h.id /\ handoff'.status = "claimed"
          /\ handoff'.worker = s /\ handoff'.lease = budget.leases + 1
      BY <1>1, <2>1, <2>2 DEF Handoff
    <2>4. held \in [Sessions -> SUBSET [lease : Nat, id : Nat]]
      BY Typed
    <2>5. held' = [held EXCEPT ![s] = @ \cup {[lease |-> budget.leases + 1, id |-> h.id]}]
      BY <2>1, <2>2
    <2>6. [lease |-> budget.leases + 1, id |-> h.id] \in [lease : Nat, id : Nat]
      BY <1>1, <2>2
    <2>7. held' \in [Sessions -> SUBSET [lease : Nat, id : Nat]]
      BY <2>4, <2>5, <2>6
    <2>8. Leaves(s)
      BY <2>1, LeavingMoves
    <2> QED
      BY <1>3, <2>1, <2>2, <2>3, <2>5, <2>7, <2>8 DEF h
  <1> QED
    BY <1>2, <1>3

LEMMA GivenAreLeases ==
  ASSUME TypeOK, NEW id
  PROVE  /\ Given(id) \in SUBSET Nat
         /\ \A n : n \in Given(id) <=> \E t \in Sessions : \E h \in held[t] : h.id = id /\ h.lease = n
  <1>1. \A t \in Sessions : held[t] \in SUBSET [lease : Nat, id : Nat]
    BY Typed
  <1>2. \A n : n \in Given(id) <=> \E t \in Sessions : \E h \in held[t] : h.id = id /\ h.lease = n
    BY DEF Given
  <1> QED
    BY <1>1, <1>2

\* handoff_release(): the result of the worker the handoff names.
LEMMA ReleaseWrites ==
  ASSUME TypeOK, NEW s \in Sessions, Release(s)
  PROVE  LET h == loc[s].copy.handoff IN
         IF ~Matches(h, s, loc[s].lease) THEN Leaves(s) /\ Idles
         ELSE /\ Leaves(s) /\ UNCHANGED <<binding, lanes, rev, does, lock, held, history, hazard, expired, budget>>
              /\ handoff' \in Handoff /\ handoff'.id = h.id /\ handoff'.status = "released" /\ handoff'.worker = "none"
              /\ results' = results \cup {[lease |-> loc[s].lease, given |-> Given(h.id)]}
              /\ results' \in SUBSET [lease : Nat, given : SUBSET Nat]
  <1> DEFINE h == loc[s].copy.handoff
  <1>1. h \in Handoff /\ loc[s].lease \in Nat
    BY ProgressFields, Typed DEF Reading
  <1>2. CASE ~Matches(h, s, loc[s].lease)
    BY <1>2, Refusing DEF Release
  <1>3. CASE Matches(h, s, loc[s].lease)
    <2> HIDE DEF h
    <2>1. /\ Leaving(s) /\ UNCHANGED <<binding, lanes, rev, does, lock, held, history, hazard, expired, budget>>
          /\ handoff' = [h EXCEPT !.status = "released", !.worker = "none", !.lease = 0]
          /\ results' = results \cup {[lease |-> loc[s].lease, given |-> Given(h.id)]}
      BY <1>3 DEF Release, h
    <2>2. handoff' \in Handoff /\ handoff'.id = h.id /\ handoff'.status = "released" /\ handoff'.worker = "none"
      BY <1>1, <2>1 DEF Handoff
    <2>3. results' \in SUBSET [lease : Nat, given : SUBSET Nat]
      BY <1>1, <2>1, Typed, GivenAreLeases
    <2>4. Leaves(s)
      BY <2>1, LeavingMoves
    <2> QED
      BY <1>3, <2>1, <2>2, <2>3, <2>4 DEF h
  <1> QED
    BY <1>2, <1>3

\* context_bind(), context_unbind() and the end of monitor_context_bindings().
LEMMA RegistryWrites ==
  ASSUME TypeOK, NEW s \in Sessions, Bind(s) \/ Unbind(s) \/ Merge(s)
  PROVE  /\ Leaves(s) /\ UNCHANGED <<handoff, lanes, rev, does, lock, held, results, hazard, expired, budget>>
         /\ binding' \in Binding /\ history' \in Histories
         /\ Bind(s) => /\ history'.last = history.last /\ history'.twice = history.twice
                       /\ history'.epoch = history.epoch + 1 /\ binding'.epoch = history.epoch + 1
                       /\ (\E t \in Sessions : Informed(t)) => history'.overtaken
         /\ ~Bind(s) => history' = history
  <1>1. loc[s].reg \in Binding /\ history \in Histories /\ history.epoch \in Nat
    BY ProgressFields, Typed DEF Histories
  <1>2. Leaves(s) /\ UNCHANGED <<handoff, lanes, rev, does, lock, held, results, hazard, expired, budget>>
    BY LeavingMoves DEF Bind, Unbind, Merge, Notes
  <1>3. CASE Bind(s)
    <2> DEFINE e == history.overtaken \/ \E t \in Sessions : Informed(t)
    <2>1. /\ history' = [history EXCEPT !.epoch = @ + 1, !.overtaken = e]
          /\ binding' = [epoch |-> history'.epoch, last |-> NoBinding.last]
      BY <1>3 DEF Bind
    <2>4. e \in BOOLEAN
      BY <1>1 DEF Histories
    <2> HIDE DEF e
    <2>2. /\ history' \in Histories /\ history'.last = history.last /\ history'.twice = history.twice
          /\ history'.epoch = history.epoch + 1 /\ history'.epoch \in Nat /\ (e => history'.overtaken)
      <3> DEFINE h == [history EXCEPT !.epoch = @ + 1]
      <3>1. /\ h \in Histories /\ h.last = history.last /\ h.twice = history.twice
            /\ h.epoch = history.epoch + 1 /\ h.epoch \in Nat
        BY <1>1 DEF Histories
      <3>2. history' = [h EXCEPT !.overtaken = e]
        BY <2>1
      <3> HIDE DEF h
      <3>3. CASE e
        <4>1. history' = [h EXCEPT !.overtaken = TRUE]
          BY <2>4, <3>2, <3>3
        <4> QED
          BY <3>1, <4>1 DEF Histories
      <3>4. CASE ~e
        <4>1. history' = [h EXCEPT !.overtaken = FALSE]
          BY <2>4, <3>2, <3>4
        <4> QED
          BY <3>1, <3>4, <4>1 DEF Histories
      <3> QED
        BY <3>3, <3>4
    <2>3. binding' \in Binding /\ binding'.epoch = history.epoch + 1
      BY <2>1, <2>2, EmptyFiles DEF Binding
    <2> QED
      BY <1>2, <1>3, <2>2, <2>3 DEF e
  <1>4. CASE ~Bind(s)
    <2>1. history' = history
      BY <1>4 DEF Unbind, Merge, Notes
    <2>2. binding' = NoBinding \/ binding' = loc[s].reg
      BY <1>4 DEF Unbind, Merge, Merged
    <2> QED
      BY <1>1, <1>2, <1>4, <2>1, <2>2, EmptyFiles
  <1> QED
    BY <1>3, <1>4

\* concurrency_acquire(), concurrency_status() and concurrency_release().
LEMMA LaneWrites ==
  ASSUME TypeOK, AllFit, NEW s \in Sessions, AcquireLane(s) \/ LaneStatus(s) \/ ReleaseLane(s)
  PROVE  /\ Leaves(s) /\ UNCHANGED <<handoff, binding, rev, lock, Notes, expired>>
         /\ lanes' \in SUBSET Lane /\ budget' \in Budgets
         /\ budget'.leases >= budget.leases /\ budget'.handoffs = budget.handoffs
  <1> DEFINE leases == Clean(loc[s].copy.lanes)
  <1>1. loc[s] \in Progress /\ budget \in Budgets
    BY Typed
  <1>2. leases \in SUBSET Lane
    BY <1>1, ProgressFields DEF Clean, Reading
  <1>3. lanes \in SUBSET Lane /\ budget.leases \in Nat /\ budget.handoffs \in Nat
    BY Counted, Typed
  <1>4. /\ [budget EXCEPT !.leases = @ + 1] \in Budgets /\ [budget EXCEPT !.leases = @ + 1].leases = budget.leases + 1
        /\ [budget EXCEPT !.leases = @ + 1].handoffs = budget.handoffs
    BY <1>1, Counted
  <1>5. Refuse(s) => Leaves(s) /\ UNCHANGED <<Files, lock, Notes, expired, budget>>
    BY Refusing DEF Idles
  <1>6. CASE AcquireLane(s)
    <2>1. CASE ~Admitted(leases, s, loc[s].kind)
      <3>1. Refuse(s)
        BY <1>6, <2>1 DEF AcquireLane
      <3> QED
        BY <1>1, <1>3, <1>5, <3>1 DEF Files
    <2>2. CASE Admitted(leases, s, loc[s].kind)
      <3>1. loc[s].kind \in Kinds
        BY <1>6 DEF AllFit, CommandFits, AcquireLane, At
      <3> HIDE DEF leases
      <3>2. /\ Leaving(s) /\ UNCHANGED <<handoff, binding, rev, lock, Notes, expired>>
            /\ budget' = [budget EXCEPT !.leases = @ + 1]
            /\ lanes' = leases \cup {[lease |-> budget'.leases, owner |-> s, kind |-> loc[s].kind]}
        BY <1>6, <2>2 DEF AcquireLane, leases
      <3>3. [lease |-> budget'.leases, owner |-> s, kind |-> loc[s].kind] \in Lane
        BY <1>3, <1>4, <3>1, <3>2 DEF Lane
      <3>4. lanes' \in SUBSET Lane
        BY <1>2, <3>2, <3>3
      <3> QED
        BY <1>3, <1>4, <3>2, <3>4, LeavingMoves
    <2> QED
      BY <2>1, <2>2
  <1>7. CASE LaneStatus(s)
    <2>1. lanes' \in SUBSET Lane
      BY <1>2, <1>7 DEF LaneStatus
    <2> QED
      BY <1>1, <1>3, <1>7, <2>1, LeavingMoves DEF LaneStatus
  <1>8. CASE ReleaseLane(s)
    <2>1. CASE \A l \in leases : ~GivenUp(l, s, loc[s].lease)
      <3>1. Refuse(s)
        BY <1>8, <2>1 DEF ReleaseLane
      <3> QED
        BY <1>1, <1>3, <1>5, <3>1 DEF Files
    <2>2. CASE ~\A l \in leases : ~GivenUp(l, s, loc[s].lease)
      <3>1. /\ lanes' = {l \in leases : ~GivenUp(l, s, loc[s].lease)}
            /\ Leaving(s) /\ UNCHANGED <<handoff, binding, rev, lock, Notes, expired, budget>>
        BY <1>8, <2>2 DEF ReleaseLane
      <3>2. lanes' \in SUBSET Lane
        BY <1>2, <3>1
      <3> QED
        BY <1>1, <1>3, <3>1, <3>2, LeavingMoves
    <2> QED
      BY <2>1, <2>2
  <1> QED
    BY <1>6, <1>7, <1>8

WritesFile(s) == \/ Prepare(s) \/ Claim(s) \/ Release(s) \/ Bind(s) \/ Unbind(s) \/ Merge(s)
                 \/ AcquireLane(s) \/ LaneStatus(s) \/ ReleaseLane(s)

LEMMA WritersLeave ==
  ASSUME TypeOK, AllFit, NEW s \in Sessions, WritesFile(s)
  PROVE  /\ Leaves(s) /\ At(s, "write") /\ UNCHANGED <<does, lock, expired, hazard, rev>>
  <1>1. At(s, "write")
    BY DEF WritesFile, Prepare, Claim, Release, Bind, Unbind, Merge, AcquireLane, LaneStatus, ReleaseLane
  <1>2. CASE Prepare(s)
    BY <1>1, <1>2, PrepareWrites
  <1>3. CASE Claim(s)
    BY <1>1, <1>3, ClaimWrites DEF Idles, Files, Notes
  <1>4. CASE Release(s)
    BY <1>1, <1>4, ReleaseWrites DEF Idles, Files, Notes
  <1>5. CASE Bind(s) \/ Unbind(s) \/ Merge(s)
    BY <1>1, <1>5, RegistryWrites
  <1>6. CASE AcquireLane(s) \/ LaneStatus(s) \/ ReleaseLane(s)
    BY <1>1, <1>6, LaneWrites DEF Notes
  <1> QED
    BY <1>2, <1>3, <1>4, <1>5, <1>6 DEF WritesFile

LEMMA WriteTypes ==
  ASSUME TypeOK, AllFit, NEW s \in Sessions, WritesFile(s)
  PROVE  TypeOK' /\ AllFit'
  <1>1. Leaves(s) /\ At(s, "write") /\ UNCHANGED <<does, lock, expired, hazard, rev>>
    BY WritersLeave
  <1>2. AllFit'
    BY <1>1, LeavingFits DEF At
  <1>3. loc' \in [Sessions -> Progress]
    BY <1>1 DEF Leaves, Acts
  <1>4. /\ handoff' \in Handoff /\ binding' \in Binding /\ lanes' \in SUBSET Lane
        /\ held' \in [Sessions -> SUBSET [lease : Nat, id : Nat]]
        /\ results' \in SUBSET [lease : Nat, given : SUBSET Nat]
        /\ history' \in Histories /\ budget' \in Budgets
    <2>1. CASE Prepare(s)
      BY <2>1, PrepareWrites, Typed
    <2>2. CASE Claim(s)
      BY <2>2, ClaimWrites, Typed DEF Idles, Files, Notes
    <2>3. CASE Release(s)
      BY <2>3, ReleaseWrites, Typed DEF Idles, Files, Notes
    <2>4. CASE Bind(s) \/ Unbind(s) \/ Merge(s)
      BY <2>4, RegistryWrites, Typed
    <2>5. CASE AcquireLane(s) \/ LaneStatus(s) \/ ReleaseLane(s)
      BY <2>5, LaneWrites, Typed DEF Notes
    <2> QED
      BY <2>1, <2>2, <2>3, <2>4, <2>5 DEF WritesFile
  <1>5. TypeOK'
    BY <1>1, <1>3, <1>4, Typed DEF TypeOK, Holder, Histories, Hazards, Budgets
  <1> QED
    BY <1>2, <1>5

LEMMA WorldTypes ==
  ASSUME TypeOK, AllFit, Advance \/ (\E lease \in 1..budget.leases : Expire(lease)) \/ (\E k \in Locks : Ages(k))
  PROVE  TypeOK' /\ AllFit'
  <1>1. UNCHANGED loc
    BY DEF Advance, Expire, Ages
  <1>2. AllFit'
    BY <1>1 DEF AllFit, CommandFits, Running, At, Monitors
  <1>3. CASE Advance
    <2>1. rev' \in Nat /\ UNCHANGED <<handoff, binding, lanes, lock, loc, Notes, expired, budget>>
      BY <1>3, Typed DEF Advance
    <2> QED
      BY <1>2, <2>1, Typed DEF TypeOK, Holder, Histories, Hazards, Budgets, Notes
  <1>4. CASE \E lease \in 1..budget.leases : Expire(lease)
    <2>1. expired' \in SUBSET Nat /\ UNCHANGED <<Files, lock, loc, Notes, budget>>
      BY <1>4, Typed, Counted DEF Expire
    <2> QED
      BY <1>2, <2>1, Typed DEF TypeOK, Holder, Histories, Hazards, Budgets, Files, Notes
  <1>5. CASE \E k \in Locks : Ages(k)
    <2>1. PICK k \in Locks : Ages(k)
      BY <1>5
    <2>2. lock \in [Locks -> Holder] /\ budget \in Budgets
      BY Typed
    <2>3. [by |-> lock[k].by, old |-> TRUE] \in Holder
      BY <2>2 DEF Holder
    <2>4. lock' \in [Locks -> Holder] /\ UNCHANGED <<Files, loc, Notes, expired>>
      BY <2>1, <2>2, <2>3 DEF Ages
    <2>5. budget' = budget \/ budget' = [budget EXCEPT !.faults = @ + 1]
      BY <2>1 DEF Ages, Fault
    <2>6. budget' \in Budgets
      BY <2>2, <2>5, Counted
    <2> QED
      BY <1>2, <2>4, <2>6, Typed DEF TypeOK, Holder, Histories, Hazards, Budgets, Files, Notes
  <1> QED
    BY <1>2, <1>3, <1>4, <1>5

-----------------------------------------------------------------------------
(* Whoever writes holds its lock and has read what is in the file. *)

AllHold == \A s \in Sessions : HolderFits(s)

\* The file of a lock is as it was.
Kept(k) == /\ k = "handoff" => handoff' = handoff
           /\ k = "bindings" => binding' = binding
           /\ k \notin {"handoff", "bindings"} => lanes' = lanes

LEMMA HolderStays ==
  ASSUME NEW t \in Sessions, HolderFits(t), loc'[t] = loc[t],
         Critical(t) => lock'[loc[t].lk].by = lock[loc[t].lk].by /\ Kept(loc[t].lk)
  PROVE  HolderFits(t)'
  BY DEF HolderFits, Critical, At, Running, Copy, Kept

LEMMA HoldersStay ==
  ASSUME NEW s \in Sessions, AllHold, Acts(s), HolderFits(s)',
         \A t \in Sessions : t # s /\ Critical(t) => lock'[loc[t].lk].by = lock[loc[t].lk].by /\ Kept(loc[t].lk)
  PROVE  AllHold'
  <1>1. ASSUME NEW t \in Sessions, t # s PROVE HolderFits(t)'
    <2>1. HolderFits(t) /\ loc'[t] = loc[t]
      BY <1>1 DEF AllHold, Acts
    <2> QED
      BY <1>1, <2>1, HolderStays
  <1> QED
    BY <1>1 DEF AllHold

\* A command that is not under its lock holds nothing.
LEMMA OutsideFits ==
  ASSUME NEW s \in Sessions, ~Critical(s)'
  PROVE  HolderFits(s)'
  BY DEF HolderFits, Critical, At, Running

LEMMA OutsideStays ==
  ASSUME NEW s \in Sessions, AllHold, Acts(s), ~Critical(s)', UNCHANGED <<handoff, binding, lanes, lock>>
  PROVE  AllHold'
  BY HoldersStay, OutsideFits DEF Kept

LEMMA IssueHolds ==
  ASSUME TypeOK, AllHold, NEW s \in Sessions, NEW cmd \in Commands, NEW lease \in Nat, NEW kind \in Kinds \cup {"none"},
         Issue(s, cmd, lease, kind)
  PROVE  AllHold'
  <1>1. Acts(s) /\ loc'[s].step = FirstStep(cmd) /\ UNCHANGED <<handoff, binding, lanes, lock>>
    BY IssueMoves, StartsCommand DEF Issue, Files
  <1>2. ~Critical(s)'
    BY <1>1 DEF FirstStep, Critical
  <1> QED
    BY <1>1, <1>2, OutsideStays

LEMMA ReadingHolds ==
  ASSUME TypeOK, AllHold, NEW s \in Sessions, Previous(s) \/ Registry(s) \/ Observe(s) \/ Stale(s)
  PROVE  AllHold'
  <1>1. UNCHANGED <<handoff, binding, lanes, lock>>
    BY DEF Previous, Registry, Observe, Stale, Stays, Files
  <1>2. Acts(s) /\ ~Critical(s)'
    <2>1. CASE Previous(s)
      BY <2>1, PreviousMoves DEF Critical
    <2>2. CASE Registry(s)
      BY <2>2, RegistryMoves DEF Quits, Critical, Running
    <2>3. CASE Observe(s)
      BY <2>3, ObserveMoves DEF Quits, Critical, Running
    <2>4. CASE Stale(s)
      BY <2>4, StaleMoves DEF Stale, Critical
    <2> QED
      BY <2>1, <2>2, <2>3, <2>4
  <1> QED
    BY <1>1, <1>2, OutsideStays

LEMMA LockHolds ==
  ASSUME TypeOK, AllHold, NEW s \in Sessions, ~hazard'.broken,
         Acquire(s) \/ Break(s) \/ TimesOut(s) \/ Leave(s) \/ Dies(s)
  PROVE  AllHold'
  <1>1. loc[s].lk \in Locks /\ lock \in [Locks -> Holder]
    BY Typed, ProgressFields
  <1>2. UNCHANGED <<handoff, binding, lanes>>
    BY DEF Acquire, Break, TimesOut, Leave, Dies, Files
  <1>3. \A t \in Sessions : Critical(t) => lock[loc[t].lk].by = t /\ loc[t].lk \in Locks
    BY Typed, ProgressFields DEF AllHold, HolderFits
  <1>4. CASE Acquire(s)
    <2>1. Acts(s) /\ loc'[s].step = "write" /\ loc'[s].copy = Copy(loc[s].lk) /\ loc'[s].lk = loc[s].lk
      BY <1>4, AcquireMoves
    <2>2. lock[loc[s].lk] = Free /\ lock' = [lock EXCEPT ![loc[s].lk] = [by |-> s, old |-> FALSE]]
      BY <1>4 DEF Acquire, Taken
    <2>3. HolderFits(s)'
      BY <1>1, <1>2, <2>1, <2>2 DEF HolderFits, Copy
    <2>4. ASSUME NEW t \in Sessions, Critical(t) PROVE lock'[loc[t].lk] = lock[loc[t].lk]
      <3>1. lock[loc[t].lk].by # Free.by
        BY <1>3, <2>4, HandoffAssumption DEF Free
      <3> QED
        BY <1>1, <1>3, <2>2, <2>4, <3>1
    <2> QED
      BY <1>2, <2>1, <2>3, <2>4, HoldersStay DEF Kept
  <1>5. CASE Break(s)
    <2> DEFINE k == loc[s].lk
               e == hazard.broken \/ \E t \in Sessions : lock[k].by = t /\ Critical(t) /\ loc[t].lk = k
    <2>1. lock' = [lock EXCEPT ![k] = Free] /\ hazard' = [hazard EXCEPT !.broken = e]
      BY <1>5 DEF Break
    <2>2. e \in BOOLEAN
      BY Typed DEF Hazards
    <2>3. ~e
      <3> HIDE DEF e
      <3> QED
        BY <2>1, <2>2, Noted, Typed
    <2>4. Acts(s) /\ ~Critical(s)'
      BY <1>5, StaleMoves DEF Break, Critical
    <2>5. ASSUME NEW t \in Sessions, Critical(t) PROVE lock'[loc[t].lk] = lock[loc[t].lk]
      <3>1. loc[t].lk # k
        BY <1>3, <2>3, <2>5
      <3> QED
        BY <1>1, <1>3, <2>1, <2>5, <3>1
    <2>6. HolderFits(s)'
      BY <2>4, OutsideFits
    <2> QED
      BY <1>2, <2>4, <2>5, <2>6, HoldersStay DEF Kept
  <1>6. CASE TimesOut(s) \/ Dies(s)
    <2>1. Acts(s) /\ ~Critical(s)' /\ UNCHANGED lock
      BY <1>6, Quitting DEF TimesOut, Dies, Quits, Critical, Running
    <2> QED
      BY <1>2, <2>1, OutsideStays
  <1>7. CASE Leave(s)
    <2>1. Acts(s) /\ ~Critical(s)'
      BY <1>7, LeaveMoves DEF Quits, Critical, Running
    <2>2. lock' = [lock EXCEPT ![loc[s].lk] = Free] /\ Critical(s)
      BY <1>7 DEF Leave, At, Critical
    <2>3. ASSUME NEW t \in Sessions, t # s, Critical(t) PROVE lock'[loc[t].lk] = lock[loc[t].lk]
      <3>1. loc[t].lk # loc[s].lk
        BY <1>3, <2>2, <2>3
      <3> QED
        BY <1>1, <1>3, <2>2, <2>3, <3>1
    <2>4. HolderFits(s)'
      BY <2>1, OutsideFits
    <2> QED
      BY <1>2, <2>1, <2>3, <2>4, HoldersStay DEF Kept
  <1> QED
    BY <1>4, <1>5, <1>6, <1>7

\* A command writes no file but that of its lock.
LEMMA WritesOwnFile ==
  ASSUME TypeOK, AllFit, NEW s \in Sessions, WritesFile(s), NEW k \in Locks, k # loc[s].lk
  PROVE  Kept(k)
  <1>1. /\ At(s, "write")
        /\ IF Monitors(s) THEN loc[s].lk \in {"handoff", "bindings"} ELSE loc[s].lk = LockOf(loc[s].cmd)
    BY WritersLeave DEF AllFit, CommandFits, At
  <1>2. CASE Prepare(s)
    BY <1>2, PrepareWrites DEF Kept, Prepare
  <1>3. CASE Claim(s)
    <2>1. loc[s].lk = "handoff"
      BY <1>1, <1>3 DEF Claim, Monitors, LockOf
    <2> QED
      BY <1>3, <2>1, ClaimWrites DEF Idles, Files, Kept
  <1>4. CASE Release(s)
    <2>1. loc[s].lk = "handoff"
      BY <1>1, <1>4 DEF Release, Monitors, LockOf
    <2> QED
      BY <1>4, <2>1, ReleaseWrites DEF Idles, Files, Kept
  <1>5. CASE Bind(s) \/ Unbind(s) \/ Merge(s)
    <2>1. loc[s].lk = "bindings"
      BY <1>1, <1>5 DEF Bind, Unbind, Merge, Monitors, LockOf
    <2> QED
      BY <1>5, <2>1, RegistryWrites DEF Kept
  <1>6. CASE AcquireLane(s) \/ LaneStatus(s) \/ ReleaseLane(s)
    <2>1. loc[s].lk = "lanes"
      BY <1>1, <1>6 DEF AcquireLane, LaneStatus, ReleaseLane, Monitors, LockOf
    <2> QED
      BY <1>6, <2>1, LaneWrites DEF Kept, Locks
  <1> QED
    BY <1>2, <1>3, <1>4, <1>5, <1>6 DEF WritesFile

LEMMA WriteHolds ==
  ASSUME TypeOK, AllFit, AllHold, NEW s \in Sessions, WritesFile(s)
  PROVE  AllHold'
  <1>1. Leaves(s) /\ Acts(s) /\ At(s, "write") /\ UNCHANGED lock
    BY WritersLeave DEF Leaves
  <1>2. \A t \in Sessions : Critical(t) => lock[loc[t].lk].by = t /\ loc[t].lk \in Locks
    BY Typed, ProgressFields DEF AllHold, HolderFits
  <1>3. Critical(s) /\ lock[loc[s].lk].by = s
    BY <1>1, <1>2 DEF At, Critical
  <1>4. HolderFits(s)'
    BY <1>1, <1>3 DEF Leaves, HolderFits, At
  <1>5. ASSUME NEW t \in Sessions, t # s, Critical(t) PROVE Kept(loc[t].lk)
    BY <1>2, <1>3, <1>5, WritesOwnFile
  <1> QED
    BY <1>1, <1>4, <1>5, HoldersStay

LEMMA WorldHolds ==
  ASSUME TypeOK, AllHold, Advance \/ (\E lease \in 1..budget.leases : Expire(lease)) \/ (\E k \in Locks : Ages(k))
  PROVE  AllHold'
  <1>1. UNCHANGED <<loc, handoff, binding, lanes>>
    BY DEF Advance, Expire, Ages, Files
  <1>2. \A k \in Locks : lock'[k].by = lock[k].by
    <2>1. lock \in [Locks -> Holder]
      BY Typed
    <2> QED
      BY <2>1 DEF Advance, Expire, Ages
  <1>3. ASSUME NEW t \in Sessions PROVE HolderFits(t)'
    <2>1. HolderFits(t) /\ loc'[t] = loc[t] /\ Kept(loc[t].lk) /\ loc[t].lk \in Locks
      BY <1>1, Typed, ProgressFields DEF AllHold, Kept
    <2> QED
      BY <1>2, <2>1, HolderStays
  <1> QED
    BY <1>3 DEF AllHold

-----------------------------------------------------------------------------
(* Claims: whom the handoff names, and who works on it. *)

SingleWorkers ==
  \A s, t \in Sessions : \A h \in held[s], i \in held[t] :
    s # t /\ h.id = i.id => ~(Works(s, h) /\ Works(t, i))
TrueResults == \A r \in results : r.lease \in r.given /\ \A l \in r.given : l <= r.lease
Claims == ClaimsFit /\ SingleWorkers /\ TrueResults

\* Numbers and records of the claims.
LEMMA ClaimTypes ==
  ASSUME TypeOK
  PROVE  /\ \A s \in Sessions : \A h \in held[s] : h.lease \in Nat /\ h.id \in Nat
         /\ handoff.id \in Nat /\ handoff.lease \in Nat /\ budget.leases \in Nat /\ budget.handoffs \in Nat
         /\ \A r \in results : r.lease \in Nat
         /\ "none" \notin Sessions
  <1>1. \A s \in Sessions : \A h \in held[s] : h \in [lease : Nat, id : Nat]
    BY Typed
  <1>2. handoff \in Handoff /\ \A r \in results : r \in [lease : Nat, given : SUBSET Nat]
    BY Typed
  <1>3. handoff.id \in Nat /\ handoff.lease \in Nat
    BY <1>2 DEF Handoff
  <1>4. budget.leases \in Nat /\ budget.handoffs \in Nat
    BY Typed, Counted
  <1>5. \A s \in Sessions : \A h \in held[s] : h.lease \in Nat /\ h.id \in Nat
    BY <1>1
  <1>6. \A r \in results : r.lease \in Nat
    BY <1>2
  <1> QED
    BY <1>3, <1>4, <1>5, <1>6, HandoffAssumption

\* Deadlines and results take work away, they give none.
LEMMA WorkShrinks ==
  ASSUME NEW s \in Sessions, NEW h \in held[s], held[s] \subseteq held'[s], results \subseteq results', expired \subseteq expired',
         Works(s, h)'
  PROVE  Works(s, h)
  BY DEF Works, Live

LEMMA ClaimsStay ==
  ASSUME TypeOK, Claims, UNCHANGED <<handoff, held, results>>, expired \subseteq expired',
         \A lease \in expired' : lease <= budget'.leases,
         budget'.leases \in Nat, budget'.handoffs \in Nat,
         budget'.leases >= budget.leases, budget'.handoffs >= budget.handoffs
  PROVE  Claims'
  <1> USE ClaimTypes
  <1>1. ASSUME NEW s \in Sessions, NEW h \in held[s], Works(s, h)' PROVE Works(s, h)
    BY <1>1, WorkShrinks
  <1>2. SingleWorkers'
    BY <1>1 DEF Claims, SingleWorkers
  <1>3. TrueResults'
    BY DEF Claims, TrueResults
  <1>4. ClaimsFit'
    BY <1>1 DEF Claims, ClaimsFit
  <1> QED
    BY <1>2, <1>3, <1>4 DEF Claims

LEMMA PrepareClaims ==
  ASSUME TypeOK, Claims, NEW s \in Sessions, Prepare(s)
  PROVE  Claims'
  <1> USE ClaimTypes
  <1>1. /\ UNCHANGED <<held, results, expired>>
        /\ handoff'.id = budget.handoffs + 1 /\ handoff'.status = "prepared" /\ handoff'.worker = "none"
        /\ budget'.leases = budget.leases /\ budget'.handoffs = budget.handoffs + 1
    BY PrepareWrites
  <1>2. ASSUME NEW t \in Sessions, NEW h \in held[t], Works(t, h)' PROVE Works(t, h)
    BY <1>1, <1>2, WorkShrinks
  <1>3. SingleWorkers'
    BY <1>1, <1>2 DEF Claims, SingleWorkers
  <1>4. TrueResults'
    BY <1>1 DEF Claims, TrueResults
  <1>5. ClaimsFit'
    <2>1. \A t \in Sessions : \A h \in held[t] : h.lease <= budget.leases /\ h.id <= budget.handoffs
      BY DEF Claims, ClaimsFit
    <2>2. \A t \in Sessions : \A h \in held[t] : h.id # handoff'.id /\ h.id <= budget'.handoffs
      BY <1>1, <2>1
    <2>3. (\A lease \in expired : lease <= budget.leases) /\ (\A r \in results : r.lease <= budget.leases)
      BY DEF Claims, ClaimsFit
    <2> QED
      BY <1>1, <2>1, <2>2, <2>3 DEF ClaimsFit
  <1> QED
    BY <1>3, <1>4, <1>5 DEF Claims

\* Under its lock a command of the handoff has read the handoff of the file.
LEMMA CopyOfHandoff ==
  ASSUME AllFit, AllHold, TypeOK, NEW s \in Sessions, At(s, "write"), loc[s].cmd \in {"claim", "release"}
  PROVE  loc[s].copy.handoff = handoff
  <1>1. loc[s].lk = "handoff" /\ loc[s].copy = Copy(loc[s].lk)
    BY DEF AllFit, CommandFits, AllHold, HolderFits, LockOf, Monitors, At
  <1> QED
    BY <1>1, CopyIsReading DEF Locks

LEMMA ClaimClaims ==
  ASSUME TypeOK, AllFit, AllHold, Claims, NEW s \in Sessions, Claim(s)
  PROVE  Claims'
  <1> USE ClaimTypes
  <1>1. loc[s].copy.handoff = handoff
    BY CopyOfHandoff DEF Claim
  <1>2. CASE ~Claimable(handoff, s)
    <2>1. Idles
      BY <1>1, <1>2, ClaimWrites
    <2> QED
      BY <2>1, ClaimsStay DEF Idles, Files, Notes, Claims, ClaimsFit
  <1>3. CASE Claimable(handoff, s)
    <2> DEFINE n == budget.leases + 1
               new == [lease |-> n, id |-> handoff.id]
    <2>1. /\ UNCHANGED <<results, expired>>
          /\ handoff'.id = handoff.id /\ handoff'.status = "claimed" /\ handoff'.worker = s /\ handoff'.lease = n
          /\ budget'.leases = n /\ budget'.handoffs = budget.handoffs
          /\ held' = [held EXCEPT ![s] = @ \cup {new}]
      BY <1>1, <1>3, ClaimWrites
    <2>2. held \in [Sessions -> SUBSET [lease : Nat, id : Nat]]
      BY Typed
    <2>3. held'[s] = held[s] \cup {new} /\ \A t \in Sessions : t # s => held'[t] = held[t]
      BY <2>1, <2>2
    <2>4. new.lease = n /\ new.id = handoff.id
      OBVIOUS
    <2> HIDE DEF new
    <2>5. ASSUME NEW t \in Sessions, NEW g \in held[t], Works(t, g)'
          PROVE  Works(t, g) /\ g.id # handoff.id
      <3>1. Works(t, g)
        BY <2>1, <2>3, <2>5, WorkShrinks
      <3>2. ASSUME g.id = handoff.id PROVE FALSE
        <4>1. handoff.status = "claimed" /\ handoff.worker = t /\ g.lease <= handoff.lease
          BY <3>1, <3>2 DEF Claims, ClaimsFit
        <4>2. \E f \in held[t] : f.lease = handoff.lease /\ f.id = handoff.id
          BY <4>1 DEF Claims, ClaimsFit
        <4>3. g.lease = handoff.lease
          BY <3>1, <3>2, <4>1, <4>2 DEF Works
        <4>4. g.lease \notin expired
          BY <3>1 DEF Works, Live
        <4>5. t = s
          BY <1>3, <4>1, <4>3, <4>4 DEF Claimable
        <4>6. new \in held'[t] /\ new.id = g.id
          BY <2>3, <2>4, <3>2, <4>5
        <4>7. new.lease <= g.lease
          BY <2>5, <4>6 DEF Works
        <4>8. g.lease <= budget.leases
          BY DEF Claims, ClaimsFit
        <4> QED
          BY <2>4, <4>7, <4>8
      <3> QED
        BY <3>1, <3>2
    <2>6. ASSUME NEW t \in Sessions, NEW g \in held'[t]
          PROVE  g \in held[t] \/ (g = new /\ t = s)
      BY <2>3, <2>6
    <2>7. SingleWorkers'
      <3>1. ASSUME NEW t \in Sessions, NEW u \in Sessions, NEW g \in held'[t], NEW h \in held'[u],
                   t # u, g.id = h.id, Works(t, g)', Works(u, h)'
            PROVE  FALSE
        <4>1. CASE g \in held[t] /\ h \in held[u]
          BY <2>5, <3>1, <4>1 DEF Claims, SingleWorkers
        <4>2. CASE g = new /\ t = s
          <5>1. h \in held[u] /\ h.id = handoff.id
            BY <2>4, <2>6, <3>1, <4>2
          <5> QED
            BY <2>5, <3>1, <5>1
        <4>3. CASE h = new /\ u = s
          <5>1. g \in held[t] /\ g.id = handoff.id
            BY <2>4, <2>6, <3>1, <4>3
          <5> QED
            BY <2>5, <3>1, <5>1
        <4> QED
          BY <2>6, <4>1, <4>2, <4>3
      <3> QED
        BY <3>1 DEF SingleWorkers
    <2>8. TrueResults'
      BY <2>1 DEF Claims, TrueResults
    <2>9. ClaimsFit'
      <3>1. \A t \in Sessions : \A g \in held'[t] :
              /\ g.lease <= budget'.leases /\ g.id <= budget'.handoffs
              /\ g.id = handoff'.id =>
                   /\ g.lease <= handoff'.lease
                   /\ Works(t, g)' => handoff'.worker = t
        <4>1. SUFFICES ASSUME NEW t \in Sessions, NEW g \in held'[t]
                       PROVE  /\ g.lease <= budget'.leases /\ g.id <= budget'.handoffs
                              /\ g.id = handoff'.id =>
                                   /\ g.lease <= handoff'.lease
                                   /\ Works(t, g)' => handoff'.worker = t
          OBVIOUS
        <4>2. CASE g \in held[t]
          BY <2>1, <2>5, <4>2 DEF Claims, ClaimsFit
        <4>3. CASE g = new /\ t = s
          BY <2>1, <2>4, <4>3 DEF Claims, ClaimsFit
        <4> QED
          BY <2>6, <4>2, <4>3
      <3>2. [lease |-> handoff'.lease, id |-> handoff'.id] \in held'[handoff'.worker]
        BY <2>1, <2>3 DEF new
      <3>3. (\A lease \in expired : lease <= budget.leases) /\ (\A r \in results : r.lease <= budget.leases)
            /\ handoff.id <= budget.handoffs
        BY DEF Claims, ClaimsFit
      <3>4. \A lease \in expired : lease \in Nat
        BY Typed
      <3>5. (\A lease \in expired' : lease <= budget'.leases) /\ (\A r \in results' : r.lease <= budget'.leases)
        BY <2>1, <3>3, <3>4
      <3> QED
        BY <2>1, <3>1, <3>2, <3>3, <3>5 DEF ClaimsFit
    <2> QED
      BY <2>7, <2>8, <2>9 DEF Claims
  <1> QED
    BY <1>2, <1>3

LEMMA ReleaseClaims ==
  ASSUME TypeOK, AllFit, AllHold, Claims, NEW s \in Sessions, Release(s)
  PROVE  Claims'
  <1> USE ClaimTypes
  <1>1. loc[s].copy.handoff = handoff
    BY CopyOfHandoff DEF Release
  <1>2. CASE ~Matches(handoff, s, loc[s].lease)
    <2>1. Idles
      BY <1>1, <1>2, ReleaseWrites
    <2> QED
      BY <2>1, ClaimsStay DEF Idles, Files, Notes, Claims, ClaimsFit
  <1>3. CASE Matches(handoff, s, loc[s].lease)
    <2> DEFINE r0 == [lease |-> handoff.lease, given |-> Given(handoff.id)]
    <2>1. handoff.worker = s /\ handoff.lease = loc[s].lease /\ handoff.status = "claimed"
      BY <1>3 DEF Matches, Claims, ClaimsFit
    <2>2. /\ UNCHANGED <<held, expired, budget>> /\ results' = results \cup {r0}
          /\ handoff'.id = handoff.id /\ handoff'.status = "released" /\ handoff'.worker = "none"
      BY <1>1, <1>3, <2>1, ReleaseWrites
    <2>3. r0.lease = handoff.lease /\ r0.given = Given(handoff.id)
      OBVIOUS
    <2> HIDE DEF r0
    <2>4. [lease |-> handoff.lease, id |-> handoff.id] \in held[s]
      BY <2>1 DEF Claims, ClaimsFit
    <2>5. \A t \in Sessions : \A h \in held[t] : h.id = handoff.id => h.lease <= handoff.lease
      BY <2>1 DEF Claims, ClaimsFit
    <2>6. handoff.lease \in Given(handoff.id) /\ \A l \in Given(handoff.id) : l <= handoff.lease
      <3>1. \E h \in held[s] : h.id = handoff.id /\ h.lease = handoff.lease
        BY <2>4
      <3> QED
        BY <2>5, <3>1, GivenAreLeases
    <2>7. TrueResults'
      BY <2>2, <2>3, <2>6 DEF Claims, TrueResults
    <2>8. ASSUME NEW t \in Sessions, NEW h \in held[t], Works(t, h)'
          PROVE  Works(t, h) /\ h.id # handoff.id
      <3>1. Works(t, h)
        BY <2>2, <2>8, WorkShrinks
      <3>2. ASSUME h.id = handoff.id PROVE FALSE
        <4>1. handoff.worker = t /\ h.lease <= handoff.lease
          BY <3>1, <3>2 DEF Claims, ClaimsFit
        <4>2. \E f \in held[t] : f.lease = handoff.lease /\ f.id = handoff.id
          BY <2>1, <2>4, <4>1
        <4>3. h.lease = handoff.lease
          BY <3>1, <3>2, <4>1, <4>2 DEF Works
        <4>4. r0 \in results'
          BY <2>2
        <4> QED
          BY <2>3, <2>8, <4>3, <4>4 DEF Works, Live
      <3> QED
        BY <3>1, <3>2
    <2>9. SingleWorkers'
      BY <2>2, <2>8 DEF Claims, SingleWorkers
    <2>10. ClaimsFit'
      <3>1. handoff.lease <= budget.leases
        BY <2>4 DEF Claims, ClaimsFit
      <3>2. \A r \in results' : r.lease <= budget.leases
        BY <2>2, <2>3, <3>1 DEF Claims, ClaimsFit
      <3>3. \A t \in Sessions : \A h \in held[t] : h.lease <= budget.leases /\ h.id <= budget.handoffs
        BY DEF Claims, ClaimsFit
      <3>4. handoff.id <= budget.handoffs /\ \A lease \in expired : lease <= budget.leases
        BY DEF Claims, ClaimsFit
      <3> QED
        BY <2>2, <2>8, <3>2, <3>3, <3>4 DEF ClaimsFit
    <2> QED
      BY <2>7, <2>9, <2>10 DEF Claims
  <1> QED
    BY <1>2, <1>3

-----------------------------------------------------------------------------
(* Lanes. *)

Of(leases, kind) == {l \in leases : l.kind = kind}
Bounded == \A kind \in Kinds : Cardinality(Of(Clean(lanes), kind)) <= Limit
LanesOK == LanesFit /\ Bounded

\* A part of a bounded set of leases is bounded.
LEMMA PartIsBounded ==
  ASSUME NEW A, NEW B, IsFiniteSet(A), B \subseteq A, NEW n \in Nat, Cardinality(A) <= n
  PROVE  IsFiniteSet(B) /\ Cardinality(B) <= n
  <1>1. IsFiniteSet(B) /\ Cardinality(B) <= Cardinality(A)
    BY FS_Subset
  <1>2. Cardinality(A) \in Nat /\ Cardinality(B) \in Nat
    BY <1>1, FS_CardinalityType
  <1> QED
    BY <1>1, <1>2

LEMMA OfIsFinite ==
  ASSUME NEW A, IsFiniteSet(A), NEW kind
  PROVE  IsFiniteSet(Clean(A)) /\ IsFiniteSet(Of(A, kind)) /\ IsFiniteSet(Of(Clean(A), kind))
  <1>1. Clean(A) \subseteq A /\ Of(A, kind) \subseteq A /\ Of(Clean(A), kind) \subseteq A
    BY DEF Clean, Of
  <1> QED
    BY <1>1, FS_Subset

LEMMA LanesStay ==
  ASSUME LanesOK, lanes' \subseteq lanes, expired \subseteq expired'
  PROVE  LanesOK'
  <1>1. IsFiniteSet(lanes')
    BY FS_Subset DEF LanesOK, LanesFit
  <1>2. ASSUME NEW kind \in Kinds
        PROVE  Cardinality({l \in {m \in lanes' : m.lease \notin expired'} : l.kind = kind}) <= Limit
    <2>1. {l \in {m \in lanes' : m.lease \notin expired'} : l.kind = kind} \subseteq Of(Clean(lanes), kind)
      BY DEF Of, Clean
    <2>2. IsFiniteSet(Of(Clean(lanes), kind)) /\ Cardinality(Of(Clean(lanes), kind)) <= Limit
      BY OfIsFinite DEF LanesOK, LanesFit, Bounded
    <2> QED
      BY <2>1, <2>2, PartIsBounded, HandoffAssumption
  <1> QED
    BY <1>1, <1>2 DEF LanesOK, LanesFit, Bounded, Of, Clean

\* Under its lock a command of the lanes has read the lanes of the file.
LEMMA CopyOfLanes ==
  ASSUME AllFit, AllHold, TypeOK, NEW s \in Sessions, At(s, "write"), loc[s].cmd \in {"acquire", "status", "free"}
  PROVE  loc[s].copy.lanes = lanes
  <1>1. loc[s].lk = "lanes" /\ loc[s].copy = Copy(loc[s].lk)
    BY DEF AllFit, CommandFits, AllHold, HolderFits, LockOf, Monitors, At
  <1> QED
    BY <1>1, CopyIsReading DEF Locks

LEMMA WriteLanes ==
  ASSUME TypeOK, AllFit, AllHold, LanesOK, NEW s \in Sessions, AcquireLane(s) \/ LaneStatus(s) \/ ReleaseLane(s)
  PROVE  LanesOK'
  <1>1. loc[s].copy.lanes = lanes
    BY CopyOfLanes DEF AcquireLane, LaneStatus, ReleaseLane
  <1>2. expired' = expired
    BY LaneWrites
  <1>3. Clean(lanes) \subseteq lanes
    BY DEF Clean
  <1>4. CASE LaneStatus(s) \/ ReleaseLane(s)
    <2>1. lanes' \subseteq lanes
      BY <1>1, <1>3, <1>4 DEF LaneStatus, ReleaseLane, Refuse, Files
    <2> QED
      BY <1>2, <2>1, LanesStay
  <1>5. CASE AcquireLane(s)
    <2>1. CASE ~Admitted(Clean(lanes), s, loc[s].kind)
      <3>1. lanes' \subseteq lanes
        BY <1>1, <1>5, <2>1 DEF AcquireLane, Refuse, Files
      <3> QED
        BY <1>2, <3>1, LanesStay
    <2>2. CASE Admitted(Clean(lanes), s, loc[s].kind)
      <3> DEFINE new == [lease |-> budget'.leases, owner |-> s, kind |-> loc[s].kind]
      <3>1. lanes' = Clean(lanes) \cup {new}
        BY <1>1, <1>5, <2>2 DEF AcquireLane
      <3>2. new.kind = loc[s].kind
        OBVIOUS
      <3> HIDE DEF new
      <3>3. IsFiniteSet(Clean(lanes))
        BY OfIsFinite DEF LanesOK, LanesFit
      <3>4. IsFiniteSet(lanes')
        BY <3>1, <3>3, FS_AddElement
      <3>5. ASSUME NEW kind \in Kinds
            PROVE  Cardinality({l \in {m \in lanes' : m.lease \notin expired'} : l.kind = kind}) <= Limit
        <4> DEFINE A == Of(Clean(lanes), kind)
                   B == {l \in {m \in lanes' : m.lease \notin expired'} : l.kind = kind}
        <4>1. IsFiniteSet(A) /\ Cardinality(A) <= Limit /\ Cardinality(A) \in Nat /\ Limit \in Nat
          BY OfIsFinite, FS_CardinalityType, HandoffAssumption DEF LanesOK, LanesFit, Bounded
        <4>2. CASE kind # loc[s].kind
          <5>1. B \subseteq A
            BY <3>1, <3>2, <4>2 DEF Of
          <5> QED
            BY <4>1, <5>1, PartIsBounded
        <4>3. CASE kind = loc[s].kind
          <5>1. Cardinality(A) < Limit
            BY <2>2, <4>3 DEF Admitted, Of
          <5>2. B \subseteq A \cup {new}
            BY <3>1 DEF Of
          <5> HIDE DEF A, B
          <5>3. IsFiniteSet(A \cup {new})
            BY <4>1, FS_AddElement
          <5>4. Cardinality(A \cup {new}) <= Limit
            <6>1. Cardinality(A \cup {new}) = Cardinality(A) \/ Cardinality(A \cup {new}) = Cardinality(A) + 1
              BY <4>1, FS_AddElement
            <6> QED
              BY <4>1, <5>1, <6>1
          <5>5. Cardinality(B) <= Limit
            BY <4>1, <5>2, <5>3, <5>4, PartIsBounded
          <5> QED
            BY <5>5 DEF B
        <4> QED
          BY <4>2, <4>3
      <3> QED
        BY <3>4, <3>5 DEF LanesOK, LanesFit, Bounded, Of, Clean
    <2> QED
      BY <2>1, <2>2
  <1> QED
    BY <1>4, <1>5

-----------------------------------------------------------------------------
(* The registry and the monitor. *)

Calm == ~hazard.overlap /\ ~hazard.died
RegistryOK ==
  /\ \A s, t \in Sessions : Monitors(s) /\ Monitors(t) => s = t
  /\ \A s \in Sessions : Monitors(s) => MonitorFits(s)
  /\ binding.epoch <= history.epoch /\ history.last[1] <= history.epoch
  /\ (binding.epoch = 0 => binding = NoBinding) /\ Tells(NoBinding)
  /\ (\E s \in Sessions : Monitors(s) /\ Checkpointed(s)) \/ Tells(binding)

LEMMA RegistryTypes ==
  ASSUME TypeOK
  PROVE  /\ history.last[1] \in Nat /\ history.last[2] \in Mark /\ history.last = <<history.last[1], history.last[2]>>
         /\ history.epoch \in Nat /\ binding.epoch \in Nat /\ NoBinding.epoch = 0
         /\ \A s \in Sessions : loc[s].reg.epoch \in Nat
  <1>1. history \in Histories /\ binding \in Binding
    BY Typed
  <1>2. \A s \in Sessions : loc[s].reg \in Binding
    BY Typed, ProgressFields
  <1>3. history.last \in Nat \X Mark /\ history.epoch \in Nat
    BY <1>1 DEF Histories
  <1>4. binding.epoch \in Nat /\ \A s \in Sessions : loc[s].reg.epoch \in Nat
    BY <1>1, <1>2 DEF Binding
  <1> QED
    BY <1>3, <1>4 DEF NoBinding

\* Nothing happens to a monitor or to the registry.
LEMMA RegistryStays ==
  ASSUME RegistryOK, UNCHANGED <<binding, history>>,
         \A t \in Sessions : (Monitors(t) \/ Monitors(t)') => loc'[t] = loc[t]
  PROVE  RegistryOK'
  <1>1. \A t \in Sessions : Monitors(t)' <=> Monitors(t)
    BY DEF Monitors
  <1>2. ASSUME NEW t \in Sessions, Monitors(t)
        PROVE  /\ MonitorFits(t)' <=> MonitorFits(t)
               /\ Checkpointed(t)' <=> Checkpointed(t)
    BY <1>2 DEF MonitorFits, Checkpointed, At, Running, Tells
  <1>3. Tells(binding)' <=> Tells(binding)
    BY DEF Tells
  <1>4. Tells(NoBinding)' <=> Tells(NoBinding)
    BY DEF Tells
  <1> QED
    BY <1>1, <1>2, <1>3, <1>4 DEF RegistryOK

\* Another command than the monitor acts and leaves the registry alone.
LEMMA OtherCommand ==
  ASSUME NEW s \in Sessions, RegistryOK, UNCHANGED <<binding, history>>, Acts(s), ~Monitors(s), ~Monitors(s)'
  PROVE  RegistryOK'
  <1>1. \A t \in Sessions : (Monitors(t) \/ Monitors(t)') => loc'[t] = loc[t]
    BY DEF Acts
  <1> QED
    BY <1>1, RegistryStays

\* The one monitor acts: it fits, and it or the binding tells of the last checkpoint.
LEMMA MonitorActs ==
  ASSUME NEW s \in Sessions, RegistryOK, Acts(s), Monitors(s), Monitors(s)' => MonitorFits(s)',
         binding'.epoch <= history'.epoch, history'.last[1] <= history'.epoch,
         binding'.epoch = 0 => binding' = NoBinding, Tells(NoBinding)',
         (Monitors(s)' /\ Checkpointed(s)') \/ Tells(binding)'
  PROVE  RegistryOK'
  <1>1. \A t \in Sessions : t # s => ~Monitors(t)'
    BY DEF RegistryOK, Acts, Monitors
  <1>2. \A t, u \in Sessions : Monitors(t)' /\ Monitors(u)' => t = u
    BY <1>1
  <1>3. \A t \in Sessions : Monitors(t)' => MonitorFits(t)'
    BY <1>1
  <1>4. (\E t \in Sessions : Monitors(t)' /\ Checkpointed(t)') \/ Tells(binding)'
    OBVIOUS
  <1> QED
    BY <1>2, <1>3, <1>4 DEF RegistryOK

LEMMA QuietMonitorActs ==
  ASSUME TypeOK, NEW s \in Sessions, RegistryOK, Acts(s), Monitors(s), UNCHANGED <<binding, history>>,
         Monitors(s)' => MonitorFits(s)', (Monitors(s)' /\ Checkpointed(s)') \/ Tells(binding)
  PROVE  RegistryOK'
  <1>1. Tells(binding)' <=> Tells(binding)
    BY DEF Tells
  <1>2. Tells(NoBinding)'
    BY DEF Tells, RegistryOK
  <1>3. /\ binding'.epoch <= history'.epoch /\ history'.last[1] <= history'.epoch
        /\ binding'.epoch = 0 => binding' = NoBinding
    BY DEF RegistryOK
  <1> QED
    BY <1>1, <1>2, <1>3, MonitorActs

LEMMA BindingTells ==
  ASSUME NEW s \in Sessions, RegistryOK, Monitors(s), ~Checkpointed(s)
  PROVE  Tells(binding)
  BY DEF RegistryOK

LEMMA IssueRegistry ==
  ASSUME TypeOK, RegistryOK, NEW s \in Sessions, NEW cmd \in Commands, NEW lease \in Nat, NEW kind \in Kinds \cup {"none"},
         Issue(s, cmd, lease, kind), ~hazard'.overlap
  PROVE  RegistryOK'
  <1>1. Acts(s) /\ loc'[s].cmd = cmd /\ loc'[s].step = FirstStep(cmd) /\ loc'[s].lk = LockOf(cmd)
    BY IssueMoves, StartsCommand
  <1>2. UNCHANGED <<binding, history>> /\ ~Monitors(s)
    BY DEF Issue, Files, Running, Monitors
  <1>3. CASE cmd # "monitor"
    BY <1>1, <1>2, <1>3, OtherCommand DEF Monitors
  <1>4. CASE cmd = "monitor"
    <2> DEFINE e == hazard.overlap \/ (cmd = "monitor" /\ \E t \in Sessions : Monitors(t))
    <2>1. e \in BOOLEAN /\ hazard' = [hazard EXCEPT !.overlap = e]
      BY DEF Issue
    <2>2. ~e
      <3> HIDE DEF e
      <3> QED
        BY <2>1, Noted, Typed
    <2>3. \A t \in Sessions : ~Monitors(t)
      BY <1>4, <2>2
    <2>4. \A t \in Sessions : t # s => ~Monitors(t)'
      BY <1>1, <2>3 DEF Acts, Monitors
    <2>5. loc'[s].step = "registry" /\ loc'[s].lk = "bindings"
      BY <1>1, <1>4 DEF FirstStep, LockOf
    <2>6. MonitorFits(s)'
      BY <1>1, <1>4, <2>5 DEF MonitorFits, Checkpointed, At, Running
    <2>7. Tells(binding)' /\ Tells(NoBinding)'
      BY <1>2, <2>3 DEF RegistryOK, Tells
    <2>8. \A t, u \in Sessions : Monitors(t)' /\ Monitors(u)' => t = u
      BY <2>4
    <2>9. \A t \in Sessions : Monitors(t)' => MonitorFits(t)'
      BY <2>4, <2>6
    <2> QED
      BY <1>2, <2>7, <2>8, <2>9 DEF RegistryOK
  <1> QED
    BY <1>3, <1>4

\* A waiter for a lock goes on, to remove it, to try again or to hold it.
LEMMA WaiterActs ==
  ASSUME TypeOK, RegistryOK, NEW s \in Sessions, UNCHANGED <<binding, history>>, Acts(s),
         loc'[s].cmd = loc[s].cmd, loc'[s].lk = loc[s].lk, loc'[s].reg = loc[s].reg,
         At(s, "lock") \/ At(s, "unlink"), loc'[s].step \in {"lock", "unlink", "write"}
  PROVE  RegistryOK'
  <1>2. CASE ~Monitors(s)
    BY <1>2, OtherCommand DEF Monitors
  <1>3. CASE Monitors(s)
    <2>1. Checkpointed(s)' <=> Checkpointed(s)
      BY DEF Checkpointed, At, Running
    <2>2. Tells(loc[s].reg)' <=> Tells(loc[s].reg)
      BY DEF Tells
    <2>3. MonitorFits(s)
      BY <1>3 DEF RegistryOK
    <2>4. MonitorFits(s)'
      BY <1>3, <2>1, <2>2, <2>3 DEF MonitorFits, At, Running
    <2>5. (Monitors(s)' /\ Checkpointed(s)') \/ Tells(binding)
      BY <1>3, <2>1, BindingTells DEF Monitors
    <2> QED
      BY <1>3, <2>4, <2>5, QuietMonitorActs
  <1> QED
    BY <1>2, <1>3

LEMMA ReadingRegistry ==
  ASSUME TypeOK, AllFit, RegistryOK, NEW s \in Sessions, Previous(s) \/ Registry(s) \/ Observe(s) \/ Stale(s)
  PROVE  RegistryOK'
  <1> USE RegistryTypes
  <1>1. UNCHANGED <<binding, history>>
    BY DEF Previous, Registry, Observe, Stale, Stays, Files, Notes
  <1>2. CommandFits(s)
    BY DEF AllFit
  <1>3. CASE Previous(s)
    <2>1. /\ Acts(s) /\ loc'[s].step = "lock" /\ loc'[s].cmd = loc[s].cmd /\ loc'[s].lk = loc[s].lk
          /\ loc'[s].reg = loc[s].reg /\ At(s, "previous") /\ loc[s].lk = "handoff"
      BY <1>2, <1>3, PreviousMoves DEF Previous, CommandFits
    <2>2. CASE ~Monitors(s)
      BY <1>1, <2>1, <2>2, OtherCommand DEF Monitors
    <2>3. CASE Monitors(s)
      <3>1. MonitorFits(s)
        BY <2>3 DEF RegistryOK
      <3>2. MonitorFits(s)'
        BY <1>1, <2>1, <3>1 DEF MonitorFits, Checkpointed, At, Running
      <3>3. ~Checkpointed(s)
        BY <2>1 DEF Checkpointed, At
      <3> QED
        BY <1>1, <2>1, <2>3, <3>2, <3>3, BindingTells, QuietMonitorActs
    <2> QED
      BY <2>2, <2>3
  <1>4. CASE Registry(s)
    <2>1. Monitors(s) /\ At(s, "registry") /\ loc[s].lk = "bindings"
      BY <1>2, <1>4 DEF Registry, CommandFits
    <2>2. Tells(binding)
      BY <2>1, BindingTells DEF Checkpointed, At
    <2>3. CASE binding = NoBinding
      <3>1. Quits(s)
        BY <1>4, <2>3, RegistryMoves
      <3>2. Acts(s) /\ ~Monitors(s)'
        BY <3>1 DEF Quits, Monitors
      <3> QED
        BY <1>1, <2>1, <2>2, <3>2, QuietMonitorActs
    <2>4. CASE binding # NoBinding
      <3>1. /\ Acts(s) /\ loc'[s].step = "sessions" /\ loc'[s].cmd = loc[s].cmd /\ loc'[s].lk = loc[s].lk
            /\ loc'[s].reg = binding
        BY <1>4, <2>4, RegistryMoves
      <3>2. binding.epoch \in 1..history.epoch
        BY <2>4 DEF RegistryOK
      <3>3. MonitorFits(s)'
        BY <1>1, <2>1, <2>2, <3>1, <3>2 DEF MonitorFits, Checkpointed, At, Running, Tells
      <3> QED
        BY <1>1, <2>1, <2>2, <3>1, <3>3, QuietMonitorActs
    <2> QED
      BY <2>3, <2>4
  <1>5. CASE Observe(s)
    <2>1. Monitors(s) /\ At(s, "sessions") /\ loc[s].lk = "bindings"
      BY <1>2, <1>5 DEF Observe, CommandFits
    <2>2. Tells(binding)
      BY <2>1, BindingTells DEF Checkpointed, At
    <2>3. loc[s].reg.epoch \in 1..history.epoch /\ Tells(loc[s].reg)
      BY <2>1 DEF RegistryOK, MonitorFits, At
    <2>4. CASE Quits(s)
      <3>1. Acts(s) /\ ~Monitors(s)'
        BY <2>4 DEF Quits, Monitors
      <3> QED
        BY <1>1, <2>1, <2>2, <3>1, QuietMonitorActs
    <2>5. CASE /\ Acts(s) /\ loc'[s].step = "previous" /\ loc'[s].lk = "handoff" /\ loc'[s].cmd = loc[s].cmd
               /\ loc'[s].kind = loc[s].kind /\ loc'[s].reg.epoch = loc[s].reg.epoch
               /\ loc'[s].reg.last # loc[s].reg.last
      <3>1. <<loc'[s].reg.epoch, loc'[s].reg.last>> # history.last
        BY <2>3, <2>5 DEF Tells
      <3>2. MonitorFits(s)'
        BY <1>1, <2>3, <2>5, <3>1 DEF MonitorFits, Checkpointed, At, Running
      <3> QED
        BY <1>1, <2>1, <2>2, <2>5, <3>2, QuietMonitorActs
    <2>6. CASE /\ Acts(s) /\ loc'[s].step = "lock" /\ loc'[s].cmd = loc[s].cmd /\ loc'[s].lk = loc[s].lk
               /\ loc'[s].kind = loc[s].kind /\ loc'[s].reg = loc[s].reg
      <3>1. MonitorFits(s)'
        BY <1>1, <2>1, <2>3, <2>6 DEF MonitorFits, Checkpointed, At, Running, Tells
      <3> QED
        BY <1>1, <2>1, <2>2, <2>6, <3>1, QuietMonitorActs
    <2> QED
      BY <1>5, <2>4, <2>5, <2>6, ObserveMoves
  <1>6. CASE Stale(s)
    <2>1. /\ Acts(s) /\ loc'[s].step = "unlink" /\ loc'[s].cmd = loc[s].cmd /\ loc'[s].lk = loc[s].lk
          /\ loc'[s].reg = loc[s].reg /\ At(s, "lock")
      BY <1>6, StaleMoves DEF Stale
    <2> QED
      BY <1>1, <2>1, WaiterActs
  <1> QED
    BY <1>3, <1>4, <1>5, <1>6

LEMMA LockRegistry ==
  ASSUME TypeOK, AllFit, RegistryOK, NEW s \in Sessions, ~hazard'.died,
         Acquire(s) \/ Break(s) \/ TimesOut(s) \/ Leave(s) \/ Dies(s)
  PROVE  RegistryOK'
  <1> USE RegistryTypes
  <1>1. UNCHANGED <<binding, history>>
    BY DEF Acquire, Break, TimesOut, Leave, Dies, Files, Notes
  <1>2. CommandFits(s) /\ (Monitors(s) => MonitorFits(s))
    BY DEF AllFit, RegistryOK
  <1>3. CASE Acquire(s)
    <2>1. /\ Acts(s) /\ loc'[s].step = "write" /\ loc'[s].cmd = loc[s].cmd /\ loc'[s].lk = loc[s].lk
          /\ loc'[s].reg = loc[s].reg /\ At(s, "lock")
      BY <1>3, AcquireMoves DEF Acquire
    <2> QED
      BY <1>1, <2>1, WaiterActs
  <1>4. CASE Break(s)
    <2>1. /\ Acts(s) /\ loc'[s].step = "lock" /\ loc'[s].cmd = loc[s].cmd /\ loc'[s].lk = loc[s].lk
          /\ loc'[s].reg = loc[s].reg /\ At(s, "unlink")
      BY <1>4, StaleMoves DEF Break
    <2> QED
      BY <1>1, <2>1, WaiterActs
  <1>5. CASE TimesOut(s) \/ Dies(s)
    <2> DEFINE e == hazard.died \/ Monitors(s)
    <2>1. e \in BOOLEAN /\ hazard' = [hazard EXCEPT !.died = e]
      BY <1>5 DEF TimesOut, Dies
    <2>2. ~e
      <3> HIDE DEF e
      <3> QED
        BY <2>1, Noted, Typed
    <2>3. Acts(s) /\ ~Monitors(s)'
      BY <1>5, Quitting DEF TimesOut, Dies, Quits, Monitors
    <2> QED
      BY <1>1, <2>2, <2>3, OtherCommand
  <1>6. CASE Leave(s)
    <2>1. At(s, "leave")
      BY <1>6 DEF Leave
    <2>2. CASE ~Monitors(s)
      <3>1. Acts(s) /\ ~Monitors(s)'
        BY <1>6, <2>2, LeaveMoves DEF Quits, Monitors
      <3> QED
        BY <1>1, <2>2, <3>1, OtherCommand
    <2>3. CASE Monitors(s) /\ loc[s].lk = "handoff"
      <3>1. /\ Acts(s) /\ loc'[s].step = "lock" /\ loc'[s].lk = "bindings" /\ loc'[s].cmd = loc[s].cmd
            /\ loc'[s].reg = loc[s].reg
        BY <1>6, <2>3, LeaveMoves
      <3>2. Tells(loc[s].reg) /\ loc[s].reg.epoch \in 1..history.epoch
        BY <1>2, <2>1, <2>3 DEF MonitorFits, Checkpointed, At
      <3>3. MonitorFits(s)' /\ Monitors(s)' /\ Checkpointed(s)'
        BY <1>1, <2>1, <2>3, <3>1, <3>2 DEF MonitorFits, Checkpointed, At, Running, Tells, Monitors
      <3> QED
        BY <1>1, <2>3, <3>1, <3>3, QuietMonitorActs
    <2>4. CASE Monitors(s) /\ loc[s].lk # "handoff"
      <3>1. Acts(s) /\ ~Monitors(s)'
        BY <1>6, <2>4, LeaveMoves DEF Quits, Monitors
      <3>2. ~Checkpointed(s)
        BY <2>1, <2>4 DEF Checkpointed, At
      <3> QED
        BY <1>1, <2>4, <3>1, <3>2, BindingTells, QuietMonitorActs
    <2> QED
      BY <2>2, <2>3, <2>4
  <1> QED
    BY <1>3, <1>4, <1>5, <1>6

\* Only prepare_handoff() of a monitor, context_bind(), context_unbind() and the end of
\* monitor_context_bindings() touch the registry or the note of the last checkpoint.
LEMMA PrepareRegistry ==
  ASSUME TypeOK, AllFit, RegistryOK, NEW s \in Sessions, Prepare(s)
  PROVE  RegistryOK' /\ (history'.twice => history.twice)
  <1> USE RegistryTypes
  <1>1. Leaves(s) /\ Acts(s) /\ UNCHANGED binding /\ At(s, "write") /\ loc[s].lk = "handoff"
    BY PrepareWrites DEF Prepare, Leaves
  <1>2. loc'[s].step = "leave" /\ loc'[s].cmd = loc[s].cmd /\ loc'[s].lk = loc[s].lk /\ loc'[s].reg = loc[s].reg
    BY <1>1 DEF Leaves
  <1>3. CASE loc[s].cmd = "checkpoint"
    <2>1. UNCHANGED history
      BY <1>3, PrepareWrites
    <2> QED
      BY <1>1, <1>2, <1>3, <2>1, OtherCommand DEF Monitors
  <1>4. CASE loc[s].cmd # "checkpoint"
    <2>1. Monitors(s) /\ MonitorFits(s)
      BY <1>4 DEF Prepare, Monitors, RegistryOK
    <2>2. <<loc[s].reg.epoch, loc[s].reg.last>> # history.last /\ loc[s].reg.epoch \in 1..history.epoch
      BY <1>1, <2>1 DEF MonitorFits, At
    <2>3. /\ history'.epoch = history.epoch
          /\ history'.last = <<loc[s].reg.epoch, loc[s].reg.last>>
          /\ history'.twice => history.twice \/ <<loc[s].reg.epoch, loc[s].reg.last>> = history.last
      BY <1>4, PrepareWrites
    <2>4. history'.last[1] = loc[s].reg.epoch /\ history'.last[2] = loc[s].reg.last
      BY <2>3
    <2>5. Monitors(s)' /\ Checkpointed(s)'
      BY <1>1, <1>2, <2>1 DEF Monitors, Checkpointed, At, Running
    <2>6. MonitorFits(s)'
      BY <1>1, <1>2, <2>2, <2>3, <2>4 DEF MonitorFits, Checkpointed, At, Running, Tells
    <2>7. Tells(NoBinding)'
      BY <2>2, <2>4 DEF Tells
    <2>8. /\ binding'.epoch <= history'.epoch /\ history'.last[1] <= history'.epoch
          /\ binding'.epoch = 0 => binding' = NoBinding
      BY <1>1, <2>2, <2>3, <2>4 DEF RegistryOK
    <2>9. RegistryOK'
      BY <1>1, <2>1, <2>5, <2>6, <2>7, <2>8, MonitorActs
    <2> QED
      BY <2>2, <2>3, <2>9
  <1> QED
    BY <1>3, <1>4

\* Another command than the monitor writes the registry.
LEMMA RegistryRebound ==
  ASSUME TypeOK, NEW s \in Sessions, RegistryOK, Acts(s), ~Monitors(s), ~Monitors(s)',
         history'.last = history.last, history'.epoch \in Nat, history'.epoch >= history.epoch,
         binding'.epoch <= history'.epoch, binding'.epoch = 0 => binding' = NoBinding,
         Tells(binding)'
  PROVE  RegistryOK'
  <1> USE RegistryTypes
  <1>1. \A t \in Sessions : /\ Monitors(t)' <=> Monitors(t)
                            /\ Monitors(t) => loc'[t] = loc[t]
    BY DEF Acts, Monitors
  <1>2. ASSUME NEW t \in Sessions, Monitors(t)
        PROVE  MonitorFits(t)'
    <2>1. MonitorFits(t) /\ loc'[t] = loc[t]
      BY <1>1, <1>2 DEF RegistryOK
    <2> QED
      BY <2>1 DEF MonitorFits, Checkpointed, At, Running, Tells
  <1>3. Tells(NoBinding)'
    BY DEF RegistryOK, Tells
  <1>4. history'.last[1] <= history'.epoch
    BY DEF RegistryOK
  <1> QED
    BY <1>1, <1>2, <1>3, <1>4 DEF RegistryOK

LEMMA BindingRegistry ==
  ASSUME TypeOK, AllFit, RegistryOK, NEW s \in Sessions, Bind(s) \/ Unbind(s) \/ Merge(s)
  PROVE  RegistryOK' /\ history'.twice = history.twice
  <1> USE RegistryTypes
  <1>1. Leaves(s) /\ Acts(s) /\ At(s, "write") /\ history'.last = history.last /\ history'.twice = history.twice
    BY RegistryWrites DEF Bind, Unbind, Merge, Leaves
  <1>2. loc'[s].step = "leave" /\ loc'[s].cmd = loc[s].cmd /\ loc'[s].lk = loc[s].lk /\ loc'[s].reg = loc[s].reg
    BY <1>1 DEF Leaves
  <1>3. CASE Bind(s)
    <2>1. /\ ~Monitors(s) /\ ~Monitors(s)'
          /\ history'.epoch = history.epoch + 1 /\ binding'.epoch = history.epoch + 1
      BY <1>2, <1>3, RegistryWrites DEF Bind, Monitors
    <2>2. Tells(binding)'
      BY <1>1, <2>1 DEF Tells, RegistryOK
    <2> QED
      BY <1>1, <2>1, <2>2, RegistryRebound
  <1>4. CASE Unbind(s)
    <2>1. ~Monitors(s) /\ ~Monitors(s)' /\ binding' = NoBinding /\ history' = history
      BY <1>2, <1>4 DEF Unbind, Monitors, Notes
    <2>2. Tells(binding)'
      BY <2>1 DEF Tells, RegistryOK
    <2> QED
      BY <1>1, <2>1, <2>2, RegistryRebound
  <1>5. CASE Merge(s)
    <2>1. Monitors(s) /\ loc[s].lk = "bindings" /\ history' = history /\ (binding' = NoBinding \/ binding' = loc[s].reg)
      BY <1>5 DEF Merge, Notes, Merged
    <2>2. Tells(loc[s].reg) /\ loc[s].reg.epoch \in 1..history.epoch
      BY <1>1, <2>1 DEF RegistryOK, MonitorFits, Checkpointed, At
    <2>3. Tells(NoBinding)' /\ Tells(binding)'
      BY <2>1, <2>2 DEF RegistryOK, Tells
    <2>4. MonitorFits(s)'
      BY <1>1, <1>2, <2>1, <2>2 DEF MonitorFits, Checkpointed, At, Running, Tells
    <2>5. /\ binding'.epoch <= history'.epoch /\ history'.last[1] <= history'.epoch
          /\ binding'.epoch = 0 => binding' = NoBinding
      BY <2>1, <2>2 DEF RegistryOK
    <2> QED
      BY <1>1, <2>1, <2>3, <2>4, <2>5, MonitorActs
  <1> QED
    BY <1>3, <1>4, <1>5

LEMMA WriteRegistry ==
  ASSUME TypeOK, AllFit, RegistryOK, NEW s \in Sessions, WritesFile(s)
  PROVE  RegistryOK' /\ (history'.twice => history.twice)
  <1>1. CASE Prepare(s)
    BY <1>1, PrepareRegistry
  <1>2. CASE Bind(s) \/ Unbind(s) \/ Merge(s)
    BY <1>2, BindingRegistry
  <1>3. CASE Claim(s) \/ Release(s) \/ AcquireLane(s) \/ LaneStatus(s) \/ ReleaseLane(s)
    <2>1. UNCHANGED <<binding, history>>
      <3>1. CASE Claim(s)
        BY <3>1, ClaimWrites DEF Idles, Files, Notes
      <3>2. CASE Release(s)
        BY <3>2, ReleaseWrites DEF Idles, Files, Notes
      <3>3. CASE AcquireLane(s) \/ LaneStatus(s) \/ ReleaseLane(s)
        BY <3>3, LaneWrites DEF Notes
      <3> QED
        BY <1>3, <3>1, <3>2, <3>3
    <2>2. ~Monitors(s)
      BY <1>3 DEF Claim, Release, AcquireLane, LaneStatus, ReleaseLane, Monitors
    <2>3. Acts(s) /\ ~Monitors(s)'
      BY <2>2, WritersLeave DEF Leaves, Monitors
    <2> QED
      BY <2>1, <2>2, <2>3, OtherCommand
  <1> QED
    BY <1>1, <1>2, <1>3 DEF WritesFile

-----------------------------------------------------------------------------
(* Every step. *)

\* A command of main() with its arguments: leases that were given, kinds of lanes.
Begins(s) == \E cmd \in Commands, lease \in Nat, kind \in Kinds \cup {"none"} :
               Issue(s, cmd, lease, kind) /\ (cmd = "acquire" => kind \in Kinds)
Reads(s) == Previous(s) \/ Registry(s) \/ Observe(s) \/ Stale(s)
Handles(s) == Acquire(s) \/ Break(s) \/ TimesOut(s) \/ Leave(s) \/ Dies(s)
World == Advance \/ (\E lease \in 1..budget.leases : Expire(lease)) \/ (\E k \in Locks : Ages(k))

LEMMA NextSplits ==
  ASSUME TypeOK, Next
  PROVE  (\E s \in Sessions : Begins(s) \/ Reads(s) \/ Handles(s) \/ WritesFile(s)) \/ World
  <1>1. ASSUME NEW s \in Sessions, NEW cmd \in Plain, Issue(s, cmd, 0, "none") PROVE Begins(s)
    <2>1. cmd \in Commands /\ cmd # "acquire" /\ 0 \in Nat
      BY DEF Plain
    <2> QED
      BY <1>1, <2>1 DEF Begins
  <1>2. ASSUME NEW s \in Sessions, NEW h \in held[s], Issue(s, "release", h.lease, "none") PROVE Begins(s)
    <2>1. h.lease \in Nat /\ "release" \in Commands
      BY ClaimTypes DEF Commands
    <2> QED
      BY <1>2, <2>1 DEF Begins
  <1>3. ASSUME NEW s \in Sessions, NEW kind \in Kinds, Issue(s, "acquire", 0, kind) PROVE Begins(s)
    <2>1. 0 \in Nat /\ "acquire" \in Commands
      BY DEF Commands
    <2> QED
      BY <1>3, <2>1 DEF Begins
  <1>4. ASSUME NEW s \in Sessions, NEW l \in lanes, Issue(s, "free", l.lease, "none") PROVE Begins(s)
    <2>1. l.lease \in Nat /\ "free" \in Commands
      BY Typed DEF Commands, Lane
    <2> QED
      BY <1>4, <2>1 DEF Begins
  <1>5. CASE Advance \/ (\E lease \in 1..budget.leases : Expire(lease)) \/ (\E k \in Locks : Ages(k))
    BY <1>5 DEF World
  <1>6. ASSUME NEW s \in Sessions,
               Previous(s) \/ Registry(s) \/ Observe(s) \/ Acquire(s) \/ Stale(s) \/ Break(s) \/ TimesOut(s) \/ Leave(s)
                 \/ Prepare(s) \/ Claim(s) \/ Release(s) \/ Bind(s) \/ Unbind(s) \/ Merge(s)
                 \/ AcquireLane(s) \/ LaneStatus(s) \/ ReleaseLane(s) \/ Dies(s)
        PROVE  Reads(s) \/ Handles(s) \/ WritesFile(s)
    BY <1>6 DEF Reads, Handles, WritesFile
  <1> QED
    BY <1>1, <1>2, <1>3, <1>4, <1>5, <1>6 DEF Next

\* No step forgets that a lock was taken from a live holder, that monitors overlapped or that one was cut off.
Remembers == /\ hazard.broken => hazard'.broken
             /\ hazard.overlap => hazard'.overlap
             /\ hazard.died => hazard'.died

LEMMA Remembering ==
  ASSUME TypeOK, AllFit, (\E s \in Sessions : Begins(s) \/ Reads(s) \/ Handles(s) \/ WritesFile(s)) \/ World
  PROVE  Remembers
  <1>1. hazard \in Hazards
    BY Typed
  <1>2. ASSUME NEW e \in BOOLEAN, hazard' = [hazard EXCEPT !.overlap = e], hazard.overlap => e PROVE Remembers
    BY <1>1, <1>2, Noted DEF Remembers
  <1>3. ASSUME NEW e \in BOOLEAN, hazard' = [hazard EXCEPT !.broken = e], hazard.broken => e PROVE Remembers
    BY <1>1, <1>3, Noted DEF Remembers
  <1>4. ASSUME NEW e \in BOOLEAN, hazard' = [hazard EXCEPT !.died = e], hazard.died => e PROVE Remembers
    BY <1>1, <1>4, Noted DEF Remembers
  <1>5. UNCHANGED hazard => Remembers
    BY DEF Remembers
  <1>6. ASSUME NEW s \in Sessions, Begins(s) PROVE Remembers
    <2>1. PICK cmd \in Commands, lease \in Nat, kind \in Kinds \cup {"none"} : Issue(s, cmd, lease, kind)
      BY <1>6 DEF Begins
    <2> DEFINE e == hazard.overlap \/ (cmd = "monitor" /\ \E t \in Sessions : Monitors(t))
    <2>2. e \in BOOLEAN /\ hazard' = [hazard EXCEPT !.overlap = e] /\ (hazard.overlap => e)
      BY <2>1, <1>1 DEF Issue, Hazards
    <2> HIDE DEF e
    <2> QED
      BY <1>2, <2>2
  <1>7. ASSUME NEW s \in Sessions, Reads(s) PROVE Remembers
    BY <1>5, <1>7 DEF Reads, Previous, Registry, Observe, Stale, Stays, Notes
  <1>8. ASSUME NEW s \in Sessions, Handles(s) PROVE Remembers
    <2>1. CASE Acquire(s) \/ Leave(s)
      BY <1>5, <2>1 DEF Acquire, Leave, Notes
    <2>2. CASE Break(s)
      <3> DEFINE e == hazard.broken \/ \E t \in Sessions : lock[loc[s].lk].by = t /\ Critical(t) /\ loc[t].lk = loc[s].lk
      <3>1. e \in BOOLEAN /\ hazard' = [hazard EXCEPT !.broken = e] /\ (hazard.broken => e)
        BY <1>1, <2>2 DEF Break, Hazards
      <3> HIDE DEF e
      <3> QED
        BY <1>3, <3>1
    <2>3. CASE TimesOut(s) \/ Dies(s)
      <3> DEFINE e == hazard.died \/ Monitors(s)
      <3>1. e \in BOOLEAN /\ hazard' = [hazard EXCEPT !.died = e] /\ (hazard.died => e)
        BY <2>3 DEF TimesOut, Dies
      <3> HIDE DEF e
      <3> QED
        BY <1>4, <3>1
    <2> QED
      BY <1>8, <2>1, <2>2, <2>3 DEF Handles
  <1>9. ASSUME NEW s \in Sessions, WritesFile(s) PROVE Remembers
    BY <1>5, <1>9, WritersLeave
  <1>10. CASE World
    BY <1>5, <1>10 DEF World, Advance, Expire, Ages, Notes
  <1> QED
    BY <1>6, <1>7, <1>8, <1>9, <1>10

-----------------------------------------------------------------------------
(* The invariant, step by step. *)

\* HandoffInv with its parts named for the lemmas above.
Calmly == Calm => RegistryOK /\ ~history.twice
Intact == ~hazard.broken => AllHold /\ Claims /\ LanesOK

LEMMA InvariantParts == HandoffInv <=> TypeOK /\ AllFit /\ Intact /\ Calmly /\ ReadIsCurrent
  <1>1. (FilesFit /\ OneLiveWorker /\ ResultOfItsHandoff /\ LanesAreBounded) <=> Intact
    <2>1. OneLiveWorker <=> (~hazard.broken => SingleWorkers)
      BY DEF OneLiveWorker, SingleWorkers
    <2>2. ResultOfItsHandoff <=> (~hazard.broken => TrueResults)
      BY DEF ResultOfItsHandoff, TrueResults
    <2>3. LanesAreBounded <=> (~hazard.broken => Bounded)
      BY DEF LanesAreBounded, Bounded, Of
    <2>4. FilesFit <=> (~hazard.broken => AllHold /\ ClaimsFit /\ LanesFit)
      BY DEF FilesFit, AllHold
    <2> QED
      BY <2>1, <2>2, <2>3, <2>4 DEF Intact, Claims, LanesOK
  <1>2. (RegistryFits /\ CheckpointOnce) <=> Calmly
    <2>1. RegistryFits <=> (Calm => RegistryOK)
      BY DEF RegistryFits, Calm, RegistryOK
    <2>2. CheckpointOnce <=> (Calm => ~history.twice)
      BY DEF CheckpointOnce, Calm
    <2> QED
      BY <2>1, <2>2 DEF Calmly
  <1> QED
    BY <1>1, <1>2 DEF HandoffInv, AllFit

\* Under its lock a command of the registry has read the registry of the file.
LEMMA CopyOfRegistry ==
  ASSUME AllHold, TypeOK, NEW s \in Sessions, At(s, "write"), loc[s].lk = "bindings"
  PROVE  loc[s].copy.bindings = binding
  <1>1. loc[s].copy = Copy("bindings") /\ "bindings" \in Locks
    BY DEF AllHold, HolderFits, At, Locks
  <1> QED
    BY <1>1, CopyIsReading

\* What a monitor holds of the registry it held before, or has just read.
Carries(t) == Informed(t)' => (Informed(t) /\ loc'[t].reg.epoch = loc[t].reg.epoch) \/ loc'[t].reg = binding

LEMMA OthersCarry ==
  ASSUME NEW s \in Sessions, Acts(s), Carries(s)
  PROVE  \A t \in Sessions : Carries(t)
  BY DEF Acts, Carries, Informed, Monitors

LEMMA BeginsCarries ==
  ASSUME TypeOK, NEW s \in Sessions, Begins(s)
  PROVE  \A t \in Sessions : Carries(t)
  <1>1. PICK cmd \in Commands, lease \in Nat, kind \in Kinds \cup {"none"} : Issue(s, cmd, lease, kind)
    BY DEF Begins
  <1>2. Acts(s) /\ loc'[s].cmd = cmd /\ loc'[s].step = FirstStep(cmd)
    BY <1>1, IssueMoves, StartsCommand
  <1>3. ~Informed(s)'
    BY <1>2 DEF Informed, Monitors, FirstStep
  <1> QED
    BY <1>2, <1>3, OthersCarry DEF Carries

LEMMA ReadingCarries ==
  ASSUME TypeOK, NEW s \in Sessions, Reads(s)
  PROVE  \A t \in Sessions : Carries(t)
  <1>1. CASE Previous(s) \/ Stale(s)
    <2>1. Acts(s) /\ loc'[s].cmd = loc[s].cmd /\ loc'[s].reg = loc[s].reg
      BY <1>1, PreviousMoves, StaleMoves DEF Stale
    <2>2. loc[s].step # "registry"
      BY <1>1 DEF Previous, Stale, At
    <2> QED
      BY <2>1, <2>2, OthersCarry DEF Carries, Informed, Monitors
  <1>2. CASE Registry(s)
    <2>1. Acts(s) /\ (loc'[s].cmd = "idle" \/ loc'[s].reg = binding)
      BY <1>2, RegistryMoves DEF Quits
    <2> QED
      BY <2>1, OthersCarry DEF Carries, Informed, Monitors
  <1>3. CASE Observe(s)
    <2>1. Acts(s) /\ (loc'[s].cmd = "idle" \/ (loc'[s].cmd = loc[s].cmd /\ loc'[s].reg.epoch = loc[s].reg.epoch))
      BY <1>3, ObserveMoves DEF Quits
    <2>2. loc[s].step # "registry"
      BY <1>3 DEF Observe, At
    <2> QED
      BY <2>1, <2>2, OthersCarry DEF Carries, Informed, Monitors
  <1> QED
    BY <1>1, <1>2, <1>3 DEF Reads

LEMMA HandlingCarries ==
  ASSUME TypeOK, NEW s \in Sessions, Handles(s)
  PROVE  \A t \in Sessions : Carries(t)
  <1>1. CASE Acquire(s) \/ Break(s)
    <2>1. Acts(s) /\ loc'[s].cmd = loc[s].cmd /\ loc'[s].reg = loc[s].reg
      BY <1>1, AcquireMoves, StaleMoves DEF Break
    <2>2. loc[s].step # "registry"
      BY <1>1 DEF Acquire, Break, At
    <2> QED
      BY <2>1, <2>2, OthersCarry DEF Carries, Informed, Monitors
  <1>2. CASE TimesOut(s) \/ Dies(s)
    <2>1. Acts(s) /\ ~Informed(s)'
      BY <1>2, Quitting DEF TimesOut, Dies, Quits, Informed, Monitors
    <2> QED
      BY <2>1, OthersCarry DEF Carries
  <1>3. CASE Leave(s)
    <2>1. Acts(s) /\ (loc'[s].cmd = "idle" \/ (loc'[s].cmd = loc[s].cmd /\ loc'[s].reg = loc[s].reg))
      BY <1>3, LeaveMoves DEF Quits
    <2>2. loc[s].step # "registry"
      BY <1>3 DEF Leave, At
    <2> QED
      BY <2>1, <2>2, OthersCarry DEF Carries, Informed, Monitors
  <1> QED
    BY <1>1, <1>2, <1>3 DEF Handles

LEMMA WritingCarries ==
  ASSUME TypeOK, AllFit, NEW s \in Sessions, WritesFile(s)
  PROVE  \A t \in Sessions : Carries(t)
  <1>1. Leaves(s) /\ At(s, "write")
    BY WritersLeave
  <1>2. Acts(s) /\ loc'[s].cmd = loc[s].cmd /\ loc'[s].reg = loc[s].reg /\ loc[s].step # "registry"
    BY <1>1 DEF Leaves, At
  <1> QED
    BY <1>2, OthersCarry DEF Carries, Informed, Monitors

\* The binding is written by bind, unbind and the monitor, and the last one goes by what it holds.
Sets == \/ /\ binding' = binding /\ history'.epoch = history.epoch /\ history'.overtaken = history.overtaken
        \/ binding' = NoBinding /\ history' = history
        \/ /\ binding'.epoch = history.epoch + 1 /\ history'.epoch = history.epoch + 1
           /\ (\E t \in Sessions : Informed(t)) => history'.overtaken
           /\ \A t \in Sessions : Informed(t)' => Informed(t)
        \/ /\ \E t \in Sessions : Merge(t)
           /\ history' = history

LEMMA StepSets ==
  ASSUME TypeOK, AllFit, (\E s \in Sessions : Begins(s) \/ Reads(s) \/ Handles(s) \/ WritesFile(s)) \/ World
  PROVE  Sets /\ \A t \in Sessions : Carries(t)
  <1>1. ASSUME NEW s \in Sessions, Begins(s) \/ Reads(s) \/ Handles(s) PROVE Sets /\ \A t \in Sessions : Carries(t)
    <2>1. UNCHANGED <<binding, history>>
      BY <1>1 DEF Begins, Issue, Reads, Previous, Registry, Observe, Stale, Stays, Notes,
                  Handles, Acquire, Break, TimesOut, Leave, Dies, Files
    <2> QED
      BY <1>1, <2>1, BeginsCarries, ReadingCarries, HandlingCarries DEF Sets
  <1>2. ASSUME NEW s \in Sessions, WritesFile(s) PROVE Sets
    <2>1. CASE Prepare(s)
      BY <2>1, PrepareWrites DEF Sets
    <2>2. CASE Claim(s) \/ Release(s) \/ AcquireLane(s) \/ LaneStatus(s) \/ ReleaseLane(s)
      BY <2>2, ClaimWrites, ReleaseWrites, LaneWrites DEF Idles, Notes, Files, Sets
    <2>3. CASE Bind(s)
      <3>1. \A t \in Sessions : Informed(t)' => Informed(t)
        BY <2>3, RegistryWrites DEF Leaves, Acts, Informed, Monitors, Bind, At
      <3> QED
        BY <2>3, <3>1, RegistryWrites DEF Sets
    <2>4. CASE Unbind(s)
      BY <2>4 DEF Unbind, Notes, Sets
    <2>5. CASE Merge(s)
      BY <2>5 DEF Merge, Notes, Sets
    <2> QED
      BY <1>2, <2>1, <2>2, <2>3, <2>4, <2>5 DEF WritesFile
  <1>3. CASE World
    BY <1>3 DEF World, Advance, Expire, Ages, Files, Notes, Sets, Carries, Informed, Monitors
  <1> QED
    BY <1>1, <1>2, <1>3, WritingCarries

\* What the monitor writes back is the binding it found, unless it was bound again.
LEMMA MergeKeeps ==
  ASSUME TypeOK, AllHold, ReadIsCurrent, ~hazard.broken, NEW s \in Sessions, Merge(s)
  PROVE  /\ binding = NoBinding => binding' = NoBinding
         /\ ~history.overtaken => binding'.epoch = binding.epoch
  <1>1. loc[s].copy.bindings = binding
    BY CopyOfRegistry DEF Merge
  <1>2. Informed(s)
    BY DEF Merge, Informed, At
  <1>3. ~history.overtaken => binding = NoBinding \/ loc[s].reg.epoch = binding.epoch
    BY <1>2 DEF ReadIsCurrent
  <1> QED
    BY <1>1, <1>3 DEF Merge, Merged

LEMMA MergeIsNotNewer ==
  ASSUME TypeOK, ReadIsCurrent, NEW s \in Sessions, Merge(s)
  PROVE  binding'.epoch <= history.epoch
  <1>1. Informed(s)
    BY DEF Merge, Informed, At
  <1>2. loc[s].reg.epoch <= history.epoch /\ NoBinding.epoch <= history.epoch
    BY <1>1, RegistryTypes DEF ReadIsCurrent
  <1> QED
    BY <1>2 DEF Merge, Merged

\* Before the operator binds again a monitor holds the binding of the file, and no binding is
\* newer than the last one made.
LEMMA StepCurrent ==
  ASSUME TypeOK, AllFit, ReadIsCurrent, Sets, \A t \in Sessions : Carries(t),
         hazard.broken => hazard'.broken, ~hazard.broken => AllHold
  PROVE  ReadIsCurrent'
  <1>1. /\ history.epoch \in Nat /\ binding.epoch \in Nat /\ NoBinding.epoch = 0
        /\ \A t \in Sessions : loc[t].reg.epoch \in Nat
    BY RegistryTypes
  <1>2. binding'.epoch <= history'.epoch /\ history.epoch <= history'.epoch
    BY <1>1, MergeIsNotNewer DEF Sets, ReadIsCurrent
  <1>3. history'.epoch \in Nat
    BY <1>1 DEF Sets
  <1>4. ASSUME NEW t \in Sessions, Informed(t)' PROVE loc'[t].reg.epoch <= history'.epoch
    <2>1. CASE Informed(t) /\ loc'[t].reg.epoch = loc[t].reg.epoch
      BY <1>1, <1>2, <1>3, <2>1 DEF ReadIsCurrent
    <2>2. CASE loc'[t].reg = binding
      BY <1>1, <1>2, <1>3, <2>2 DEF ReadIsCurrent
    <2> QED
      BY <1>4, <2>1, <2>2 DEF Carries
  <1>5. ASSUME ~hazard'.broken, ~history'.overtaken, NEW t \in Sessions, Informed(t)'
        PROVE  binding' = NoBinding \/ loc'[t].reg.epoch = binding'.epoch
    <2>1. AllHold /\ ~hazard.broken
      BY <1>5
    <2>2. CASE ~history.overtaken /\ (binding' = NoBinding \/ (binding # NoBinding /\ binding'.epoch = binding.epoch))
      <3>1. CASE Informed(t) /\ loc'[t].reg.epoch = loc[t].reg.epoch
        BY <2>1, <2>2, <3>1 DEF ReadIsCurrent
      <3>2. CASE loc'[t].reg = binding
        BY <2>2, <3>2
      <3> QED
        BY <1>5, <3>1, <3>2 DEF Carries
    <2>3. CASE binding' = binding /\ history'.overtaken = history.overtaken
      BY <1>5, <2>2, <2>3
    <2>4. CASE binding' = NoBinding
      BY <2>4
    <2>5. CASE /\ (\E u \in Sessions : Informed(u)) => history'.overtaken
               /\ \A u \in Sessions : Informed(u)' => Informed(u)
      BY <1>5, <2>5
    <2>6. CASE history' = history /\ \E u \in Sessions : Merge(u)
      <3>1. PICK u \in Sessions : Merge(u)
        BY <2>6
      <3> QED
        BY <1>5, <2>1, <2>2, <2>6, <3>1, MergeKeeps
    <2> QED
      BY <2>3, <2>4, <2>5, <2>6 DEF Sets
  <1> QED
    BY <1>2, <1>4, <1>5 DEF ReadIsCurrent

\* Types and the lock of each command hold after every step.
LEMMA StepTypes ==
  ASSUME TypeOK, AllFit, (\E s \in Sessions : Begins(s) \/ Reads(s) \/ Handles(s) \/ WritesFile(s)) \/ World
  PROVE  TypeOK' /\ AllFit'
  <1>1. ASSUME NEW s \in Sessions, Begins(s) PROVE TypeOK' /\ AllFit'
    BY <1>1, IssueTypes DEF Begins
  <1>2. ASSUME NEW s \in Sessions, Reads(s) PROVE TypeOK' /\ AllFit'
    BY <1>2, ReadingTypes DEF Reads
  <1>3. ASSUME NEW s \in Sessions, Handles(s) PROVE TypeOK' /\ AllFit'
    BY <1>3, LockTypes DEF Handles
  <1>4. ASSUME NEW s \in Sessions, WritesFile(s) PROVE TypeOK' /\ AllFit'
    BY <1>4, WriteTypes
  <1>5. CASE World
    BY <1>5, WorldTypes DEF World
  <1> QED
    BY <1>1, <1>2, <1>3, <1>4, <1>5

\* A step that writes neither the handoff nor the lanes.
LEMMA LeasesRest ==
  ASSUME TypeOK, Claims, LanesOK, UNCHANGED <<handoff, lanes, held, results, expired>>,
         budget'.leases = budget.leases, budget'.handoffs = budget.handoffs
  PROVE  Claims' /\ LanesOK'
  <1>1. budget.leases \in Nat /\ budget.handoffs \in Nat
    BY ClaimTypes
  <1>2. \A lease \in expired' : lease <= budget'.leases
    BY DEF Claims, ClaimsFit
  <1> QED
    BY <1>1, <1>2, ClaimsStay, LanesStay

LEMMA WriteClaims ==
  ASSUME TypeOK, AllFit, AllHold, Claims, LanesOK, NEW s \in Sessions, WritesFile(s)
  PROVE  Claims' /\ LanesOK'
  <1>1. expired' = expired
    BY WritersLeave
  <1>2. CASE Prepare(s) \/ Claim(s) \/ Release(s)
    <2>1. Claims'
      BY <1>2, PrepareClaims, ClaimClaims, ReleaseClaims
    <2>2. UNCHANGED lanes
      <3>1. CASE Prepare(s)
        BY <3>1, PrepareWrites
      <3>2. CASE Claim(s)
        BY <3>2, ClaimWrites DEF Idles, Files
      <3>3. CASE Release(s)
        BY <3>3, ReleaseWrites DEF Idles, Files
      <3> QED
        BY <1>2, <3>1, <3>2, <3>3
    <2> QED
      BY <1>1, <2>1, <2>2, LanesStay
  <1>3. CASE Bind(s) \/ Unbind(s) \/ Merge(s)
    BY <1>1, <1>3, RegistryWrites, LeasesRest
  <1>4. CASE AcquireLane(s) \/ LaneStatus(s) \/ ReleaseLane(s)
    <2>1. /\ UNCHANGED <<handoff, held, results>> /\ budget' \in Budgets
          /\ budget'.leases >= budget.leases /\ budget'.handoffs = budget.handoffs
      BY <1>4, LaneWrites DEF Notes
    <2>2. /\ budget'.leases \in Nat /\ budget'.handoffs \in Nat
          /\ budget.leases \in Nat /\ budget.handoffs \in Nat
      BY <2>1, Counted, ClaimTypes
    <2>3. \A lease \in expired' : lease \in Nat /\ lease <= budget.leases
      BY <1>1, Typed DEF Claims, ClaimsFit
    <2>4. \A lease \in expired' : lease <= budget'.leases
      BY <2>1, <2>2, <2>3
    <2>5. Claims'
      BY <1>1, <2>1, <2>2, <2>4, ClaimsStay
    <2> QED
      BY <1>4, <2>5, WriteLanes
  <1> QED
    BY <1>2, <1>3, <1>4 DEF WritesFile

\* While no lock is taken from a live holder, holders, claims and lanes stay as they should be.
LEMMA StepIntact ==
  ASSUME TypeOK, AllFit, AllHold, Claims, LanesOK, ~hazard'.broken,
         (\E s \in Sessions : Begins(s) \/ Reads(s) \/ Handles(s) \/ WritesFile(s)) \/ World
  PROVE  AllHold' /\ Claims' /\ LanesOK'
  <1>1. budget \in Budgets
    BY Typed
  <1>2. budget' \in {budget, [budget EXCEPT !.commands = @ + 1], [budget EXCEPT !.faults = @ + 1]}
          => budget'.leases = budget.leases /\ budget'.handoffs = budget.handoffs
    BY <1>1, Counted
  <1>3. ASSUME NEW s \in Sessions, Begins(s) PROVE AllHold' /\ Claims' /\ LanesOK'
    <2>1. PICK cmd \in Commands, lease \in Nat, kind \in Kinds \cup {"none"} : Issue(s, cmd, lease, kind)
      BY <1>3 DEF Begins
    <2>2. UNCHANGED <<handoff, lanes, held, results, expired>> /\ budget' = [budget EXCEPT !.commands = @ + 1]
      BY <2>1 DEF Issue, Files
    <2> QED
      BY <1>2, <2>1, <2>2, IssueHolds, LeasesRest
  <1>4. ASSUME NEW s \in Sessions, Reads(s) PROVE AllHold' /\ Claims' /\ LanesOK'
    <2>1. UNCHANGED <<handoff, lanes, held, results, expired, budget>>
      BY <1>4 DEF Reads, Previous, Registry, Observe, Stale, Stays, Files, Notes
    <2> QED
      BY <1>4, <2>1, ReadingHolds, LeasesRest DEF Reads
  <1>5. ASSUME NEW s \in Sessions, Handles(s) PROVE AllHold' /\ Claims' /\ LanesOK'
    <2>1. UNCHANGED <<handoff, lanes, held, results, expired>>
      BY <1>5 DEF Handles, Acquire, Break, TimesOut, Leave, Dies, Files, Notes
    <2>2. budget' = budget \/ budget' = [budget EXCEPT !.faults = @ + 1]
      BY <1>5 DEF Handles, Acquire, Break, TimesOut, Leave, Dies, Fault
    <2> QED
      BY <1>2, <1>5, <2>1, <2>2, LockHolds, LeasesRest DEF Handles
  <1>6. ASSUME NEW s \in Sessions, WritesFile(s) PROVE AllHold' /\ Claims' /\ LanesOK'
    BY <1>6, WriteHolds, WriteClaims
  <1>7. CASE World
    <2>1. AllHold'
      BY <1>7, WorldHolds DEF World
    <2>2. UNCHANGED <<handoff, lanes, held, results>>
      BY <1>7 DEF World, Advance, Expire, Ages, Files, Notes
    <2>3. CASE Advance \/ \E k \in Locks : Ages(k)
      <3>1. UNCHANGED expired /\ (budget' = budget \/ budget' = [budget EXCEPT !.faults = @ + 1])
        BY <2>3 DEF Advance, Ages, Fault
      <3> QED
        BY <1>2, <2>1, <2>2, <3>1, LeasesRest
    <2>4. CASE \E lease \in 1..budget.leases : Expire(lease)
      <3>1. PICK lease \in 1..budget.leases : Expire(lease)
        BY <2>4
      <3>2. expired' = expired \cup {lease} /\ UNCHANGED budget
        BY <3>1 DEF Expire
      <3>3. budget.leases \in Nat /\ budget.handoffs \in Nat
        BY ClaimTypes
      <3>4. \A x \in expired' : x <= budget'.leases
        BY <3>1, <3>2, <3>3 DEF Claims, ClaimsFit
      <3> QED
        BY <2>1, <2>2, <3>2, <3>3, <3>4, ClaimsStay, LanesStay
    <2> QED
      BY <1>7, <2>3, <2>4 DEF World
  <1> QED
    BY <1>3, <1>4, <1>5, <1>6, <1>7

\* While no monitors overlap and none is cut off, the registry and the one monitor tell of the
\* last checkpoint, and no checkpoint is made twice.
LEMMA StepCalmly ==
  ASSUME TypeOK, AllFit, RegistryOK, ~hazard'.overlap, ~hazard'.died,
         (\E s \in Sessions : Begins(s) \/ Reads(s) \/ Handles(s) \/ WritesFile(s)) \/ World
  PROVE  RegistryOK' /\ (history'.twice => history.twice)
  <1>1. ASSUME NEW s \in Sessions, Begins(s) PROVE RegistryOK' /\ UNCHANGED history
    <2>1. PICK cmd \in Commands, lease \in Nat, kind \in Kinds \cup {"none"} : Issue(s, cmd, lease, kind)
      BY <1>1 DEF Begins
    <2> QED
      BY <2>1, IssueRegistry DEF Issue
  <1>2. ASSUME NEW s \in Sessions, Reads(s) PROVE RegistryOK' /\ UNCHANGED history
    <2>1. UNCHANGED history
      BY <1>2 DEF Reads, Previous, Registry, Observe, Stale, Stays, Notes
    <2> QED
      BY <1>2, <2>1, ReadingRegistry DEF Reads
  <1>3. ASSUME NEW s \in Sessions, Handles(s) PROVE RegistryOK' /\ UNCHANGED history
    <2>1. UNCHANGED history
      BY <1>3 DEF Handles, Acquire, Break, TimesOut, Leave, Dies, Notes
    <2> QED
      BY <1>3, <2>1, LockRegistry DEF Handles
  <1>4. ASSUME NEW s \in Sessions, WritesFile(s) PROVE RegistryOK' /\ (history'.twice => history.twice)
    BY <1>4, WriteRegistry
  <1>5. CASE World
    <2>1. UNCHANGED <<binding, history, loc>>
      BY <1>5 DEF World, Advance, Expire, Ages, Files, Notes
    <2> QED
      BY <2>1, RegistryStays
  <1> QED
    BY <1>1, <1>2, <1>3, <1>4, <1>5

LEMMA NextKeeps ==
  ASSUME HandoffInv, Next
  PROVE  HandoffInv'
  <1>1. TypeOK /\ AllFit /\ Intact /\ Calmly /\ ReadIsCurrent
    BY InvariantParts
  <1>2. (\E s \in Sessions : Begins(s) \/ Reads(s) \/ Handles(s) \/ WritesFile(s)) \/ World
    BY <1>1, NextSplits
  <1>3. TypeOK' /\ AllFit' /\ Remembers
    BY <1>1, <1>2, StepTypes, Remembering
  <1>4. Intact'
    <2>1. SUFFICES ASSUME ~hazard'.broken PROVE AllHold' /\ Claims' /\ LanesOK'
      BY DEF Intact
    <2>2. AllHold /\ Claims /\ LanesOK
      BY <1>1, <1>3, <2>1 DEF Remembers, Intact
    <2> QED
      BY <1>1, <1>2, <2>1, <2>2, StepIntact
  <1>5. Calmly'
    <2>1. SUFFICES ASSUME ~hazard'.overlap, ~hazard'.died PROVE RegistryOK' /\ ~history'.twice
      BY DEF Calmly, Calm
    <2>2. RegistryOK /\ ~history.twice
      BY <1>1, <1>3, <2>1 DEF Remembers, Calmly, Calm
    <2> QED
      BY <1>1, <1>2, <2>1, <2>2, StepCalmly
  <1>6. ReadIsCurrent'
    <2>1. Sets /\ \A t \in Sessions : Carries(t)
      BY <1>1, <1>2, StepSets
    <2>2. (hazard.broken => hazard'.broken) /\ (~hazard.broken => AllHold)
      BY <1>1, <1>3 DEF Remembers, Intact
    <2> QED
      BY <1>1, <1>3, <2>1, <2>2, StepCurrent
  <1>7. (TypeOK /\ AllFit /\ Intact /\ Calmly /\ ReadIsCurrent)'
    BY <1>3, <1>4, <1>5, <1>6
  <1> QED
    BY <1>7, InvariantParts, PTL

LEMMA StutterKeeps ==
  ASSUME HandoffInv, UNCHANGED vars
  PROVE  HandoffInv'
  <1> USE DEF vars
  <1>1. TypeOK /\ AllFit /\ Intact /\ Calmly /\ ReadIsCurrent
    BY InvariantParts
  <1>2. TypeOK' /\ AllFit'
    BY <1>1 DEF TypeOK, AllFit, CommandFits, Running, At, Monitors
  <1>3. Intact'
    <2>1. ASSUME AllHold PROVE AllHold'
      <3>1. ASSUME NEW t \in Sessions PROVE HolderFits(t)'
        BY <2>1, HolderStays DEF AllHold, Kept
      <3> QED
        BY <3>1 DEF AllHold
    <2>2. ASSUME Claims, LanesOK PROVE Claims' /\ LanesOK'
      BY <1>1, <2>2, LeasesRest
    <2> QED
      BY <1>1, <2>1, <2>2 DEF Intact
  <1>4. Calmly'
    <2>1. ASSUME RegistryOK PROVE RegistryOK'
      BY <2>1, RegistryStays
    <2> QED
      BY <1>1, <2>1 DEF Calmly, Calm
  <1>5. ReadIsCurrent'
    BY <1>1 DEF ReadIsCurrent, Informed, Monitors
  <1>6. (TypeOK /\ AllFit /\ Intact /\ Calmly /\ ReadIsCurrent)'
    BY <1>2, <1>3, <1>4, <1>5
  <1> QED
    BY <1>6, InvariantParts, PTL

LEMMA InitHolds ==
  ASSUME Init
  PROVE  HandoffInv
  <1> USE EmptyFiles
  <1>1. \A s \in Sessions : loc[s] = Idle /\ ~Running(s) /\ held[s] = {}
    BY IdleIsProgress DEF Init, Running
  <1>2. TypeOK
    <2>1. handoff \in Handoff /\ binding \in Binding /\ lanes \in SUBSET Lane /\ rev \in Nat /\ does \in Programs
      BY DEF Init
    <2>2. lock \in [Locks -> Holder]
      BY DEF Init, Free, Holder
    <2>3. loc \in [Sessions -> Progress]
      BY IdleIsProgress DEF Init
    <2>4. held \in [Sessions -> SUBSET [lease : Nat, id : Nat]]
      BY DEF Init
    <2>5. results \in SUBSET [lease : Nat, given : SUBSET Nat] /\ expired \in SUBSET Nat
      BY DEF Init
    <2>6. <<0, NoBinding.last>> \in Nat \X Mark
      BY DEF Binding
    <2>7. history \in Histories
      <3> DEFINE m == <<0, NoBinding.last>>
      <3>1. history = [last |-> m, twice |-> FALSE, epoch |-> 0, overtaken |-> FALSE]
        BY DEF Init
      <3> HIDE DEF m
      <3>2. m \in Nat \X Mark
        BY <2>6 DEF m
      <3> QED
        BY <3>1, <3>2 DEF Histories
    <2>8. hazard \in Hazards
      BY DEF Init, Hazards
    <2>9. budget \in Budgets
      BY DEF Init, Budgets
    <2> QED
      BY <2>1, <2>2, <2>3, <2>4, <2>5, <2>7, <2>8, <2>9, Typed
  <1>3. AllFit
    BY <1>1 DEF AllFit, CommandFits, Running, At, Monitors
  <1>4. Intact
    <2>1. AllHold
      BY <1>1 DEF AllHold, HolderFits, Critical, At
    <2>2. Claims
      <3>1. handoff.status = "missing" /\ handoff.worker = "none" /\ handoff.id = 0
        BY DEF Init, NoHandoff
      <3>2. "none" \notin Sessions /\ budget.handoffs = 0 /\ results = {} /\ expired = {}
        BY HandoffAssumption DEF Init
      <3> QED
        BY <1>1, <3>1, <3>2 DEF Claims, ClaimsFit, SingleWorkers, TrueResults
    <2>3. LanesOK
      <3>1. lanes = {} /\ IsFiniteSet(lanes)
        BY FS_EmptySet DEF Init
      <3>2. \A kind \in Kinds : Of(Clean(lanes), kind) = {}
        BY <3>1 DEF Of, Clean
      <3>3. Cardinality({}) <= Limit
        BY FS_EmptySet, HandoffAssumption
      <3> QED
        BY <3>1, <3>2, <3>3 DEF LanesOK, LanesFit, Bounded
    <2> QED
      BY <2>1, <2>2, <2>3 DEF Intact
  <1>5. Calmly
    <2>1. \A s \in Sessions : ~Monitors(s)
      BY <1>1 DEF Running, Monitors
    <2>2. binding = NoBinding /\ history.last = <<0, NoBinding.last>> /\ history.epoch = 0 /\ ~history.twice
      BY DEF Init
    <2>3. Tells(NoBinding) /\ NoBinding.epoch = 0
      BY <2>2 DEF Tells, NoBinding
    <2> QED
      BY <2>1, <2>2, <2>3 DEF Calmly, RegistryOK
  <1>6. ReadIsCurrent
    <2>1. \A s \in Sessions : ~Informed(s)
      BY <1>1 DEF Running, Informed, Monitors
    <2>2. binding.epoch = 0 /\ history.epoch = 0
      BY DEF Init, NoBinding
    <2> QED
      BY <2>1, <2>2 DEF ReadIsCurrent
  <1> QED
    BY <1>2, <1>3, <1>4, <1>5, <1>6, InvariantParts

-----------------------------------------------------------------------------
(* Theorems. *)

\* No two sessions work on one handoff, results come from the last lease of it, no checkpoint is
\* made twice and lanes are bounded, for any number of sessions, commands and lanes
\* (handoff_claim(), handoff_release(), monitor_context_bindings(), concurrency_acquire()).
THEOREM HandoffIsSafe == Spec => []HandoffInv
  <1>1. Init => HandoffInv
    BY InitHolds
  <1>2. HandoffInv /\ [Next]_vars => HandoffInv'
    BY NextKeeps, StutterKeeps
  <1> QED
    BY <1>1, <1>2, PTL DEF Spec

\* The monitor never brings back a binding that was removed while it asked, nor an older one for a
\* newer, unless the operator bound the task while it held the older one (monitor_context_bindings()).
THEOREM BindingsAreNotUndone == Spec => BindingIsNotUndone
  <1>1. ASSUME HandoffInv, Next, ~hazard'.broken, binding' # binding
        PROVE  /\ binding = NoBinding => binding'.epoch > history.epoch
               /\ binding'.epoch < binding.epoch => binding' = NoBinding \/ history.overtaken
    <2>1. TypeOK /\ AllFit /\ Intact /\ ReadIsCurrent
      BY <1>1, InvariantParts
    <2>2. (\E s \in Sessions : Begins(s) \/ Reads(s) \/ Handles(s) \/ WritesFile(s)) \/ World
      BY <1>1, <2>1, NextSplits
    <2>3. AllHold /\ ~hazard.broken
      BY <1>1, <2>1, <2>2, Remembering DEF Remembers, Intact
    <2>4. /\ Sets /\ history.epoch \in Nat /\ binding.epoch \in Nat
          /\ binding.epoch <= history.epoch
      BY <2>1, <2>2, StepSets, RegistryTypes DEF ReadIsCurrent
    <2>5. CASE binding' = NoBinding
      BY <1>1, <2>5
    <2>6. CASE binding'.epoch = history.epoch + 1
      BY <2>4, <2>6
    <2>7. CASE \E s \in Sessions : Merge(s)
      <3>1. PICK s \in Sessions : Merge(s)
        BY <2>7
      <3>2. /\ binding = NoBinding => binding' = NoBinding
            /\ ~history.overtaken => binding'.epoch = binding.epoch
        BY <2>1, <2>3, <3>1, MergeKeeps
      <3> QED
        BY <1>1, <2>4, <3>2
    <2> QED
      BY <1>1, <2>4, <2>5, <2>6, <2>7 DEF Sets
  <1>2. HandoffInv /\ [Next]_vars =>
          [~hazard'.broken /\ binding' # binding =>
             /\ binding = NoBinding => binding'.epoch > history.epoch
             /\ binding'.epoch < binding.epoch => binding' = NoBinding \/ history.overtaken]_vars
    BY <1>1
  <1> QED
    BY <1>2, HandoffIsSafe, PTL DEF Spec, BindingIsNotUndone

\* A lane lease is only lost by its own release or at its deadline: no command writes the lanes back
\* without those it has not read (concurrency_acquire(), concurrency_status(), concurrency_release()).
THEOREM LanesAreKept == Spec => LeaseIsKept
  <1>1. ASSUME HandoffInv, Next, ~hazard'.broken, NEW l \in lanes, l \notin lanes', l.lease \notin expired
        PROVE  \E s \in Sessions : At(s, "write") /\ loc[s].cmd = "free" /\ loc[s].lease = l.lease
    <2>1. TypeOK /\ AllFit /\ Intact
      BY <1>1, InvariantParts
    <2>2. (\E s \in Sessions : Begins(s) \/ Reads(s) \/ Handles(s) \/ WritesFile(s)) \/ World
      BY <1>1, <2>1, NextSplits
    <2>3. AllHold
      BY <1>1, <2>1, <2>2, Remembering DEF Remembers, Intact
    <2>4. lanes' # lanes /\ l \in Clean(lanes)
      BY <1>1 DEF Clean
    <2>5. PICK s \in Sessions : WritesFile(s)
      <3>1. ASSUME NEW s \in Sessions, Begins(s) \/ Reads(s) \/ Handles(s) PROVE UNCHANGED lanes
        BY <3>1 DEF Begins, Issue, Reads, Previous, Registry, Observe, Stale, Stays,
                    Handles, Acquire, Break, TimesOut, Leave, Dies, Files
      <3>2. World => UNCHANGED lanes
        BY DEF World, Advance, Expire, Ages, Files
      <3> QED
        BY <2>2, <2>4, <3>1, <3>2
    <2>6. CASE Prepare(s) \/ Claim(s) \/ Release(s) \/ Bind(s) \/ Unbind(s) \/ Merge(s)
      BY <2>1, <2>4, <2>6, PrepareWrites, ClaimWrites, ReleaseWrites, RegistryWrites DEF Idles, Files
    <2>7. CASE AcquireLane(s) \/ LaneStatus(s) \/ ReleaseLane(s)
      <3>1. loc[s].copy.lanes = lanes /\ At(s, "write")
        BY <2>1, <2>3, <2>7, CopyOfLanes DEF AcquireLane, LaneStatus, ReleaseLane
      <3>2. CASE AcquireLane(s)
        BY <1>1, <2>4, <3>1, <3>2 DEF AcquireLane, Refuse, Files
      <3>3. CASE LaneStatus(s)
        BY <1>1, <2>4, <3>1, <3>3 DEF LaneStatus
      <3>4. CASE ReleaseLane(s)
        BY <1>1, <2>4, <3>1, <3>4 DEF ReleaseLane, GivenUp, Refuse, Files
      <3> QED
        BY <2>7, <3>2, <3>3, <3>4
    <2> QED
      BY <2>5, <2>6, <2>7 DEF WritesFile
  <1>2. HandoffInv /\ [Next]_vars =>
          [~hazard'.broken => \A l \in lanes : l \in lanes' \/ l.lease \in expired
             \/ \E s \in Sessions : At(s, "write") /\ loc[s].cmd = "free" /\ loc[s].lease = l.lease]_vars
    BY <1>1
  <1> QED
    BY <1>2, HandoffIsSafe, PTL DEF Spec, LeaseIsKept

================================================================================
