------------------------ MODULE RouteTransactionProofs ------------------------
(***************************************************************************)
(* Proofs about the provider route, for any providers, models and bounds.  *)
(***************************************************************************)
EXTENDS RouteTransaction, TLAPS

\* A command that moves keeps everything else it holds.
LEMMA MoveCommand ==
    ASSUME NEW o \in Commands, NEW place \in Places
    PROVE  /\ [o EXCEPT !.pc = place] \in Commands
           /\ [o EXCEPT !.pc = place].pc = place
           /\ [o EXCEPT !.pc = place].cmd = o.cmd
           /\ [o EXCEPT !.pc = place].target = o.target
           /\ [o EXCEPT !.pc = place].buf = o.buf
           /\ [o EXCEPT !.pc = place].cfg = o.cfg
           /\ [o EXCEPT !.pc = place].orig = o.orig
           /\ [o EXCEPT !.pc = place].ret = o.ret
  BY DEF Commands

\* Closing a transaction keeps the routes and the baseline.
LEMMA CloseState ==
    ASSUME NEW s \in RouteState
    PROVE  /\ [s EXCEPT !.tx = NoOne, !.exists = TRUE] \in RouteState
           /\ [s EXCEPT !.tx = NoOne, !.exists = TRUE].tx = NoOne
           /\ [s EXCEPT !.tx = NoOne, !.exists = TRUE].exists = TRUE
           /\ [s EXCEPT !.tx = NoOne, !.exists = TRUE].routes = s.routes
           /\ [s EXCEPT !.tx = NoOne, !.exists = TRUE].baseline = s.baseline
  BY DEF RouteState

\* Committing one records its route.
LEMMA CommitState ==
    ASSUME NEW s \in RouteState, NEW p \in Providers, s.tx \in Models
    PROVE  /\ [s EXCEPT !.tx = NoOne, !.routes[p] = s.tx] \in RouteState
           /\ [s EXCEPT !.tx = NoOne, !.routes[p] = s.tx].tx = NoOne
           /\ [s EXCEPT !.tx = NoOne, !.routes[p] = s.tx].exists = s.exists
           /\ [s EXCEPT !.tx = NoOne, !.routes[p] = s.tx].routes = [s.routes EXCEPT ![p] = s.tx]
           /\ [s EXCEPT !.tx = NoOne, !.routes[p] = s.tx].baseline = s.baseline
  BY DEF RouteState

\* Merging a copy gives the copy, which holds all the owned fields.
LEMMA MergeGivesCopy ==
    ASSUME NEW c \in Fields, NEW copy \in Fields
    PROVE  Merge(c, copy) = copy
  BY DEF Merge, Fields

\* A copy is missing only if it is no copy.
LEMMA CopiesHaveModels ==
    ASSUME NEW f \in Fields
    PROVE  f # NoCopy /\ f.model \in Models /\ f.model # NoOne /\ f.knobs \in {"native", "managed"}
  BY RouteAssumption DEF Fields, NoCopy

\* The route of a provider is one of its own models.
LEMMA ResolveBelongs ==
    ASSUME TypeOK, RoutesBelong, NEW p \in Providers, Resolve(p) # NoOne
    PROVE  Resolve(p) \in Models /\ Owner[Resolve(p)] = p
  <1>1. config.model \in Models
    BY CopiesHaveModels DEF TypeOK
  <1>2. st.routes[p] \in Models \cup {NoOne}
    BY DEF TypeOK, RouteState
  <1>3. Listed[p] \in Models \cup {NoOne}
    BY RouteAssumption
  <1> QED
    BY <1>1, <1>2, <1>3, RouteAssumption DEF Resolve, RoutesBelong

-----------------------------------------------------------------------------
(* What the shared steps of a command do. *)

\* The command goes on to place, with all it holds.
Moves(place) ==
    /\ op' \in Commands
    /\ op'.pc = place
    /\ op'.cmd = op.cmd
    /\ op'.target = op.target
    /\ op'.buf = op.buf
    /\ op'.cfg = op.cfg
    /\ op'.orig = op.orig
    /\ op'.ret = op.ret

\* The command ends, or is a reset that goes on by disabling.
Fails ==
    \/ op' = Idle
    \/ /\ op' \in Commands
       /\ op'.pc = "disable"
       /\ op'.cmd = "disable"
       /\ op'.target = op.target

\* The command ends, or is where it holds nothing but its name.
Rests ==
    \/ op' = Idle
    \/ /\ op' \in Commands
       /\ op'.pc \in {"plan", "intend", "disable"} \/ (op'.pc = "recover" /\ op'.ret = "native")
       /\ op'.cmd \in {"switch", "reset"} => op'.target \in Providers
       /\ op'.pc \in {"plan", "intend"} => op'.cmd \in {"switch", "reset"}

\* The history, and a step that tells nothing new of the transaction in it.
Histories == [outcome : {"none", "open", "undone", "committed"}, before : Fields \cup {NoCopy},
              edited : BOOLEAN, cut : BOOLEAN, dropped : BOOLEAN, to : Providers \cup {NoOne}]
Controllers == [mode : {"passthrough", "managed"}, selected : Providers \cup {NoOne},
                transition : Providers \cup {NoOne}]
SameTransaction == /\ hist'.outcome = hist.outcome /\ hist'.before = hist.before
                   /\ hist'.edited = hist.edited /\ hist'.to = hist.to

\* The step writes nothing of the transaction, and hides neither a cut nor a lost transition.
KeepsRecord ==
    /\ UNCHANGED <<config, st, backup>>
    /\ ctl' \in [mode : {"passthrough", "managed"}, selected : Providers \cup {NoOne},
                 transition : Providers \cup {NoOne}]
    /\ hist' \in Histories /\ SameTransaction
    /\ hist.cut => hist'.cut
    /\ hist'.dropped \/ (~hist.dropped /\ ctl'.selected = ctl.selected /\ ctl'.transition = ctl.transition)
    /\ op.pc \in {"recovered", "rolledback", "committed"} => hist'.cut
    /\ budget' \in [commands : Nat, edits : Nat, crashes : Nat]

\* A step that keeps the history, or notes a cut in it.
LEMMA KeptHistory ==
  ASSUME TypeOK, hist' = hist \/ hist' = [hist EXCEPT !.cut = TRUE]
  PROVE  /\ hist' \in Histories /\ SameTransaction
         /\ hist'.dropped = hist.dropped /\ (hist.cut => hist'.cut)
  <1>1. hist \in Histories
    BY DEF TypeOK, Histories
  <1>2. CASE hist' = hist
    BY <1>1, <1>2 DEF SameTransaction
  <1>3. CASE hist' = [hist EXCEPT !.cut = TRUE]
    BY <1>1, <1>3 DEF SameTransaction, Histories
  <1> QED
    BY <1>2, <1>3

\* A step that writes nothing of the transaction and leaves the controller alone.
LEMMA KeepingRecord ==
  ASSUME TypeOK, UNCHANGED <<config, st, backup, ctl>>, hist' = hist \/ hist' = [hist EXCEPT !.cut = TRUE],
         op.pc \in {"recovered", "rolledback", "committed"} => hist'.cut,
         budget' \in [commands : Nat, edits : Nat, crashes : Nat]
  PROVE  KeepsRecord
  <1>1. ctl' \in Controllers
    BY DEF TypeOK, Controllers
  <1>2. hist'.dropped = hist.dropped /\ hist.dropped \in BOOLEAN
    BY KeptHistory DEF TypeOK
  <1> QED
    BY <1>1, <1>2, KeptHistory DEF KeepsRecord, Controllers

\* A Host command keeps the history of the transaction, and controller.json unless it drops both fields.
LEMMA HostKeeps ==
  ASSUME TypeOK, NEW modes \in SUBSET {"passthrough", "managed"}, HostWrites(modes)
  PROVE  /\ ctl' \in Controllers /\ hist' \in Histories /\ SameTransaction /\ hist'.cut = hist.cut
         /\ hist'.dropped \/ (UNCHANGED <<ctl, hist>> /\ ~hist.dropped)
  <1>1. hist \in Histories /\ ctl \in Controllers
    BY DEF TypeOK, Histories, Controllers
  <1>2. CASE UNCHANGED <<ctl, hist>>
    BY <1>1, <1>2 DEF SameTransaction
  <1>3. CASE (\E m \in modes : ctl' = Canonical(m)) /\ hist' = [hist EXCEPT !.dropped = TRUE]
    <2>1. ctl' \in Controllers
      BY <1>3 DEF Canonical, Controllers
    <2>2. hist' \in Histories /\ SameTransaction /\ hist'.cut = hist.cut /\ hist'.dropped
      BY <1>1, <1>3 DEF SameTransaction, Histories
    <2> QED
      BY <2>1, <2>2
  <1> QED
    BY <1>2, <1>3 DEF HostWrites

LEMMA HostRests ==
  ASSUME TypeOK, NEW modes \in SUBSET {"passthrough", "managed"}, HostWrites(modes), UNCHANGED <<config, st, backup, budget>>,
         op.pc \notin {"recovered", "rolledback", "committed"}
  PROVE  KeepsRecord
  <1>1. /\ ctl' \in Controllers /\ hist' \in Histories /\ SameTransaction /\ hist'.cut = hist.cut
        /\ hist'.dropped \/ (UNCHANGED <<ctl, hist>> /\ ~hist.dropped)
    BY HostKeeps
  <1>2. budget' \in [commands : Nat, edits : Nat, crashes : Nat]
    BY DEF TypeOK
  <1> QED
    BY <1>1, <1>2 DEF KeepsRecord, Controllers

\* A switch that opens or closes its transition finds it kept from then on.
LEMMA NothingDropped ==
  ASSUME TypeOK, hist' = [hist EXCEPT !.dropped = FALSE]
  PROVE  hist' \in Histories /\ SameTransaction /\ hist'.cut = hist.cut /\ ~hist'.dropped
  <1>1. hist \in Histories
    BY DEF TypeOK, Histories
  <1> QED
    BY <1>1 DEF SameTransaction, Histories

\* A command that is somewhere is running.
LEMMA AtCommand ==
    ASSUME TypeOK, NEW place, At(place), place # "idle"
    PROVE  op \in Commands
  BY DEF TypeOK, At, Idle

LEMMA GotoMoves ==
    ASSUME op \in Commands, NEW place \in Places, Goto(place)
    PROVE  Moves(place)
  BY MoveCommand DEF Goto, Moves

LEMMA FailedFails ==
    ASSUME op \in Commands, Failed
    PROVE  Fails
  <1>1. "disable" \in Places
    BY DEF Places
  <1>2. [op EXCEPT !.cmd = "disable", !.pc = "disable"] \in Commands
    BY <1>1 DEF Commands
  <1> QED
    BY <1>2 DEF Failed, Fails, Commands

LEMMA MissingFacts ==
    /\ Missing \in RouteState
    /\ Missing.tx = NoOne
    /\ Missing.baseline = NoCopy
    /\ \A p \in Providers : Missing.routes[p] = NoOne
    /\ NoCopy \notin Fields
    /\ NoCopy.knobs = "unknown"
    /\ NoCopy.model = NoOne
  BY CopiesHaveModels DEF Missing, RouteState, NoCopy

\* The initial state satisfies the invariant.
LEMMA InitEstablishes == Init => RouteInv
  <1> SUFFICES ASSUME Init
               PROVE  RouteInv
    OBVIOUS
  <1> USE RouteAssumption, MissingFacts
  <1>1. op.pc = "idle" /\ op = Idle /\ st = Missing /\ backup = NoCopy /\ hist.outcome = "none"
    BY DEF Init, Idle
  <1>2. config \in Fields /\ config.knobs = "native"
    BY DEF Init, Fields
  <1>3. TypeOK
    BY <1>1, <1>2 DEF Init, TypeOK
  <1>4. PendingHasCopy /\ ManagedKnobsAreRemembered /\ CommitIsRemembered /\ CopyIsBefore
    BY <1>1, <1>2 DEF PendingHasCopy, ManagedKnobsAreRemembered, CommitIsRemembered, CopyIsBefore
  <1>5. SwitchIsOpen /\ RoutesBelong
    BY <1>1 DEF SwitchIsOpen, RoutesBelong, Switching, Opened, At
  <1>6. PendingIsOpen
    BY <1>1 DEF PendingIsOpen, Opened, Returning, At
  <1>7. BaselineIsNative
    BY <1>1 DEF BaselineIsNative, At
  <1> QED
    BY <1>3, <1>4, <1>5, <1>6, <1>7 DEF RouteInv

\* A command that comes to rest and writes nothing leaves the invariant as it is.
LEMMA CommandRests ==
    ASSUME RouteInv, Rests, KeepsRecord
    PROVE  RouteInv'
  <1> /\ TypeOK /\ PendingHasCopy /\ ManagedKnobsAreRemembered /\ CommitIsRemembered
      /\ SwitchIsOpen /\ RoutesBelong /\ PendingIsOpen /\ BaselineIsNative /\ CopyIsBefore
    BY DEF RouteInv
  <1>1. Idle.pc = "idle"
    BY DEF Idle
  <1>2. /\ UNCHANGED <<config, st, backup>>
        /\ hist'.dropped \/ (~hist.dropped /\ ctl'.selected = ctl.selected /\ ctl'.transition = ctl.transition)
    BY DEF KeepsRecord
  <1>3. /\ hist'.outcome = hist.outcome /\ hist'.before = hist.before /\ hist'.edited = hist.edited
        /\ hist'.to = hist.to /\ (hist.cut => hist'.cut)
        /\ hist' \in [outcome : {"none", "open", "undone", "committed"}, before : Fields \cup {NoCopy},
                      edited : BOOLEAN, cut : BOOLEAN, dropped : BOOLEAN, to : Providers \cup {NoOne}]
    BY DEF KeepsRecord, SameTransaction, Histories
  <1>4. \/ op' = Idle /\ op'.pc = "idle"
        \/ /\ op'.pc \in {"plan", "intend", "disable"} \/ (op'.pc = "recover" /\ op'.ret = "native")
           /\ op'.cmd \in {"switch", "reset"} => op'.target \in Providers
           /\ op'.pc \in {"plan", "intend"} => op'.cmd \in {"switch", "reset"}
    BY <1>1 DEF Rests
  <1>5. TypeOK'
    BY <1>2, <1>3 DEF Rests, KeepsRecord, TypeOK
  <1>6. PendingHasCopy'
    BY <1>2, <1>3 DEF PendingHasCopy, KeepsRecord
  <1>7. PendingIsOpen'
    BY <1>2, <1>4 DEF PendingIsOpen, Opened, Returning, At
  <1>8. ManagedKnobsAreRemembered' /\ CommitIsRemembered'
    BY <1>2, <1>3 DEF ManagedKnobsAreRemembered, CommitIsRemembered
  <1>9. SwitchIsOpen' /\ RoutesBelong'
    BY <1>2, <1>3, <1>4 DEF SwitchIsOpen, RoutesBelong, Switching, Opened, At
  <1>10. BaselineIsNative'
    BY <1>2, <1>4 DEF BaselineIsNative, At
  <1>11. CopyIsBefore'
    BY <1>2, <1>3, <1>4 DEF CopyIsBefore, At
  <1> QED
    BY <1>5, <1>6, <1>7, <1>8, <1>9, <1>10, <1>11 DEF RouteInv

\* So does one that fails with nothing cut.
LEMMA FailureRests ==
    ASSUME RouteInv, op \in Commands, Failed, KeepsRecord
    PROVE  RouteInv'
  <1>1. Fails
    BY FailedFails
  <1>2. Rests
    BY <1>1 DEF Fails, Rests
  <1> QED
    BY <1>2, CommandRests

\* The transaction is over, and the record keeps its routes and its baseline.
Closes ==
    /\ st' \in RouteState
    /\ st'.tx = NoOne /\ st'.exists
    /\ st'.routes = st.routes /\ st'.baseline = st.baseline
    /\ hist' \in [outcome : {"none", "open", "undone", "committed"}, before : Fields \cup {NoCopy},
                  edited : BOOLEAN, cut : BOOLEAN, dropped : BOOLEAN, to : Providers \cup {NoOne}]
    /\ hist'.outcome = "undone" /\ hist'.dropped = hist.dropped

LEMMA CloseCloses ==
    ASSUME TypeOK, Close("undone")
    PROVE  Closes
  <1>1. st \in RouteState /\ st' = [st EXCEPT !.tx = NoOne, !.exists = TRUE]
    BY DEF TypeOK, Close
  <1>2. hist' = [hist EXCEPT !.outcome = "undone"]
    BY DEF Close
  <1> QED
    BY <1>1, <1>2, CloseState DEF Closes, TypeOK

\* Restoring the native fields.
LEMMA NativeFields ==
    ASSUME NEW c \in Fields, NEW b \in Fields
    PROVE  [c EXCEPT !.model = b.model, !.knobs = b.knobs] = b
  BY DEF Fields

LEMMA EditedFields ==
    ASSUME NEW c \in Fields, NEW m \in Models
    PROVE  /\ [c EXCEPT !.model = m] \in Fields
           /\ [c EXCEPT !.model = m].knobs = c.knobs
           /\ m = c.model => [c EXCEPT !.model = m] = c
  BY DEF Fields

\* Every step preserves the invariant.
LEMMA RouteStep ==
    ASSUME RouteInv, [Next]_vars
    PROVE  RouteInv'
  <1> /\ TypeOK /\ PendingHasCopy /\ ManagedKnobsAreRemembered /\ CommitIsRemembered
      /\ SwitchIsOpen /\ RoutesBelong /\ PendingIsOpen /\ BaselineIsNative /\ CopyIsBefore
    BY DEF RouteInv
  <1> USE RouteAssumption, MissingFacts
  <1>0. /\ Idle.pc = "idle" /\ "idle" \notin Places
        /\ \A place \in {"apply", "check", "host", "verify", "rollback", "undo", "commit", "write", "save",
                        "unlink", "recheckback", "rolledback", "committed", "select", "native",
                        "nativecheck", "forget", "done", "plan", "intend", "disable", "recover",
                        "recheck", "recovered"} : place \in Places
    BY DEF Idle, Places, Opened, Switching, Returning
  <1>1. ASSUME NEW cmd \in {"switch", "reset", "disable", "cloud", "reset95"}, NEW p \in Providers \cup {NoOne},
               cmd \in {"switch", "reset"} => p \in Providers, Issue(cmd, p)
        PROVE  RouteInv'
    <2>1. op = Idle /\ UNCHANGED <<config, st, backup, ctl, hist>>
      BY <1>1 DEF Issue
    <2>2. budget' \in [commands : Nat, edits : Nat, crashes : Nat]
      BY <1>1 DEF Issue, TypeOK
    <2>3. PICK place \in {"plan", "disable", "recover"} :
            /\ op' = [cmd |-> cmd, target |-> p, buf |-> Missing, cfg |-> NoCopy, orig |-> NoCopy,
                      ret |-> "native", pc |-> place]
            /\ place = "plan" => cmd \in {"switch", "reset"}
      BY <1>1 DEF Issue
    <2>4. op' \in Commands /\ op'.pc = place /\ op'.cmd = cmd /\ op'.target = p /\ op'.ret = "native"
      BY <2>3, <1>0 DEF Commands
    <2>5. Rests
      BY <1>1, <2>3, <2>4 DEF Rests
    <2>6. KeepsRecord
      BY <2>1, <2>2, <1>0, KeepingRecord DEF Idle
    <2> QED
      BY <2>5, <2>6, CommandRests
  <1>2. ASSUME Plan
        PROVE  RouteInv'
    <2>1. op \in Commands /\ op.pc = "plan" /\ op.cmd \in {"switch", "reset"} /\ op.target \in Providers
      BY <1>2, <1>0, AtCommand DEF Plan, At, SwitchIsOpen
    <2>2. UNCHANGED <<config, st, backup, ctl, hist, budget>>
      BY <1>2 DEF Plan
    <2>3. KeepsRecord
      BY <2>1, <2>2, KeepingRecord DEF TypeOK
    <2>4. Moves("intend") \/ Moves("disable") \/ Fails
      BY <1>2, <2>1, <1>0, GotoMoves, FailedFails DEF Plan
    <2>5. Rests
      BY <2>1, <2>4 DEF Moves, Fails, Rests
    <2> QED
      BY <2>3, <2>5, CommandRests
  <1>3. ASSUME Intend
        PROVE  RouteInv'
    <2>1. op \in Commands /\ op.pc = "intend"
      BY <1>3, AtCommand DEF Intend, At
    <2>2. op' \in Commands /\ op'.pc = "recover" /\ op'.ret = "write" /\ op'.cmd = op.cmd /\ op'.target = op.target
      BY <1>3, <2>1, <1>0 DEF Intend, Commands
    <2>3. op.target \in Providers
      BY <2>1, <1>0 DEF SwitchIsOpen, At
    <2>4. ctl' \in [mode : {"passthrough", "managed"}, selected : Providers \cup {NoOne}, transition : Providers \cup {NoOne}] /\ ctl'.transition = op.target /\ ctl'.selected = ctl.selected
      BY <1>3, <2>3 DEF Intend, Intended, TypeOK
    <2>5. /\ UNCHANGED <<config, st, backup, budget>>
          /\ hist' \in [outcome : {"none", "open", "undone", "committed"}, before : Fields \cup {NoCopy},
                 edited : BOOLEAN, cut : BOOLEAN, dropped : BOOLEAN, to : Providers \cup {NoOne}]
          /\ hist'.outcome = hist.outcome /\ hist'.before = hist.before /\ hist'.edited = hist.edited
          /\ hist'.to = hist.to /\ hist'.cut = hist.cut
      BY <1>3, NothingDropped DEF Intend, SameTransaction, Histories
    <2>6. TypeOK'
      BY <2>1, <2>2, <2>3, <2>4, <2>5 DEF TypeOK
    <2>7. PendingHasCopy' /\ PendingIsOpen'
      BY <2>1, <2>2, <2>3, <2>4, <2>5 DEF PendingHasCopy, PendingIsOpen, Opened, Returning, At
    <2>8. ManagedKnobsAreRemembered' /\ BaselineIsNative'
      BY <2>1, <2>2, <2>3, <2>4, <2>5 DEF ManagedKnobsAreRemembered, BaselineIsNative, PendingIsOpen, Opened, Returning, At
    <2>9. CommitIsRemembered' /\ SwitchIsOpen'
      BY <2>1, <2>2, <2>3, <2>4, <2>5 DEF CommitIsRemembered, SwitchIsOpen, Switching, Opened, At
    <2>10. RoutesBelong'
      BY <2>1, <2>2, <2>3, <2>4, <2>5 DEF RoutesBelong, Opened, At
    <2>11. CopyIsBefore'
      BY <2>1, <2>2, <2>3, <2>4, <2>5 DEF CopyIsBefore, PendingIsOpen, Opened, Returning, At
    <2> QED
      BY <2>6, <2>7, <2>8, <2>9, <2>10, <2>11 DEF RouteInv
  <1>4. ASSUME Recover
        PROVE  RouteInv'
    <2>1. op \in Commands /\ op.pc = "recover"
      BY <1>4, AtCommand DEF Recover, At
    <2>2. UNCHANGED <<st, backup, ctl, hist, budget>>
      BY <1>4 DEF Recover
    <2>3. ASSUME st.tx = NoOne, Goto(op.ret), UNCHANGED config
          PROVE  RouteInv'
      <3>1. op.ret \in {"native", "write"}
        BY <2>1 DEF Commands
      <3>2. Moves(op.ret)
        BY <2>1, <2>3, <3>1, <1>0, GotoMoves
      <3>3. TypeOK'
        BY <2>1, <2>2, <2>3, <3>1, <3>2 DEF TypeOK, Moves
      <3>4. PendingHasCopy' /\ PendingIsOpen'
        BY <2>1, <2>2, <2>3, <3>1, <3>2 DEF PendingHasCopy, PendingIsOpen, Opened, Returning, At, Moves
      <3>5. ManagedKnobsAreRemembered' /\ BaselineIsNative'
        BY <2>1, <2>2, <2>3, <3>1, <3>2 DEF ManagedKnobsAreRemembered, BaselineIsNative, PendingIsOpen, Opened, Returning, At, Moves
      <3>6. CommitIsRemembered' /\ SwitchIsOpen'
        BY <2>1, <2>2, <2>3, <3>1, <3>2 DEF CommitIsRemembered, SwitchIsOpen, Switching, Opened, At, Moves
      <3>7. RoutesBelong'
        BY <2>1, <2>2, <2>3, <3>1, <3>2 DEF RoutesBelong, Opened, At, Moves
      <3>8. CopyIsBefore'
        BY <2>1, <2>2, <2>3, <3>1, <3>2 DEF CopyIsBefore, PendingIsOpen, Opened, Returning, At, Moves
      <3> QED
        BY <3>3, <3>4, <3>5, <3>6, <3>7, <3>8 DEF RouteInv
    <2>4. ASSUME st.tx # NoOne, backup # NoCopy, config' = Merge(config, backup), Goto("recheck")
          PROVE  RouteInv'
      <3>1. config' = backup /\ backup \in Fields
        BY <2>4, MergeGivesCopy DEF TypeOK
      <3>2. Moves("recheck")
        BY <2>1, <2>4, <1>0, GotoMoves
      <3>3. TypeOK'
        BY <2>1, <2>2, <2>4, <3>1, <3>2 DEF TypeOK, Moves
      <3>4. PendingHasCopy' /\ PendingIsOpen'
        BY <2>1, <2>2, <2>4, <3>1, <3>2 DEF PendingHasCopy, PendingIsOpen, Opened, Returning, At, Moves
      <3>5. ManagedKnobsAreRemembered' /\ BaselineIsNative'
        BY <2>1, <2>2, <2>4, <3>1, <3>2 DEF ManagedKnobsAreRemembered, BaselineIsNative, PendingIsOpen, Opened, Returning, At, Moves
      <3>6. CommitIsRemembered' /\ SwitchIsOpen'
        BY <2>1, <2>2, <2>4, <3>1, <3>2 DEF CommitIsRemembered, SwitchIsOpen, Switching, Opened, At, Moves
      <3>7. RoutesBelong'
        BY <2>1, <2>2, <2>4, <3>1, <3>2 DEF RoutesBelong, Opened, At, Moves
      <3>8. CopyIsBefore'
        BY <2>1, <2>2, <2>4, <3>1, <3>2 DEF CopyIsBefore, PendingIsOpen, Opened, Returning, At, Moves
      <3> QED
        BY <3>3, <3>4, <3>5, <3>6, <3>7, <3>8 DEF RouteInv
    <2>5. ASSUME Failed, UNCHANGED config
          PROVE  RouteInv'
      BY <2>1, <2>2, <2>5, FailureRests, KeepingRecord DEF TypeOK
    <2> QED
      BY <1>4, <2>3, <2>4, <2>5 DEF Recover
  <1>5. ASSUME Recheck
        PROVE  RouteInv'
    <2>1. op \in Commands /\ op.pc = "recheck"
      BY <1>5, AtCommand DEF Recheck, At
    <2>2. UNCHANGED <<config, st, ctl, hist, budget>>
      BY <1>5 DEF Recheck
    <2>3. ASSUME backup' = NoCopy, Goto("recovered")
          PROVE  RouteInv'
      <3>1. Moves("recovered")
        BY <2>1, <2>3, <1>0, GotoMoves
      <3>2. TypeOK'
        BY <2>1, <2>2, <2>3, <3>1 DEF TypeOK, Moves
      <3>3. PendingHasCopy' /\ PendingIsOpen'
        BY <2>1, <2>2, <2>3, <3>1 DEF PendingHasCopy, PendingIsOpen, Opened, Returning, At, Moves
      <3>4. ManagedKnobsAreRemembered' /\ BaselineIsNative'
        BY <2>1, <2>2, <2>3, <3>1 DEF ManagedKnobsAreRemembered, BaselineIsNative, PendingIsOpen, Opened, Returning, At, Moves
      <3>5. CommitIsRemembered' /\ SwitchIsOpen'
        BY <2>1, <2>2, <2>3, <3>1 DEF CommitIsRemembered, SwitchIsOpen, Switching, Opened, At, Moves
      <3>6. RoutesBelong'
        BY <2>1, <2>2, <2>3, <3>1 DEF RoutesBelong, Opened, At, Moves
      <3>7. CopyIsBefore'
        BY <2>1, <2>2, <2>3, <3>1 DEF CopyIsBefore, PendingIsOpen, Opened, Returning, At, Moves
      <3> QED
        BY <3>2, <3>3, <3>4, <3>5, <3>6, <3>7 DEF RouteInv
    <2>4. ASSUME Failed, UNCHANGED backup
          PROVE  RouteInv'
      BY <2>1, <2>2, <2>4, FailureRests, KeepingRecord DEF TypeOK
    <2> QED
      BY <1>5, <2>3, <2>4 DEF Recheck
  <1>6. ASSUME Recovered
        PROVE  RouteInv'
    <2>1. op \in Commands /\ op.pc = "recovered"
      BY <1>6, AtCommand DEF Recovered, At
    <2>2. UNCHANGED <<config, backup, ctl, budget>> /\ Closes
      BY <1>6, CloseCloses DEF Recovered
    <2>3. op.ret \in {"native", "write"}
      BY <2>1 DEF Commands
    <2>4. Moves(op.ret)
      BY <1>6, <2>1, <2>3, <1>0, GotoMoves DEF Recovered
    <2>5. TypeOK'
      BY <2>1, <2>2, <2>3, <2>4 DEF TypeOK, Moves, Closes
    <2>6. PendingHasCopy' /\ PendingIsOpen'
      BY <2>1, <2>2, <2>3, <2>4 DEF PendingHasCopy, PendingIsOpen, Opened, Returning, At, Moves, Closes
    <2>7. ManagedKnobsAreRemembered' /\ BaselineIsNative'
      BY <2>1, <2>2, <2>3, <2>4 DEF ManagedKnobsAreRemembered, BaselineIsNative, PendingIsOpen, Opened, Returning, At, Moves, Closes
    <2>8. CommitIsRemembered' /\ SwitchIsOpen'
      BY <2>1, <2>2, <2>3, <2>4 DEF CommitIsRemembered, SwitchIsOpen, Switching, Opened, At, Moves, Closes
    <2>9. RoutesBelong'
      BY <2>1, <2>2, <2>3, <2>4 DEF RoutesBelong, Opened, At, Moves, Closes
    <2>10. CopyIsBefore'
      BY <2>1, <2>2, <2>3, <2>4 DEF CopyIsBefore, PendingIsOpen, Opened, Returning, At, Moves, Closes
    <2> QED
      BY <2>5, <2>6, <2>7, <2>8, <2>9, <2>10 DEF RouteInv
  <1>7. ASSUME Write
        PROVE  RouteInv'
    <2>1. op \in Commands /\ op.pc = "write"
      BY <1>7, AtCommand DEF Write, At
    <2>2. UNCHANGED <<config, st, ctl, budget>>
      BY <1>7 DEF Write
    <2>3. ASSUME ~Planned(op.target)
          PROVE  RouteInv'
      <3>1. Failed /\ UNCHANGED <<backup, hist>>
        BY <1>7, <2>3 DEF Write
      <3> QED
        BY <2>1, <2>2, <3>1, FailureRests, KeepingRecord DEF TypeOK
    <2>4. ASSUME Planned(op.target)
          PROVE  RouteInv'
      <3> DEFINE route == Resolve(op.target)
                 base == Capture(st.baseline, config)
                 buffer == [exists |-> TRUE, baseline |-> base, tx |-> route,
                            routes |-> [p \in Providers |-> IF p = Owner[config.model] THEN config.model
                                                            ELSE st.routes[p]]]
                 fields == [config EXCEPT !.model = route, !.knobs = Knobs(op.target, base)]
      <3>1. /\ backup' = config
            /\ op' = [op EXCEPT !.pc = "save", !.orig = config, !.buf = buffer, !.cfg = fields]
            /\ hist' = [hist EXCEPT !.outcome = "open", !.before = config, !.edited = FALSE]
        BY <1>7, <2>4 DEF Write
      <3>2. op.target \in Providers /\ op.cmd \in {"switch", "reset"} /\ st.tx = NoOne /\ (ctl.transition # NoOne \/ hist.dropped)
        BY <2>1, <1>0 DEF SwitchIsOpen, Switching, PendingIsOpen
      <3>3. route \in Models /\ route # NoOne /\ Owner[route] = op.target
        BY <2>4, <3>2, ResolveBelongs DEF Planned
      <3>4. config \in Fields /\ config.model \in Models /\ config # NoCopy
        BY CopiesHaveModels DEF TypeOK
      <3>5. base \in Fields /\ base.knobs = "native"
        BY <3>4, CopiesHaveModels DEF TypeOK, RouteState, Capture, Owned, Fields, BaselineIsNative, ManagedKnobsAreRemembered
      <3>6. /\ buffer \in RouteState
            /\ \A p \in Providers : buffer.routes[p] # NoOne => Owner[buffer.routes[p]] = p
        BY <3>3, <3>4, <3>5 DEF TypeOK, RouteState, RoutesBelong
      <3>7. fields \in Fields
        BY <3>3, <3>4, <3>5 DEF Fields, Knobs
      <3> HIDE DEF route, base, buffer, fields
      <3>8. /\ op' \in Commands /\ op'.pc = "save" /\ op'.orig = config /\ op'.buf = buffer
            /\ op'.cfg = fields /\ op'.cmd = op.cmd /\ op'.target = op.target
        BY <2>1, <3>1, <3>4, <3>6, <3>7, <1>0 DEF Commands, Switching
      <3>9. buffer.tx = route /\ buffer.baseline = base /\ buffer.exists
        BY DEF buffer
      <3>10. /\ hist'.outcome = "open" /\ hist'.before = config /\ hist'.edited = FALSE
             /\ hist' \in [outcome : {"none", "open", "undone", "committed"}, before : Fields \cup {NoCopy},
                            edited : BOOLEAN, cut : BOOLEAN, dropped : BOOLEAN, to : Providers \cup {NoOne}]
        BY <3>1, <3>4 DEF TypeOK
      <3>11. TypeOK'
        BY <2>2, <3>1, <3>2, <3>3, <3>4, <3>5, <3>6, <3>7, <3>8, <3>9, <3>10 DEF TypeOK
      <3>12. PendingHasCopy' /\ PendingIsOpen'
        BY <2>2, <3>1, <3>2, <3>3, <3>4, <3>5, <3>6, <3>7, <3>8, <3>9, <3>10 DEF PendingHasCopy, PendingIsOpen, Opened, Returning, At
      <3>13. ManagedKnobsAreRemembered' /\ BaselineIsNative'
        BY <2>2, <3>1, <3>2, <3>3, <3>4, <3>5, <3>6, <3>7, <3>8, <3>9, <3>10 DEF ManagedKnobsAreRemembered, BaselineIsNative, PendingIsOpen, Opened, Returning, At
      <3>14. CommitIsRemembered' /\ SwitchIsOpen'
        BY <2>2, <3>1, <3>2, <3>3, <3>4, <3>5, <3>6, <3>7, <3>8, <3>9, <3>10 DEF CommitIsRemembered, SwitchIsOpen, Switching, Opened, At
      <3>15. RoutesBelong'
        BY <2>2, <3>1, <3>2, <3>3, <3>4, <3>5, <3>6, <3>7, <3>8, <3>9, <3>10 DEF RoutesBelong, Opened, At
      <3>16. CopyIsBefore'
        BY <2>2, <3>1, <3>2, <3>3, <3>4, <3>5, <3>6, <3>7, <3>8, <3>9, <3>10 DEF CopyIsBefore, PendingIsOpen, Opened, Returning, At
      <3> QED
        BY <3>11, <3>12, <3>13, <3>14, <3>15, <3>16 DEF RouteInv
    <2> QED
      BY <2>3, <2>4
  <1>8. ASSUME Save
        PROVE  RouteInv'
    <2>1. op \in Commands /\ op.pc = "save"
      BY <1>8, AtCommand DEF Save, At
    <2>2. Moves("apply")
      BY <1>8, <2>1, <1>0, GotoMoves DEF Save
    <2>3. st' = op.buf /\ op.buf \in RouteState
      BY <1>8, <2>1 DEF Save, Commands
    <2>4. UNCHANGED <<config, backup, ctl, hist, budget>>
      BY <1>8 DEF Save
    <2>5. backup # NoCopy
      BY <2>1 DEF PendingIsOpen
    <2>6. st'.tx # NoOne /\ st'.exists
      BY <2>1, <2>3 DEF RoutesBelong, At, PendingIsOpen
    <2>7. TypeOK'
      BY <2>1, <2>2, <2>3, <2>4, <2>5, <2>6 DEF TypeOK, Moves
    <2>8. PendingHasCopy' /\ PendingIsOpen'
      BY <2>1, <2>2, <2>3, <2>4, <2>5, <2>6 DEF PendingHasCopy, PendingIsOpen, Opened, Returning, At, Moves
    <2>9. ManagedKnobsAreRemembered' /\ BaselineIsNative'
      BY <2>1, <2>2, <2>3, <2>4, <2>5, <2>6 DEF ManagedKnobsAreRemembered, BaselineIsNative, PendingIsOpen, Opened, Returning, At, Moves
    <2>10. CommitIsRemembered' /\ SwitchIsOpen'
      BY <2>1, <2>2, <2>3, <2>4, <2>5, <2>6 DEF CommitIsRemembered, SwitchIsOpen, Switching, Opened, At, Moves
    <2>11. RoutesBelong'
      BY <2>1, <2>2, <2>3, <2>4, <2>5, <2>6 DEF RoutesBelong, Opened, At, Moves
    <2>12. CopyIsBefore'
      BY <2>1, <2>2, <2>3, <2>4, <2>5, <2>6 DEF CopyIsBefore, PendingIsOpen, Opened, Returning, At, Moves
    <2> QED
      BY <2>7, <2>8, <2>9, <2>10, <2>11, <2>12 DEF RouteInv
  <1>9. ASSUME Apply
        PROVE  RouteInv'
    <2>1. op \in Commands /\ op.pc = "apply"
      BY <1>9, AtCommand DEF Apply, At
    <2>2. Moves("check")
      BY <1>9, <2>1, <1>0, GotoMoves DEF Apply
    <2>3. config' = op.cfg /\ op.cfg \in Fields
      BY <1>9, <2>1 DEF Apply, BaselineIsNative
    <2>4. UNCHANGED <<st, backup, ctl, hist, budget>>
      BY <1>9 DEF Apply
    <2>5. TypeOK'
      BY <2>1, <2>2, <2>3, <2>4 DEF TypeOK, Moves
    <2>6. PendingHasCopy' /\ PendingIsOpen'
      BY <2>1, <2>2, <2>3, <2>4 DEF PendingHasCopy, PendingIsOpen, Opened, Returning, At, Moves
    <2>7. ManagedKnobsAreRemembered' /\ BaselineIsNative'
      BY <2>1, <2>2, <2>3, <2>4 DEF ManagedKnobsAreRemembered, BaselineIsNative, PendingIsOpen, Opened, Returning, At, Moves
    <2>8. CommitIsRemembered' /\ SwitchIsOpen'
      BY <2>1, <2>2, <2>3, <2>4 DEF CommitIsRemembered, SwitchIsOpen, Switching, Opened, At, Moves
    <2>9. RoutesBelong'
      BY <2>1, <2>2, <2>3, <2>4 DEF RoutesBelong, Opened, At, Moves
    <2>10. CopyIsBefore'
      BY <2>1, <2>2, <2>3, <2>4 DEF CopyIsBefore, PendingIsOpen, Opened, Returning, At, Moves
    <2> QED
      BY <2>5, <2>6, <2>7, <2>8, <2>9, <2>10 DEF RouteInv
  <1>10. ASSUME Check
        PROVE  RouteInv'
    <2>1. op \in Commands /\ op.pc = "check"
      BY <1>10, AtCommand DEF Check, At
    <2>2. Moves("host") \/ Moves("undo")
      BY <1>10, <2>1, <1>0, GotoMoves DEF Check
    <2>3. UNCHANGED <<config, st, backup, ctl, hist, budget>>
      BY <1>10 DEF Check
    <2>4. TypeOK'
      BY <2>1, <2>2, <2>3 DEF TypeOK, Moves
    <2>5. PendingHasCopy' /\ PendingIsOpen'
      BY <2>1, <2>2, <2>3 DEF PendingHasCopy, PendingIsOpen, Opened, Returning, At, Moves
    <2>6. ManagedKnobsAreRemembered' /\ BaselineIsNative'
      BY <2>1, <2>2, <2>3 DEF ManagedKnobsAreRemembered, BaselineIsNative, PendingIsOpen, Opened, Returning, At, Moves
    <2>7. CommitIsRemembered' /\ SwitchIsOpen'
      BY <2>1, <2>2, <2>3 DEF CommitIsRemembered, SwitchIsOpen, Switching, Opened, At, Moves
    <2>8. RoutesBelong'
      BY <2>1, <2>2, <2>3 DEF RoutesBelong, Opened, At, Moves
    <2>9. CopyIsBefore'
      BY <2>1, <2>2, <2>3 DEF CopyIsBefore, PendingIsOpen, Opened, Returning, At, Moves
    <2> QED
      BY <2>4, <2>5, <2>6, <2>7, <2>8, <2>9 DEF RouteInv
  <1>11. ASSUME Undo
        PROVE  RouteInv'
    <2>1. op \in Commands /\ op.pc = "undo"
      BY <1>11, AtCommand DEF Undo, At
    <2>2. Moves("unlink")
      BY <1>11, <2>1, <1>0, GotoMoves DEF Undo
    <2>3. config' = op.orig /\ op.orig \in Fields
      BY <1>11, <2>1 DEF Undo, BaselineIsNative
    <2>4. UNCHANGED <<st, backup, ctl, hist, budget>>
      BY <1>11 DEF Undo
    <2>5. TypeOK'
      BY <2>1, <2>2, <2>3, <2>4 DEF TypeOK, Moves
    <2>6. PendingHasCopy' /\ PendingIsOpen'
      BY <2>1, <2>2, <2>3, <2>4 DEF PendingHasCopy, PendingIsOpen, Opened, Returning, At, Moves
    <2>7. ManagedKnobsAreRemembered' /\ BaselineIsNative'
      BY <2>1, <2>2, <2>3, <2>4 DEF ManagedKnobsAreRemembered, BaselineIsNative, PendingIsOpen, Opened, Returning, At, Moves
    <2>8. CommitIsRemembered' /\ SwitchIsOpen'
      BY <2>1, <2>2, <2>3, <2>4 DEF CommitIsRemembered, SwitchIsOpen, Switching, Opened, At, Moves
    <2>9. RoutesBelong'
      BY <2>1, <2>2, <2>3, <2>4 DEF RoutesBelong, Opened, At, Moves
    <2>10. CopyIsBefore'
      BY <2>1, <2>2, <2>3, <2>4 DEF CopyIsBefore, PendingIsOpen, Opened, Returning, At, Moves
    <2> QED
      BY <2>5, <2>6, <2>7, <2>8, <2>9, <2>10 DEF RouteInv
  <1>12. ASSUME Unlink
        PROVE  RouteInv'
    <2>1. op \in Commands /\ op.pc = "unlink"
      BY <1>12, AtCommand DEF Unlink, At
    <2>2. Moves("rolledback")
      BY <1>12, <2>1, <1>0, GotoMoves DEF Unlink
    <2>3. backup' = NoCopy
      BY <1>12 DEF Unlink
    <2>4. UNCHANGED <<config, st, ctl, hist, budget>>
      BY <1>12 DEF Unlink
    <2>5. TypeOK'
      BY <2>1, <2>2, <2>3, <2>4 DEF TypeOK, Moves
    <2>6. PendingHasCopy' /\ PendingIsOpen'
      BY <2>1, <2>2, <2>3, <2>4 DEF PendingHasCopy, PendingIsOpen, Opened, Returning, At, Moves
    <2>7. ManagedKnobsAreRemembered' /\ BaselineIsNative'
      BY <2>1, <2>2, <2>3, <2>4 DEF ManagedKnobsAreRemembered, BaselineIsNative, PendingIsOpen, Opened, Returning, At, Moves
    <2>8. CommitIsRemembered' /\ SwitchIsOpen'
      BY <2>1, <2>2, <2>3, <2>4 DEF CommitIsRemembered, SwitchIsOpen, Switching, Opened, At, Moves
    <2>9. RoutesBelong'
      BY <2>1, <2>2, <2>3, <2>4 DEF RoutesBelong, Opened, At, Moves
    <2>10. CopyIsBefore'
      BY <2>1, <2>2, <2>3, <2>4 DEF CopyIsBefore, PendingIsOpen, Opened, Returning, At, Moves
    <2> QED
      BY <2>5, <2>6, <2>7, <2>8, <2>9, <2>10 DEF RouteInv
  <1>13. ASSUME RunHost
        PROVE  RouteInv'
    <2>1. op \in Commands /\ op.pc = "host"
      BY <1>13, AtCommand DEF RunHost, At
    <2>2. Moves("verify") \/ Moves("rollback")
      BY <1>13, <2>1, <1>0, GotoMoves DEF RunHost
    <2>11. {ctl.mode, "managed"} \in SUBSET {"passthrough", "managed"} /\ HostWrites({ctl.mode, "managed"})
      BY <1>13 DEF RunHost, TypeOK
    <2>3. /\ ctl' \in [mode : {"passthrough", "managed"}, selected : Providers \cup {NoOne},
                 transition : Providers \cup {NoOne}]
          /\ hist'.dropped \/ (ctl'.selected = ctl.selected /\ ctl'.transition = ctl.transition /\ ~hist.dropped)
      BY <2>11, HostKeeps DEF Controllers
    <2>4. /\ UNCHANGED <<config, st, backup, budget>>
          /\ hist' \in [outcome : {"none", "open", "undone", "committed"}, before : Fields \cup {NoCopy},
                 edited : BOOLEAN, cut : BOOLEAN, dropped : BOOLEAN, to : Providers \cup {NoOne}]
          /\ hist'.outcome = hist.outcome /\ hist'.before = hist.before /\ hist'.edited = hist.edited
          /\ hist'.to = hist.to /\ hist'.cut = hist.cut
      BY <1>13, <2>11, HostKeeps DEF RunHost, SameTransaction, Histories
    <2>5. TypeOK'
      BY <2>1, <2>2, <2>3, <2>4 DEF TypeOK, Moves
    <2>6. PendingHasCopy' /\ PendingIsOpen'
      BY <2>1, <2>2, <2>3, <2>4 DEF PendingHasCopy, PendingIsOpen, Opened, Returning, At, Moves
    <2>7. ManagedKnobsAreRemembered' /\ BaselineIsNative'
      BY <2>1, <2>2, <2>3, <2>4 DEF ManagedKnobsAreRemembered, BaselineIsNative, PendingIsOpen, Opened, Returning, At, Moves
    <2>8. CommitIsRemembered' /\ SwitchIsOpen'
      BY <2>1, <2>2, <2>3, <2>4 DEF CommitIsRemembered, SwitchIsOpen, Switching, Opened, At, Moves
    <2>9. RoutesBelong'
      BY <2>1, <2>2, <2>3, <2>4 DEF RoutesBelong, Opened, At, Moves
    <2>10. CopyIsBefore'
      BY <2>1, <2>2, <2>3, <2>4 DEF CopyIsBefore, PendingIsOpen, Opened, Returning, At, Moves
    <2> QED
      BY <2>5, <2>6, <2>7, <2>8, <2>9, <2>10 DEF RouteInv
  <1>14. ASSUME Verify
        PROVE  RouteInv'
    <2>1. op \in Commands /\ op.pc = "verify"
      BY <1>14, AtCommand DEF Verify, At
    <2>2. Moves("commit") \/ Moves("rollback")
      BY <1>14, <2>1, <1>0, GotoMoves DEF Verify
    <2>3. UNCHANGED <<config, st, backup, ctl, hist, budget>>
      BY <1>14 DEF Verify
    <2>4. TypeOK'
      BY <2>1, <2>2, <2>3 DEF TypeOK, Moves
    <2>5. PendingHasCopy' /\ PendingIsOpen'
      BY <2>1, <2>2, <2>3 DEF PendingHasCopy, PendingIsOpen, Opened, Returning, At, Moves
    <2>6. ManagedKnobsAreRemembered' /\ BaselineIsNative'
      BY <2>1, <2>2, <2>3 DEF ManagedKnobsAreRemembered, BaselineIsNative, PendingIsOpen, Opened, Returning, At, Moves
    <2>7. CommitIsRemembered' /\ SwitchIsOpen'
      BY <2>1, <2>2, <2>3 DEF CommitIsRemembered, SwitchIsOpen, Switching, Opened, At, Moves
    <2>8. RoutesBelong'
      BY <2>1, <2>2, <2>3 DEF RoutesBelong, Opened, At, Moves
    <2>9. CopyIsBefore'
      BY <2>1, <2>2, <2>3 DEF CopyIsBefore, PendingIsOpen, Opened, Returning, At, Moves
    <2> QED
      BY <2>4, <2>5, <2>6, <2>7, <2>8, <2>9 DEF RouteInv
  <1>15. ASSUME RollBack
        PROVE  RouteInv'
    <2>1. op \in Commands /\ op.pc = "rollback"
      BY <1>15, AtCommand DEF RollBack, At
    <2>2. backup \in Fields
      BY <2>1 DEF PendingIsOpen, Opened, TypeOK
    <2>3. config' = backup /\ Goto("recheckback")
      BY <1>15, <2>1, <2>2, MergeGivesCopy, CopiesHaveModels DEF RollBack, TypeOK
    <2>4. Moves("recheckback")
      BY <2>1, <2>3, <1>0, GotoMoves
    <2>5. UNCHANGED <<st, backup, ctl, hist, budget>>
      BY <1>15 DEF RollBack
    <2>6. TypeOK'
      BY <2>1, <2>2, <2>3, <2>4, <2>5 DEF TypeOK, Moves
    <2>7. PendingHasCopy' /\ PendingIsOpen'
      BY <2>1, <2>2, <2>3, <2>4, <2>5 DEF PendingHasCopy, PendingIsOpen, Opened, Returning, At, Moves
    <2>8. ManagedKnobsAreRemembered' /\ BaselineIsNative'
      BY <2>1, <2>2, <2>3, <2>4, <2>5 DEF ManagedKnobsAreRemembered, BaselineIsNative, PendingIsOpen, Opened, Returning, At, Moves
    <2>9. CommitIsRemembered' /\ SwitchIsOpen'
      BY <2>1, <2>2, <2>3, <2>4, <2>5 DEF CommitIsRemembered, SwitchIsOpen, Switching, Opened, At, Moves
    <2>10. RoutesBelong'
      BY <2>1, <2>2, <2>3, <2>4, <2>5 DEF RoutesBelong, Opened, At, Moves
    <2>11. CopyIsBefore'
      BY <2>1, <2>2, <2>3, <2>4, <2>5 DEF CopyIsBefore, PendingIsOpen, Opened, Returning, At, Moves
    <2> QED
      BY <2>6, <2>7, <2>8, <2>9, <2>10, <2>11 DEF RouteInv
  <1>16. ASSUME RecheckBack
        PROVE  RouteInv'
    <2>1. op \in Commands /\ op.pc = "recheckback"
      BY <1>16, AtCommand DEF RecheckBack, At
    <2>2. UNCHANGED <<config, st, ctl, hist, budget>>
      BY <1>16 DEF RecheckBack
    <2>3. ASSUME backup' = NoCopy, Goto("rolledback")
          PROVE  RouteInv'
      <3>1. Moves("rolledback")
        BY <2>1, <2>3, <1>0, GotoMoves
      <3>2. TypeOK'
        BY <2>1, <2>2, <2>3, <3>1 DEF TypeOK, Moves
      <3>3. PendingHasCopy' /\ PendingIsOpen'
        BY <2>1, <2>2, <2>3, <3>1 DEF PendingHasCopy, PendingIsOpen, Opened, Returning, At, Moves
      <3>4. ManagedKnobsAreRemembered' /\ BaselineIsNative'
        BY <2>1, <2>2, <2>3, <3>1 DEF ManagedKnobsAreRemembered, BaselineIsNative, PendingIsOpen, Opened, Returning, At, Moves
      <3>5. CommitIsRemembered' /\ SwitchIsOpen'
        BY <2>1, <2>2, <2>3, <3>1 DEF CommitIsRemembered, SwitchIsOpen, Switching, Opened, At, Moves
      <3>6. RoutesBelong'
        BY <2>1, <2>2, <2>3, <3>1 DEF RoutesBelong, Opened, At, Moves
      <3>7. CopyIsBefore'
        BY <2>1, <2>2, <2>3, <3>1 DEF CopyIsBefore, PendingIsOpen, Opened, Returning, At, Moves
      <3> QED
        BY <3>2, <3>3, <3>4, <3>5, <3>6, <3>7 DEF RouteInv
    <2>4. ASSUME Failed, UNCHANGED backup
          PROVE  RouteInv'
      BY <2>1, <2>2, <2>4, FailureRests, KeepingRecord DEF TypeOK
    <2> QED
      BY <1>16, <2>3, <2>4 DEF RecheckBack
  <1>17. ASSUME RolledBack
        PROVE  RouteInv'
    <2>1. op \in Commands /\ op.pc = "rolledback"
      BY <1>17, AtCommand DEF RolledBack, At
    <2>2. UNCHANGED <<config, backup, ctl, budget>> /\ Closes
      BY <1>17, CloseCloses DEF RolledBack
    <2>3. Fails
      BY <1>17, <2>1, FailedFails DEF RolledBack
    <2>4. TypeOK'
      BY <2>1, <2>2, <2>3, <1>0 DEF TypeOK, Fails, Closes
    <2>5. PendingHasCopy' /\ PendingIsOpen'
      BY <2>1, <2>2, <2>3, <1>0 DEF PendingHasCopy, PendingIsOpen, Opened, Returning, At, Fails, Closes
    <2>6. ManagedKnobsAreRemembered' /\ BaselineIsNative'
      BY <2>1, <2>2, <2>3, <1>0 DEF ManagedKnobsAreRemembered, BaselineIsNative, PendingIsOpen, Opened, Returning, At, Fails, Closes
    <2>7. CommitIsRemembered' /\ SwitchIsOpen'
      BY <2>1, <2>2, <2>3, <1>0 DEF CommitIsRemembered, SwitchIsOpen, Switching, Opened, At, Fails, Closes
    <2>8. RoutesBelong'
      BY <2>1, <2>2, <2>3, <1>0 DEF RoutesBelong, Opened, At, Fails, Closes
    <2>9. CopyIsBefore'
      BY <2>1, <2>2, <2>3, <1>0 DEF CopyIsBefore, PendingIsOpen, Opened, Returning, At, Fails, Closes
    <2> QED
      BY <2>4, <2>5, <2>6, <2>7, <2>8, <2>9 DEF RouteInv
  <1>18. ASSUME Commit
        PROVE  RouteInv'
    <2>1. op \in Commands /\ op.pc = "commit"
      BY <1>18, AtCommand DEF Commit, At
    <2>2. Moves("committed")
      BY <1>18, <2>1, <1>0, GotoMoves DEF Commit
    <2>3. backup' = NoCopy
      BY <1>18 DEF Commit
    <2>4. UNCHANGED <<config, st, ctl, hist, budget>>
      BY <1>18 DEF Commit
    <2>5. TypeOK'
      BY <2>1, <2>2, <2>3, <2>4 DEF TypeOK, Moves
    <2>6. PendingHasCopy' /\ PendingIsOpen'
      BY <2>1, <2>2, <2>3, <2>4 DEF PendingHasCopy, PendingIsOpen, Opened, Returning, At, Moves
    <2>7. ManagedKnobsAreRemembered' /\ BaselineIsNative'
      BY <2>1, <2>2, <2>3, <2>4 DEF ManagedKnobsAreRemembered, BaselineIsNative, PendingIsOpen, Opened, Returning, At, Moves
    <2>8. CommitIsRemembered' /\ SwitchIsOpen'
      BY <2>1, <2>2, <2>3, <2>4 DEF CommitIsRemembered, SwitchIsOpen, Switching, Opened, At, Moves
    <2>9. RoutesBelong'
      BY <2>1, <2>2, <2>3, <2>4 DEF RoutesBelong, Opened, At, Moves
    <2>10. CopyIsBefore'
      BY <2>1, <2>2, <2>3, <2>4 DEF CopyIsBefore, PendingIsOpen, Opened, Returning, At, Moves
    <2> QED
      BY <2>5, <2>6, <2>7, <2>8, <2>9, <2>10 DEF RouteInv
  <1>19. ASSUME Committed
        PROVE  RouteInv'
    <2>1. op \in Commands /\ op.pc = "committed"
      BY <1>19, AtCommand DEF Committed, At
    <2>2. Moves("select")
      BY <1>19, <2>1, <1>0, GotoMoves DEF Committed
    <2>3. op.target \in Providers /\ st.tx \in Models /\ Owner[st.tx] = op.target
      BY <2>1 DEF SwitchIsOpen, Switching, PendingIsOpen, RoutesBelong, TypeOK, RouteState
    <2>4. st' = [st EXCEPT !.tx = NoOne, !.routes[op.target] = st.tx]
      BY <1>19 DEF Committed
    <2>5. st \in RouteState /\ st.routes \in [Providers -> Models \cup {NoOne}]
      BY DEF TypeOK, RouteState
    <2>6. /\ st' \in RouteState /\ st'.tx = NoOne /\ st'.exists = st.exists /\ st'.baseline = st.baseline
          /\ st'.routes = [st.routes EXCEPT ![op.target] = st.tx]
      BY <2>3, <2>4, <2>5, CommitState
    <2>7. /\ hist'.outcome = "committed" /\ hist'.to = op.target /\ hist'.dropped = hist.dropped
          /\ hist' \in [outcome : {"none", "open", "undone", "committed"}, before : Fields \cup {NoCopy},
                     edited : BOOLEAN, cut : BOOLEAN, dropped : BOOLEAN, to : Providers \cup {NoOne}]
      BY <1>19, <2>3 DEF Committed, TypeOK
    <2>8. st.exists
      BY <2>1, <2>3 DEF PendingIsOpen
    <2>9. UNCHANGED <<config, backup, ctl, budget>>
      BY <1>19 DEF Committed
    <2>10. TypeOK'
      BY <2>1, <2>2, <2>3, <2>4, <2>5, <2>6, <2>7, <2>8, <2>9 DEF TypeOK, Moves
    <2>11. PendingHasCopy' /\ PendingIsOpen'
      BY <2>1, <2>2, <2>3, <2>4, <2>5, <2>6, <2>7, <2>8, <2>9 DEF PendingHasCopy, PendingIsOpen, Opened, Returning, At, Moves
    <2>12. ManagedKnobsAreRemembered' /\ BaselineIsNative'
      BY <2>1, <2>2, <2>3, <2>4, <2>5, <2>6, <2>7, <2>8, <2>9 DEF ManagedKnobsAreRemembered, BaselineIsNative, PendingIsOpen, Opened, Returning, At, Moves
    <2>13. CommitIsRemembered' /\ SwitchIsOpen'
      BY <2>1, <2>2, <2>3, <2>4, <2>5, <2>6, <2>7, <2>8, <2>9 DEF CommitIsRemembered, SwitchIsOpen, Switching, Opened, At, Moves
    <2>14. RoutesBelong'
      BY <2>1, <2>2, <2>3, <2>4, <2>5, <2>6, <2>7, <2>8, <2>9 DEF RoutesBelong, Opened, At, Moves
    <2>15. CopyIsBefore'
      BY <2>1, <2>2, <2>3, <2>4, <2>5, <2>6, <2>7, <2>8, <2>9 DEF CopyIsBefore, PendingIsOpen, Opened, Returning, At, Moves
    <2> QED
      BY <2>10, <2>11, <2>12, <2>13, <2>14, <2>15 DEF RouteInv
  <1>20. ASSUME Select
        PROVE  RouteInv'
    <2>1. op \in Commands /\ op.pc = "select"
      BY <1>20, AtCommand DEF Select, At
    <2>2. op' = Idle /\ op'.pc = "idle"
      BY <1>20, <1>0 DEF Select
    <2>3. op.target \in Providers /\ hist.to = op.target
      BY <2>1 DEF SwitchIsOpen, Switching, At
    <2>4. ctl' \in [mode : {"passthrough", "managed"}, selected : Providers \cup {NoOne}, transition : Providers \cup {NoOne}] /\ ctl'.selected = op.target
      BY <1>20, <2>3 DEF Select, TypeOK
    <2>5. /\ UNCHANGED <<config, st, backup, budget>>
          /\ hist' \in [outcome : {"none", "open", "undone", "committed"}, before : Fields \cup {NoCopy},
                 edited : BOOLEAN, cut : BOOLEAN, dropped : BOOLEAN, to : Providers \cup {NoOne}]
          /\ hist'.outcome = hist.outcome /\ hist'.before = hist.before /\ hist'.edited = hist.edited
          /\ hist'.to = hist.to /\ hist'.cut = hist.cut
      BY <1>20, NothingDropped DEF Select, SameTransaction, Histories
    <2>6. TypeOK'
      BY <2>1, <2>2, <2>3, <2>4, <2>5 DEF TypeOK
    <2>7. PendingHasCopy' /\ PendingIsOpen'
      BY <2>1, <2>2, <2>3, <2>4, <2>5 DEF PendingHasCopy, PendingIsOpen, Opened, Returning, At
    <2>8. ManagedKnobsAreRemembered' /\ BaselineIsNative'
      BY <2>1, <2>2, <2>3, <2>4, <2>5 DEF ManagedKnobsAreRemembered, BaselineIsNative, PendingIsOpen, Opened, Returning, At
    <2>9. CommitIsRemembered' /\ SwitchIsOpen'
      BY <2>1, <2>2, <2>3, <2>4, <2>5 DEF CommitIsRemembered, SwitchIsOpen, Switching, Opened, At
    <2>10. RoutesBelong'
      BY <2>1, <2>2, <2>3, <2>4, <2>5 DEF RoutesBelong, Opened, At
    <2>11. CopyIsBefore'
      BY <2>1, <2>2, <2>3, <2>4, <2>5 DEF CopyIsBefore, PendingIsOpen, Opened, Returning, At
    <2> QED
      BY <2>6, <2>7, <2>8, <2>9, <2>10, <2>11 DEF RouteInv
  <1>21. ASSUME Native
        PROVE  RouteInv'
    <2>1. op \in Commands /\ op.pc = "native"
      BY <1>21, AtCommand DEF Native, At
    <2>2. UNCHANGED <<st, backup, ctl, hist, budget>>
      BY <1>21 DEF Native
    <2>3. CASE st.baseline.model = NoOne
      <3>1. config' = config
        BY <1>21, <2>3 DEF Native
      <3>2. Moves("done")
        BY <1>21, <2>1, <2>3, <1>0, GotoMoves DEF Native
      <3>3. st.baseline = NoCopy
        BY <2>3, CopiesHaveModels DEF TypeOK, RouteState
      <3>4. config.knobs = "native"
        BY <3>3, CopiesHaveModels DEF TypeOK, ManagedKnobsAreRemembered
      <3>5. TypeOK'
        BY <2>1, <2>2, <3>1, <3>2, <3>3, <3>4 DEF TypeOK, Moves
      <3>6. PendingHasCopy' /\ PendingIsOpen'
        BY <2>1, <2>2, <3>1, <3>2, <3>3, <3>4 DEF PendingHasCopy, PendingIsOpen, Opened, Returning, At, Moves
      <3>7. ManagedKnobsAreRemembered' /\ BaselineIsNative'
        BY <2>1, <2>2, <3>1, <3>2, <3>3, <3>4 DEF ManagedKnobsAreRemembered, BaselineIsNative, PendingIsOpen, Opened, Returning, At, Moves
      <3>8. CommitIsRemembered' /\ SwitchIsOpen'
        BY <2>1, <2>2, <3>1, <3>2, <3>3, <3>4 DEF CommitIsRemembered, SwitchIsOpen, Switching, Opened, At, Moves
      <3>9. RoutesBelong'
        BY <2>1, <2>2, <3>1, <3>2, <3>3, <3>4 DEF RoutesBelong, Opened, At, Moves
      <3>10. CopyIsBefore'
        BY <2>1, <2>2, <3>1, <3>2, <3>3, <3>4 DEF CopyIsBefore, PendingIsOpen, Opened, Returning, At, Moves
      <3> QED
        BY <3>5, <3>6, <3>7, <3>8, <3>9, <3>10 DEF RouteInv
    <2>4. CASE st.baseline.model # NoOne
      <3>1. st.baseline \in Fields
        BY <2>4 DEF TypeOK, RouteState
      <3>2. config' = st.baseline
        BY <1>21, <2>4, <3>1, NativeFields DEF Native, TypeOK
      <3>3. config \in Fields
        BY DEF TypeOK
      <3>4. /\ op' \in Commands /\ op'.pc = "nativecheck" /\ op'.orig = config /\ op'.cmd = op.cmd
            /\ op'.target = op.target
        <4>1. op' = [op EXCEPT !.pc = "nativecheck", !.orig = config]
          BY <1>21, <2>4 DEF Native
        <4> QED
          BY <2>1, <3>3, <4>1, <1>0 DEF Commands
      <3>5. TypeOK'
        BY <2>1, <2>2, <3>1, <3>2, <3>3, <3>4 DEF TypeOK
      <3>6. PendingHasCopy' /\ PendingIsOpen'
        BY <2>1, <2>2, <3>1, <3>2, <3>3, <3>4 DEF PendingHasCopy, PendingIsOpen, Opened, Returning, At
      <3>7. ManagedKnobsAreRemembered' /\ BaselineIsNative'
        BY <2>1, <2>2, <3>1, <3>2, <3>3, <3>4 DEF ManagedKnobsAreRemembered, BaselineIsNative, PendingIsOpen, Opened, Returning, At
      <3>8. CommitIsRemembered' /\ SwitchIsOpen'
        BY <2>1, <2>2, <3>1, <3>2, <3>3, <3>4 DEF CommitIsRemembered, SwitchIsOpen, Switching, Opened, At
      <3>9. RoutesBelong'
        BY <2>1, <2>2, <3>1, <3>2, <3>3, <3>4 DEF RoutesBelong, Opened, At
      <3>10. CopyIsBefore'
        BY <2>1, <2>2, <3>1, <3>2, <3>3, <3>4 DEF CopyIsBefore, PendingIsOpen, Opened, Returning, At
      <3> QED
        BY <3>5, <3>6, <3>7, <3>8, <3>9, <3>10 DEF RouteInv
    <2> QED
      BY <2>3, <2>4
  <1>22. ASSUME NativeCheck
        PROVE  RouteInv'
    <2>1. op \in Commands /\ op.pc = "nativecheck"
      BY <1>22, AtCommand DEF NativeCheck, At
    <2>2. UNCHANGED <<st, ctl, hist, budget>> /\ st.tx = NoOne
      BY <1>22, <2>1 DEF NativeCheck, PendingIsOpen, Returning
    <2>3. ASSUME backup' = NoCopy, Goto("forget"), UNCHANGED config
          PROVE  RouteInv'
      <3>1. Moves("forget")
        BY <2>1, <2>3, <1>0, GotoMoves
      <3>2. TypeOK'
        BY <2>1, <2>2, <2>3, <3>1 DEF TypeOK, Moves
      <3>3. PendingHasCopy' /\ PendingIsOpen'
        BY <2>1, <2>2, <2>3, <3>1 DEF PendingHasCopy, PendingIsOpen, Opened, Returning, At, Moves
      <3>4. ManagedKnobsAreRemembered' /\ BaselineIsNative'
        BY <2>1, <2>2, <2>3, <3>1 DEF ManagedKnobsAreRemembered, BaselineIsNative, PendingIsOpen, Opened, Returning, At, Moves
      <3>5. CommitIsRemembered' /\ SwitchIsOpen'
        BY <2>1, <2>2, <2>3, <3>1 DEF CommitIsRemembered, SwitchIsOpen, Switching, Opened, At, Moves
      <3>6. RoutesBelong'
        BY <2>1, <2>2, <2>3, <3>1 DEF RoutesBelong, Opened, At, Moves
      <3>7. CopyIsBefore'
        BY <2>1, <2>2, <2>3, <3>1 DEF CopyIsBefore, PendingIsOpen, Opened, Returning, At, Moves
      <3> QED
        BY <3>2, <3>3, <3>4, <3>5, <3>6, <3>7 DEF RouteInv
    <2>4. ASSUME config' = op.orig, Failed, UNCHANGED backup
          PROVE  RouteInv'
      <3>1. Fails
        BY <2>1, <2>4, FailedFails
      <3>2. op.orig \in Fields
        BY <2>1 DEF BaselineIsNative
      <3>3. TypeOK'
        BY <1>0, <2>1, <2>2, <2>4, <3>1, <3>2 DEF TypeOK, Fails
      <3>4. PendingHasCopy' /\ PendingIsOpen'
        BY <1>0, <2>1, <2>2, <2>4, <3>1, <3>2 DEF PendingHasCopy, PendingIsOpen, Opened, Returning, At, Fails
      <3>5. ManagedKnobsAreRemembered' /\ BaselineIsNative'
        BY <1>0, <2>1, <2>2, <2>4, <3>1, <3>2 DEF ManagedKnobsAreRemembered, BaselineIsNative, PendingIsOpen, Opened, Returning, At, Fails
      <3>6. CommitIsRemembered' /\ SwitchIsOpen'
        BY <1>0, <2>1, <2>2, <2>4, <3>1, <3>2 DEF CommitIsRemembered, SwitchIsOpen, Switching, Opened, At, Fails
      <3>7. RoutesBelong'
        BY <1>0, <2>1, <2>2, <2>4, <3>1, <3>2 DEF RoutesBelong, Opened, At, Fails
      <3>8. CopyIsBefore'
        BY <1>0, <2>1, <2>2, <2>4, <3>1, <3>2 DEF CopyIsBefore, PendingIsOpen, Opened, Returning, At, Fails
      <3> QED
        BY <3>3, <3>4, <3>5, <3>6, <3>7, <3>8 DEF RouteInv
    <2> QED
      BY <1>22, <2>3, <2>4 DEF NativeCheck
  <1>23. ASSUME Forget
        PROVE  RouteInv'
    <2>1. op \in Commands /\ op.pc = "forget"
      BY <1>23, AtCommand DEF Forget, At
    <2>2. Moves("done")
      BY <1>23, <2>1, <1>0, GotoMoves DEF Forget
    <2>3. st' = Missing
      BY <1>23 DEF Forget
    <2>4. UNCHANGED <<config, backup, ctl, hist, budget>>
      BY <1>23 DEF Forget
    <2>5. TypeOK'
      BY <2>1, <2>2, <2>3, <2>4 DEF TypeOK, Moves
    <2>6. PendingHasCopy' /\ PendingIsOpen'
      BY <2>1, <2>2, <2>3, <2>4 DEF PendingHasCopy, PendingIsOpen, Opened, Returning, At, Moves
    <2>7. ManagedKnobsAreRemembered' /\ BaselineIsNative'
      BY <2>1, <2>2, <2>3, <2>4 DEF ManagedKnobsAreRemembered, BaselineIsNative, PendingIsOpen, Opened, Returning, At, Moves
    <2>8. CommitIsRemembered' /\ SwitchIsOpen'
      BY <2>1, <2>2, <2>3, <2>4 DEF CommitIsRemembered, SwitchIsOpen, Switching, Opened, At, Moves
    <2>9. RoutesBelong'
      BY <2>1, <2>2, <2>3, <2>4 DEF RoutesBelong, Opened, At, Moves
    <2>10. CopyIsBefore'
      BY <2>1, <2>2, <2>3, <2>4 DEF CopyIsBefore, PendingIsOpen, Opened, Returning, At, Moves
    <2> QED
      BY <2>5, <2>6, <2>7, <2>8, <2>9, <2>10 DEF RouteInv
  <1>24. ASSUME Disable
        PROVE  RouteInv'
    <2>1. op \in Commands /\ op.pc = "disable"
      BY <1>24, AtCommand DEF Disable, At
    <2>2. UNCHANGED <<config, st, backup, budget>>
      BY <1>24 DEF Disable
    <2>3. HostWrites({"passthrough"})
      BY <1>24 DEF Disable, HostWrites
    <2>4. KeepsRecord
      BY <2>1, <2>2, <2>3, HostRests DEF TypeOK
    <2>5. op' = Idle \/ op' = [op EXCEPT !.pc = "recover", !.ret = "native"]
      BY <1>24 DEF Disable
    <2>6. op.cmd \in {"switch", "reset"} => op.target \in Providers
      BY <2>1 DEF SwitchIsOpen
    <2>7. [op EXCEPT !.pc = "recover", !.ret = "native"] \in Commands
      BY <2>1, <1>0 DEF Commands
    <2>8. op' = Idle \/ (op' \in Commands /\ op'.pc = "recover" /\ op'.ret = "native" /\ op'.cmd = op.cmd /\ op'.target = op.target)
      BY <2>1, <2>5, <2>7 DEF Commands
    <2>9. Rests
      BY <2>6, <2>8 DEF Rests
    <2> QED
      BY <2>4, <2>9, CommandRests
  <1>25. ASSUME Done
        PROVE  RouteInv'
    <2>1. op \in Commands /\ op.pc = "done" /\ st.tx = NoOne
      BY <1>25, AtCommand DEF Done, At, PendingIsOpen, Returning
    <2>2. UNCHANGED <<config, budget>>
      BY <1>25 DEF Done
    <2>3. CASE op.cmd \in {"disable", "cloud"}
      <3>1. op' = Idle /\ UNCHANGED <<st, backup>>
        BY <1>25, <2>3 DEF Done
      <3>2. HostWrites({"passthrough"})
        BY <1>25, <2>3 DEF Done, HostWrites
      <3>3. KeepsRecord
        BY <2>1, <2>2, <3>1, <3>2, HostRests DEF TypeOK
      <3>4. Rests
        BY <3>1 DEF Rests
      <3> QED
        BY <3>3, <3>4, CommandRests
    <2>4. CASE op.cmd \notin {"disable", "cloud"}
      <3>1. /\ st' = Missing /\ backup' = NoCopy
            /\ ctl' \in [mode : {"passthrough", "managed"}, selected : Providers \cup {NoOne},
                         transition : Providers \cup {NoOne}]
        BY <1>25, <2>4 DEF Done, Canonical
      <3>2. /\ hist'.outcome = "none"
            /\ hist' \in [outcome : {"none", "open", "undone", "committed"}, before : Fields \cup {NoCopy},
                          edited : BOOLEAN, cut : BOOLEAN, dropped : BOOLEAN, to : Providers \cup {NoOne}]
        BY <1>25, <2>4 DEF Done, TypeOK
      <3>3. op' = IF op.cmd = "reset" THEN [op EXCEPT !.pc = "intend"] ELSE Idle
        BY <1>25, <2>4 DEF Done
      <3>4. \/ op' = Idle /\ op'.pc = "idle"
            \/ /\ op' \in Commands /\ op'.pc = "intend" /\ op'.cmd = "reset" /\ op.cmd = "reset"
               /\ op'.target = op.target
        BY <2>1, <3>3, <1>0, MoveCommand
      <3>5. config.knobs = "native"
        BY <2>1 DEF BaselineIsNative
      <3>6. TypeOK'
        BY <2>1, <2>2, <3>1, <3>2, <3>4, <3>5 DEF TypeOK
      <3>7. PendingHasCopy' /\ PendingIsOpen'
        BY <2>1, <2>2, <3>1, <3>2, <3>4, <3>5 DEF PendingHasCopy, PendingIsOpen, Opened, Returning, At
      <3>8. ManagedKnobsAreRemembered' /\ BaselineIsNative'
        BY <2>1, <2>2, <3>1, <3>2, <3>4, <3>5 DEF ManagedKnobsAreRemembered, BaselineIsNative, PendingIsOpen, Opened, Returning, At
      <3>9. CommitIsRemembered' /\ SwitchIsOpen'
        BY <2>1, <2>2, <3>1, <3>2, <3>4, <3>5 DEF CommitIsRemembered, SwitchIsOpen, Switching, Opened, At
      <3>10. RoutesBelong'
        BY <2>1, <2>2, <3>1, <3>2, <3>4, <3>5 DEF RoutesBelong, Opened, At
      <3>11. CopyIsBefore'
        BY <2>1, <2>2, <3>1, <3>2, <3>4, <3>5 DEF CopyIsBefore, PendingIsOpen, Opened, Returning, At
      <3> QED
        BY <3>6, <3>7, <3>8, <3>9, <3>10, <3>11 DEF RouteInv
    <2> QED
      BY <2>3, <2>4
  <1>26. ASSUME Crash
        PROVE  RouteInv'
    <2>1. op' = Idle /\ UNCHANGED <<config, st, backup, ctl>>
      BY <1>26 DEF Crash
    <2>2. hist' = [hist EXCEPT !.cut = hist.cut \/ op.pc \in {"recovered", "rolledback", "committed"}]
      BY <1>26 DEF Crash
    <2>3. budget' \in [commands : Nat, edits : Nat, crashes : Nat]
      BY <1>26 DEF Crash, TypeOK
    <2>4. CASE hist.cut \/ op.pc \in {"recovered", "rolledback", "committed"}
      <3>1. hist' = [hist EXCEPT !.cut = TRUE]
        BY <2>2, <2>4
      <3>2. hist'.cut
        BY <3>1 DEF TypeOK
      <3>3. KeepsRecord
        BY <2>1, <2>3, <3>1, <3>2, KeepingRecord
      <3> QED
        BY <2>1, <3>3, CommandRests DEF Rests
    <2>5. CASE ~(hist.cut \/ op.pc \in {"recovered", "rolledback", "committed"})
      <3>1. hist' = [hist EXCEPT !.cut = FALSE] /\ hist.cut = FALSE
        BY <2>2, <2>5 DEF TypeOK
      <3>2. hist' = hist
        BY <3>1 DEF TypeOK
      <3>3. KeepsRecord
        BY <2>1, <2>3, <2>5, <3>2, KeepingRecord
      <3> QED
        BY <2>1, <3>3, CommandRests DEF Rests
    <2> QED
      BY <2>4, <2>5
  <1>27. ASSUME NEW m \in Models, Edit(m)
        PROVE  RouteInv'
    <2>1. UNCHANGED <<st, backup, ctl, op>>
      BY <1>27 DEF Edit
    <2>2. config' = [config EXCEPT !.model = m] /\ config \in Fields
      BY <1>27 DEF Edit, TypeOK
    <2>3. /\ config' \in Fields /\ config'.knobs = config.knobs
          /\ m = config.model => config' = config
      BY <2>2, EditedFields
    <2>4. /\ hist'.outcome = hist.outcome /\ hist'.before = hist.before /\ hist'.to = hist.to /\ hist'.cut = hist.cut
          /\ hist'.dropped = hist.dropped
          /\ ~hist'.edited => ~hist.edited /\ m = config.model
          /\ hist' \in [outcome : {"none", "open", "undone", "committed"}, before : Fields \cup {NoCopy},
                     edited : BOOLEAN, cut : BOOLEAN, dropped : BOOLEAN, to : Providers \cup {NoOne}]
      BY <1>27 DEF Edit, TypeOK
    <2>5. budget' \in [commands : Nat, edits : Nat, crashes : Nat]
      BY <1>27 DEF Edit, TypeOK
    <2>6. TypeOK'
      BY <2>1, <2>2, <2>3, <2>4, <2>5 DEF TypeOK
    <2>7. PendingHasCopy' /\ PendingIsOpen'
      BY <2>1, <2>2, <2>3, <2>4, <2>5 DEF PendingHasCopy, PendingIsOpen, Opened, Returning, At
    <2>8. ManagedKnobsAreRemembered' /\ BaselineIsNative'
      BY <2>1, <2>2, <2>3, <2>4, <2>5 DEF ManagedKnobsAreRemembered, BaselineIsNative, PendingIsOpen, Opened, Returning, At
    <2>9. CommitIsRemembered' /\ SwitchIsOpen'
      BY <2>1, <2>2, <2>3, <2>4, <2>5 DEF CommitIsRemembered, SwitchIsOpen, Switching, Opened, At
    <2>10. RoutesBelong'
      BY <2>1, <2>2, <2>3, <2>4, <2>5 DEF RoutesBelong, Opened, At
    <2>11. CopyIsBefore'
      BY <2>1, <2>2, <2>3, <2>4, <2>5 DEF CopyIsBefore, PendingIsOpen, Opened, Returning, At
    <2> QED
      BY <2>6, <2>7, <2>8, <2>9, <2>10, <2>11 DEF RouteInv
  <1>28. ASSUME Control
        PROVE  RouteInv'
    <2>1. op = Idle /\ op' = Idle /\ UNCHANGED <<config, st, backup, budget>>
      BY <1>28 DEF Control
    <2>2. KeepsRecord
      BY <1>28, <2>1, <1>0, HostRests DEF Control
    <2> QED
      BY <2>1, <2>2, CommandRests DEF Rests
  <1>29. ASSUME UNCHANGED vars
        PROVE  RouteInv'
    BY <1>29 DEF vars, RouteInv, TypeOK, PendingHasCopy, ManagedKnobsAreRemembered, CommitIsRemembered,
       SwitchIsOpen, RoutesBelong, PendingIsOpen, BaselineIsNative, CopyIsBefore, Switching, Opened,
       Returning, At
  <1> QED
    BY <1>1, <1>2, <1>3, <1>4, <1>5, <1>6, <1>7, <1>8, <1>9, <1>10, <1>11, <1>12, <1>13, <1>14, <1>15, <1>16, <1>17, <1>18, <1>19, <1>20, <1>21, <1>22, <1>23, <1>24, <1>25, <1>26, <1>27, <1>28, <1>29 DEF Next

\* Only a command that closes its transaction, or the one that recovers it,
\* declares it undone.
LEMMA OnlyClosingUndoes ==
    ASSUME TypeOK, [Next]_vars, hist.outcome = "open", hist'.outcome = "undone"
    PROVE  Recovered \/ RolledBack
  <1>1. hist \in [outcome : {"none", "open", "undone", "committed"}, before : Fields \cup {NoCopy},
                  edited : BOOLEAN, cut : BOOLEAN, dropped : BOOLEAN, to : Providers \cup {NoOne}]
    BY DEF TypeOK
  <1>2. hist' # hist
    OBVIOUS
  <1>3. ~Write
    <2>1. ~(hist' = [hist EXCEPT !.outcome = "open", !.before = config, !.edited = FALSE])
      BY <1>1
    <2> QED
      BY <1>2, <2>1 DEF Write
  <1>4. ~Committed
    BY <1>1 DEF Committed
  <1>5. ~Done
    BY <1>1, <1>2 DEF Done, HostWrites
  <1>6. ~Crash
    BY <1>1 DEF Crash
  <1>7. \A m \in Models : ~Edit(m)
    BY <1>1 DEF Edit
  <1>9. ~(hist' = [hist EXCEPT !.dropped = FALSE]) /\ ~(hist' = [hist EXCEPT !.dropped = TRUE])
    BY <1>1
  <1>10. ~Intend /\ ~Select /\ ~RunHost /\ ~Disable /\ ~Control
    BY <1>2, <1>9 DEF Intend, Select, RunHost, Disable, Control, HostWrites
  <1>8. Write \/ Committed \/ Done \/ Crash \/ (\E m \in Models : Edit(m)) \/ Recovered \/ RolledBack
    BY <1>2, <1>10 DEF Next, Issue, Plan, Recover, Recheck, Save, Apply, Check, Undo, Unlink,
       Verify, RollBack, RecheckBack, Commit, Native, NativeCheck, Forget, vars
  <1> QED
    BY <1>3, <1>4, <1>5, <1>6, <1>7, <1>8

-----------------------------------------------------------------------------

\* Whatever died between two of its writes, the route record, its rollback
\* copy, openclaw.json and the controller stay consistent enough to undo or to
\* commit what is pending and to return to the native route.
THEOREM RouteIsSafe == Spec => []RouteInv
  <1>1. RouteInv /\ [Next]_vars => RouteInv'
    BY RouteStep
  <1> QED
    BY InitEstablishes, <1>1, PTL DEF Spec

\* A pending transaction can be undone, except after a death between the
\* removal of its copy and the closing of its record.
THEOREM PendingCanBeUndone == Spec => []PendingHasCopy
  <1>1. RouteInv => PendingHasCopy
    BY DEF RouteInv
  <1> QED
    BY RouteIsSafe, <1>1, PTL

\* The native timeouts are on record whenever the managed ones are in use.
THEOREM NativeIsRemembered == Spec => []ManagedKnobsAreRemembered
  <1>1. RouteInv => ManagedKnobsAreRemembered
    BY DEF RouteInv
  <1> QED
    BY RouteIsSafe, <1>1, PTL

\* A committed route is the selected one, or its transition still shows.
THEOREM CommitsAreRemembered == Spec => []CommitIsRemembered
  <1>1. RouteInv => CommitIsRemembered
    BY DEF RouteInv
  <1> QED
    BY RouteIsSafe, <1>1, PTL

\* Undoing a transaction, at once or by a later command, gives back the route
\* it began with, unless the operator has changed it meanwhile.
THEOREM UndoingRestores == Spec => UndoneIsUndone
  <1>1. ASSUME RouteInv, [Next]_vars,
               hist.outcome = "open", hist'.outcome = "undone", ~hist.edited
        PROVE  Owned(config') = Owned(hist.before)
    <2>1. Recovered \/ RolledBack
      BY <1>1, OnlyClosingUndoes DEF RouteInv
    <2>2. op.pc \in {"recovered", "rolledback"} /\ config' = config
      BY <2>1 DEF Recovered, RolledBack, At
    <2>3. config = hist.before
      BY <1>1, <2>2 DEF RouteInv, CopyIsBefore
    <2> QED
      BY <2>2, <2>3
  <1>2. RouteInv /\ [Next]_vars =>
          [hist.outcome = "open" /\ hist'.outcome = "undone" /\ ~hist.edited
             => Owned(config') = Owned(hist.before)]_vars
    BY <1>1
  <1> QED
    BY RouteIsSafe, <1>2, PTL DEF Spec, UndoneIsUndone
=============================================================================
