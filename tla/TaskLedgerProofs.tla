--------------------------- MODULE TaskLedgerProofs ---------------------------
(***************************************************************************)
(* Proofs about TaskLedger.                                                *)
(***************************************************************************)
EXTENDS TaskLedger, FiniteSetTheorems, SequenceTheorems, TLAPS

-----------------------------------------------------------------------------
(* Records of a process. *)

\* Every field of a process is typed.
LEMMA ProgressFields ==
  ASSUME NEW l \in Progress
  PROVE  /\ l.cmd \in Commands \cup {"idle"} /\ l.arg \in Nat /\ l.todo \in Seq(PhaseNames)
         /\ l.step \in Steps /\ l.tx \in Transaction /\ l.replay \in BOOLEAN /\ l.seen \in Nat
  BY DEF Progress

\* A process that only goes to another step (writer_lock, write_revision()).
LEMMA GoesOn ==
  ASSUME NEW l \in Progress, NEW step \in Steps
  PROVE  LET m == [l EXCEPT !.step = step]
         IN m \in Progress /\ m.step = step /\ m.tx = l.tx /\ m.todo = l.todo /\ m.arg = l.arg /\ m.replay = l.replay
  BY DEF Progress

\* A process that gives up under the lock (SystemExit in recover_pending_locked()).
LEMMA GivesUp ==
  ASSUME NEW l \in Progress, l.todo # <<>>
  PROVE  LET m == [l EXCEPT !.step = "release", !.todo = <<Head(@)>>]
         IN m \in Progress /\ m.step = "release" /\ m.todo = <<Head(l.todo)>> /\ m.arg = l.arg
  <1>1. Head(l.todo) \in PhaseNames
    BY HeadTailProperties, ProgressFields
  <1>2. <<Head(l.todo)>> \in Seq(PhaseNames)
    BY <1>1
  <1>3. "release" \in Steps
    BY DEF Steps
  <1> QED
    BY <1>2, <1>3 DEF Progress

\* A process that is going to write a transaction (transactional_state()).
LEMMA StartsWriting ==
  ASSUME NEW l \in Progress, NEW tx \in Transaction
  PROVE  /\ LET m == [l EXCEPT !.step = "append", !.tx = tx]
            IN m \in Progress /\ m.step = "append" /\ m.tx = tx /\ m.todo = l.todo /\ m.arg = l.arg /\ m.replay = l.replay
         /\ LET m == [l EXCEPT !.step = "append", !.tx = tx, !.replay = TRUE]
            IN m \in Progress /\ m.step = "append" /\ m.tx = tx /\ m.todo = l.todo /\ m.arg = l.arg /\ m.replay = TRUE
  <1>1. "append" \in Steps
    BY DEF Steps
  <1> QED
    BY <1>1 DEF Progress

\* The empty transaction, and a process without a command.
LEMMA IdleIsProgress ==
  /\ NoState \in Revision /\ NoTxn \in Transaction /\ Idle \in Progress
  /\ Idle.step = "next" /\ Idle.todo = <<>>
  <1>1. NoState \in Revision
    <2>1. <<>> \in Seq(1..Strategies)
      OBVIOUS
    <2>2. 0 \in 0..RetryBudget
      BY TaskAssumption
    <2> QED
      BY <2>1, <2>2 DEF NoState, Revision
  <1>2. NoTxn \in Transaction
    BY <1>1 DEF NoTxn, Transaction
  <1>3. Idle \in Progress
    BY <1>2 DEF Idle, Progress, Steps
  <1> QED
    BY <1>1, <1>2, <1>3 DEF Idle

\* A process that ends its replay and goes to the body (recover_pending_locked()).
LEMMA EndsReplay ==
  ASSUME NEW l \in Progress
  PROVE  LET m == [l EXCEPT !.step = "body", !.replay = FALSE, !.tx = NoTxn]
         IN m \in Progress /\ m.step = "body" /\ m.todo = l.todo /\ m.arg = l.arg
  <1>1. "body" \in Steps
    BY DEF Steps
  <1> QED
    BY <1>1, IdleIsProgress DEF Progress

\* A process that goes on to its next phase or ends its command.
LEMMA GoesToNextPhase ==
  ASSUME NEW l \in Progress, l.todo # <<>>, NEW n \in Nat
  PROVE  /\ Continue(l) \in Progress /\ Continue(l).step = "next"
         /\ [Continue(l) EXCEPT !.seen = n] \in Progress /\ [Continue(l) EXCEPT !.seen = n].step = "next"
         /\ [Continue(l) EXCEPT !.seen = n].todo = Continue(l).todo
         /\ [Continue(l) EXCEPT !.seen = n].arg = Continue(l).arg
         /\ Continue(l).todo # <<>> => Continue(l).todo = Tail(l.todo) /\ Continue(l).arg = l.arg
  <1>1. Tail(l.todo) \in Seq(PhaseNames)
    BY HeadTailProperties, ProgressFields
  <1>2. "next" \in Steps
    BY DEF Steps
  <1>3. CASE Tail(l.todo) = <<>>
    <2>1. Continue(l) = Idle
      BY <1>3 DEF Continue
    <2>2. [Idle EXCEPT !.seen = n] \in Progress /\ [Idle EXCEPT !.seen = n].step = "next"
          /\ [Idle EXCEPT !.seen = n].todo = Idle.todo /\ [Idle EXCEPT !.seen = n].arg = Idle.arg
      BY IdleIsProgress DEF Progress
    <2> QED
      BY <2>1, <2>2, IdleIsProgress
  <1>4. CASE Tail(l.todo) # <<>>
    <2> DEFINE m == [l EXCEPT !.step = "next", !.todo = Tail(l.todo), !.tx = NoTxn]
    <2>1. Continue(l) = m
      BY <1>4 DEF Continue
    <2>2. m \in Progress /\ m.step = "next" /\ m.todo = Tail(l.todo) /\ m.arg = l.arg
      BY <1>1, <1>2, IdleIsProgress DEF Progress
    <2> HIDE DEF m
    <2>3. [m EXCEPT !.seen = n] \in Progress /\ [m EXCEPT !.seen = n].step = m.step
          /\ [m EXCEPT !.seen = n].todo = m.todo /\ [m EXCEPT !.seen = n].arg = m.arg
      BY <2>2 DEF Progress
    <2> QED
      BY <2>1, <2>2, <2>3
  <1> QED
    BY <1>3, <1>4

\* The phases of every command are a sequence of names.
LEMMA PhasesAreNames ==
  ASSUME NEW cmd \in Commands
  PROVE  /\ Phases[cmd] \in Seq(PhaseNames)
         /\ cmd # "rollback" => \A i \in 1..Len(Phases[cmd]) : Phases[cmd][i] # "rollback"
  <1>1. cmd \in {"init", "show", "commit", "complete", "rollback", "recover", "run", "verify"}
    BY DEF Commands, Phases
  <1>2. /\ \A a \in PhaseNames : <<a>> \in Seq(PhaseNames) /\ Len(<<a>>) = 1 /\ <<a>>[1] = a
        /\ {"init", "load", "commit", "complete", "rollback"} \subseteq PhaseNames
    BY DEF PhaseNames
  <1>3. CASE cmd = "recover"
    <2>1. Phases[cmd] = <<"load", "recover">>
      BY <1>3 DEF Phases
    <2>2. <<"load", "recover">> \in Seq(PhaseNames) /\ Len(<<"load", "recover">>) = 2
      BY DEF PhaseNames, Remarks
    <2>3. \A i \in 1..2 : <<"load", "recover">>[i] # "rollback"
      OBVIOUS
    <2> QED
      BY <2>1, <2>2, <2>3
  <1>4. CASE cmd = "run"
    <2>1. Phases[cmd] = <<"load", "ACTION", "FAILURE">>
      BY <1>4 DEF Phases
    <2>2. <<"load", "ACTION", "FAILURE">> \in Seq(PhaseNames) /\ Len(<<"load", "ACTION", "FAILURE">>) = 3
      BY DEF PhaseNames, Remarks
    <2>3. \A i \in 1..3 : <<"load", "ACTION", "FAILURE">>[i] # "rollback"
      OBVIOUS
    <2> QED
      BY <2>1, <2>2, <2>3
  <1>5. CASE cmd = "verify"
    <2>1. Phases[cmd] = <<"load", "read", "report", "VERIFICATION">>
      BY <1>5 DEF Phases
    <2>2. <<"load", "read", "report", "VERIFICATION">> \in Seq(PhaseNames) /\ Len(<<"load", "read", "report", "VERIFICATION">>) = 4
      BY DEF PhaseNames, Remarks
    <2>3. \A i \in 1..4 : <<"load", "read", "report", "VERIFICATION">>[i] # "rollback"
      OBVIOUS
    <2> QED
      BY <2>1, <2>2, <2>3
  <1>6. CASE cmd = "init"
    <2>1. Phases[cmd] = <<"init">>
      BY <1>6 DEF Phases
    <2> QED
      BY <2>1, <1>2, <1>6
  <1>7. CASE cmd = "show"
    <2>1. Phases[cmd] = <<"load">>
      BY <1>7 DEF Phases
    <2> QED
      BY <2>1, <1>2, <1>7
  <1>8. CASE cmd = "commit"
    <2>1. Phases[cmd] = <<"commit">>
      BY <1>8 DEF Phases
    <2> QED
      BY <2>1, <1>2, <1>8
  <1>9. CASE cmd = "complete"
    <2>1. Phases[cmd] = <<"complete">>
      BY <1>9 DEF Phases
    <2> QED
      BY <2>1, <1>2, <1>9
  <1>10. CASE cmd = "rollback"
    <2>1. Phases[cmd] = <<"rollback">>
      BY <1>10 DEF Phases
    <2> QED
      BY <2>1, <1>2, <1>10
  <1> QED
    BY <1>1, <1>3, <1>4, <1>5, <1>6, <1>7, <1>8, <1>9, <1>10

\* A process that begins a command.
LEMMA Begins ==
  ASSUME NEW cmd \in Commands, NEW arg \in Nat
  PROVE  LET m == [Idle EXCEPT !.cmd = cmd, !.arg = arg, !.todo = Phases[cmd]]
         IN m \in Progress /\ m.step = "next" /\ m.todo = Phases[cmd] /\ m.arg = arg
  BY IdleIsProgress, PhasesAreNames DEF Progress

\* Only the record of the process that moves changes.
LEMMA OneMoves ==
  ASSUME loc \in [Procs -> Progress], NEW p \in Procs, NEW l \in Progress, Becomes(p, l)
  PROVE  /\ loc' \in [Procs -> Progress] /\ loc'[p] = l
         /\ \A q \in Procs : q # p => loc'[q] = loc[q]
  BY DEF Becomes

-----------------------------------------------------------------------------
(* What a decision writes into the journal. *)

\* The content of the next revision is the old content under the next number.
LEMMA SuccessorIsRevision ==
  ASSUME state \in Revision, NEW content \in Revision
  PROVE  /\ Successor(content) \in Revision /\ Successor(content).rev = state.rev + 1
         /\ Successor(content).used = content.used /\ Successor(content).status = content.status
  BY DEF Successor, Revision

\* A completing commit changes the status besides.
LEMMA CompletedIsRevision ==
  ASSUME NEW content \in Revision
  PROVE  LET new == [content EXCEPT !.status = "completed"]
         IN new \in Revision /\ new.rev = content.rev /\ new.used = content.used /\ new.status = "completed"
  BY DEF Revision

\* A recovery charges the budget by one (apply_to_state()).
LEMMA RecoveredIsRevision ==
  ASSUME state \in Revision, Applicable
  PROVE  Recovered \in Revision /\ Recovered.rev = state.rev + 1 /\ Recovered.used = state.used + 1
  <1>1. Strategy \in 1..Strategies /\ state.used + 1 \in 0..RetryBudget /\ state.rev \in Nat
    BY TaskAssumption DEF Applicable, Revision
  <1>2. state.tried \in Seq(1..Strategies)
    BY DEF Revision
  <1> DEFINE tried == IF Len(state.tried) = 2 THEN Tail(state.tried) ELSE state.tried
  <1>3. tried \in Seq(1..Strategies)
    <2>1. CASE Len(state.tried) = 2
      <3>1. state.tried # <<>>
        BY <2>1
      <3> QED
        BY <3>1, <2>1, <1>2, HeadTailProperties
    <2>2. CASE Len(state.tried) # 2
      BY <2>2, <1>2
    <2> QED
      BY <2>1, <2>2
  <1>4. Append(tried, Strategy) \in Seq(1..Strategies)
    <2> HIDE DEF tried
    <2> QED
      BY <1>1, <1>3, AppendProperties
  <1>5. Recovered = [rev |-> state.rev + 1, status |-> "executing", used |-> state.used + 1, tried |-> Append(tried, Strategy)]
    BY DEF Recovered
  <1> HIDE DEF tried
  <1> QED
    BY <1>1, <1>4, <1>5 DEF Revision

\* A new task starts with revision 1 (task_init()).
LEMMA FreshIsRevision ==
  Fresh \in Revision /\ Fresh.rev = 1 /\ Fresh.used = 0 /\ Fresh.status = "ready" /\ NoState.rev = 0 /\ NoState.used = 0
  <1>1. NoState \in Revision /\ NoState.rev = 0 /\ NoState.used = 0
    BY IdleIsProgress DEF NoState
  <1> QED
    BY <1>1 DEF Fresh, Revision

\* What a change of the state may be: the next revision, charged for a
\* recovery, and completed only from a verified one.
Change(kind, new, verified) ==
  /\ kind \in Changing /\ new \in Revision /\ verified \in Nat
  /\ new.rev = state.rev + 1
  /\ kind # "ROLLBACK" => new.used = state.used + Charge(kind)
  /\ kind = "COMMIT" /\ new.status = "completed" /\ state.status # "completed" => verified = state.rev

\* Every phase that decides writes such a change (state_commit(),
\* state_rollback(), task_init(), apply_to_state()).
LEMMA DecisionsAreChanges ==
  ASSUME TypeOK, NEW p \in Procs, NEW phase, ~Refused(phase), Decides(p, phase),
         phase = "rollback" => loc[p].arg \in DOMAIN revs
  PROVE  \E kind, new, verified : Transact(p, kind, new, verified) /\ Change(kind, new, verified)
  <1>a. state \in Revision /\ state.rev \in Nat /\ state.used \in Nat /\ report.rev \in Nat
        /\ revs \in [DOMAIN revs -> Revision]
    BY TaskAssumption DEF TypeOK, Revision
  <1>b. {"INTENT", "COMMIT", "ROLLBACK", "RECOVERY"} = Changing
    BY DEF Changing
  <1>1. CASE phase = "init" /\ Transact(p, "INTENT", Fresh, 0)
    <2>1. state = NoState
      BY <1>1 DEF Refused, Deciding
    <2>2. Change("INTENT", Fresh, 0)
      BY <2>1, <1>b, FreshIsRevision DEF Change, Charge
    <2> QED
      BY <1>1, <2>2
  <1>2. CASE phase = "commit" /\ Transact(p, "COMMIT", Successor(state), 0)
    <2>1. Change("COMMIT", Successor(state), 0)
      BY <1>a, <1>b, SuccessorIsRevision DEF Change, Charge
    <2> QED
      BY <1>2, <2>1
  <1>3. CASE phase = "complete" /\ Transact(p, "COMMIT", [Successor(state) EXCEPT !.status = "completed"], report.rev)
    <2>1. report.rev = state.rev
      BY <1>3 DEF Refused, Deciding, Evidence
    <2>2. Change("COMMIT", [Successor(state) EXCEPT !.status = "completed"], report.rev)
      BY <1>a, <1>b, <2>1, SuccessorIsRevision, CompletedIsRevision DEF Change, Charge
    <2> QED
      BY <1>3, <2>2
  <1>4. CASE phase = "rollback" /\ Transact(p, "ROLLBACK", Successor(revs[loc[p].arg]), 0)
    <2>1. revs[loc[p].arg] \in Revision
      BY <1>4, <1>a
    <2>2. Change("ROLLBACK", Successor(revs[loc[p].arg]), 0)
      BY <1>a, <1>b, <2>1, SuccessorIsRevision DEF Change, Charge
    <2> QED
      BY <1>4, <2>2
  <1>5. CASE phase = "recover" /\ Transact(p, "RECOVERY", Recovered, 0)
    <2>1. Applicable
      BY <1>5 DEF Refused, Deciding
    <2>2. Change("RECOVERY", Recovered, 0)
      BY <1>a, <1>b, <2>1, RecoveredIsRevision DEF Change, Charge
    <2> QED
      BY <1>5, <2>2
  <1> QED
    BY <1>1, <1>2, <1>3, <1>4, <1>5 DEF Decides

\* The journal of a change.
LEMMA EventsAreTyped ==
  ASSUME ledger \in Seq(Event), NEW kind \in Changing \cup Remarks, NEW rev \in Nat, NEW verified \in Nat
  PROVE  /\ Ev(kind, rev, verified) \in Event /\ Ev(kind, rev, verified).seq = Len(ledger) + 1
         /\ Ev(kind, rev, verified).kind = kind /\ Ev(kind, rev, verified).rev = rev
         /\ Ev(kind, rev, verified).verified = verified
  <1>1. Len(ledger) \in Nat
    BY LenProperties
  <1> QED
    BY <1>1 DEF Ev, Event

\* The shape of a journal.
LEMMA TransactionFields ==
  /\ \A ev \in Event, new \in Revision :
       LET tx == [ev |-> ev, new |-> new]
       IN tx \in [ev : Event, new : Revision] /\ tx.ev = ev /\ tx.new = new
  /\ \A tx \in [ev : Event, new : Revision] : tx \in Transaction /\ tx.ev \in Event /\ tx.new \in Revision
  BY DEF Transaction


-----------------------------------------------------------------------------
(* The ledger as a sequence. *)

\* The events of some kinds.
Of(s, K) == {i \in 1..Len(s) : s[i].kind \in K}

\* One more event makes one more of its kind.
LEMMA OneMore ==
  ASSUME NEW s \in Seq(Event), NEW e \in Event, NEW K
  PROVE  /\ IsFiniteSet(Of(s, K)) /\ Cardinality(Of(s, K)) \in Nat
         /\ e.kind \in K => /\ Of(Append(s, e), K) = Of(s, K) \cup {Len(s) + 1}
                            /\ Cardinality(Of(Append(s, e), K)) = Cardinality(Of(s, K)) + 1
         /\ e.kind \notin K => Of(Append(s, e), K) = Of(s, K)
  <1>1. /\ Len(s) \in Nat /\ Len(Append(s, e)) = Len(s) + 1 /\ Append(s, e)[Len(s) + 1] = e
        /\ \A i \in 1..Len(s) : Append(s, e)[i] = s[i]
    BY AppendProperties, LenProperties
  <1>2. IsFiniteSet(Of(s, K))
    <2>1. IsFiniteSet(1..Len(s)) /\ Of(s, K) \subseteq 1..Len(s)
      BY <1>1, FS_Interval DEF Of
    <2> QED
      BY <2>1, FS_Subset
  <1>3. Cardinality(Of(s, K)) \in Nat
    BY <1>2, FS_CardinalityType
  <1>4. Len(s) + 1 \notin Of(s, K)
    BY <1>1 DEF Of
  <1>5. ASSUME e.kind \in K
        PROVE  Of(Append(s, e), K) = Of(s, K) \cup {Len(s) + 1}
    <2>1. \A i : i \in 1..Len(s) + 1 <=> i \in 1..Len(s) \/ i = Len(s) + 1
      BY <1>1
    <2>2. \A i : i \in Of(Append(s, e), K) <=> i \in Of(s, K) \/ i = Len(s) + 1
      BY <1>1, <1>5, <2>1 DEF Of
    <2> QED
      BY <2>2
  <1>6. ASSUME e.kind \notin K
        PROVE  Of(Append(s, e), K) = Of(s, K)
    <2>1. \A i : i \in 1..Len(s) + 1 <=> i \in 1..Len(s) \/ i = Len(s) + 1
      BY <1>1
    <2>2. \A i : i \in Of(Append(s, e), K) <=> i \in Of(s, K)
      BY <1>1, <1>6, <2>1 DEF Of
    <2> QED
      BY <2>2
  <1>7. Cardinality(Of(s, K) \cup {Len(s) + 1}) = Cardinality(Of(s, K)) + 1
    BY <1>2, <1>4, FS_AddElement
  <1> QED
    BY <1>2, <1>3, <1>5, <1>6, <1>7

\* The numbers of the changes that the ledger tells of.
LEMMA LedgerGrows ==
  ASSUME ledger \in Seq(Event), NEW e \in Event, e.seq = Len(ledger) + 1,
         \A i \in 1..Len(ledger) : ledger[i].seq = i,
         ledger' = Append(ledger, e)
  PROVE  /\ ledger' \in Seq(Event) /\ Len(ledger) \in Nat /\ Len(ledger') = Len(ledger) + 1
         /\ ledger'[Len(ledger) + 1] = e /\ \A i \in 1..Len(ledger) : ledger'[i] = ledger[i]
         /\ \A i \in 1..Len(ledger') : ledger'[i].seq = i
         /\ e.kind \in Changing =>
              /\ {ledger'[i].rev : i \in Changes'} = {ledger[i].rev : i \in Changes} \cup {e.rev}
              /\ Cardinality(Changes') = Cardinality(Changes) + 1
              /\ Changes' = Changes \cup {Len(ledger) + 1}
         /\ e.kind \notin Changing =>
              /\ {ledger'[i].rev : i \in Changes'} = {ledger[i].rev : i \in Changes}
              /\ Changes' = Changes
         /\ \A k : Count(k) \in Nat /\ Count(k)' = Count(k) + (IF e.kind = k THEN 1 ELSE 0)
  <1>1. /\ ledger' \in Seq(Event) /\ Len(ledger) \in Nat /\ Len(ledger') = Len(ledger) + 1
        /\ ledger'[Len(ledger) + 1] = e /\ \A i \in 1..Len(ledger) : ledger'[i] = ledger[i]
    BY AppendProperties, LenProperties
  <1>2. \A i \in 1..Len(ledger') : i \in 1..Len(ledger) \/ i = Len(ledger) + 1
    BY <1>1
  <1>3. \A i \in 1..Len(ledger') : ledger'[i].seq = i
    BY <1>1, <1>2
  <1>4. Changes = Of(ledger, Changing) /\ Changes' = Of(ledger', Changing)
    BY DEF Changes, Of
  <1>5. ASSUME e.kind \in Changing
        PROVE  /\ {ledger'[i].rev : i \in Changes'} = {ledger[i].rev : i \in Changes} \cup {e.rev}
               /\ Cardinality(Changes') = Cardinality(Changes) + 1
               /\ Changes' = Changes \cup {Len(ledger) + 1}
    <2>1. Changes' = Changes \cup {Len(ledger) + 1} /\ Cardinality(Changes') = Cardinality(Changes) + 1
      BY <1>4, <1>5, OneMore
    <2>2. \A i \in Changes : ledger'[i] = ledger[i]
      BY <1>1 DEF Changes
    <2> QED
      BY <1>1, <2>1, <2>2
  <1>6. ASSUME e.kind \notin Changing
        PROVE  /\ {ledger'[i].rev : i \in Changes'} = {ledger[i].rev : i \in Changes}
               /\ Changes' = Changes
    <2>1. Changes' = Changes
      BY <1>4, <1>6, OneMore
    <2>2. \A i \in Changes : ledger'[i] = ledger[i]
      BY <1>1 DEF Changes
    <2> QED
      BY <2>1, <2>2
  <1>7. ASSUME NEW k
        PROVE  Count(k) \in Nat /\ Count(k)' = Count(k) + (IF e.kind = k THEN 1 ELSE 0)
    <2>1. Count(k) = Cardinality(Of(ledger, {k})) /\ Count(k)' = Cardinality(Of(ledger', {k}))
      BY DEF Count, Of
    <2>2. e.kind \in {k} <=> e.kind = k
      OBVIOUS
    <2>3. /\ Cardinality(Of(ledger, {k})) \in Nat
          /\ e.kind \in {k} => Cardinality(Of(ledger', {k})) = Cardinality(Of(ledger, {k})) + 1
          /\ e.kind \notin {k} => Of(ledger', {k}) = Of(ledger, {k})
      BY OneMore
    <2> QED
      BY <2>1, <2>2, <2>3
  <1> QED
    BY <1>1, <1>3, <1>5, <1>6, <1>7

-----------------------------------------------------------------------------
(* The files: ledger, revisions, state and journal. *)

FileTypes ==
  /\ state \in Revision /\ revs \in [DOMAIN revs -> Revision]
  /\ ledger \in Seq(Event) /\ (txn = NoTxn \/ txn \in [ev : Event, new : Revision])

FileInv == (Pending => JournalFits) /\ RevisionsFit /\ LedgerFits /\ EventsAreVerified

\* The revisions a reader sees.
LEMMA CommittedIs ==
  ASSUME NEW r
  PROVE  /\ r \in DOMAIN Committed <=> r \in DOMAIN revs \/ (Pending /\ r = txn.new.rev)
         /\ r \in DOMAIN Committed => Committed[r] = IF Pending /\ r = txn.new.rev THEN txn.new ELSE revs[r]
  BY DEF Committed

\* The files have numbers and types where the proofs look at them.
LEMMA FileFields ==
  ASSUME FileTypes
  PROVE  /\ state.rev \in Nat /\ state.used \in Nat /\ Len(ledger) \in Nat
         /\ Pending => /\ txn.ev \in Event /\ txn.new \in Revision
                       /\ txn.ev.seq \in Nat /\ txn.new.rev \in Nat /\ txn.new.used \in Nat
         /\ \A i \in 1..Len(ledger) : ledger[i] \in Event /\ ledger[i].rev \in Nat
  <1>1. \A r \in Revision : r.rev \in Nat /\ r.used \in Nat
    BY TaskAssumption DEF Revision
  <1>2. \A e \in Event : e.seq \in Nat /\ e.rev \in Nat
    BY DEF Event
  <1>3. \A i \in 1..Len(ledger) : ledger[i] \in Event
    BY ElementOfSeq DEF FileTypes
  <1>4. Len(ledger) \in Nat
    BY LenProperties DEF FileTypes
  <1>5. Pending => txn.ev \in Event /\ txn.new \in Revision
    BY TransactionFields DEF Pending, FileTypes
  <1> QED
    BY <1>1, <1>2, <1>3, <1>4, <1>5 DEF FileTypes

\* Every event of the ledger is about a revision that is already committed.
LEMMA EventsAreOld ==
  ASSUME FileTypes, FileInv, NEW i \in Changes
  PROVE  /\ ledger[i].rev \in 1..Told.rev
         /\ Told.rev <= state.rev \/ (Pending /\ Told.rev = txn.new.rev)
  <1>1. ledger[i].rev \in {ledger[j].rev : j \in Changes}
    OBVIOUS
  <1> QED
    BY <1>1, FileFields DEF FileInv, LedgerFits, Told

\* What verification asks of an event depends on the committed revisions only.
LEMMA VerifiedStays ==
  ASSUME Committed' = Committed, FileInv, ledger' = ledger, txn' = txn \/ txn' = NoTxn
  PROVE  EventsAreVerified'
  <1>1. \A e : IsVerified(e) <=> (/\ e.kind = "COMMIT" /\ {e.rev, e.rev - 1} \subseteq DOMAIN Committed'
                                  /\ Committed'[e.rev].status = "completed" /\ Committed'[e.rev - 1].status # "completed"
                                  => e.verified = e.rev - 1)
    BY DEF IsVerified
  <1>2. Changes' = Changes
    BY DEF Changes
  <1>3. Pending' => Pending /\ txn' = txn
    BY DEF Pending
  <1> QED
    BY <1>1, <1>2, <1>3 DEF FileInv, EventsAreVerified, IsVerified

\* The journal gets into the ledger (append_raw(), recover_pending_locked()).
LEMMA AppendKeepsFiles ==
  ASSUME FileTypes, FileInv, Pending, ~Written(txn),
         ledger' = Append(ledger, txn.ev), UNCHANGED <<state, revs, txn>>
  PROVE  FileInv' /\ Written(txn)' /\ ledger' \in Seq(Event)
  <1>a. /\ state.rev \in Nat /\ state.used \in Nat /\ Len(ledger) \in Nat
        /\ txn.ev \in Event /\ txn.ev.seq \in Nat /\ txn.new.rev \in Nat /\ txn.new.used \in Nat
        /\ ledger \in Seq(Event)
    BY FileFields DEF FileTypes
  <1>b. /\ txn.ev.kind \in Changing /\ txn.ev.rev = txn.new.rev /\ txn.new.rev > 0
        /\ txn.ev.seq = Len(ledger) + 1 /\ state.rev + 1 = txn.new.rev
        /\ txn.ev.kind # "ROLLBACK" => txn.new.used = state.used + Charge(txn.ev.kind)
        /\ txn.new.rev \notin DOMAIN revs
    BY <1>a DEF FileInv, JournalFits
  <1>c. \A i \in 1..Len(ledger) : ledger[i].seq = i
    BY DEF FileInv, LedgerFits
  <1>1. /\ Len(ledger') = Len(ledger) + 1 /\ ledger'[Len(ledger) + 1] = txn.ev
        /\ \A i \in 1..Len(ledger) : ledger'[i] = ledger[i]
        /\ \A i \in 1..Len(ledger') : ledger'[i].seq = i
        /\ {ledger'[i].rev : i \in Changes'} = {ledger[i].rev : i \in Changes} \cup {txn.new.rev}
        /\ Cardinality(Changes') = Cardinality(Changes) + 1
        /\ Changes' = Changes \cup {Len(ledger) + 1}
        /\ \A k : Count(k) \in Nat /\ Count(k)' = Count(k) + (IF txn.ev.kind = k THEN 1 ELSE 0)
        /\ ledger' \in Seq(Event)
    BY <1>a, <1>b, <1>c, LedgerGrows
  <1>2. Pending' /\ Written(txn)' /\ Len(ledger') = txn.ev.seq /\ ledger'[txn.ev.seq] = txn.ev
    BY <1>1, <1>a, <1>b DEF Pending, Written
  <1>3. JournalFits'
    BY <1>2, <1>b DEF JournalFits
  <1>4. RevisionsFit'
    BY <1>2 DEF FileInv, RevisionsFit
  <1>5. Told = state /\ Told' = txn.new
    BY <1>2 DEF Told
  <1>6. LedgerFits'
    <2>1. {ledger'[i].rev : i \in Changes'} = 1..txn.new.rev
      <3>1. {ledger[i].rev : i \in Changes} = 1..state.rev
        BY <1>5 DEF FileInv, LedgerFits
      <3>2. 1..txn.new.rev = 1..state.rev \cup {txn.new.rev}
        BY <1>a, <1>b
      <3> QED
        BY <1>1, <3>1, <3>2
    <2>2. Cardinality(Changes') = txn.new.rev
      BY <1>1, <1>5, <1>b DEF FileInv, LedgerFits
    <2>3. Count("ROLLBACK")' = 0 => txn.new.used = Count("RECOVERY")'
      <3>1. SUFFICES ASSUME Count("ROLLBACK")' = 0 PROVE txn.new.used = Count("RECOVERY")'
        OBVIOUS
      <3>2. Count("ROLLBACK") = 0 /\ txn.ev.kind # "ROLLBACK"
        BY <3>1, <1>1
      <3>3. state.used = Count("RECOVERY")
        BY <3>2, <1>5 DEF FileInv, LedgerFits
      <3> QED
        BY <3>2, <3>3, <1>1, <1>b DEF Charge
    <2> QED
      BY <2>1, <2>2, <2>3, <1>1, <1>5 DEF LedgerFits
  <1>7. Committed' = Committed
    BY <1>2 DEF Committed, Pending
  <1>8. EventsAreVerified'
    <2>1. \A e : IsVerified(e) <=> (/\ e.kind = "COMMIT" /\ {e.rev, e.rev - 1} \subseteq DOMAIN Committed'
                                    /\ Committed'[e.rev].status = "completed" /\ Committed'[e.rev - 1].status # "completed"
                                    => e.verified = e.rev - 1)
      BY <1>7 DEF IsVerified
    <2>2. \A i \in Changes' : ledger'[i] = txn.ev \/ (i \in Changes /\ ledger'[i] = ledger[i])
      BY <1>1 DEF Changes
    <2>3. \A i \in Changes' : IsVerified(ledger'[i])
      BY <2>2 DEF FileInv, EventsAreVerified
    <2>4. IsVerified(txn.ev)
      BY DEF FileInv, EventsAreVerified
    <2> QED
      BY <2>1, <2>3, <2>4 DEF EventsAreVerified, IsVerified
  <1> QED
    BY <1>1, <1>2, <1>3, <1>4, <1>6, <1>8 DEF FileInv

\* A remark changes nothing but the ledger (append_event()).
LEMMA RemarkKeepsFiles ==
  ASSUME FileTypes, FileInv, ~Pending, NEW e \in Event, e.kind \in Remarks, e.seq = Len(ledger) + 1,
         ledger' = Append(ledger, e), UNCHANGED <<state, revs, txn>>
  PROVE  FileInv' /\ ledger' \in Seq(Event)
  <1>a. ledger \in Seq(Event)
    BY DEF FileTypes
  <1>b. e.kind \notin Changing /\ e.kind # "ROLLBACK" /\ e.kind # "RECOVERY"
    BY DEF Remarks, Changing
  <1>c. \A i \in 1..Len(ledger) : ledger[i].seq = i
    BY DEF FileInv, LedgerFits
  <1>1. /\ \A i \in 1..Len(ledger) : ledger'[i] = ledger[i]
        /\ \A i \in 1..Len(ledger') : ledger'[i].seq = i
        /\ {ledger'[i].rev : i \in Changes'} = {ledger[i].rev : i \in Changes}
        /\ Changes' = Changes
        /\ \A k : Count(k) \in Nat /\ Count(k)' = Count(k) + (IF e.kind = k THEN 1 ELSE 0)
        /\ ledger' \in Seq(Event)
    BY <1>a, <1>b, <1>c, LedgerGrows
  <1>2. ~Pending'
    BY DEF Pending
  <1>3. RevisionsFit'
    BY <1>2 DEF FileInv, RevisionsFit
  <1>4. LedgerFits'
    <2>1. Told' = Told /\ Told = state
      BY <1>2 DEF Told
    <2>2. Count("ROLLBACK")' = Count("ROLLBACK") /\ Count("RECOVERY")' = Count("RECOVERY")
      BY <1>1, <1>b
    <2> QED
      BY <1>1, <2>1, <2>2 DEF FileInv, LedgerFits
  <1>5. Committed' = Committed
    BY <1>2 DEF Committed, Pending
  <1>6. EventsAreVerified'
    <2>1. \A x : IsVerified(x) <=> (/\ x.kind = "COMMIT" /\ {x.rev, x.rev - 1} \subseteq DOMAIN Committed'
                                    /\ Committed'[x.rev].status = "completed" /\ Committed'[x.rev - 1].status # "completed"
                                    => x.verified = x.rev - 1)
      BY <1>5 DEF IsVerified
    <2>2. \A i \in Changes' : ledger'[i] = ledger[i]
      BY <1>1 DEF Changes
    <2>3. \A i \in Changes' : IsVerified(ledger'[i])
      BY <1>1, <2>2 DEF FileInv, EventsAreVerified
    <2> QED
      BY <2>1, <2>3, <1>2 DEF EventsAreVerified, IsVerified
  <1> QED
    BY <1>1, <1>2, <1>3, <1>4, <1>6 DEF FileInv

\* The journal gets a revision of its own (write_revision()).
LEMMA RevisionKeepsFiles ==
  ASSUME FileTypes, FileInv, Pending, Written(txn), txn.new.rev \notin DOMAIN revs,
         revs' = [r \in DOMAIN revs \cup {txn.new.rev} |-> IF r = txn.new.rev THEN txn.new ELSE revs[r]],
         UNCHANGED <<state, ledger, txn>>
  PROVE  /\ FileInv' /\ Written(txn)' /\ revs' \in [DOMAIN revs' -> Revision]
         /\ DOMAIN revs' = DOMAIN revs \cup {txn.new.rev} /\ Committed' = Committed
  <1>a. state.rev \in Nat /\ txn.new.rev \in Nat /\ txn.new \in Revision /\ revs \in [DOMAIN revs -> Revision]
    BY FileFields DEF FileTypes
  <1>1. /\ DOMAIN revs' = DOMAIN revs \cup {txn.new.rev} /\ revs'[txn.new.rev] = txn.new
        /\ \A r \in DOMAIN revs : revs'[r] = revs[r]
    OBVIOUS
  <1>2. revs' \in [DOMAIN revs' -> Revision]
    BY <1>a
  <1>3. Pending' /\ Written(txn)'
    BY DEF Pending, Written
  <1>4. JournalFits'
    <2>1. JournalFits
      BY DEF FileInv
    <2> QED
      BY <2>1, <1>1, <1>3 DEF JournalFits, Written
  <1>5. RevisionsFit'
    <2>1. /\ \A r \in 1..state.rev : r \in DOMAIN revs
          /\ \A r \in DOMAIN revs : r \in 1..state.rev \/ (Pending /\ r = txn.new.rev)
          /\ IF state.rev = 0 THEN state = NoState ELSE revs[state.rev] = state
      BY DEF FileInv, RevisionsFit
    <2>2. txn.new.rev > 0
      BY DEF FileInv, JournalFits
    <2>3. \A r \in DOMAIN revs' : r \in 1..state.rev \/ r = txn.new.rev
      BY <2>1, <2>2, <1>1
    <2>4. \A r \in 1..state.rev : r \in DOMAIN revs'
      BY <2>1, <1>1
    <2>5. state.rev # 0 => revs'[state.rev] = state
      BY <2>1, <1>1, <1>a
    <2> QED
      BY <2>1, <2>3, <2>4, <2>5, <1>3 DEF RevisionsFit
  <1>6. LedgerFits'
    <2>1. Told' = Told
      BY <1>3 DEF Told
    <2> QED
      BY <2>1 DEF FileInv, LedgerFits, Changes, Count
  <1>7. Committed' = Committed
    <2>1. DOMAIN revs' \cup {txn.new.rev} = DOMAIN revs \cup {txn.new.rev}
      BY <1>1
    <2>2. Committed = [r \in DOMAIN revs \cup {txn.new.rev} |-> IF r = txn.new.rev THEN txn.new ELSE revs[r]]
      BY DEF Committed
    <2>3. Committed' = [r \in DOMAIN revs' \cup {txn.new.rev} |-> IF r = txn.new.rev THEN txn.new ELSE revs'[r]]
      BY <1>3 DEF Committed
    <2> QED
      BY <1>1, <2>1, <2>2, <2>3
  <1>8. EventsAreVerified'
    BY <1>7, VerifiedStays
  <1> QED
    BY <1>1, <1>2, <1>3, <1>4, <1>5, <1>6, <1>7, <1>8 DEF FileInv

\* The journal becomes the state (write_revision()).
LEMMA StateKeepsFiles ==
  ASSUME FileTypes, FileInv, Pending, Written(txn), txn.new.rev \in DOMAIN revs,
         state' = txn.new, UNCHANGED <<revs, ledger, txn>>
  PROVE  FileInv' /\ Written(txn)'
  <1>a. state.rev \in Nat /\ txn.new.rev \in Nat
    BY FileFields
  <1>b. JournalFits
    BY DEF FileInv
  <1>3. Pending' /\ Written(txn)'
    BY DEF Pending, Written
  <1>4. JournalFits'
    BY <1>b, <1>3 DEF JournalFits, Written
  <1>5. RevisionsFit'
    <2>1. /\ \A r \in 1..state.rev : r \in DOMAIN revs
          /\ \A r \in DOMAIN revs : r \in 1..state.rev \/ (Pending /\ r = txn.new.rev)
      BY DEF FileInv, RevisionsFit
    <2>2. txn.new.rev > 0 /\ revs[txn.new.rev] = txn.new /\ (state.rev = txn.new.rev \/ state.rev + 1 = txn.new.rev)
      BY <1>b DEF JournalFits
    <2>3. \A r \in 1..txn.new.rev : r \in DOMAIN revs
      BY <2>1, <2>2, <1>a
    <2>4. \A r \in DOMAIN revs : r \in 1..txn.new.rev \/ (Pending /\ r = txn.new.rev)
      BY <2>1, <2>2, <1>a
    <2> QED
      BY <2>2, <2>3, <2>4, <1>3, <1>a DEF RevisionsFit
  <1>6. LedgerFits'
    <2>1. Told' = Told
      BY <1>3 DEF Told
    <2> QED
      BY <2>1 DEF FileInv, LedgerFits, Changes, Count
  <1>7. Committed' = Committed
    BY <1>3 DEF Committed, Pending
  <1>8. EventsAreVerified'
    BY <1>7, VerifiedStays
  <1> QED
    BY <1>3, <1>4, <1>5, <1>6, <1>8 DEF FileInv

\* The journal goes when everything else is written (transactional_state()).
LEMMA UnlinkKeepsFiles ==
  ASSUME FileTypes, FileInv, Pending, Written(txn), txn.new.rev \in DOMAIN revs,
         state = txn.new, txn' = NoTxn, UNCHANGED <<state, revs, ledger>>
  PROVE  FileInv' /\ Committed' = Committed
  <1>a. state.rev \in Nat /\ txn.new.rev \in Nat
    BY FileFields
  <1>b. revs[txn.new.rev] = txn.new
    BY DEF FileInv, JournalFits
  <1>3. ~Pending'
    BY DEF Pending
  <1>5. RevisionsFit'
    <2>1. /\ \A r \in 1..state.rev : r \in DOMAIN revs
          /\ \A r \in DOMAIN revs : r \in 1..state.rev \/ (Pending /\ r = txn.new.rev)
          /\ IF state.rev = 0 THEN state = NoState ELSE revs[state.rev] = state
      BY DEF FileInv, RevisionsFit
    <2>2. txn.new.rev > 0 /\ state.rev = txn.new.rev
      BY DEF FileInv, JournalFits
    <2>3. \A r \in DOMAIN revs : r \in 1..state.rev
      BY <2>1, <2>2, <1>a
    <2> QED
      BY <2>1, <2>3 DEF RevisionsFit
  <1>6. LedgerFits'
    <2>1. Told' = Told
      BY <1>3 DEF Told
    <2> QED
      BY <2>1 DEF FileInv, LedgerFits, Changes, Count
  <1>7. Committed' = Committed
    <2>1. DOMAIN revs \cup {txn.new.rev} = DOMAIN revs
      OBVIOUS
    <2>2. Committed = [r \in DOMAIN revs |-> IF r = txn.new.rev THEN txn.new ELSE revs[r]]
      BY <2>1 DEF Committed
    <2>3. Committed' = [r \in DOMAIN revs |-> revs[r]]
      <3>1. DOMAIN revs \cup {} = DOMAIN revs
        OBVIOUS
      <3> QED
        BY <1>3, <3>1 DEF Committed
    <2> QED
      BY <1>b, <2>2, <2>3
  <1>8. EventsAreVerified'
    BY <1>7, VerifiedStays
  <1> QED
    BY <1>3, <1>5, <1>6, <1>7, <1>8 DEF FileInv

\* A change is committed when it is in the journal (transactional_state()).
LEMMA TransactKeepsFiles ==
  ASSUME FileTypes, FileInv, ~Pending, NEW kind, NEW new, NEW verified, Change(kind, new, verified),
         txn' = [ev |-> Ev(kind, new.rev, verified), new |-> new], UNCHANGED <<state, revs, ledger>>
  PROVE  /\ FileInv' /\ Pending' /\ ~Written(txn)' /\ txn' \in [ev : Event, new : Revision]
         /\ \A r \in DOMAIN Committed : r \in DOMAIN Committed' /\ Committed'[r] = Committed[r]
  <1>a. /\ state.rev \in Nat /\ Len(ledger) \in Nat /\ ledger \in Seq(Event)
        /\ \A i \in 1..Len(ledger) : ledger[i].rev \in Nat
    BY FileFields DEF FileTypes
  <1>b. /\ kind \in Changing /\ new \in Revision /\ verified \in Nat /\ new.rev = state.rev + 1 /\ new.rev \in Nat
        /\ kind # "ROLLBACK" => new.used = state.used + Charge(kind)
        /\ kind = "COMMIT" /\ new.status = "completed" /\ state.status # "completed" => verified = state.rev
    BY <1>a DEF Change
  <1> DEFINE ev == Ev(kind, new.rev, verified)
  <1>1. /\ ev \in Event /\ ev.seq = Len(ledger) + 1 /\ ev.kind = kind /\ ev.rev = new.rev
        /\ ev.verified = verified
    <2>1. /\ ledger \in Seq(Event) /\ kind \in Changing \cup Remarks
          /\ new.rev \in Nat /\ verified \in Nat
      BY <1>a, <1>b
    <2> QED
      BY ONLY <2>1, EventsAreTyped
  <1>2. txn' \in [ev : Event, new : Revision] /\ txn'.ev = ev /\ txn'.new = new
    BY <1>1, <1>b, TransactionFields
  <1> HIDE DEF ev
  <1>3. Pending'
    BY <1>2, <1>b, <1>a, FreshIsRevision DEF Pending, NoTxn
  <1>4. ~Written(txn)'
    BY <1>1, <1>2, <1>a DEF Written
  <1>r. /\ \A r \in 1..state.rev : r \in DOMAIN revs
        /\ \A r \in DOMAIN revs : r \in 1..state.rev
        /\ IF state.rev = 0 THEN state = NoState ELSE revs[state.rev] = state
    BY DEF FileInv, RevisionsFit
  <1>5. new.rev \notin DOMAIN revs
    BY <1>r, <1>b, <1>a
  <1>6. JournalFits'
    BY <1>1, <1>2, <1>3, <1>4, <1>5, <1>b, <1>a DEF JournalFits, Written
  <1>7. RevisionsFit'
    BY <1>r, <1>3 DEF RevisionsFit
  <1>8. LedgerFits'
    <2>1. Told' = Told
      BY <1>3, <1>4 DEF Told
    <2> QED
      BY <2>1 DEF FileInv, LedgerFits, Changes, Count
  <1>9. /\ \A r : r \in DOMAIN Committed <=> r \in DOMAIN revs
        /\ \A r : r \in DOMAIN Committed' <=> r \in DOMAIN revs \/ r = new.rev
        /\ \A r \in DOMAIN revs : Committed[r] = revs[r] /\ Committed'[r] = revs[r]
        /\ Committed'[new.rev] = new
    <2>1. \A r : /\ r \in DOMAIN Committed <=> r \in DOMAIN revs
                 /\ r \in DOMAIN revs => Committed[r] = revs[r]
      BY CommittedIs
    <2>2. \A r : /\ r \in DOMAIN Committed' <=> r \in DOMAIN revs \/ r = new.rev
                 /\ r \in DOMAIN Committed' => Committed'[r] = IF r = new.rev THEN new ELSE revs[r]
      BY <1>2, <1>3 DEF Committed
    <2> QED
      BY <2>1, <2>2, <1>5
  <1>10. EventsAreVerified'
    <2>1. ASSUME NEW i \in Changes
          PROVE  IsVerified(ledger[i])'
      <3>1. ledger[i].rev \in 1..state.rev
        BY EventsAreOld, <1>a DEF Told
      <3>2. ledger[i].rev # new.rev /\ ledger[i].rev - 1 # new.rev
        BY <3>1, <1>b, <1>a
      <3>3. IsVerified(ledger[i])
        BY DEF FileInv, EventsAreVerified
      <3> QED
        BY <3>2, <3>3, <1>9 DEF IsVerified
    <2>2. IsVerified(txn.ev)'
      <3>1. SUFFICES ASSUME kind = "COMMIT", new.rev - 1 \in DOMAIN Committed',
                            new.status = "completed", Committed'[new.rev - 1].status # "completed"
                     PROVE  verified = new.rev - 1
        BY <1>1, <1>2, <1>9 DEF IsVerified
      <3>2. new.rev - 1 = state.rev /\ state.rev \in DOMAIN revs
        BY <3>1, <1>9, <1>b, <1>a
      <3>3. state.rev # 0 /\ Committed'[state.rev] = state
        BY <3>2, <1>r, <1>9
      <3> QED
        BY <3>1, <3>2, <3>3, <1>b
    <2> QED
      BY <2>1, <2>2 DEF EventsAreVerified, Changes
  <1> QED
    BY <1>2, <1>3, <1>4, <1>6, <1>7, <1>8, <1>9, <1>10 DEF FileInv

-----------------------------------------------------------------------------
(* The lock and the phases. *)

IInv == TypeOK /\ WritersExclude /\ (\A p \in Procs : PhaseFits(p)) /\ FilesFit

\* The critical steps are not the waiting one.
LEMMA CriticalSteps ==
  ASSUME NEW p
  PROVE  /\ Critical(p) <=> loc[p].step \in {"body", "append", "revision", "state", "unlink", "release"}
         /\ loc[p].step \in {"next"} => ~Critical(p)
  BY DEF Critical

\* Two processes are never critical together (writer_lock()).
LEMMA Alone ==
  ASSUME WritersExclude, ~broken, NEW p \in Procs, NEW q \in Procs, q # p, Critical(p)
  PROVE  ~Critical(q)
  BY DEF WritersExclude

\* Who keeps the lock, or does not become critical, keeps the exclusion.
LEMMA ExclusionStays ==
  ASSUME TypeOK, WritersExclude, NEW p \in Procs, NEW l \in Progress, Becomes(p, l),
         Critical(p) \/ l.step = "next", lock' = lock, broken' = broken
  PROVE  WritersExclude'
  <1>1. loc'[p] = l /\ \A q \in Procs : q # p => loc'[q] = loc[q]
    BY OneMoves DEF TypeOK
  <1>2. \A q \in Procs : Critical(q)' => Critical(q)
    BY <1>1 DEF Critical
  <1> QED
    BY <1>2 DEF WritersExclude

\* A process that keeps its command keeps its phases.
LEMMA PlanStays ==
  ASSUME TypeOK, NEW p \in Procs, PhaseFits(p), NEW l \in Progress, Becomes(p, l),
         \A r \in DOMAIN revs : r \in DOMAIN revs',
         l.todo = loc[p].todo, l.arg = loc[p].arg, l.todo # <<>>, l.step = "append" => l.tx.ev \in Event
  PROVE  PhaseFits(p)'
  <1>1. loc'[p] = l
    BY OneMoves DEF TypeOK
  <1> QED
    BY <1>1 DEF PhaseFits

\* So does one that gives up, as far as it goes.
LEMMA PlanIsCut ==
  ASSUME TypeOK, NEW p \in Procs, PhaseFits(p), Abort(p), loc[p].todo # <<>>, UNCHANGED revs
  PROVE  /\ PhaseFits(p)' /\ loc' \in [Procs -> Progress] /\ loc'[p].step = "release"
         /\ \E l \in Progress : Becomes(p, l) /\ l.step = "release"
  <1> DEFINE l == [loc[p] EXCEPT !.step = "release", !.todo = <<Head(@)>>]
  <1>1. loc[p] \in Progress /\ loc[p].todo \in Seq(PhaseNames)
    BY ProgressFields DEF TypeOK
  <1>2. l \in Progress /\ l.step = "release" /\ l.todo = <<Head(loc[p].todo)>> /\ l.arg = loc[p].arg
    BY <1>1, GivesUp
  <1>3. Becomes(p, l)
    BY DEF Abort
  <1> HIDE DEF l
  <1>4. loc' \in [Procs -> Progress] /\ loc'[p] = l
    BY <1>2, <1>3, OneMoves DEF TypeOK
  <1>5. Len(loc[p].todo) >= 1 /\ Head(loc[p].todo) = loc[p].todo[1]
    BY <1>1, HeadTailProperties, EmptySeq, LenProperties
  <1>6. Len(l.todo) = 1 /\ l.todo[1] = Head(loc[p].todo)
    BY <1>2
  <1>7. l.todo # <<>>
    BY <1>6
  <1>8. \A i \in 1..Len(l.todo) : l.todo[i] = "rollback" => l.arg \in DOMAIN revs'
    BY <1>2, <1>5, <1>6 DEF PhaseFits
  <1> QED
    BY <1>2, <1>3, <1>4, <1>7, <1>8 DEF PhaseFits

\* A process without a phase has nothing to keep.
LEMMA NoPlan ==
  ASSUME TypeOK, NEW p \in Procs, NEW l \in Progress, Becomes(p, l), l.step = "next",
         \A i \in 1..Len(l.todo) : l.todo[i] = "rollback" => l.arg \in DOMAIN revs'
  PROVE  PhaseFits(p)'
  <1>1. loc'[p] = l
    BY OneMoves DEF TypeOK
  <1> QED
    BY <1>1 DEF PhaseFits, Critical

\* The rest of a command has no phase that the command did not have.
LEMMA RestOfPlan ==
  ASSUME TypeOK, NEW p \in Procs, PhaseFits(p), loc[p].todo # <<>>, UNCHANGED revs,
         NEW l \in Progress, Becomes(p, l), l.step = "next", l.todo = Continue(loc[p]).todo, l.arg = Continue(loc[p]).arg
  PROVE  PhaseFits(p)'
  <1>1. loc[p] \in Progress /\ loc[p].todo \in Seq(PhaseNames)
    BY ProgressFields DEF TypeOK
  <1>2. l.todo # <<>> => l.todo = Tail(loc[p].todo) /\ l.arg = loc[p].arg
    BY <1>1, GoesToNextPhase
  <1>3. \A i \in 1..Len(l.todo) : l.todo[i] = "rollback" => l.arg \in DOMAIN revs'
    <2>1. CASE l.todo = <<>>
      BY <2>1
    <2>2. CASE l.todo # <<>>
      <3>1. /\ Len(Tail(loc[p].todo)) = Len(loc[p].todo) - 1 /\ Len(loc[p].todo) \in Nat
            /\ \A i \in 1..Len(Tail(loc[p].todo)) : Tail(loc[p].todo)[i] = loc[p].todo[i + 1]
        BY <1>1, HeadTailProperties, LenProperties
      <3>2. \A i \in 1..Len(Tail(loc[p].todo)) : i + 1 \in 1..Len(loc[p].todo)
        BY <3>1
      <3> QED
        BY <1>2, <2>2, <3>1, <3>2 DEF PhaseFits
    <2> QED
      BY <2>1, <2>2
  <1> QED
    BY <1>3, NoPlan

\* The files stay as they are.
LEMMA FilesStay ==
  ASSUME FileInv, UNCHANGED <<state, revs, ledger, txn>>
  PROVE  FileInv' /\ Committed' = Committed /\ (Written(txn)' <=> Written(txn)) /\ (Pending' <=> Pending)
  <1>1. /\ Pending' = Pending /\ Committed' = Committed /\ Told' = Told /\ Changes' = Changes
        /\ Written(txn)' = Written(txn) /\ \A k : Count(k)' = Count(k)
    BY DEF Pending, Committed, Told, Changes, Written, Count
  <1>2. JournalFits => JournalFits'
    BY <1>1 DEF JournalFits, Written
  <1>3. RevisionsFit'
    BY <1>1 DEF FileInv, RevisionsFit
  <1>4. LedgerFits'
    BY <1>1 DEF FileInv, LedgerFits
  <1>5. EventsAreVerified'
    BY <1>1, VerifiedStays
  <1> QED
    BY <1>1, <1>2, <1>3, <1>4, <1>5 DEF FileInv

\* The types of the files.
LEMMA TypesOfFiles == TypeOK => FileTypes
  BY DEF TypeOK, FileTypes

\* One process moves: what is left is its own share of the invariant.
LEMMA StepKeepsInv ==
  ASSUME IInv, TypeOK', WritersExclude', NEW p \in Procs, NEW l \in Progress, Becomes(p, l), broken' = broken,
         Critical(p) \/ UNCHANGED <<state, revs, ledger, txn>>,
         \A r \in DOMAIN revs : r \in DOMAIN revs',
         PhaseFits(p)', ~broken => FileInv' /\ WriterFollowsJournal(p)'
  PROVE  IInv'
  <1>1. \A q \in Procs : q # p => loc'[q] = loc[q]
    BY OneMoves DEF IInv, TypeOK
  <1>2. ASSUME NEW q \in Procs PROVE PhaseFits(q)'
    <2>1. CASE q = p
      BY <2>1
    <2>2. CASE q # p
      BY <1>1, <2>2 DEF IInv, PhaseFits, Critical
    <2> QED
      BY <2>1, <2>2
  <1>3. ASSUME ~broken, NEW q \in Procs PROVE WriterFollowsJournal(q)'
    <2>1. CASE q = p
      BY <1>3, <2>1
    <2>2. CASE q # p /\ Critical(p)
      <3>1. ~Critical(q) /\ loc'[q] = loc[q]
        BY <1>1, <1>3, <2>2, Alone DEF IInv
      <3> QED
        BY <3>1 DEF Critical, WriterFollowsJournal
    <2>3. CASE q # p /\ UNCHANGED <<state, revs, ledger, txn>>
      <3>1. WriterFollowsJournal(q) /\ loc'[q] = loc[q]
        BY <1>1, <1>3, <2>3 DEF IInv, FilesFit
      <3> QED
        BY <3>1, <2>3 DEF WriterFollowsJournal, Pending, Written
    <2> QED
      BY <2>1, <2>2, <2>3
  <1>4. FilesFit'
    BY <1>3 DEF FilesFit, FileInv
  <1> QED
    BY <1>2, <1>4 DEF IInv

-----------------------------------------------------------------------------
(* The actions. *)

\* Whoever is in the middle of a command has a record with phases left.
LEMMA CriticalHasPlan ==
  ASSUME IInv, NEW p \in Procs
  PROVE  /\ loc[p] \in Progress /\ loc[p].todo \in Seq(PhaseNames) /\ loc[p].tx \in Transaction
         /\ Critical(p) => loc[p].todo # <<>>
         /\ PhaseFits(p) /\ TypeOK /\ FileTypes /\ WritersExclude
         /\ ~broken => FileInv /\ WriterFollowsJournal(p)
  <1>1. TypeOK /\ PhaseFits(p) /\ WritersExclude /\ FilesFit
    BY DEF IInv
  <1>2. ~broken => FileInv /\ WriterFollowsJournal(p)
    BY <1>1 DEF FilesFit, FileInv
  <1> QED
    BY <1>1, <1>2, ProgressFields, TypesOfFiles DEF TypeOK, PhaseFits

\* A step that leaves the files and is not critical afterwards has nothing to follow.
LEMMA NotWriting ==
  ASSUME loc \in [Procs -> Progress], NEW p \in Procs, NEW l \in Progress, Becomes(p, l), l.step \in {"next", "release"}
  PROVE  WriterFollowsJournal(p)'
  <1>1. loc'[p] = l
    BY OneMoves
  <1> QED
    BY <1>1 DEF WriterFollowsJournal

\* A process that ends or interrupts its command (lock timeout, death).
LEMMA StopsKeepInv ==
  ASSUME IInv, NEW p \in Procs, Becomes(p, Idle), UNCHANGED <<state, revs, ledger, txn, report, lock, broken>>,
         torn' \in BOOLEAN, budget' \in [commands : Nat, faults : Nat]
  PROVE  IInv'
  <1>a. /\ PhaseFits(p) /\ TypeOK /\ WritersExclude
        /\ ~broken => FileInv
    BY CriticalHasPlan
  <1>1. Idle \in Progress /\ Idle.step = "next" /\ Idle.todo = <<>>
    BY IdleIsProgress
  <1>2. TypeOK'
    BY <1>a, <1>1, OneMoves DEF TypeOK
  <1>3. WritersExclude'
    BY <1>a, <1>1, ExclusionStays
  <1>4. PhaseFits(p)'
    <2>1. \A i \in 1..Len(Idle.todo) : FALSE
      BY <1>1
    <2> QED
      BY <1>a, <1>1, <2>1, NoPlan
  <1>5. ~broken => FileInv' /\ WriterFollowsJournal(p)'
    BY <1>a, <1>1, NotWriting, FilesStay DEF TypeOK
  <1> QED
    BY <1>1, <1>2, <1>3, <1>4, <1>5, StepKeepsInv

\* A command begins.
LEMMA IssueKeepsInv ==
  ASSUME IInv, NEW p \in Procs, NEW cmd \in Commands, NEW arg \in Nat, Issue(p, cmd, arg),
         cmd = "rollback" => arg \in DOMAIN revs
  PROVE  IInv'
  <1> DEFINE l == [Idle EXCEPT !.cmd = cmd, !.arg = arg, !.todo = Phases[cmd]]
  <1>a. /\ PhaseFits(p) /\ TypeOK /\ WritersExclude
        /\ ~broken => FileInv
    BY CriticalHasPlan
  <1>1. l \in Progress /\ l.step = "next" /\ l.todo = Phases[cmd] /\ l.arg = arg
    BY Begins
  <1>2. Becomes(p, l) /\ UNCHANGED <<state, revs, ledger, torn, txn, report, lock, broken>>
    BY DEF Issue, Files
  <1> HIDE DEF l
  <1>3. TypeOK'
    <2>1. budget' \in [commands : Nat, faults : Nat]
      BY <1>a DEF Issue, TypeOK
    <2> QED
      BY <1>a, <1>1, <1>2, <2>1, OneMoves DEF TypeOK
  <1>4. WritersExclude'
    BY <1>a, <1>1, <1>2, ExclusionStays
  <1>5. PhaseFits(p)'
    <2>1. \A i \in 1..Len(l.todo) : l.todo[i] = "rollback" => l.arg \in DOMAIN revs'
      BY <1>1, <1>2, PhasesAreNames
    <2> QED
      BY <1>a, <1>1, <1>2, <2>1, NoPlan
  <1>6. ~broken => FileInv' /\ WriterFollowsJournal(p)'
    BY <1>a, <1>1, <1>2, NotWriting, FilesStay DEF TypeOK
  <1> QED
    BY <1>1, <1>2, <1>3, <1>4, <1>5, <1>6, StepKeepsInv

\* A process goes on to its next phase: without the lock (verify_run()) or as it releases it.
LEMMA NextPhaseKeepsInv ==
  ASSUME IInv, NEW p \in Procs, NEW l \in Progress, Becomes(p, l), loc[p].todo # <<>>,
         l = Idle \/ (l.step = "next" /\ l.todo = Continue(loc[p]).todo /\ l.arg = Continue(loc[p]).arg),
         UNCHANGED <<state, revs, ledger, torn, txn, broken, budget>>, WritersExclude',
         report' \in [rev : Nat, pass : BOOLEAN, fresh : BOOLEAN],
         lock' \in [by : Procs \cup {"nobody"}, old : BOOLEAN]
  PROVE  IInv'
  <1>a. /\ PhaseFits(p) /\ TypeOK /\ WritersExclude
        /\ ~broken => FileInv
    BY CriticalHasPlan
  <1>1. l.step = "next"
    BY IdleIsProgress
  <1>2. TypeOK'
    BY <1>a, OneMoves DEF TypeOK
  <1>4. PhaseFits(p)'
    <2>1. CASE l = Idle
      <3>1. \A i \in 1..Len(l.todo) : FALSE
        BY <2>1, IdleIsProgress
      <3> QED
        BY <1>a, <1>1, <3>1, NoPlan
    <2>2. CASE l.todo = Continue(loc[p]).todo /\ l.arg = Continue(loc[p]).arg
      BY <1>a, <1>1, <2>2, RestOfPlan
    <2> QED
      BY <2>1, <2>2
  <1>5. ~broken => FileInv' /\ WriterFollowsJournal(p)'
    BY <1>a, <1>1, NotWriting, FilesStay DEF TypeOK
  <1> QED
    BY <1>2, <1>4, <1>5, StepKeepsInv

\* verify_run() reads the state without the lock.
LEMMA ReadKeepsInv ==
  ASSUME IInv, NEW p \in Procs, ReadState(p)
  PROVE  IInv'
  <1> DEFINE l == IF state = NoState THEN Idle ELSE [Continue(loc[p]) EXCEPT !.seen = state.rev]
  <1>a. loc[p] \in Progress /\ TypeOK /\ WritersExclude /\ FileTypes
    BY CriticalHasPlan
  <1>1. /\ Becomes(p, l) /\ loc[p].todo # <<>>
        /\ UNCHANGED <<state, revs, ledger, torn, txn, report, lock, broken, budget>>
    BY DEF ReadState, Files
  <1>2. state.rev \in Nat
    BY <1>a, FileFields
  <1>3. l \in Progress /\ (l = Idle \/ (l.step = "next" /\ l.todo = Continue(loc[p]).todo /\ l.arg = Continue(loc[p]).arg))
    <2>1. CASE state = NoState
      BY <2>1, IdleIsProgress
    <2>2. CASE state # NoState
      BY <2>2, <1>a, <1>1, <1>2, GoesToNextPhase
    <2> QED
      BY <2>1, <2>2
  <1> HIDE DEF l
  <1>4. l.step = "next"
    BY <1>3, IdleIsProgress
  <1>5. WritersExclude'
    BY <1>a, <1>1, <1>3, <1>4, ExclusionStays
  <1> QED
    BY <1>a, <1>1, <1>3, <1>5, NextPhaseKeepsInv DEF TypeOK

\* verify_run() writes its report without the lock.
LEMMA ReportKeepsInv ==
  ASSUME IInv, NEW p \in Procs, WriteReport(p)
  PROVE  IInv'
  <1> DEFINE l == [Continue(loc[p]) EXCEPT !.seen = 0]
  <1>a. loc[p] \in Progress /\ TypeOK /\ WritersExclude
    BY CriticalHasPlan
  <1>1. /\ Becomes(p, l) /\ loc[p].todo # <<>>
        /\ UNCHANGED <<state, revs, ledger, torn, txn, lock, broken, budget>>
    BY DEF WriteReport
  <1>2. report' \in [rev : Nat, pass : BOOLEAN, fresh : BOOLEAN]
    <2>1. loc[p].seen \in Nat
      BY <1>a, ProgressFields
    <2> QED
      BY <2>1 DEF WriteReport
  <1>3. l \in Progress /\ l.step = "next" /\ l.todo = Continue(loc[p]).todo /\ l.arg = Continue(loc[p]).arg
    BY <1>a, <1>1, GoesToNextPhase
  <1> HIDE DEF l
  <1>5. WritersExclude'
    BY <1>a, <1>1, <1>3, ExclusionStays
  <1> QED
    BY <1>a, <1>1, <1>2, <1>3, <1>5, NextPhaseKeepsInv DEF TypeOK

\* The holder gives the lock back.
LEMMA ReleaseKeepsInv ==
  ASSUME IInv, NEW p \in Procs, Release(p)
  PROVE  IInv'
  <1> DEFINE l == Continue(loc[p])
  <1>a. /\ loc[p] \in Progress /\ TypeOK /\ WritersExclude /\ Critical(p) /\ loc[p].todo # <<>>
    BY CriticalHasPlan DEF Release, Critical
  <1>1. /\ Becomes(p, l) /\ lock' = Free
        /\ UNCHANGED <<state, revs, ledger, torn, txn, report, broken, budget>>
    BY DEF Release, Files
  <1>3. l \in Progress /\ l.step = "next"
    BY <1>a, GoesToNextPhase
  <1>4. loc'[p] = l /\ \A q \in Procs : q # p => loc'[q] = loc[q]
    BY <1>a, <1>1, <1>3, OneMoves DEF TypeOK
  <1>5. WritersExclude'
    <2>1. ASSUME ~broken, NEW q \in Procs PROVE ~Critical(q)'
      <3>1. CASE q = p
        BY <3>1, <1>3, <1>4 DEF Critical
      <3>2. CASE q # p
        BY <2>1, <3>2, <1>a, <1>4, Alone DEF Critical
      <3> QED
        BY <3>1, <3>2
    <2> QED
      BY <2>1, <1>1 DEF WritersExclude
  <1>6. lock' \in [by : Procs \cup {"nobody"}, old : BOOLEAN] /\ report' \in [rev : Nat, pass : BOOLEAN, fresh : BOOLEAN]
    BY <1>a, <1>1 DEF Free, TypeOK
  <1> QED
    BY <1>a, <1>1, <1>3, <1>5, <1>6, NextPhaseKeepsInv

\* A lock that is old is removed by whoever waits (writer_lock()); nothing else happens.
LEMMA LockOnlyKeepsInv ==
  ASSUME IInv, UNCHANGED <<state, revs, ledger, torn, txn, report, loc>>,
         broken => broken', broken' \in BOOLEAN,
         lock' \in [by : Procs \cup {"nobody"}, old : BOOLEAN],
         budget' \in [commands : Nat, faults : Nat],
         WritersExclude'
  PROVE  IInv'
  <1>1. TypeOK'
    BY DEF IInv, TypeOK
  <1>2. ASSUME NEW q \in Procs PROVE PhaseFits(q)'
    BY DEF IInv, PhaseFits, Critical
  <1>3. FilesFit'
    <2>1. SUFFICES ASSUME ~broken PROVE FilesFit'
      BY DEF FilesFit
    <2>2. FileInv /\ \A q \in Procs : WriterFollowsJournal(q)
      BY <2>1 DEF IInv, FilesFit, FileInv
    <2>3. FileInv'
      BY <2>2, FilesStay
    <2>4. \A q \in Procs : WriterFollowsJournal(q)'
      BY <2>2 DEF WriterFollowsJournal, Pending, Written
    <2> QED
      BY <2>3, <2>4 DEF FilesFit, FileInv
  <1> QED
    BY <1>1, <1>2, <1>3 DEF IInv

\* Who waits for the lock, and looks at it or removes it, has nothing else to follow.
LEMMA WaitKeepsInv ==
  ASSUME IInv, NEW p \in Procs, NEW step \in {"next", "break"}, Goto(p, step),
         loc[p].step \in {"next", "break"}, UNCHANGED <<state, revs, ledger, torn, txn, report, budget>>,
         broken => broken', broken' \in BOOLEAN,
         lock' \in [by : Procs \cup {"nobody"}, old : BOOLEAN],
         WritersExclude'
  PROVE  IInv'
  <1> DEFINE l == [loc[p] EXCEPT !.step = step]
  <1>1. TypeOK /\ loc[p] \in Progress /\ loc \in [Procs -> Progress]
    BY CriticalHasPlan DEF TypeOK
  <1>s. step \in Steps
    BY DEF Steps
  <1>2. l \in Progress /\ l.step = step /\ l.todo = loc[p].todo /\ l.arg = loc[p].arg
    BY <1>1, <1>s, GoesOn
  <1>3. Becomes(p, l)
    BY DEF Goto
  <1> HIDE DEF l
  <1>4. loc' \in [Procs -> Progress] /\ loc'[p] = l /\ \A q \in Procs : q # p => loc'[q] = loc[q]
    BY <1>1, <1>2, <1>3, OneMoves
  <1>5. TypeOK'
    BY <1>1, <1>4 DEF TypeOK
  <1>6. ASSUME NEW q \in Procs PROVE PhaseFits(q)'
    <2>1. PhaseFits(q)
      BY DEF IInv
    <2>2. CASE q = p
      BY <1>2, <1>4, <2>1, <2>2 DEF PhaseFits, Critical
    <2>3. CASE q # p
      BY <1>4, <2>1, <2>3 DEF PhaseFits, Critical
    <2> QED
      BY <2>2, <2>3
  <1>7. FilesFit'
    <2>1. SUFFICES ASSUME ~broken PROVE FilesFit'
      BY DEF FilesFit
    <2>2. FileInv /\ \A q \in Procs : WriterFollowsJournal(q)
      BY <2>1 DEF IInv, FilesFit, FileInv
    <2>3. FileInv'
      BY <2>2, FilesStay
    <2>4. ASSUME NEW q \in Procs PROVE WriterFollowsJournal(q)'
      <3>1. CASE q = p
        BY <1>2, <1>4, <3>1 DEF WriterFollowsJournal
      <3>2. CASE q # p
        BY <1>4, <2>2, <3>2 DEF WriterFollowsJournal, Pending, Written
      <3> QED
        BY <3>1, <3>2
    <2> QED
      BY <2>3, <2>4 DEF FilesFit, FileInv
  <1> QED
    BY <1>5, <1>6, <1>7 DEF IInv

\* A lock is found old (writer_lock()).
LEMMA FindsStaleKeepsInv ==
  ASSUME IInv, NEW p \in Procs, FindsStale(p)
  PROVE  IInv'
  <1>1. TypeOK /\ WritersExclude
    BY DEF IInv
  <1>2. /\ UNCHANGED <<state, revs, ledger, torn, txn, report, lock, broken, budget>>
        /\ Goto(p, "break") /\ loc[p].step = "next"
    BY DEF FindsStale, Waits, Files
  <1>3. \A q \in Procs : Critical(q)' => Critical(q)
    BY <1>1, <1>2 DEF Goto, Becomes, Critical, TypeOK
  <1>4. WritersExclude'
    BY <1>1, <1>2, <1>3 DEF WritersExclude
  <1> QED
    BY <1>1, <1>2, <1>4, WaitKeepsInv DEF TypeOK

\* The lock that is there is removed, whosever it is (writer_lock()).
LEMMA BreakKeepsInv ==
  ASSUME IInv, NEW p \in Procs, Break(p)
  PROVE  IInv'
  <1>1. TypeOK /\ WritersExclude
    BY DEF IInv
  <1>2. /\ UNCHANGED <<state, revs, ledger, torn, txn, report, budget>>
        /\ Goto(p, "next") /\ loc[p].step = "break"
        /\ lock' = Free /\ broken' = (broken \/ \E q \in Procs : lock.by = q /\ Critical(q))
    BY DEF Break, Files
  <1>3. broken' \in BOOLEAN /\ lock' \in [by : Procs \cup {"nobody"}, old : BOOLEAN]
        /\ (broken => broken')
    BY <1>1, <1>2 DEF Free, TypeOK
  <1>4. \A q \in Procs : Critical(q)' => Critical(q)
    BY <1>1, <1>2 DEF Goto, Becomes, Critical, TypeOK
  <1>5. WritersExclude'
    <2>1. SUFFICES ASSUME ~broken', NEW q \in Procs, Critical(q)' PROVE FALSE
      BY DEF WritersExclude
    <2>2. Critical(q) /\ ~broken /\ lock.by # q
      BY <2>1, <1>2, <1>4
    <2> QED
      BY <2>2, <1>1 DEF WritersExclude
  <1> QED
    BY <1>2, <1>3, <1>5, WaitKeepsInv

\* A lock gets old; the artifacts change.
LEMMA TimeKeepsInv ==
  ASSUME IInv, Ages \/ Oversleeps \/ ArtifactChanges
  PROVE  IInv'
  <1>1. TypeOK /\ WritersExclude
    BY DEF IInv
  <1>2. budget' \in [commands : Nat, faults : Nat]
    BY <1>1 DEF Ages, Oversleeps, ArtifactChanges, Fault, TypeOK
  <1>3. CASE Ages \/ Oversleeps
    <2>1. /\ UNCHANGED <<state, revs, ledger, torn, txn, report, loc, broken>>
          /\ lock' = [lock EXCEPT !.old = TRUE]
      BY <1>3 DEF Ages, Oversleeps, Files
    <2>2. lock' \in [by : Procs \cup {"nobody"}, old : BOOLEAN] /\ lock'.by = lock.by /\ broken' \in BOOLEAN
      BY <2>1, <1>1 DEF TypeOK
    <2>3. WritersExclude'
      BY <2>1, <2>2, <1>1 DEF WritersExclude, Critical
    <2> QED
      BY <1>2, <2>1, <2>2, <2>3, LockOnlyKeepsInv
  <1>4. CASE ArtifactChanges
    <2>1. /\ UNCHANGED <<state, revs, ledger, torn, txn, lock, loc, broken>>
          /\ report' = [report EXCEPT !.fresh = FALSE]
      BY <1>4 DEF ArtifactChanges
    <2>2. TypeOK'
      BY <1>1, <1>2, <2>1 DEF TypeOK
    <2>3. ASSUME NEW q \in Procs PROVE PhaseFits(q)'
      BY <2>1 DEF IInv, PhaseFits, Critical
    <2>4. WritersExclude'
      BY <2>1, <1>1 DEF WritersExclude, Critical
    <2>5. FilesFit'
      <3>1. SUFFICES ASSUME ~broken PROVE FilesFit'
        BY <2>1 DEF FilesFit
      <3>2. FileInv /\ \A q \in Procs : WriterFollowsJournal(q)
        BY <3>1 DEF IInv, FilesFit, FileInv
      <3>3. FileInv'
        BY <3>2, <2>1, FilesStay
      <3>4. \A q \in Procs : WriterFollowsJournal(q)'
        BY <3>2, <2>1 DEF WriterFollowsJournal, Pending, Written
      <3> QED
        BY <3>3, <3>4 DEF FilesFit, FileInv
    <2> QED
      BY <2>2, <2>3, <2>4, <2>5 DEF IInv
  <1> QED
    BY <1>3, <1>4

\* Giving up under the lock.
LEMMA AbortKeepsInv ==
  ASSUME IInv, NEW p \in Procs, Critical(p), Abort(p), UNCHANGED <<state, revs, ledger, torn, txn, report, lock, broken, budget>>
  PROVE  IInv'
  <1>a. /\ loc[p].todo # <<>> /\ PhaseFits(p) /\ TypeOK /\ WritersExclude
        /\ ~broken => FileInv
    BY CriticalHasPlan
  <1>1. /\ PhaseFits(p)' /\ loc' \in [Procs -> Progress]
        /\ \E l \in Progress : Becomes(p, l) /\ l.step = "release"
    BY <1>a, PlanIsCut
  <1>2. PICK l \in Progress : Becomes(p, l) /\ l.step = "release"
    BY <1>1
  <1>3. TypeOK'
    BY <1>a, <1>1 DEF TypeOK
  <1>4. WritersExclude'
    BY <1>a, <1>2, ExclusionStays
  <1>5. ~broken => FileInv' /\ WriterFollowsJournal(p)'
    BY <1>a, <1>2, NotWriting, FilesStay DEF TypeOK
  <1> QED
    BY <1>1, <1>2, <1>3, <1>4, <1>5, StepKeepsInv

\* The lock is free: nobody is critical, and the new holder meets the journal first.
LEMMA AcquireKeepsInv ==
  ASSUME IInv, NEW p \in Procs, Acquire(p)
  PROVE  IInv'
  <1>a. /\ loc[p] \in Progress /\ PhaseFits(p) /\ TypeOK /\ WritersExclude
        /\ ~broken => FileInv
    BY CriticalHasPlan
  <1>b. /\ loc[p].todo # <<>> /\ lock = Free /\ lock' = [by |-> p, old |-> FALSE] /\ Replay(p)
        /\ UNCHANGED <<state, revs, ledger, torn, txn, report, broken, budget>>
    BY DEF Acquire, Waits, Taken, Files
  <1>1. \E l \in Progress : /\ Becomes(p, l) /\ PhaseFits(p)'
                            /\ \/ l.step = "release"
                               \/ l.step = "body" /\ ~Pending
                               \/ l.step = "append" /\ l.tx = txn /\ Pending /\ l.replay = TRUE
    <2>1. ASSUME NEW step \in {"release", "body"}, Goto(p, step)
          PROVE  \E l \in Progress : Becomes(p, l) /\ PhaseFits(p)' /\ l.step = step
      <3> DEFINE l == [loc[p] EXCEPT !.step = step]
      <3>1. step \in Steps /\ step # "append"
        BY DEF Steps
      <3>2. l \in Progress /\ l.step = step /\ l.todo = loc[p].todo /\ l.arg = loc[p].arg
        BY <1>a, <3>1, GoesOn
      <3>3. Becomes(p, l)
        BY <2>1 DEF Goto
      <3> HIDE DEF l
      <3>4. PhaseFits(p)'
        BY <1>a, <1>b, <3>1, <3>2, <3>3, PlanStays
      <3> QED
        BY <3>2, <3>3, <3>4
    <2>2. CASE txn = NoTxn
      <3>1. Goto(p, "release") \/ Goto(p, "body")
        BY <1>b, <2>2 DEF Replay
      <3>2. ~Pending
        BY <2>2 DEF Pending
      <3>3. CASE Goto(p, "release")
        BY <2>1, <3>3
      <3>4. CASE Goto(p, "body")
        BY <2>1, <3>2, <3>4
      <3> QED
        BY <3>1, <3>3, <3>4
    <2>3. CASE txn # NoTxn /\ torn
      <3>1. Abort(p)
        BY <1>b, <2>3 DEF Replay
      <3> QED
        BY <3>1, <1>a, <1>b, PlanIsCut
    <2>4. CASE txn # NoTxn /\ ~torn
      <3> DEFINE l == [loc[p] EXCEPT !.step = "append", !.tx = txn, !.replay = TRUE]
      <3>1. Becomes(p, l)
        BY <1>b, <2>4 DEF Replay, Replays
      <3>2. txn \in Transaction /\ txn.ev \in Event
        BY <1>a, <2>4, TransactionFields DEF TypeOK
      <3>3. l \in Progress /\ l.step = "append" /\ l.tx = txn /\ l.todo = loc[p].todo /\ l.arg = loc[p].arg /\ l.replay = TRUE
        BY <1>a, <3>2, StartsWriting
      <3> HIDE DEF l
      <3>4. PhaseFits(p)'
        BY <1>a, <1>b, <3>1, <3>2, <3>3, PlanStays
      <3> QED
        BY <2>4, <3>1, <3>3, <3>4 DEF Pending
    <2> QED
      BY <2>2, <2>3, <2>4
  <1>2. PICK l \in Progress : /\ Becomes(p, l) /\ PhaseFits(p)'
                              /\ \/ l.step = "release"
                                 \/ l.step = "body" /\ ~Pending
                                 \/ l.step = "append" /\ l.tx = txn /\ Pending /\ l.replay = TRUE
    BY <1>1
  <1>3. loc' \in [Procs -> Progress] /\ loc'[p] = l /\ \A q \in Procs : q # p => loc'[q] = loc[q]
    BY <1>a, <1>2, OneMoves DEF TypeOK
  <1>4. TypeOK'
    BY <1>a, <1>b, <1>3 DEF TypeOK
  <1>5. WritersExclude'
    <2>1. SUFFICES ASSUME ~broken, NEW q \in Procs, Critical(q)' PROVE lock'.by = q
      BY <1>b DEF WritersExclude
    <2>2. q # p => Critical(q)
      BY <2>1, <1>3 DEF Critical
    <2>3. ~Critical(q)
      BY <2>1, <1>a, <1>b, TaskAssumption DEF WritersExclude, Free
    <2> QED
      BY <2>2, <2>3, <1>b
  <1>6. ~broken => FileInv' /\ WriterFollowsJournal(p)'
    <2>1. SUFFICES ASSUME ~broken PROVE FileInv' /\ WriterFollowsJournal(p)'
      OBVIOUS
    <2>2. FileInv' /\ (Pending' <=> Pending)
      BY <2>1, <1>a, <1>b, FilesStay
    <2>3. CASE l.step = "release"
      BY <2>2, <2>3, <1>2, NotWriting, <1>a DEF TypeOK
    <2>4. CASE l.step = "body" /\ ~Pending
      BY <2>2, <2>4, <1>3 DEF WriterFollowsJournal
    <2>5. CASE l.step = "append" /\ l.tx = txn /\ Pending /\ l.replay = TRUE
      <3>1. txn.new # NoState
        BY <2>1, <2>5, <1>a, FreshIsRevision, FileFields, TypesOfFiles DEF FileInv, JournalFits
      <3> QED
        BY <3>1, <2>2, <2>5, <1>3, <1>b DEF WriterFollowsJournal
    <2> QED
      BY <2>3, <2>4, <2>5, <1>2
  <1> QED
    BY <1>2, <1>4, <1>5, <1>6, <1>b, StepKeepsInv

\* The holder goes on with the same transaction.
LEMMA GotoKeepsInv ==
  ASSUME IInv, NEW p \in Procs, Critical(p), NEW step \in Steps, Goto(p, step), step # "append",
         lock' = lock, broken' = broken, FileTypes', \A r \in DOMAIN revs' : revs'[r].rev = r,
         \A r \in DOMAIN revs : r \in DOMAIN revs', UNCHANGED <<torn, report, budget>>,
         ~broken => FileInv',
         ~broken => \/ step \in {"next", "release"}
                    \/ step = "body" /\ ~Pending'
                    \/ /\ step \in {"revision", "state", "unlink"} /\ Pending' /\ loc[p].tx = txn' /\ Written(txn)'
                       /\ step # "revision" => txn'.new.rev \in DOMAIN revs'
                       /\ step = "unlink" => state' = txn'.new
  PROVE  IInv'
  <1> DEFINE l == [loc[p] EXCEPT !.step = step]
  <1>a. loc[p] \in Progress /\ loc[p].todo # <<>> /\ PhaseFits(p) /\ TypeOK /\ WritersExclude
    BY CriticalHasPlan
  <1>1. l \in Progress /\ l.step = step /\ l.tx = loc[p].tx /\ l.todo = loc[p].todo /\ l.arg = loc[p].arg
    BY <1>a, GoesOn
  <1>2. Becomes(p, l)
    BY DEF Goto
  <1> HIDE DEF l
  <1>3. loc' \in [Procs -> Progress] /\ loc'[p] = l
    BY <1>a, <1>1, <1>2, OneMoves DEF TypeOK
  <1>4. TypeOK'
    BY <1>a, <1>3 DEF TypeOK, FileTypes
  <1>5. WritersExclude'
    BY <1>a, <1>1, <1>2, ExclusionStays
  <1>6. PhaseFits(p)'
    BY <1>a, <1>1, <1>2, PlanStays
  <1>7. ~broken => WriterFollowsJournal(p)'
    BY <1>1, <1>3 DEF WriterFollowsJournal
  <1> QED
    BY <1>1, <1>2, <1>4, <1>5, <1>6, <1>7, StepKeepsInv

LEMMA AppendKeepsInv ==
  ASSUME IInv, NEW p \in Procs, AppendEvent(p)
  PROVE  IInv'
  <1> DEFINE tx == loc[p].tx
             skip == loc[p].replay /\ Written(tx)
  <1>a. /\ loc[p].step = "append" /\ Critical(p)
        /\ loc[p].todo # <<>> /\ PhaseFits(p) /\ TypeOK /\ FileTypes
        /\ ~broken => FileInv /\ WriterFollowsJournal(p)
    BY CriticalHasPlan DEF AppendEvent, Critical
  <1>b. tx.ev \in Event /\ ledger \in Seq(Event) /\ tx.ev.seq \in Nat /\ Len(ledger) \in Nat
    BY <1>a, LenProperties DEF PhaseFits, TypeOK, Event
  <1>c. /\ ledger' = IF skip THEN ledger ELSE Append(ledger, tx.ev)
        /\ IF skip /\ ledger[tx.ev.seq] # tx.ev THEN Abort(p)
           ELSE Goto(p, IF tx.new = NoState THEN "release" ELSE "revision")
        /\ UNCHANGED <<state, revs, torn, txn, report, lock, broken, budget>>
    BY DEF AppendEvent
  <1> HIDE DEF tx, skip
  <1>d. ledger' \in Seq(Event)
    BY <1>b, <1>c, AppendProperties
  <1>e. FileTypes' /\ (\A r \in DOMAIN revs' : revs'[r].rev = r) /\ \A r \in DOMAIN revs : r \in DOMAIN revs'
    BY <1>a, <1>c, <1>d DEF FileTypes, TypeOK
  <1>f. "release" \in Steps /\ "revision" \in Steps
    BY DEF Steps
  <1>1. CASE skip /\ ledger[tx.ev.seq] # tx.ev
    <2>1. Abort(p) /\ ledger' = ledger
      BY <1>1, <1>c
    <2> QED
      BY <1>a, <1>c, <2>1, AbortKeepsInv
  <1>2. CASE ~(skip /\ ledger[tx.ev.seq] # tx.ev) /\ tx.new = NoState
    <2>1. Goto(p, "release")
      BY <1>2, <1>c
    <2>2. ~broken => FileInv'
      <3>1. SUFFICES ASSUME ~broken PROVE FileInv'
        OBVIOUS
      <3>2. ~Pending /\ tx.ev.kind \in Remarks /\ tx.ev.seq = Len(ledger) + 1
        BY <3>1, <1>a, <1>2 DEF WriterFollowsJournal, tx
      <3>3. ~skip
        BY <3>2, <1>b DEF skip, Written
      <3> QED
        BY <3>1, <3>2, <3>3, <1>a, <1>b, <1>c, RemarkKeepsFiles
    <2> QED
      BY <1>a, <1>c, <1>e, <1>f, <2>1, <2>2, GotoKeepsInv
  <1>3. CASE ~(skip /\ ledger[tx.ev.seq] # tx.ev) /\ tx.new # NoState
    <2>1. Goto(p, "revision")
      BY <1>3, <1>c
    <2>2. ~broken => FileInv' /\ Pending' /\ loc[p].tx = txn' /\ Written(txn)'
      <3>1. SUFFICES ASSUME ~broken PROVE FileInv' /\ Pending' /\ loc[p].tx = txn' /\ Written(txn)'
        OBVIOUS
      <3>2. Pending /\ tx = txn /\ (Written(txn) => loc[p].replay)
        BY <3>1, <1>a, <1>3 DEF WriterFollowsJournal, tx
      <3>3. Pending' /\ loc[p].tx = txn'
        BY <3>2, <1>c DEF Pending, tx
      <3>4. CASE Written(txn)
        <4>1. ledger' = ledger
          BY <3>2, <3>4, <1>c DEF skip
        <4> QED
          BY <3>1, <3>3, <3>4, <4>1, <1>a, <1>c, FilesStay
      <3>5. CASE ~Written(txn)
        <4>1. ledger' = Append(ledger, txn.ev)
          BY <3>2, <3>5, <1>c DEF skip
        <4> QED
          BY <3>1, <3>2, <3>3, <3>5, <4>1, <1>a, <1>c, AppendKeepsFiles
      <3> QED
        BY <3>4, <3>5
    <2> QED
      BY <1>a, <1>c, <1>e, <1>f, <2>1, <2>2, GotoKeepsInv
  <1> QED
    BY <1>1, <1>2, <1>3

LEMMA RevisionKeepsInv ==
  ASSUME IInv, NEW p \in Procs, WriteRevision(p)
  PROVE  IInv'
  <1> DEFINE new == loc[p].tx.new
  <1>a. /\ loc[p].step = "revision" /\ Critical(p)
        /\ loc[p].tx \in Transaction /\ TypeOK /\ FileTypes
        /\ ~broken => FileInv /\ WriterFollowsJournal(p)
    BY CriticalHasPlan DEF WriteRevision, Critical
  <1>b. new \in Revision /\ new.rev \in Nat
    BY <1>a DEF Transaction, Revision
  <1>c. /\ IF new.rev \in DOMAIN revs
           THEN /\ IF revs[new.rev] = new THEN Goto(p, "state") ELSE Abort(p)
                /\ UNCHANGED revs
           ELSE /\ revs' = [r \in DOMAIN revs \cup {new.rev} |-> IF r = new.rev THEN new ELSE revs[r]]
                /\ Goto(p, "state")
        /\ UNCHANGED <<state, ledger, torn, txn, report, lock, broken, budget>>
    BY DEF WriteRevision
  <1>d. ~broken => Pending /\ loc[p].tx = txn /\ new = txn.new /\ Written(txn)
    BY <1>a DEF WriterFollowsJournal
  <1> HIDE DEF new
  <1>f. "state" \in Steps
    BY DEF Steps
  <1>1. CASE new.rev \in DOMAIN revs /\ revs[new.rev] # new
    <2>1. Abort(p) /\ revs' = revs
      BY <1>1, <1>c
    <2> QED
      BY <1>a, <1>c, <2>1, AbortKeepsInv
  <1>2. CASE new.rev \in DOMAIN revs /\ revs[new.rev] = new
    <2>1. Goto(p, "state") /\ revs' = revs
      BY <1>2, <1>c
    <2>2. ~broken => FileInv' /\ Pending' /\ loc[p].tx = txn' /\ Written(txn)' /\ txn'.new.rev \in DOMAIN revs'
      BY <1>a, <1>c, <1>d, <1>2, <2>1, FilesStay
    <2>3. FileTypes' /\ (\A r \in DOMAIN revs' : revs'[r].rev = r) /\ \A r \in DOMAIN revs : r \in DOMAIN revs'
      BY <1>a, <1>c, <2>1 DEF FileTypes, TypeOK
    <2> QED
      BY <1>a, <1>c, <1>f, <2>1, <2>2, <2>3, GotoKeepsInv
  <1>3. CASE new.rev \notin DOMAIN revs
    <2>1. /\ Goto(p, "state")
          /\ revs' = [r \in DOMAIN revs \cup {new.rev} |-> IF r = new.rev THEN new ELSE revs[r]]
      BY <1>3, <1>c
    <2>2. ~broken => FileInv' /\ Pending' /\ loc[p].tx = txn' /\ Written(txn)' /\ txn'.new.rev \in DOMAIN revs'
      <3>1. SUFFICES ASSUME ~broken
                     PROVE  FileInv' /\ Pending' /\ loc[p].tx = txn' /\ Written(txn)' /\ txn'.new.rev \in DOMAIN revs'
        OBVIOUS
      <3>2. txn.new.rev \notin DOMAIN revs
            /\ revs' = [r \in DOMAIN revs \cup {txn.new.rev} |-> IF r = txn.new.rev THEN txn.new ELSE revs[r]]
        BY <3>1, <1>3, <1>d, <2>1
      <3>3. FileInv' /\ Written(txn)' /\ DOMAIN revs' = DOMAIN revs \cup {txn.new.rev}
        BY <3>1, <3>2, <1>a, <1>c, <1>d, RevisionKeepsFiles
      <3> QED
        BY <3>1, <3>3, <1>c, <1>d DEF Pending
    <2>3. FileTypes' /\ (\A r \in DOMAIN revs' : revs'[r].rev = r) /\ \A r \in DOMAIN revs : r \in DOMAIN revs'
      <3>1. revs \in [DOMAIN revs -> Revision] /\ \A r \in DOMAIN revs : revs[r].rev = r
        BY <1>a DEF TypeOK
      <3>2. revs' \in [DOMAIN revs' -> Revision] /\ \A r \in DOMAIN revs' : revs'[r].rev = r
        BY <2>1, <3>1, <1>b
      <3>3. \A r \in DOMAIN revs : r \in DOMAIN revs'
        BY <2>1
      <3> QED
        BY <3>2, <3>3, <1>a, <1>c DEF FileTypes
    <2> QED
      BY <1>a, <1>c, <1>f, <2>1, <2>2, <2>3, GotoKeepsInv
  <1> QED
    BY <1>1, <1>2, <1>3

LEMMA StateKeepsInv ==
  ASSUME IInv, NEW p \in Procs, WriteState(p)
  PROVE  IInv'
  <1> DEFINE new == loc[p].tx.new
  <1>a. /\ loc[p].step = "state" /\ Critical(p)
        /\ loc[p].tx \in Transaction /\ TypeOK /\ FileTypes
        /\ ~broken => FileInv /\ WriterFollowsJournal(p)
    BY CriticalHasPlan DEF WriteState, Critical
  <1>b. new \in Revision
    BY <1>a DEF Transaction
  <1>c. /\ state' = IF state.rev <= new.rev THEN new ELSE state
        /\ Goto(p, "unlink")
        /\ UNCHANGED <<revs, ledger, torn, txn, report, lock, broken, budget>>
    BY DEF WriteState
  <1>d. ~broken => Pending /\ loc[p].tx = txn /\ new = txn.new /\ Written(txn) /\ txn.new.rev \in DOMAIN revs
    BY <1>a DEF WriterFollowsJournal
  <1> HIDE DEF new
  <1>1. "unlink" \in Steps
    BY DEF Steps
  <1>2. FileTypes' /\ (\A r \in DOMAIN revs' : revs'[r].rev = r) /\ \A r \in DOMAIN revs : r \in DOMAIN revs'
    BY <1>a, <1>b, <1>c DEF FileTypes, TypeOK
  <1>3. ~broken => /\ FileInv' /\ Pending' /\ loc[p].tx = txn' /\ Written(txn)' /\ txn'.new.rev \in DOMAIN revs'
                   /\ state' = txn'.new
    <2>1. SUFFICES ASSUME ~broken
                   PROVE  /\ FileInv' /\ Pending' /\ loc[p].tx = txn' /\ Written(txn)' /\ txn'.new.rev \in DOMAIN revs'
                          /\ state' = txn'.new
      OBVIOUS
    <2>2. state.rev <= txn.new.rev
      BY <2>1, <1>a, <1>d, FileFields DEF FileInv, JournalFits
    <2>3. state' = txn.new
      BY <2>1, <2>2, <1>c, <1>d
    <2>4. FileInv' /\ Written(txn)'
      BY <2>1, <2>3, <1>a, <1>c, <1>d, StateKeepsFiles
    <2> QED
      BY <2>1, <2>3, <2>4, <1>c, <1>d DEF Pending
  <1> QED
    BY <1>a, <1>c, <1>1, <1>2, <1>3, GotoKeepsInv

LEMMA UnlinkKeepsInv ==
  ASSUME IInv, NEW p \in Procs, Unlink(p)
  PROVE  IInv'
  <1>a. /\ loc[p].step = "unlink" /\ Critical(p) /\ loc[p] \in Progress /\ loc[p].todo # <<>>
        /\ TypeOK /\ FileTypes /\ PhaseFits(p) /\ WritersExclude
        /\ ~broken => FileInv /\ WriterFollowsJournal(p)
    BY CriticalHasPlan DEF Unlink, Critical
  <1>c. /\ txn' = NoTxn
        /\ IF loc[p].replay
           THEN Becomes(p, [loc[p] EXCEPT !.step = "body", !.replay = FALSE, !.tx = NoTxn])
           ELSE Goto(p, "release")
        /\ UNCHANGED <<state, revs, ledger, torn, report, lock, broken, budget>>
    BY DEF Unlink
  <1>1. ~broken => FileInv' /\ ~Pending'
    BY <1>a, <1>c, UnlinkKeepsFiles DEF WriterFollowsJournal, Pending
  <1>2. FileTypes' /\ (\A r \in DOMAIN revs' : revs'[r].rev = r) /\ \A r \in DOMAIN revs : r \in DOMAIN revs'
    BY <1>a, <1>c DEF FileTypes, TypeOK
  <1>3. CASE ~loc[p].replay
    <2>1. Goto(p, "release") /\ "release" \in Steps
      BY <1>3, <1>c DEF Steps
    <2> QED
      BY <1>a, <1>c, <1>1, <1>2, <2>1, GotoKeepsInv
  <1>4. CASE loc[p].replay
    <2> DEFINE l == [loc[p] EXCEPT !.step = "body", !.replay = FALSE, !.tx = NoTxn]
    <2>1. Becomes(p, l)
      BY <1>4, <1>c
    <2>2. l \in Progress /\ l.step = "body" /\ l.todo = loc[p].todo /\ l.arg = loc[p].arg
      BY <1>a, EndsReplay
    <2> HIDE DEF l
    <2>3. loc' \in [Procs -> Progress] /\ loc'[p] = l
      BY <1>a, <2>1, <2>2, OneMoves DEF TypeOK
    <2>4. TypeOK'
      BY <1>a, <1>c, <1>2, <2>3 DEF TypeOK, FileTypes
    <2>5. WritersExclude'
      BY <1>a, <1>c, <2>1, <2>2, ExclusionStays
    <2>6. PhaseFits(p)'
      BY <1>a, <1>2, <2>1, <2>2, PlanStays
    <2>7. ~broken => WriterFollowsJournal(p)'
      BY <1>1, <2>2, <2>3 DEF WriterFollowsJournal
    <2> QED
      BY <1>a, <1>c, <1>1, <1>2, <2>1, <2>2, <2>4, <2>5, <2>6, <2>7, StepKeepsInv
  <1> QED
    BY <1>3, <1>4

\* The holder has decided what to write.
LEMMA WritesKeepsInv ==
  ASSUME IInv, NEW p \in Procs, Critical(p), NEW tx \in Transaction, Writes(p, tx), tx.ev \in Event,
         UNCHANGED <<state, revs, ledger, torn, report, lock, broken, budget>>, FileTypes',
         ~broken => /\ FileInv'
                    /\ IF tx.new = NoState
                       THEN ~Pending' /\ tx.ev.kind \in Remarks /\ tx.ev.seq = Len(ledger) + 1
                       ELSE Pending' /\ tx = txn' /\ ~Written(txn)'
  PROVE  IInv'
  <1> DEFINE l == [loc[p] EXCEPT !.step = "append", !.tx = tx]
  <1>a. loc[p] \in Progress /\ loc[p].todo # <<>> /\ PhaseFits(p) /\ TypeOK /\ WritersExclude
    BY CriticalHasPlan
  <1>1. l \in Progress /\ l.step = "append" /\ l.tx = tx /\ l.todo = loc[p].todo /\ l.arg = loc[p].arg
    BY <1>a, StartsWriting
  <1>2. Becomes(p, l)
    BY DEF Writes
  <1> HIDE DEF l
  <1>3. loc' \in [Procs -> Progress] /\ loc'[p] = l
    BY <1>a, <1>1, <1>2, OneMoves DEF TypeOK
  <1>4. TypeOK'
    BY <1>a, <1>3 DEF TypeOK, FileTypes
  <1>5. WritersExclude'
    BY <1>a, <1>1, <1>2, ExclusionStays
  <1>6. PhaseFits(p)'
    BY <1>a, <1>1, <1>2, PlanStays
  <1>7. ~broken => WriterFollowsJournal(p)'
    BY <1>1, <1>3 DEF WriterFollowsJournal
  <1> QED
    BY <1>1, <1>2, <1>4, <1>5, <1>6, <1>7, StepKeepsInv

\* A remark is only appended (append_event()).
LEMMA LogKeepsInv ==
  ASSUME IInv, NEW p \in Procs, loc[p].step = "body", NEW kind \in Remarks, NEW rev \in Nat, Log(p, kind, rev),
         UNCHANGED <<state, revs, ledger, torn, txn, report, lock, broken, budget>>
  PROVE  IInv'
  <1>a. /\ Critical(p) /\ FileTypes
        /\ ~broken => FileInv /\ WriterFollowsJournal(p)
    BY CriticalHasPlan DEF Critical
  <1>1. CASE state = NoState \/ torn
    <2>1. Abort(p)
      BY <1>1 DEF Log
    <2> QED
      BY <1>a, <2>1, AbortKeepsInv
  <1>2. CASE ~(state = NoState \/ torn)
    <2> DEFINE ev == Ev(kind, rev, 0)
               tx == [ev |-> ev, new |-> NoState]
    <2>1. Writes(p, tx)
      BY <1>2 DEF Log
    <2>2. ev \in Event /\ ev.seq = Len(ledger) + 1 /\ ev.kind = kind
      <3>1. kind \in Changing \cup Remarks
        OBVIOUS
      <3> QED
        BY <3>1, <1>a, EventsAreTyped DEF FileTypes
    <2> HIDE DEF ev
    <2>3. tx \in Transaction /\ tx.ev = ev /\ tx.new = NoState
      BY <2>2, IdleIsProgress, TransactionFields
    <2> HIDE DEF tx
    <2>4. ~broken => FileInv' /\ ~Pending'
      BY <1>a, FilesStay DEF WriterFollowsJournal
    <2>5. FileTypes'
      BY <1>a DEF FileTypes
    <2> QED
      BY <1>a, <2>1, <2>2, <2>3, <2>4, <2>5, WritesKeepsInv
  <1> QED
    BY <1>1, <1>2

\* A change goes into the journal first (transactional_state()).
LEMMA TransactKeepsInv ==
  ASSUME IInv, NEW p \in Procs, loc[p].step = "body", NEW kind, NEW new, NEW verified,
         Transact(p, kind, new, verified), Change(kind, new, verified),
         UNCHANGED <<state, revs, ledger, torn, report, lock, broken, budget>>
  PROVE  /\ IInv'
         /\ ~broken => \A r \in DOMAIN Committed : r \in DOMAIN Committed' /\ Committed'[r] = Committed[r]
  <1>a. /\ Critical(p) /\ FileTypes
        /\ ~broken => FileInv /\ WriterFollowsJournal(p)
    BY CriticalHasPlan DEF Critical
  <1>1. CASE torn
    <2>1. Abort(p) /\ txn' = txn
      BY <1>1 DEF Transact
    <2> QED
      BY <1>a, <2>1, AbortKeepsInv, FilesStay
  <1>2. CASE ~torn
    <2> DEFINE ev == Ev(kind, new.rev, verified)
               tx == [ev |-> ev, new |-> new]
    <2>1. Writes(p, tx) /\ txn' = tx
      BY <1>2 DEF Transact
    <2>2. ev \in Event
      <3>1. kind \in Changing \cup Remarks /\ new.rev \in Nat /\ verified \in Nat
        BY <1>a, FileFields DEF Change
      <3> QED
        BY <3>1, <1>a, EventsAreTyped DEF FileTypes
    <2>3. new \in Revision /\ new # NoState
      BY <1>a, FileFields, FreshIsRevision DEF Change
    <2>4. ~broken => /\ FileInv' /\ Pending' /\ ~Written(txn)'
                     /\ \A r \in DOMAIN Committed : r \in DOMAIN Committed' /\ Committed'[r] = Committed[r]
      BY <1>a, <2>1, TransactKeepsFiles DEF WriterFollowsJournal
    <2> HIDE DEF ev
    <2>5. tx \in [ev : Event, new : Revision] /\ tx \in Transaction /\ tx.ev = ev /\ tx.new = new
      BY <2>2, <2>3, TransactionFields
    <2> HIDE DEF tx
    <2>6. FileTypes'
      BY <1>a, <2>1, <2>5 DEF FileTypes
    <2>7. IInv'
      BY <1>a, <2>1, <2>2, <2>3, <2>4, <2>5, <2>6, WritesKeepsInv
    <2> QED
      BY <2>4, <2>7
  <1> QED
    BY <1>1, <1>2

\* What the body of a phase does is one of these.
LEMMA BodyKeepsInv ==
  ASSUME IInv, NEW p \in Procs, Body(p)
  PROVE  /\ IInv'
         /\ ~broken => \A r \in DOMAIN Committed : r \in DOMAIN Committed' /\ Committed'[r] = Committed[r]
  <1> DEFINE phase == Head(loc[p].todo)
  <1>a. /\ loc[p].step = "body" /\ Critical(p) /\ loc[p].todo # <<>> /\ loc[p].todo \in Seq(PhaseNames)
        /\ PhaseFits(p) /\ TypeOK /\ FileTypes
        /\ ~broken => FileInv /\ WriterFollowsJournal(p)
    BY CriticalHasPlan DEF Body, Critical
  <1>b. phase = "rollback" => loc[p].arg \in DOMAIN revs
    <2>1. 1 \in 1..Len(loc[p].todo) /\ phase = loc[p].todo[1]
      BY <1>a, HeadTailProperties, EmptySeq, LenProperties
    <2> QED
      BY <1>a, <2>1 DEF PhaseFits
  <1>c. /\ UNCHANGED <<state, revs, ledger, torn, report, lock, broken, budget>>
        /\ \/ phase = "load" /\ Goto(p, "release") /\ UNCHANGED txn
           \/ phase \in {"ACTION", "VERIFICATION"} /\ Log(p, phase, 0) /\ UNCHANGED txn
           \/ phase = "FAILURE" /\ (\E s \in 0..Strategies : Log(p, phase, s)) /\ UNCHANGED txn
           \/ Refused(phase) /\ Abort(p) /\ UNCHANGED txn
           \/ ~Refused(phase) /\ Decides(p, phase)
    BY DEF Body
  <1> HIDE DEF phase
  <1>d. ASSUME UNCHANGED txn
        PROVE  ~broken => \A r \in DOMAIN Committed : r \in DOMAIN Committed' /\ Committed'[r] = Committed[r]
    BY <1>a, <1>c, <1>d, FilesStay
  <1>1. CASE phase = "load" /\ Goto(p, "release") /\ UNCHANGED txn
    <2>1. "release" \in Steps /\ FileTypes' /\ (\A r \in DOMAIN revs' : revs'[r].rev = r)
          /\ \A r \in DOMAIN revs : r \in DOMAIN revs'
      BY <1>1, <1>a, <1>c DEF Steps, FileTypes, TypeOK
    <2>2. ~broken => FileInv'
      BY <1>1, <1>a, <1>c, FilesStay
    <2> QED
      BY <1>1, <1>a, <1>c, <1>d, <2>1, <2>2, GotoKeepsInv
  <1>2. CASE phase \in {"ACTION", "VERIFICATION"} /\ Log(p, phase, 0) /\ UNCHANGED txn
    <2>1. phase \in Remarks
      BY <1>2 DEF Remarks
    <2> QED
      BY <1>2, <1>a, <1>c, <1>d, <2>1, LogKeepsInv
  <1>3. CASE phase = "FAILURE" /\ (\E s \in 0..Strategies : Log(p, phase, s)) /\ UNCHANGED txn
    <2>1. phase \in Remarks
      BY <1>3 DEF Remarks
    <2>2. PICK s \in 0..Strategies : Log(p, phase, s)
      BY <1>3
    <2>3. s \in Nat
      BY TaskAssumption
    <2> QED
      BY <1>3, <1>a, <1>c, <1>d, <2>1, <2>2, <2>3, LogKeepsInv
  <1>4. CASE Refused(phase) /\ Abort(p) /\ UNCHANGED txn
    BY <1>4, <1>a, <1>c, <1>d, AbortKeepsInv
  <1>5. CASE ~Refused(phase) /\ Decides(p, phase)
    <2>1. PICK kind, new, verified : Transact(p, kind, new, verified) /\ Change(kind, new, verified)
      BY <1>5, <1>a, <1>b, DecisionsAreChanges
    <2> QED
      BY <1>a, <1>c, <2>1, TransactKeepsInv
  <1> QED
    BY <1>c, <1>1, <1>2, <1>3, <1>4, <1>5

-----------------------------------------------------------------------------
(* The invariant. *)

LEMMA InitIsInv == Init => IInv
  <1> SUFFICES ASSUME Init PROVE IInv
    OBVIOUS
  <1>1. PICK initialised \in BOOLEAN :
          /\ state = IF initialised THEN Fresh ELSE NoState
          /\ revs = IF initialised THEN <<Fresh>> ELSE <<>>
          /\ ledger = IF initialised THEN <<[seq |-> 1, kind |-> "INTENT", rev |-> 1, verified |-> 0]>> ELSE <<>>
    BY DEF Init
  <1>2. /\ torn = FALSE /\ txn = NoTxn /\ report = NoReport /\ lock = Free /\ broken = FALSE
        /\ loc = [p \in Procs |-> Idle] /\ budget = [commands |-> 0, faults |-> 0]
    BY DEF Init
  <1> DEFINE first == [seq |-> 1, kind |-> "INTENT", rev |-> 1, verified |-> 0]
  <1>3. first \in Event /\ first.seq = 1 /\ first.kind = "INTENT" /\ first.rev = 1
    BY DEF Event, Changing
  <1> HIDE DEF first
  <1>4. /\ DOMAIN revs = 1..state.rev /\ \A r \in 1..state.rev : revs[r] = state
        /\ state.rev \in {0, 1} /\ state.used = 0 /\ state \in Revision /\ (state.rev = 0 => state = NoState)
        /\ ledger \in Seq(Event) /\ Len(ledger) = state.rev
        /\ \A i \in 1..Len(ledger) : ledger[i].seq = i /\ ledger[i].kind = "INTENT" /\ ledger[i].rev = 1
    <2>1. CASE initialised
      <3>1. state = Fresh /\ revs = <<Fresh>> /\ ledger = <<first>>
        BY <2>1, <1>1 DEF first
      <3>2. DOMAIN revs = 1..1 /\ revs[1] = state
        BY <3>1
      <3>3. ledger \in Seq(Event) /\ Len(ledger) = 1 /\ ledger[1] = first
        BY <3>1, <1>3
      <3> QED
        BY <3>1, <3>2, <3>3, <1>3, FreshIsRevision
    <2>2. CASE ~initialised
      <3>1. state = NoState /\ revs = <<>> /\ ledger = <<>>
        BY <2>2, <1>1
      <3>2. DOMAIN revs = 1..0 /\ Len(ledger) = 0 /\ ledger \in Seq(Event)
        BY <3>1
      <3> QED
        BY <3>1, <3>2, FreshIsRevision, IdleIsProgress
    <2> QED
      BY <2>1, <2>2
  <1>5. TypeOK
    <2>1. revs \in [DOMAIN revs -> Revision]
      <3>1. \A r \in DOMAIN revs : revs[r] \in Revision
        BY <1>4
      <3>2. revs = [r \in DOMAIN revs |-> revs[r]]
        <4>1. <<Fresh>> = [r \in DOMAIN <<Fresh>> |-> <<Fresh>>[r]] /\ << >> = [r \in DOMAIN << >> |-> << >>[r]]
          OBVIOUS
        <4> QED
          BY <4>1, <1>1
      <3> QED
        BY <3>1, <3>2
    <2>2. \A r \in DOMAIN revs : revs[r].rev = r
      BY <1>4
    <2> QED
      BY <1>2, <1>4, <2>1, <2>2, IdleIsProgress DEF TypeOK, NoReport, Free
  <1>6. \A p \in Procs : loc[p].step = "next" /\ loc[p].todo = <<>>
    BY <1>2, IdleIsProgress
  <1>7. WritersExclude /\ \A p \in Procs : PhaseFits(p) /\ WriterFollowsJournal(p)
    <2>1. \A p \in Procs : ~Critical(p) /\ Len(loc[p].todo) = 0
      BY <1>6 DEF Critical
    <2> QED
      BY <1>6, <2>1 DEF WritersExclude, PhaseFits, WriterFollowsJournal
  <1>8. ~Pending
    BY <1>2 DEF Pending
  <1>9. RevisionsFit
    BY <1>4, <1>8 DEF RevisionsFit
  <1>10. LedgerFits
    <2>1. Told = state
      BY <1>8 DEF Told
    <2>2. Changes = 1..state.rev
      BY <1>4 DEF Changes, Changing
    <2>3. {ledger[i].rev : i \in Changes} = 1..state.rev
      BY <1>4, <2>2
    <2>4. Cardinality(Changes) = state.rev
      BY <1>4, <2>2, FS_Interval
    <2>5. Count("RECOVERY") = 0
      <3>1. {i \in 1..Len(ledger) : ledger[i].kind = "RECOVERY"} = {}
        BY <1>4
      <3> QED
        BY <3>1, FS_EmptySet DEF Count
    <2> QED
      BY <1>4, <2>1, <2>3, <2>4, <2>5 DEF LedgerFits
  <1>11. EventsAreVerified
    <2>1. \A i \in Changes : ledger[i].kind = "INTENT"
      BY <1>4 DEF Changes
    <2> QED
      BY <2>1, <1>8 DEF EventsAreVerified, IsVerified
  <1> QED
    BY <1>5, <1>7, <1>8, <1>9, <1>10, <1>11 DEF IInv, FilesFit

\* A step of any kind keeps the invariant, and with it what is committed.
LEMMA NextKeepsInv ==
  ASSUME IInv, Next
  PROVE  IInv'
  <1>1. ASSUME NEW p \in Procs, NEW cmd \in Commands \ {"rollback"}, Issue(p, cmd, 0)
        PROVE  IInv'
    BY <1>1, IssueKeepsInv
  <1>2. ASSUME NEW p \in Procs, NEW r \in DOMAIN revs, Issue(p, "rollback", r)
        PROVE  IInv'
    <2>1. r \in Nat
      <3>1. revs[r] \in Revision /\ revs[r].rev = r
        BY DEF IInv, TypeOK
      <3> QED
        BY <3>1 DEF Revision
    <2>2. "rollback" \in Commands
      BY DEF Commands, Phases
    <2> QED
      BY <1>2, <2>1, <2>2, IssueKeepsInv
  <1>3. ASSUME NEW p \in Procs, Step(p)
        PROVE  IInv'
    <2>1. CASE TimesOut(p)
      <3>1. torn' \in BOOLEAN /\ budget' \in [commands : Nat, faults : Nat]
        BY <2>1 DEF TimesOut, Files, IInv, TypeOK
      <3> QED
        BY <2>1, <3>1, StopsKeepInv DEF TimesOut, Files
    <2> QED
      BY <1>3, <2>1, AcquireKeepsInv, FindsStaleKeepsInv, BreakKeepsInv, ReleaseKeepsInv, AppendKeepsInv, RevisionKeepsInv,
         StateKeepsInv, UnlinkKeepsInv, BodyKeepsInv, ReadKeepsInv, ReportKeepsInv DEF Step
  <1>4. ASSUME NEW p \in Procs, Dies(p)
        PROVE  IInv'
    <2>1. torn' \in BOOLEAN /\ budget' \in [commands : Nat, faults : Nat]
      <3>1. torn \in BOOLEAN /\ budget \in [commands : Nat, faults : Nat]
        BY DEF IInv, TypeOK
      <3>2. torn' = torn \/ torn' = TRUE
        BY <1>4 DEF Dies
      <3>3. budget' \in [commands : Nat, faults : Nat]
        BY <1>4, <3>1 DEF Dies, Fault
      <3> QED
        BY <3>1, <3>2, <3>3
    <2> QED
      BY <1>4, <2>1, StopsKeepInv DEF Dies
  <1> QED
    BY <1>1, <1>2, <1>3, <1>4, TimeKeepsInv DEF Next

LEMMA StutterKeepsInv ==
  ASSUME IInv, UNCHANGED vars
  PROVE  IInv'
  <1>1. broken' \in BOOLEAN /\ lock' \in [by : Procs \cup {"nobody"}, old : BOOLEAN]
        /\ budget' \in [commands : Nat, faults : Nat] /\ WritersExclude'
    BY DEF vars, IInv, TypeOK, WritersExclude, Critical
  <1> QED
    BY <1>1, LockOnlyKeepsInv DEF vars

\* What a reader of the files may rely on follows.
LEMMA InvExplains == IInv <=> LedgerInv
  <1>1. ASSUME IInv
        PROVE  LedgerExplainsState /\ CompletionIsVerified /\ RetriesAreCharged
    <2>1. SUFFICES ASSUME ~broken PROVE LedgerExplainsState /\ CompletionIsVerified /\ RetriesAreCharged
      BY DEF LedgerExplainsState, CompletionIsVerified, RetriesAreCharged
    <2>2. FileTypes /\ FileInv
      BY <1>1, <2>1, TypesOfFiles DEF IInv, FilesFit, FileInv
    <2>3. state.rev \in Nat
      BY <2>2, FileFields
    <2>4. ASSUME ~Pending
          PROVE  LedgerExplainsState /\ RetriesAreCharged
      <3>1. Told = state
        BY <2>4 DEF Told
      <3>2. DOMAIN revs = 1..state.rev
        BY <2>2, <2>4 DEF FileInv, RevisionsFit
      <3>3. state.rev > 0 => revs[state.rev] = state
        BY <2>2 DEF FileInv, RevisionsFit
      <3> QED
        BY <2>2, <3>1, <3>2, <3>3 DEF FileInv, LedgerFits, LedgerExplainsState, RetriesAreCharged
    <2>5. ASSUME Pending
          PROVE  LedgerExplainsState /\ RetriesAreCharged
      BY <2>5 DEF LedgerExplainsState, RetriesAreCharged
    <2>6. CompletionIsVerified
      <3> SUFFICES ASSUME NEW i \in Changes,
                          ledger[i].kind = "COMMIT", {ledger[i].rev, ledger[i].rev - 1} \subseteq DOMAIN revs,
                          revs[ledger[i].rev].status = "completed", revs[ledger[i].rev - 1].status # "completed"
                   PROVE  ledger[i].verified = ledger[i].rev - 1
        BY DEF CompletionIsVerified
      <3>1. \A r \in DOMAIN revs : r \in DOMAIN Committed /\ Committed[r] = revs[r]
        BY <2>2, CommittedIs DEF FileInv, JournalFits
      <3>2. IsVerified(ledger[i])
        BY <2>2 DEF FileInv, EventsAreVerified
      <3> QED
        BY <3>1, <3>2 DEF IsVerified
    <2> QED
      BY <2>4, <2>5, <2>6
  <1> QED
    BY <1>1 DEF IInv, LedgerInv

\* After any interleaving, death and replay of commands the files of a task
\* agree: the journal is the next change, the ledger numbers every change once,
\* the state is the last revision, a completion was verified at the revision it
\* started from, and every recovery is charged (transactional_state(),
\* recover_pending_locked(), write_revision(), state_commit()).
THEOREM TaskIsSafe == Spec => []LedgerInv
  <1>1. IInv /\ [Next]_vars => IInv'
    BY NextKeepsInv, StutterKeepsInv
  <1>2. Spec => []IInv
    BY InitIsInv, <1>1, PTL DEF Spec
  <1> QED
    BY <1>2, InvExplains, PTL

-----------------------------------------------------------------------------
(* Durability. *)

\* No step loses or changes a revision once it is in the journal.
LEMMA CommittedStays ==
  ASSUME IInv, [Next]_vars, ~broken'
  PROVE  \A r \in DOMAIN Committed : r \in DOMAIN Committed' /\ Committed'[r] = Committed[r]
  <1> DEFINE Goal == \A r \in DOMAIN Committed : r \in DOMAIN Committed' /\ Committed'[r] = Committed[r]
  <1>a. ASSUME Committed' = Committed PROVE Goal
    BY <1>a
  <1>b. ASSUME UNCHANGED <<revs, txn>> PROVE Goal
    BY <1>b DEF Committed, Pending
  <1>c. ASSUME NEW p \in Procs, Body(p), ~broken PROVE Goal
    BY <1>c, BodyKeepsInv
  <1> HIDE DEF Goal
  <1>1. ASSUME NEW p \in Procs, WriteRevision(p) PROVE Goal
    <2>1. ~broken
      BY <1>1 DEF WriteRevision
    <2>2. /\ FileTypes /\ FileInv /\ Pending /\ loc[p].tx = txn /\ Written(txn)
      BY <2>1, <1>1, CriticalHasPlan DEF WriterFollowsJournal, WriteRevision
    <2>3. CASE txn.new.rev \in DOMAIN revs
      <3>1. UNCHANGED <<revs, txn>>
        BY <1>1, <2>2, <2>3 DEF WriteRevision
      <3> QED
        BY <3>1, <1>b
    <2>4. CASE txn.new.rev \notin DOMAIN revs
      <3>1. revs' = [r \in DOMAIN revs \cup {txn.new.rev} |-> IF r = txn.new.rev THEN txn.new ELSE revs[r]]
            /\ UNCHANGED <<state, ledger, txn>>
        BY <1>1, <2>2, <2>4 DEF WriteRevision
      <3>2. Committed' = Committed
        BY <2>2, <2>4, <3>1, RevisionKeepsFiles
      <3> QED
        BY <3>2, <1>a
    <2> QED
      BY <2>3, <2>4
  <1>2. ASSUME NEW p \in Procs, Unlink(p) PROVE Goal
    <2>1. ~broken /\ txn' = NoTxn /\ UNCHANGED <<state, revs, ledger>>
      BY <1>2 DEF Unlink
    <2>2. FileTypes /\ FileInv /\ Pending /\ Written(txn) /\ txn.new.rev \in DOMAIN revs /\ state = txn.new
      BY <2>1, <1>2, CriticalHasPlan DEF WriterFollowsJournal, Unlink
    <2>3. Committed' = Committed
      BY <2>1, <2>2, UnlinkKeepsFiles
    <2> QED
      BY <2>3, <1>a
  <1>3. ASSUME NEW p \in Procs, Body(p) PROVE Goal
    BY <1>3, <1>c DEF Body
  <1>4. \/ \E p \in Procs : WriteRevision(p) \/ Unlink(p) \/ Body(p)
        \/ UNCHANGED <<revs, txn>>
    BY DEF Next, Step, vars, Files, Issue, Acquire, FindsStale, Break, TimesOut, Release, AppendEvent, WriteState, ReadState,
           WriteReport, Dies, Ages, Oversleeps, ArtifactChanges
  <1>5. Goal
    BY <1>b, <1>1, <1>2, <1>3, <1>4
  <1> QED
    BY <1>5 DEF Goal

\* Once the journal is written its revision is committed
\* (transactional_state(), recover_pending_locked()).
THEOREM CommitsAreDurable == Spec => CommitIsDurable
  <1>1. LedgerInv /\ [Next]_vars =>
          [~broken' => \A r \in DOMAIN Committed : r \in DOMAIN Committed' /\ Committed'[r] = Committed[r]]_vars
    BY CommittedStays, InvExplains
  <1> QED
    BY <1>1, TaskIsSafe, PTL DEF Spec, CommitIsDurable

===============================================================================
