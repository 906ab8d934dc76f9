------------------------------ MODULE TaskLedger ------------------------------
(***************************************************************************)
(* The files of one task under cogent.py: state.json, the revisions, the   *)
(* append-only ledger, the journal transaction.json, the verification      *)
(* report and the writer lock.  Processes run commands; a command is a     *)
(* sequence of phases, a phase under the lock a sequence of file           *)
(* operations, and a process may die between any two of them.              *)
(***************************************************************************)
EXTENDS Naturals, Sequences, FiniteSets

CONSTANTS Procs,         \* processes that run commands
          Does,          \* the commands each of them gives; show at any time
          Strategies,    \* strategies of POLICIES that apply automatically
          RetryBudget,   \* retryBudget.maximum
          MaxCommands,   \* commands that change something
          MaxFaults      \* deaths, holders asleep for 30 s, changed artifacts

ASSUME TaskAssumption ==
  /\ DOMAIN Does = Procs /\ "nobody" \notin Procs
  /\ Strategies \in Nat /\ RetryBudget \in Nat /\ MaxCommands \in Nat /\ MaxFaults \in Nat

VARIABLES
  state,   \* state.json
  revs,    \* revisions/<n>.json, n in its domain
  ledger,  \* ledger.jsonl
  torn,    \* the last line of the ledger was cut by a crash
  txn,     \* transaction.json
  report,  \* verification.json
  lock,    \* .lock: who made it, and whether it is older than 30 s
  loc,     \* the command each process runs
  broken,  \* the lock of a live holder was removed
  budget   \* commands and faults so far

vars == <<state, revs, ledger, torn, txn, report, lock, loc, broken, budget>>

NoState == [rev |-> 0, status |-> "none", used |-> 0, tried |-> <<>>]
NoTxn == [ev |-> [seq |-> 0], new |-> NoState]
NoReport == [rev |-> 0, pass |-> FALSE, fresh |-> FALSE]
Free == [by |-> "nobody", old |-> FALSE]
Idle == [cmd |-> "idle", arg |-> 0, todo |-> <<>>, step |-> "next", tx |-> NoTxn, replay |-> FALSE, seen |-> 0]

(* What a command does, phase by phase; load, and every phase that writes, *)
(* takes the lock, read and report do not.                                 *)
Phases == [init     |-> <<"init">>,
           show     |-> <<"load">>,
           commit   |-> <<"commit">>,
           complete |-> <<"complete">>,
           rollback |-> <<"rollback">>,
           recover  |-> <<"load", "recover">>,
           run      |-> <<"load", "ACTION", "FAILURE">>,
           verify   |-> <<"load", "read", "report", "VERIFICATION">>]

Commands == DOMAIN Phases
Unlocked == {"read", "report"}
Critical(p) == loc[p].step \in {"body", "append", "revision", "state", "unlink", "release"}

Revision == [rev : Nat, status : {"none", "ready", "executing", "completed"},
             used : 0..RetryBudget, tried : Seq(1..Strategies)]
Changing == {"INTENT", "COMMIT", "ROLLBACK", "RECOVERY"}
Remarks == {"ACTION", "FAILURE", "VERIFICATION"}
Event == [seq : Nat, kind : Changing \cup Remarks, rev : Nat, verified : Nat]
Transaction == [ev : Event \cup {[seq |-> 0]}, new : Revision]
PhaseNames == {"init", "load", "commit", "complete", "rollback", "recover", "read", "report"} \cup Remarks
Steps == {"next", "break", "body", "append", "revision", "state", "unlink", "release"}
Progress == [cmd : Commands \cup {"idle"}, arg : Nat, todo : Seq(PhaseNames), step : Steps,
             tx : Transaction, replay : BOOLEAN, seen : Nat]

TypeOK ==
  /\ state \in Revision
  /\ revs \in [DOMAIN revs -> Revision] /\ \A r \in DOMAIN revs : revs[r].rev = r
  /\ ledger \in Seq(Event) /\ torn \in BOOLEAN
  /\ txn = NoTxn \/ txn \in [ev : Event, new : Revision]
  /\ report \in [rev : Nat, pass : BOOLEAN, fresh : BOOLEAN]
  /\ lock \in [by : Procs \cup {"nobody"}, old : BOOLEAN]
  /\ loc \in [Procs -> Progress]
  /\ broken \in BOOLEAN /\ budget \in [commands : Nat, faults : Nat]

Fresh == [NoState EXCEPT !.rev = 1, !.status = "ready"]

(* A task that is not initialised, or just was. *)
Init ==
  /\ \E initialised \in BOOLEAN :
       /\ state = IF initialised THEN Fresh ELSE NoState
       /\ revs = IF initialised THEN <<Fresh>> ELSE <<>>
       /\ ledger = IF initialised THEN <<[seq |-> 1, kind |-> "INTENT", rev |-> 1, verified |-> 0]>> ELSE <<>>
  /\ torn = FALSE
  /\ txn = NoTxn /\ report = NoReport /\ lock = Free
  /\ loc = [p \in Procs |-> Idle]
  /\ broken = FALSE /\ budget = [commands |-> 0, faults |-> 0]

-----------------------------------------------------------------------------
(* Commands and the writer lock. *)
Files == <<state, revs, ledger, torn, txn, report>>

Becomes(p, l) == loc' = [loc EXCEPT ![p] = l]

Issue(p, cmd, arg) ==
  /\ loc[p].cmd = "idle"
  /\ cmd \in Does[p] /\ (cmd # "show" => budget.commands < MaxCommands)
  /\ arg > 0 => arg \in DOMAIN revs
  /\ budget' = [budget EXCEPT !.commands = IF cmd = "show" THEN @ ELSE @ + 1]
  /\ Becomes(p, [Idle EXCEPT !.cmd = cmd, !.arg = arg, !.todo = Phases[cmd]])
  /\ UNCHANGED <<Files, lock, broken>>

Goto(p, step) == Becomes(p, [loc[p] EXCEPT !.step = step])

(* SystemExit under the lock still releases it. *)
Abort(p) == Becomes(p, [loc[p] EXCEPT !.step = "release", !.todo = <<Head(@)>>])

Writes(p, tx) == Becomes(p, [loc[p] EXCEPT !.step = "append", !.tx = tx])
Replays(p) == Becomes(p, [loc[p] EXCEPT !.step = "append", !.tx = txn, !.replay = TRUE])

Continue(l) == IF Tail(l.todo) = <<>> THEN Idle
               ELSE [l EXCEPT !.step = "next", !.todo = Tail(@), !.tx = NoTxn]

Waits(p) == loc[p].step = "next" /\ loc[p].todo # <<>> /\ Head(loc[p].todo) \notin Unlocked

ReplayLater(p) ==  \* mutant: the command goes first
  Goto(p, IF Head(loc[p].todo) = "load" THEN "release" ELSE "body")

ReplayByWriters(p) ==  \* mutant: a command that only reads replays nothing
  IF txn = NoTxn \/ Head(loc[p].todo) = "load" THEN ReplayLater(p)
  ELSE IF torn THEN Abort(p)
  ELSE Replays(p)

(* The first thing under the lock is recover_pending_locked. *)
Replay(p) ==
  IF txn = NoTxn THEN Goto(p, IF Head(loc[p].todo) = "load" THEN "release" ELSE "body")
  ELSE IF torn THEN Abort(p)
  ELSE Replays(p)

Taken == lock # Free

Acquire(p) ==
  /\ Waits(p) /\ ~Taken
  /\ lock' = [by |-> p, old |-> FALSE] /\ Replay(p)
  /\ UNCHANGED <<Files, broken, budget>>

(* Whoever waits removes a lock file older than 30 s.  Finding its age and  *)
(* removing it are two calls: what is removed may be another's lock by then. *)
Stale == lock.old

FindsStale(p) ==
  /\ Waits(p) /\ Taken /\ Stale
  /\ Goto(p, "break")
  /\ UNCHANGED <<Files, lock, broken, budget>>

Break(p) ==
  /\ loc[p].step = "break"
  /\ Goto(p, "next")
  /\ lock' = Free
  /\ broken' = (broken \/ \E q \in Procs : lock.by = q /\ Critical(q))
  /\ UNCHANGED <<Files, budget>>

TimesOut(p) ==
  /\ Waits(p) /\ Taken /\ ~Stale
  /\ Becomes(p, Idle)
  /\ UNCHANGED <<Files, lock, broken, budget>>

Release(p) ==
  /\ loc[p].step = "release"
  /\ lock' = Free /\ Becomes(p, Continue(loc[p]))
  /\ UNCHANGED <<Files, broken, budget>>

-----------------------------------------------------------------------------
(* The second half of transactional_state, and of a replay. *)
Written(tx) == Len(ledger) >= tx.ev.seq

AppendEvent(p) ==
  /\ loc[p].step = "append"
  /\ LET tx   == loc[p].tx
         skip == loc[p].replay /\ Written(tx)
     IN /\ ledger' = IF skip THEN ledger ELSE Append(ledger, tx.ev)
        /\ IF skip /\ ledger[tx.ev.seq] # tx.ev THEN Abort(p)
           ELSE Goto(p, IF tx.new = NoState THEN "release" ELSE "revision")
  /\ UNCHANGED <<state, revs, torn, txn, report, lock, broken, budget>>

WriteRevision(p) ==
  /\ loc[p].step = "revision"
  /\ LET new == loc[p].tx.new
     IN IF new.rev \in DOMAIN revs
        THEN /\ IF revs[new.rev] = new THEN Goto(p, "state") ELSE Abort(p)
             /\ UNCHANGED revs
        ELSE /\ revs' = [r \in DOMAIN revs \cup {new.rev} |-> IF r = new.rev THEN new ELSE revs[r]]
             /\ Goto(p, "state")
  /\ UNCHANGED <<state, ledger, torn, txn, report, lock, broken, budget>>

WriteState(p) ==
  /\ loc[p].step = "state"
  /\ state' = IF state.rev <= loc[p].tx.new.rev THEN loc[p].tx.new ELSE state
  /\ Goto(p, "unlink")
  /\ UNCHANGED <<revs, ledger, torn, txn, report, lock, broken, budget>>

Unlink(p) ==
  /\ loc[p].step = "unlink"
  /\ txn' = NoTxn
  /\ IF loc[p].replay
     THEN Becomes(p, [loc[p] EXCEPT !.step = "body", !.replay = FALSE, !.tx = NoTxn])
     ELSE Goto(p, "release")
  /\ UNCHANGED <<state, revs, ledger, torn, report, lock, broken, budget>>

-----------------------------------------------------------------------------
(* The body of a phase: what it decides under the lock. *)
Ev(kind, rev, verified) ==
  [seq |-> Len(ledger) + 1, kind |-> kind, rev |-> rev, verified |-> verified]

Log(p, kind, rev) ==  \* append_event: needs an initialised task
  IF state = NoState \/ torn THEN Abort(p)
  ELSE Writes(p, [ev |-> Ev(kind, rev, 0), new |-> NoState])

Transact(p, kind, new, verified) ==
  IF torn THEN Abort(p) /\ UNCHANGED txn
  ELSE /\ txn' = [ev |-> Ev(kind, new.rev, verified), new |-> new]
       /\ Writes(p, [ev |-> Ev(kind, new.rev, verified), new |-> new])

EvidenceOfAny == report.pass /\ report.fresh  \* mutant: of any revision
Evidence == report.pass /\ report.rev = state.rev /\ report.fresh

Failures == {i \in 1..Len(ledger) : ledger[i].kind = "FAILURE"}

(* make_plan and apply_to_state: the last failure decides the strategy (a  *)
(* FAILURE event names it in rev, 0 for a class left to the operator); the *)
(* circuit opens at the budget and at the same strategy three times.       *)
Latest == CHOOSE i \in Failures : \A j \in Failures : j <= i
Strategy == ledger[Latest].rev
Applicable == /\ Failures # {} /\ Strategy \in 1..Strategies
              /\ state.used < RetryBudget /\ state.tried # <<Strategy, Strategy>>

Recovered ==
  LET last == IF Len(state.tried) = 2 THEN Tail(state.tried) ELSE state.tried
  IN [rev |-> state.rev + 1, status |-> "executing", used |-> state.used + 1, tried |-> Append(last, Strategy)]

Deciding == {"init", "commit", "complete", "rollback", "recover"}

Refused(phase) ==
  /\ phase \in Deciding
  /\ IF phase = "init" THEN state # NoState \/ ledger # <<>>
     ELSE \/ state = NoState
          \/ phase = "complete" /\ ~Evidence
          \/ phase = "recover" /\ ~Applicable

Successor(content) == [content EXCEPT !.rev = state.rev + 1]

(* The transaction each deciding phase writes. *)
Decides(p, phase) ==
  \/ phase = "init"     /\ Transact(p, "INTENT", Fresh, 0)
  \/ phase = "commit"   /\ Transact(p, "COMMIT", Successor(state), 0)
  \/ phase = "complete" /\ Transact(p, "COMMIT", [Successor(state) EXCEPT !.status = "completed"], report.rev)
  \/ phase = "rollback" /\ Transact(p, "ROLLBACK", Successor(revs[loc[p].arg]), 0)
  \/ phase = "recover"  /\ Transact(p, "RECOVERY", Recovered, 0)

Body(p) ==
  /\ loc[p].step = "body"
  /\ LET phase == Head(loc[p].todo)
     IN \/ phase = "load" /\ Goto(p, "release") /\ UNCHANGED txn
        \/ phase \in {"ACTION", "VERIFICATION"} /\ Log(p, phase, 0) /\ UNCHANGED txn
        \/ phase = "FAILURE" /\ (\E s \in 0..Strategies : Log(p, phase, s)) /\ UNCHANGED txn
        \/ Refused(phase) /\ Abort(p) /\ UNCHANGED txn
        \/ ~Refused(phase) /\ Decides(p, phase)
  /\ UNCHANGED <<state, revs, ledger, torn, report, lock, broken, budget>>

(* Phases without the lock. *)
ReadState(p) ==
  /\ loc[p].step = "next" /\ loc[p].todo # <<>> /\ Head(loc[p].todo) = "read"
  /\ Becomes(p, IF state = NoState THEN Idle ELSE [Continue(loc[p]) EXCEPT !.seen = state.rev])
  /\ UNCHANGED <<Files, lock, broken, budget>>

WriteReport(p) ==
  /\ loc[p].step = "next" /\ loc[p].todo # <<>> /\ Head(loc[p].todo) = "report"
  /\ \E pass \in BOOLEAN : report' = [rev |-> loc[p].seen, pass |-> pass, fresh |-> TRUE]
  /\ Becomes(p, [Continue(loc[p]) EXCEPT !.seen = 0])
  /\ UNCHANGED <<state, revs, ledger, torn, txn, lock, broken, budget>>

-----------------------------------------------------------------------------
(* Faults. *)
Fault == budget.faults < MaxFaults /\ budget' = [budget EXCEPT !.faults = @ + 1]

(* A process dies; a power loss may cut the line it was appending. *)
Dies(p) ==
  /\ loc[p].cmd # "idle" /\ Fault
  /\ Becomes(p, Idle)
  /\ torn' \in IF loc[p].step = "append" THEN {torn, TRUE} ELSE {torn}
  /\ UNCHANGED <<state, revs, ledger, txn, report, lock, broken>>

(* The lock of a dead process gets old; that of a live one when it sleeps. *)
Ages ==
  /\ lock # Free /\ ~lock.old /\ ~Critical(lock.by)
  /\ lock' = [lock EXCEPT !.old = TRUE]
  /\ UNCHANGED <<Files, loc, broken, budget>>

Oversleeps ==
  /\ lock # Free /\ ~lock.old /\ Critical(lock.by) /\ Fault
  /\ lock' = [lock EXCEPT !.old = TRUE]
  /\ UNCHANGED <<Files, loc, broken>>

ArtifactChanges ==
  /\ report.fresh /\ Fault
  /\ report' = [report EXCEPT !.fresh = FALSE]
  /\ UNCHANGED <<state, revs, ledger, torn, txn, lock, loc, broken>>

Step(p) ==
  \/ Acquire(p) \/ FindsStale(p) \/ Break(p) \/ TimesOut(p) \/ Release(p)
  \/ AppendEvent(p) \/ WriteRevision(p) \/ WriteState(p) \/ Unlink(p)
  \/ Body(p) \/ ReadState(p) \/ WriteReport(p)

Next ==
  \/ \E p \in Procs, cmd \in Commands \ {"rollback"} : Issue(p, cmd, 0)
  \/ \E p \in Procs, r \in DOMAIN revs : Issue(p, "rollback", r)
  \/ \E p \in Procs : Step(p) \/ Dies(p)
  \/ Ages \/ Oversleeps \/ ArtifactChanges

(* A process goes on, somebody shows the task now and then, time passes.   *)
Spec == Init /\ [][Next]_vars
        /\ (\A p \in Procs : WF_vars(Step(p)))
        /\ (\A p \in Procs : WF_vars(Issue(p, "show", 0)))
        /\ WF_vars(Ages)

-----------------------------------------------------------------------------
(* Properties. *)
Pending == txn # NoTxn
Changes == {i \in 1..Len(ledger) : ledger[i].kind \in Changing}
Count(kind) == Cardinality({i \in 1..Len(ledger) : ledger[i].kind = kind})

(* The revisions as a reader that replays the journal sees them. *)
Committed == [r \in DOMAIN revs \cup (IF Pending THEN {txn.new.rev} ELSE {}) |->
                IF Pending /\ r = txn.new.rev THEN txn.new ELSE revs[r]]

(* Once the journal is written its revision is committed: no later death,  *)
(* replay or command loses it or changes it.                               *)
CommitIsDurable ==
  [][~broken' => \A r \in DOMAIN Committed :
       r \in DOMAIN Committed' /\ Committed'[r] = Committed[r]]_vars

(* With no journal left the ledger tells the whole history: it is numbered *)
(* without a gap, every revision up to the state has exactly one event,    *)
(* and the state is the last of them.                                      *)
LedgerExplainsState ==
  ~broken /\ ~Pending =>
    /\ \A i \in 1..Len(ledger) : ledger[i].seq = i
    /\ DOMAIN revs = 1..state.rev
    /\ state.rev > 0 => revs[state.rev] = state
    /\ {ledger[i].rev : i \in Changes} = DOMAIN revs
    /\ Cardinality(Changes) = state.rev

(* A commit turns the task completed only on a passing verification of the *)
(* very revision it started from.                                          *)
CompletionIsVerified ==
  ~broken => \A i \in Changes :
    LET r == ledger[i].rev
    IN /\ ledger[i].kind = "COMMIT" /\ {r, r - 1} \subseteq DOMAIN revs
       /\ revs[r].status = "completed" /\ revs[r - 1].status # "completed"
       => ledger[i].verified = r - 1

(* Every recovery is charged to the retry budget once, whatever died while *)
(* it was applied; only a rollback, which restores the old budget with the *)
(* rest of the content, gives retries back.                                *)
RetriesAreCharged ==
  ~broken /\ ~Pending /\ Count("ROLLBACK") = 0 => state.used = Count("RECOVERY")

(* A journal does not stay: the next command replays it, unless the ledger *)
(* was cut by a power loss.                                                *)
JournalIsReplayed == Pending ~> ~Pending \/ torn \/ broken

(* The lock excludes: while no lock of a live holder was removed, whoever is *)
(* in the middle of something holds it (writer_lock).                        *)
WritersExclude == ~broken => \A p \in Procs : Critical(p) => lock.by = p

(* What a process is about to do is still to be done.                        *)
PhaseFits(p) ==
  /\ Critical(p) => loc[p].todo # <<>>
  /\ loc[p].step = "append" => loc[p].tx.ev \in Event
  /\ \A i \in 1..Len(loc[p].todo) : loc[p].todo[i] = "rollback" => loc[p].arg \in DOMAIN revs

(* The holder of the lock and the files agree: it decides with no journal    *)
(* left, its transaction is the journal, and it writes in the order ledger,  *)
(* revision, state, so that a death leaves a prefix of them.                 *)
WriterFollowsJournal(p) ==
  /\ loc[p].step = "body" => ~Pending
  /\ loc[p].step \in {"revision", "state", "unlink"} =>
       /\ Pending /\ loc[p].tx = txn /\ Written(txn)
       /\ loc[p].step # "revision" => txn.new.rev \in DOMAIN revs
       /\ loc[p].step = "unlink" => state = txn.new
  /\ loc[p].step = "append" =>
       IF loc[p].tx.new = NoState
       THEN /\ ~Pending
            /\ loc[p].tx.ev.kind \in Remarks /\ loc[p].tx.ev.seq = Len(ledger) + 1
       ELSE Pending /\ loc[p].tx = txn /\ (Written(txn) => loc[p].replay)

Charge(kind) == IF kind = "RECOVERY" THEN 1 ELSE 0

(* The journal is the next change of the state, written down or not.         *)
JournalFits ==
  /\ txn.ev.kind \in Changing /\ txn.ev.rev = txn.new.rev /\ txn.new.rev > 0
  /\ state = txn.new \/ state.rev + 1 = txn.new.rev
  /\ txn.new.rev \in DOMAIN revs => Written(txn) /\ revs[txn.new.rev] = txn.new
  /\ IF Written(txn) THEN Len(ledger) = txn.ev.seq /\ ledger[txn.ev.seq] = txn.ev
     ELSE /\ Len(ledger) + 1 = txn.ev.seq /\ state.rev + 1 = txn.new.rev
          /\ txn.ev.kind # "ROLLBACK" => txn.new.used = state.used + Charge(txn.ev.kind)

(* The revisions on disk are those up to the state; the journal may add one. *)
RevisionsFit ==
  /\ \A r \in 1..state.rev : r \in DOMAIN revs
  /\ \A r \in DOMAIN revs : r \in 1..state.rev \/ (Pending /\ r = txn.new.rev)
  /\ IF state.rev = 0 THEN state = NoState ELSE revs[state.rev] = state

(* What the ledger tells of: the state, or the journal once it is in it.     *)
Told == IF Pending /\ Written(txn) THEN txn.new ELSE state

LedgerFits ==
  /\ \A i \in 1..Len(ledger) : ledger[i].seq = i
  /\ {ledger[i].rev : i \in Changes} = 1..Told.rev
  /\ Cardinality(Changes) = Told.rev
  /\ Count("ROLLBACK") = 0 => Told.used = Count("RECOVERY")

(* An event that completes the task names the revision that was verified.    *)
IsVerified(e) ==
  /\ e.kind = "COMMIT" /\ {e.rev, e.rev - 1} \subseteq DOMAIN Committed
  /\ Committed[e.rev].status = "completed" /\ Committed[e.rev - 1].status # "completed"
  => e.verified = e.rev - 1

EventsAreVerified ==
  /\ \A i \in Changes : IsVerified(ledger[i])
  /\ Pending => IsVerified(txn.ev)

FilesFit == ~broken =>
  /\ \A p \in Procs : WriterFollowsJournal(p)
  /\ Pending => JournalFits
  /\ RevisionsFit /\ LedgerFits /\ EventsAreVerified

(* The state invariants of a task in one formula: state and ledger agree after *)
(* any interrupted commit and replay, a completed task was verified at the     *)
(* revision it completed from, and every retry is charged.                     *)
LedgerInv ==
    /\ TypeOK
    /\ WritersExclude
    /\ \A p \in Procs : PhaseFits(p)
    /\ FilesFit
    /\ LedgerExplainsState
    /\ CompletionIsVerified
    /\ RetriesAreCharged

==============================================================================
