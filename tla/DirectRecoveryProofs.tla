------------------------ MODULE DirectRecoveryProofs ------------------------
(***************************************************************************)
(* The safety of Direct recovery, for any bounds: RecoveryInv is inductive,*)
(* and the two action properties of DirectRecovery follow from it.         *)
(***************************************************************************)
EXTENDS DirectRecovery, FiniteSetTheorems, TLAPS

\* A set whose elements are all equal has at most one.
LEMMA AtMostOne ==
    ASSUME NEW S, \A a, b \in S : a = b
    PROVE  Cardinality(S) <= 1
  <1>1. CASE S = {}
    BY <1>1, FS_EmptySet
  <1>2. CASE S # {}
    <2>1. PICK a \in S : S = {a}
      BY <1>2
    <2> QED
      BY <2>1, FS_Singleton
  <1> QED
    BY <1>1, <1>2

\* What the conjuncts about the control imply about inferences and authority.
Control ==
    /\ QuietWhenDown /\ HostHoldsGateway /\ PromotesTheDead /\ RowFollowsRun
    /\ UnstoredAnswerIsFirst /\ AttemptsCount /\ OneAttempt
LEMMA ControlSuffices == Control => RecoveryRunsAlone /\ OneInference /\ OneAuthority
  <1> SUFFICES ASSUME Control PROVE RecoveryRunsAlone /\ OneInference /\ OneAuthority
    OBVIOUS
  <1>1. RecoveryRunsAlone /\ OneAuthority
    BY DEF Control, RowFollowsRun, AttemptsCount, RecoveryRunsAlone, OneAuthority
  <1>2. ASSUME run.surface = "dashboard", ~host.joined
        PROVE  Cardinality({a \in Attempts : runner[a].at \in {"infer", "abort"} /\ ~runner[a].taken}) <= 1
    <2>1. \A a, b \in {c \in Attempts : runner[c].at \in {"infer", "abort"} /\ ~runner[c].taken} : a = b
      BY <1>2 DEF Control, OneAttempt, Idles
    <2> QED
      BY <2>1, AtMostOne
  <1> QED
    BY <1>1, <1>2 DEF OneInference

\* The initial states satisfy the invariant.
LEMMA InitEstablishes == Init => RecoveryInv
  <1> SUFFICES ASSUME Init PROVE RecoveryInv
    OBVIOUS
  <1> USE RecoveryAssumption
  <1>1. TypeOK
    BY DEF Init, TypeOK, SessionRow, TicketRow, CallRow, RunState, RecoveryRow, Answer, RunnerState, HostState,
           NoCandidate, NoRunner, Attempts
  <1>2. Control
    BY DEF Init, Control, QuietWhenDown, HostHoldsGateway, PromotesTheDead, RowFollowsRun,
           UnstoredAnswerIsFirst, AttemptsCount, OneAttempt, Idles, NoCandidate, NoRunner, Durable
  <1> QED
    BY <1>1, <1>2, ControlSuffices DEF RecoveryInv, Control

-----------------------------------------------------------------------------
(* What the shared parts of the steps do. *)

\* The row is opened for a new attempt, or taken out of the hands of the worker.
Opens == rec' \in RecoveryRow /\ rec'.state = "pending" /\ rec'.att = rec.att
Closes == rec' \in RecoveryRow /\ rec'.state \in {"awaiting", "cancelled", "done"} /\ rec'.att = rec.att

\* An attempt ends; its row returns to pending if it is still its own.
Leaves(a) ==
    /\ runner' \in [Attempts -> RunnerState]
    /\ runner'[a].at = "none"
    /\ \A b \in Attempts \ {a} : runner'[b] = runner[b]
Retries(a) == rec' = rec \/ (rec.state = "running" /\ rec.run = a /\ Opens)

\* What the startup fence and the reconciliation do with the Ticket and its row.
Prepares ==
    \/ rec' = rec /\ ticket' = ticket
    \/ /\ ticket.status = "waiting" /\ Opens
       /\ ticket' \in TicketRow /\ ticket'.status = "accepted" /\ ~ticket'.ready
    \/ ticket' = ticket /\ rec.state # "none" /\ Closes
    \/ /\ ticket' = ticket /\ rec.state = "running"
       /\ ticket.status \in {"accepted", "waiting", "workflow"} /\ Opens

RowStates == {"none", "pending", "running", "awaiting", "cancelled", "done"}
TicketStates == {"accepted", "waiting", "workflow", "completed", "failed", "cancelled"}

\* A row that moves to another state keeps its attempts.
LEMMA RowMoves ==
    ASSUME NEW r \in RecoveryRow, NEW s \in RowStates, NEW d \in BOOLEAN
    PROVE  /\ [r EXCEPT !.state = s, !.run = 0, !.due = d] \in RecoveryRow
           /\ [r EXCEPT !.state = s, !.run = 0, !.due = d].state = s
           /\ [r EXCEPT !.state = s, !.run = 0, !.due = d].att = r.att
  <1>1. 0 \in 0..MaxAttempts
    BY RecoveryAssumption
  <1> QED
    BY <1>1 DEF RecoveryRow, RowStates

\* A retry gives the row back, if the attempt still holds it.
LEMMA RetryRetries ==
    ASSUME rec \in RecoveryRow, NEW a \in Attempts, Retry(a)
    PROVE  Retries(a)
  <1>1. CASE Authorized(a)
    <2>1. rec' = [rec EXCEPT !.state = "pending", !.run = 0] /\ rec.state = "running" /\ rec.run = a
      BY <1>1 DEF Retry, Authorized
    <2>2. 0 \in 0..MaxAttempts
      BY RecoveryAssumption
    <2> QED
      BY <2>1, <2>2 DEF RecoveryRow, Retries, Opens
  <1> QED
    BY <1>1 DEF Retry, Retries

\* A queued row is pending for the generation of the session.
LEMMA QueuedOpens ==
    ASSUME rec \in RecoveryRow, sess \in SessionRow
    PROVE  Queued \in RecoveryRow /\ Queued.state = "pending" /\ Queued.att = rec.att
  <1>1. 0 \in 0..MaxAttempts /\ sess.gen \in 0..MaxGen
    BY RecoveryAssumption DEF SessionRow
  <1> QED
    BY <1>1 DEF RecoveryRow, Queued

\* A Ticket changes its status, its lane or whether it is ready.
LEMMA TicketStatus ==
    ASSUME NEW t \in TicketRow, NEW s \in TicketStates
    PROVE  /\ [t EXCEPT !.status = s] \in TicketRow
           /\ [t EXCEPT !.status = s].status = s
           /\ [t EXCEPT !.status = s].ready = t.ready
  BY DEF TicketRow, TicketStates
LEMMA TicketLane ==
    ASSUME NEW t \in TicketRow, NEW s \in TicketStates, NEW e \in BOOLEAN
    PROVE  /\ [t EXCEPT !.status = s, !.eligible = e] \in TicketRow
           /\ [t EXCEPT !.status = s, !.eligible = e].status = s
           /\ [t EXCEPT !.status = s, !.eligible = e].ready = t.ready
  BY DEF TicketRow, TicketStates
LEMMA TicketReady ==
    ASSUME NEW t \in TicketRow, NEW r \in BOOLEAN
    PROVE  /\ [t EXCEPT !.ready = r] \in TicketRow
           /\ [t EXCEPT !.ready = r].status = t.status
           /\ [t EXCEPT !.ready = r].ready = r
  BY DEF TicketRow

\* A Direct Ticket is marked for recovery, or nothing is.
LEMMA Marks ==
    ASSUME rec \in RecoveryRow, sess \in SessionRow, ticket \in TicketRow, MarkDirectRecovery
    PROVE  \/ rec' = rec /\ ticket' = ticket
           \/ /\ ticket.status = "accepted" /\ Opens
              /\ ticket' \in TicketRow /\ ticket'.status = "accepted" /\ ~ticket'.ready
  <1>1. CASE Direct /\ sess.state = "active"
    <2>1. rec' = Queued /\ ticket' = [ticket EXCEPT !.ready = FALSE] /\ ticket.status = "accepted"
      BY <1>1 DEF MarkDirectRecovery, Direct
    <2>2. Opens
      BY <2>1, QueuedOpens DEF Opens
    <2> QED
      BY <2>1, <2>2, TicketReady
  <1>2. CASE ~(Direct /\ sess.state = "active")
    BY <1>2 DEF MarkDirectRecovery
  <1> QED
    BY <1>1, <1>2

\* Calls, the Host and the attempts change in the shapes the steps use.
LEMMA CallEnds ==
    ASSUME NEW c \in CallRow, NEW e \in BOOLEAN
    PROVE  [c EXCEPT !.state = "ended", !.error = e, !.due = FALSE] \in CallRow
  BY DEF CallRow
LEMMA CallClaims ==
    ASSUME NEW c \in CallRow, c.tries < MaxTries
    PROVE  [c EXCEPT !.state = "recovering", !.old = FALSE, !.tries = c.tries + 1] \in CallRow
  <1>1. c.tries + 1 \in 0..MaxTries
    BY RecoveryAssumption DEF CallRow
  <1> QED
    BY <1>1 DEF CallRow
LEMMA CallLeaves ==
    ASSUME NEW c \in CallRow, NEW s \in {"active", "ended", "interrupted"}
    PROVE  [c EXCEPT !.state = s, !.due = FALSE, !.old = FALSE] \in CallRow
  BY DEF CallRow
LEMMA HostRests ==
    ASSUME NEW h \in HostState
    PROVE  /\ [h EXCEPT !.at = "idle", !.job = "none", !.id = 0] \in HostState
           /\ [h EXCEPT !.at = "idle", !.job = "none", !.id = 0].at = "idle"
           /\ [h EXCEPT !.at = "idle", !.job = "none", !.id = 0].job = "none"
           /\ [h EXCEPT !.at = "idle", !.job = "none", !.id = 0].joined = h.joined
  <1>1. 0 \in 0..MaxCalls
    BY RecoveryAssumption
  <1> QED
    BY <1>1 DEF HostState
LEMMA HostPromotes ==
    ASSUME NEW h \in HostState
    PROVE  /\ [h EXCEPT !.at = "stopped", !.job = "promote"] \in HostState
           /\ [h EXCEPT !.at = "stopped", !.job = "promote"].at = "stopped"
           /\ [h EXCEPT !.at = "stopped", !.job = "promote"].job = "promote"
           /\ [h EXCEPT !.at = "stopped", !.job = "promote"].joined = h.joined
  BY DEF HostState
LEMMA HostJoins ==
    ASSUME NEW h \in HostState, NEW j \in BOOLEAN
    PROVE  /\ [h EXCEPT !.at = "stopped", !.job = "promote", !.joined = j] \in HostState
           /\ [h EXCEPT !.at = "stopped", !.job = "promote", !.joined = j].at = "stopped"
           /\ [h EXCEPT !.at = "stopped", !.job = "promote", !.joined = j].job = "promote"
           /\ [h EXCEPT !.at = "stopped", !.job = "promote", !.joined = j].joined = j
  BY DEF HostState
LEMMA RunnerMoves ==
    ASSUME runner \in [Attempts -> RunnerState], NEW a \in Attempts, NEW s \in {"owner", "infer", "abort"},
           runner' = [runner EXCEPT ![a].at = s]
    PROVE  /\ runner' \in [Attempts -> RunnerState] /\ runner'[a].at = s /\ runner'[a].taken = runner[a].taken
           /\ \A b \in Attempts \ {a} : runner'[b] = runner[b]
  <1>1. runner' = [runner EXCEPT ![a] = [runner[a] EXCEPT !.at = s]]
    OBVIOUS
  <1>2. /\ [runner[a] EXCEPT !.at = s] \in RunnerState /\ [runner[a] EXCEPT !.at = s].at = s
        /\ [runner[a] EXCEPT !.at = s].taken = runner[a].taken
    <2>1. runner[a] \in RunnerState
      OBVIOUS
    <2> QED
      BY <2>1 DEF RunnerState
  <1> QED
    BY <1>1, <1>2
LEMMA RunnerStarts ==
    ASSUME runner \in [Attempts -> RunnerState], NEW a \in Attempts, NEW g \in 0..MaxGen,
           runner' = [runner EXCEPT ![a] = [at |-> "owner", gen |-> g, taken |-> FALSE]]
    PROVE  /\ runner' \in [Attempts -> RunnerState] /\ runner'[a].at = "owner"
           /\ \A b \in Attempts \ {a} : runner'[b] = runner[b]
  <1>1. [at |-> "owner", gen |-> g, taken |-> FALSE] \in RunnerState
    BY DEF RunnerState
  <1> QED
    BY <1>1
LEMMA RunnerLoosens ==
    ASSUME runner \in [Attempts -> RunnerState], NEW a \in Attempts,
           runner' = [runner EXCEPT ![a].at = "loose", ![a].taken = TRUE]
    PROVE  /\ runner' \in [Attempts -> RunnerState] /\ runner'[a].at = "loose" /\ runner'[a].taken
           /\ \A b \in Attempts \ {a} : runner'[b] = runner[b]
  <1> DEFINE r == [runner[a] EXCEPT !.at = "loose", !.taken = TRUE]
  <1>1. runner' = [runner EXCEPT ![a] = r]
    OBVIOUS
  <1>2. r \in RunnerState /\ r.at = "loose" /\ r.taken
    <2>1. runner[a] \in RunnerState
      OBVIOUS
    <2> QED
      BY <2>1 DEF RunnerState
  <1> HIDE DEF r
  <1> QED
    BY <1>1, <1>2
LEMMA RunnersTaken ==
    ASSUME runner \in [Attempts -> RunnerState],
           runner' = [a \in Attempts |-> [runner[a] EXCEPT !.taken = @ \/ runner[a].at # "none"]]
    PROVE  /\ runner' \in [Attempts -> RunnerState]
           /\ \A a \in Attempts : runner'[a].at = runner[a].at /\ (runner[a].at # "none" => runner'[a].taken)
  <1>1. ASSUME NEW a \in Attempts
        PROVE  /\ runner'[a] \in RunnerState /\ runner'[a].at = runner[a].at
               /\ runner[a].at # "none" => runner'[a].taken
    <2> DEFINE e == runner[a].taken \/ runner[a].at # "none"
    <2>1. runner[a] \in RunnerState
      OBVIOUS
    <2>2. runner'[a] = [runner[a] EXCEPT !.taken = e]
      OBVIOUS
    <2>3. e \in BOOLEAN /\ (runner[a].at # "none" => e)
      BY <2>1 DEF RunnerState
    <2> HIDE DEF e
    <2>4. CASE e = TRUE
      BY <2>1, <2>2, <2>3, <2>4 DEF RunnerState
    <2>5. CASE e = FALSE
      BY <2>1, <2>2, <2>3, <2>5 DEF RunnerState
    <2> QED
      BY <2>3, <2>4, <2>5
  <1> QED
    BY <1>1
LEMMA LeaveLeaves ==
    ASSUME runner \in [Attempts -> RunnerState], NEW a \in Attempts, Leave(a)
    PROVE  Leaves(a)
  <1>1. NoRunner \in RunnerState /\ NoRunner.at = "none"
    BY RecoveryAssumption DEF NoRunner, RunnerState
  <1> QED
    BY <1>1 DEF Leave, Leaves

\* What the Gateway held is gone.
LEMMA Forgetting ==
    ASSUME run \in RunState, Forgotten
    PROVE  /\ run' \in RunState /\ run'.at = "over" /\ ~run'.receipt /\ run'.surface = run.surface
           /\ cand' \in Answer /\ cand' = NoCandidate
           /\ runner' \in [Attempts -> RunnerState] /\ \A a \in Attempts : runner'[a].at = "none"
  <1>1. 0 \in 0..MaxCalls /\ 0 \in 0..MaxGen /\ 0 \in 0..MaxAttempts
    BY RecoveryAssumption
  <1>2. run' \in RunState /\ run'.at = "over" /\ ~run'.receipt /\ run'.surface = run.surface
    BY <1>1 DEF Forgotten, RunState
  <1>3. NoRunner \in RunnerState /\ NoRunner.at = "none" /\ NoCandidate \in Answer
    BY <1>1 DEF NoRunner, RunnerState, NoCandidate, Answer
  <1> QED
    BY <1>2, <1>3 DEF Forgotten

\* The startup fence and the reconciliation do what Prepares says.
LEMMA PreparedPrepares ==
    ASSUME rec \in RecoveryRow, sess \in SessionRow, ticket \in TicketRow, Prepared
    PROVE  Prepares
  <1>1. CASE Reopens
    <2>0. ticket' = [status |-> "accepted", eligible |-> FALSE, ready |-> FALSE]
      BY <1>1 DEF Prepared
    <2>1. rec' = Queued
      BY <1>1 DEF Prepared
    <2>2. Opens
      BY <2>1, QueuedOpens DEF Opens
    <2>3. ticket' \in TicketRow /\ ticket'.status = "accepted" /\ ~ticket'.ready
      BY <2>0 DEF TicketRow
    <2> QED
      BY <1>1, <2>2, <2>3 DEF Prepares, Reopens
  <1>2. CASE ~Reopens
    <2>0. ticket' = ticket
      BY <1>2 DEF Prepared
    <2> DEFINE settled == rec.state # "none" /\ ticket.status \in {"completed", "failed", "cancelled"}
               again == /\ rec.state = "running" /\ ticket.status \in {"accepted", "waiting", "workflow"}
                        /\ Current(rec.gen)
    <2>1. CASE settled
      <3>1. rec' = [rec EXCEPT !.state = "cancelled", !.run = 0, !.due = FALSE]
        BY <1>2, <2>1 DEF Prepared
      <3>2. Closes
        BY <3>1, RowMoves DEF Closes, RowStates
      <3> QED
        BY <2>0, <2>1, <3>2 DEF Prepares
    <2>2. CASE ~settled /\ again
      <3>1. rec' = [rec EXCEPT !.state = "pending", !.run = 0, !.due = TRUE]
        BY <1>2, <2>2 DEF Prepared
      <3>2. Opens
        BY <3>1, RowMoves DEF Opens, RowStates
      <3> QED
        BY <2>0, <2>2, <3>2 DEF Prepares
    <2>3. CASE ~settled /\ ~again
      <3>1. rec' = rec
        BY <1>2, <2>3 DEF Prepared
      <3> QED
        BY <2>0, <3>1 DEF Prepares
    <2> QED
      BY <2>1, <2>2, <2>3
  <1> QED
    BY <1>1, <1>2

\* Every action of the run, the worker and the Host preserves the types and the
\* control.
LEMMA ActionKeeps ==
    ASSUME TypeOK, Control, Next
    PROVE  TypeOK' /\ Control'
  <1>a. /\ fence \in BOOLEAN /\ sess \in SessionRow /\ ticket \in TicketRow /\ call \in CallRow
        /\ run \in RunState /\ rec \in RecoveryRow /\ results \subseteq Answer /\ cand \in Answer
        /\ runner \in [Attempts -> RunnerState] /\ host \in HostState /\ upsets \in 0..MaxUpsets
    BY DEF TypeOK
  <1>b. QuietWhenDown /\ HostHoldsGateway /\ PromotesTheDead /\ RowFollowsRun /\ UnstoredAnswerIsFirst
        /\ AttemptsCount /\ OneAttempt
    BY DEF Control
  <1>c. 0 \in 0..MaxAttempts /\ 0 \in 0..MaxCalls /\ 0 \in 0..MaxGen
    BY RecoveryAssumption
  <1> USE <1>a, <1>b, <1>c, RecoveryAssumption
  <1>1. ASSUME CallStart
        PROVE  TypeOK' /\ Control'
    <2>1. gw = "up" /\ run.at = "thinking"
      BY <1>1 DEF CallStart
    <2>2. run.id + 1 \in 0..MaxCalls
      BY <1>1, <2>1 DEF CallStart, RunState
    <2>3. run' \in RunState /\ run'.at = "calling" /\ run'.receipt = run.receipt /\ run'.surface = run.surface
      BY <1>1, <2>1, <2>2 DEF CallStart, RunState
    <2>4. call' \in CallRow
      BY <1>1, <2>1, <2>2, <2>3 DEF CallStart, CallRow
    <2>5. UNCHANGED <<gw, fence, sess, ticket, rec, results, cand, runner, host, upsets>>
      BY <1>1 DEF CallStart
    <2>6. QuietWhenDown'
      BY <2>1, <2>2, <2>3, <2>4, <2>5 DEF QuietWhenDown, HostHoldsGateway
    <2>7. PromotesTheDead'
      BY <2>1, <2>2, <2>3, <2>4, <2>5 DEF PromotesTheDead, QuietWhenDown, HostHoldsGateway
    <2>8. RowFollowsRun'
      BY <2>1, <2>2, <2>3, <2>4, <2>5
      DEF RowFollowsRun, PromotesTheDead, UnstoredAnswerIsFirst, HostHoldsGateway, QuietWhenDown,
          Durable
    <2>9. UnstoredAnswerIsFirst'
      BY <2>1, <2>2, <2>3, <2>4, <2>5 DEF UnstoredAnswerIsFirst, RowFollowsRun, Durable
    <2>10. OneAttempt'
      BY <2>1, <2>2, <2>3, <2>4, <2>5
      DEF OneAttempt, Idles, RowFollowsRun, AttemptsCount, UnstoredAnswerIsFirst, QuietWhenDown, Durable
    <2>11. TypeOK'
      BY <2>1, <2>2, <2>3, <2>4, <2>5 DEF TypeOK
    <2> QED
      BY <2>6, <2>7, <2>8, <2>9, <2>10, <2>11, <2>5 DEF Control, HostHoldsGateway, AttemptsCount
  <1>2. ASSUME CallEnd
        PROVE  TypeOK' /\ Control'
    <2>1. gw = "up" /\ run.at = "calling"
      BY <1>2 DEF CallEnd
    <2>2. run' \in RunState /\ run'.at = "thinking" /\ run'.receipt = run.receipt /\ run'.surface = run.surface
      BY <1>2 DEF CallEnd, RunState
    <2>3. call' \in CallRow
      BY <1>2, CallEnds DEF CallEnd
    <2>4. UNCHANGED <<gw, fence, sess, ticket, rec, results, cand, runner, host, upsets>>
      BY <1>2 DEF CallEnd
    <2>5. QuietWhenDown'
      BY <2>1, <2>2, <2>3, <2>4 DEF QuietWhenDown, HostHoldsGateway
    <2>6. PromotesTheDead'
      BY <2>1, <2>2, <2>3, <2>4 DEF PromotesTheDead, QuietWhenDown, HostHoldsGateway
    <2>7. RowFollowsRun'
      BY <2>1, <2>2, <2>3, <2>4
      DEF RowFollowsRun, PromotesTheDead, UnstoredAnswerIsFirst, HostHoldsGateway, QuietWhenDown,
          Durable
    <2>8. UnstoredAnswerIsFirst'
      BY <2>1, <2>2, <2>3, <2>4 DEF UnstoredAnswerIsFirst, RowFollowsRun, Durable
    <2>9. OneAttempt'
      BY <2>1, <2>2, <2>3, <2>4
      DEF OneAttempt, Idles, RowFollowsRun, AttemptsCount, UnstoredAnswerIsFirst, QuietWhenDown, Durable
    <2>10. TypeOK'
      BY <2>1, <2>2, <2>3, <2>4 DEF TypeOK
    <2> QED
      BY <2>5, <2>6, <2>7, <2>8, <2>9, <2>10, <2>4 DEF Control, HostHoldsGateway, AttemptsCount
  <1>3. ASSUME Stage
        PROVE  TypeOK' /\ Control'
    <2>1. gw = "up" /\ run.at = "thinking" /\ sess.gen \in 0..MaxGen
      BY <1>3 DEF Stage, SessionRow
    <2>2. results' \subseteq Answer /\ results' # {}
      <3>1. [gen |-> sess.gen, att |-> 0] \in Answer
        BY <2>1 DEF Answer
      <3> QED
        BY <1>3, <3>1 DEF Stage
    <2>3. run' \in RunState /\ run'.at = run.at /\ run'.receipt = run.receipt /\ run'.surface = run.surface
      BY <1>3 DEF Stage, RunState
    <2>4. ticket' \in TicketRow /\ ticket'.status = ticket.status /\ ticket'.ready = TRUE
      BY <1>3 DEF Stage, TicketRow
    <2>5. UNCHANGED <<gw, fence, sess, call, rec, cand, runner, host, upsets>>
      BY <1>3 DEF Stage
    <2>6. QuietWhenDown'
      BY <2>1, <2>2, <2>3, <2>4, <2>5 DEF QuietWhenDown, HostHoldsGateway
    <2>7. PromotesTheDead'
      BY <2>1, <2>2, <2>3, <2>4, <2>5 DEF PromotesTheDead, QuietWhenDown, HostHoldsGateway
    <2>8. RowFollowsRun'
      BY <2>1, <2>2, <2>3, <2>4, <2>5
      DEF RowFollowsRun, PromotesTheDead, UnstoredAnswerIsFirst, HostHoldsGateway, QuietWhenDown,
          Durable
    <2>9. UnstoredAnswerIsFirst'
      BY <2>1, <2>2, <2>3, <2>4, <2>5 DEF UnstoredAnswerIsFirst, RowFollowsRun, Durable
    <2>10. OneAttempt'
      BY <2>1, <2>2, <2>3, <2>4, <2>5
      DEF OneAttempt, Idles, RowFollowsRun, AttemptsCount, UnstoredAnswerIsFirst, QuietWhenDown, Durable
    <2>11. TypeOK'
      BY <2>1, <2>2, <2>3, <2>4, <2>5 DEF TypeOK
    <2> QED
      BY <2>6, <2>7, <2>8, <2>9, <2>10, <2>11, <2>5 DEF Control, HostHoldsGateway, AttemptsCount
  <1>4. ASSUME NativeSettle
        PROVE  TypeOK' /\ Control'
    <2>1. gw = "up"
      BY <1>4 DEF NativeSettle
    <2>2. run' \in RunState /\ run'.at = run.at /\ run'.receipt = run.receipt /\ run'.surface = run.surface
      BY <1>4 DEF NativeSettle, RunState
    <2>3. ticket' \in TicketRow /\ ticket'.status \in {ticket.status, "completed"} /\ ticket'.ready = ticket.ready
      BY <1>4 DEF NativeSettle, TicketRow, Direct
    <2>4. UNCHANGED <<gw, fence, sess, call, rec, results, cand, runner, host, upsets>>
      BY <1>4 DEF NativeSettle
    <2>5. QuietWhenDown'
      BY <2>1, <2>2, <2>3, <2>4 DEF QuietWhenDown, HostHoldsGateway
    <2>6. PromotesTheDead'
      BY <2>1, <2>2, <2>3, <2>4 DEF PromotesTheDead, QuietWhenDown, HostHoldsGateway
    <2>7. RowFollowsRun'
      BY <2>1, <2>2, <2>3, <2>4
      DEF RowFollowsRun, PromotesTheDead, UnstoredAnswerIsFirst, HostHoldsGateway, QuietWhenDown,
          Durable
    <2>8. UnstoredAnswerIsFirst'
      BY <2>1, <2>2, <2>3, <2>4 DEF UnstoredAnswerIsFirst, RowFollowsRun, Durable
    <2>9. OneAttempt'
      BY <2>1, <2>2, <2>3, <2>4
      DEF OneAttempt, Idles, RowFollowsRun, AttemptsCount, UnstoredAnswerIsFirst, QuietWhenDown, Durable
    <2>10. TypeOK'
      BY <2>1, <2>2, <2>3, <2>4 DEF TypeOK
    <2> QED
      BY <2>5, <2>6, <2>7, <2>8, <2>9, <2>10, <2>4 DEF Control, HostHoldsGateway, AttemptsCount
  <1>5. ASSUME Succeed
        PROVE  TypeOK' /\ Control'
    <2>1. gw = "up" /\ run.at = "thinking"
      BY <1>5 DEF Succeed
    <2>2. /\ run' \in RunState /\ run'.at = "succeeded" /\ run'.surface = run.surface
          /\ run'.receipt => run.surface = "channel"
      BY <1>5 DEF Succeed, RunState
    <2>3. ticket' \in TicketRow /\ ticket'.status \in {ticket.status, "completed"}
      BY <1>5 DEF Succeed, TicketRow, Direct
    <2>4. UNCHANGED <<gw, fence, sess, call, rec, results, cand, runner, host, upsets>>
      BY <1>5 DEF Succeed
    <2>5. QuietWhenDown'
      BY <2>1, <2>2, <2>3, <2>4 DEF QuietWhenDown, HostHoldsGateway
    <2>6. PromotesTheDead'
      BY <2>1, <2>2, <2>3, <2>4 DEF PromotesTheDead, QuietWhenDown, HostHoldsGateway
    <2>7. RowFollowsRun'
      BY <2>1, <2>2, <2>3, <2>4
      DEF RowFollowsRun, PromotesTheDead, UnstoredAnswerIsFirst, HostHoldsGateway, QuietWhenDown,
          Durable
    <2>8. UnstoredAnswerIsFirst'
      BY <2>1, <2>2, <2>3, <2>4 DEF UnstoredAnswerIsFirst, RowFollowsRun, Durable
    <2>9. OneAttempt'
      BY <2>1, <2>2, <2>3, <2>4
      DEF OneAttempt, Idles, RowFollowsRun, AttemptsCount, UnstoredAnswerIsFirst, QuietWhenDown, Durable
    <2>10. TypeOK'
      BY <2>1, <2>2, <2>3, <2>4 DEF TypeOK
    <2> QED
      BY <2>5, <2>6, <2>7, <2>8, <2>9, <2>10, <2>4 DEF Control, HostHoldsGateway, AttemptsCount
  <1>6. ASSUME Fail
        PROVE  TypeOK' /\ Control'
    <2>1. gw = "up" /\ run.at \in {"thinking", "calling"}
      BY <1>6 DEF Fail
    <2>2. /\ run' \in RunState /\ run'.at \in {"failing", "failed"} /\ run'.receipt = run.receipt
          /\ run'.surface = run.surface
      BY <1>6 DEF Fail, RunState
    <2>3. UNCHANGED <<gw, fence, sess, ticket, call, rec, results, cand, runner, host, upsets>>
      BY <1>6 DEF Fail
    <2>4. QuietWhenDown'
      BY <2>1, <2>2, <2>3 DEF QuietWhenDown, HostHoldsGateway
    <2>5. PromotesTheDead'
      BY <2>1, <2>2, <2>3 DEF PromotesTheDead, QuietWhenDown, HostHoldsGateway
    <2>6. RowFollowsRun'
      BY <2>1, <2>2, <2>3
      DEF RowFollowsRun, PromotesTheDead, UnstoredAnswerIsFirst, HostHoldsGateway, QuietWhenDown,
          Durable
    <2>7. UnstoredAnswerIsFirst'
      BY <2>1, <2>2, <2>3 DEF UnstoredAnswerIsFirst, RowFollowsRun, Durable
    <2>8. OneAttempt'
      BY <2>1, <2>2, <2>3
      DEF OneAttempt, Idles, RowFollowsRun, AttemptsCount, UnstoredAnswerIsFirst, QuietWhenDown, Durable
    <2>9. TypeOK'
      BY <2>1, <2>2, <2>3 DEF TypeOK
    <2> QED
      BY <2>4, <2>5, <2>6, <2>7, <2>8, <2>9, <2>3 DEF Control, HostHoldsGateway, AttemptsCount
  <1>7. ASSUME FinalizeFailure
        PROVE  TypeOK' /\ Control'
    <2>1. gw = "up" /\ run.at = "failing"
      BY <1>7 DEF FinalizeFailure
    <2>2. run' \in RunState /\ run'.at = "failed" /\ run'.receipt = run.receipt /\ run'.surface = run.surface
      BY <1>7 DEF FinalizeFailure, RunState
    <2>3. \/ /\ rec' = rec /\ ticket' \in TicketRow
             /\ ticket'.status \in {ticket.status, "failed"} /\ ticket'.ready = ticket.ready
          \/ /\ ticket.status = "accepted" /\ Opens
             /\ ticket' \in TicketRow /\ ticket'.status = "accepted" /\ ~ticket'.ready
      <3>1. CASE MarkDirectRecovery
        BY <3>1, Marks
      <3>2. CASE rec' = rec /\ ticket' \in {ticket, [ticket EXCEPT !.status = "failed"]}
        BY <3>2 DEF TicketRow
      <3> QED
        BY <1>7, <3>1, <3>2 DEF FinalizeFailure
    <2>4. UNCHANGED <<gw, fence, sess, call, results, cand, runner, host, upsets>>
      BY <1>7 DEF FinalizeFailure
    <2>5. QuietWhenDown'
      BY <2>1, <2>2, <2>3, <2>4 DEF QuietWhenDown, HostHoldsGateway, Opens
    <2>6. PromotesTheDead'
      BY <2>1, <2>2, <2>3, <2>4 DEF PromotesTheDead, QuietWhenDown, HostHoldsGateway, Opens
    <2>7. RowFollowsRun'
      BY <2>1, <2>2, <2>3, <2>4
      DEF RowFollowsRun, PromotesTheDead, UnstoredAnswerIsFirst, HostHoldsGateway, QuietWhenDown,
          Durable, Opens
    <2>8. UnstoredAnswerIsFirst'
      BY <2>1, <2>2, <2>3, <2>4 DEF UnstoredAnswerIsFirst, RowFollowsRun, Durable, Opens
    <2>9. AttemptsCount'
      BY <2>1, <2>2, <2>3, <2>4 DEF AttemptsCount, Opens
    <2>10. OneAttempt'
      BY <2>1, <2>2, <2>3, <2>4
      DEF OneAttempt, Idles, RowFollowsRun, AttemptsCount, UnstoredAnswerIsFirst, QuietWhenDown, Durable,
          Opens
    <2>11. TypeOK'
      BY <2>1, <2>2, <2>3, <2>4 DEF TypeOK, Opens
    <2> QED
      BY <2>5, <2>6, <2>7, <2>8, <2>9, <2>10, <2>11, <2>4 DEF Control, HostHoldsGateway
  <1>8. ASSUME EndRun
        PROVE  TypeOK' /\ Control'
    <2>1. gw = "up" /\ run.at \in {"succeeded", "failed"}
      BY <1>8 DEF EndRun
    <2>2. run' \in RunState /\ run'.at = "over" /\ run'.receipt = run.receipt /\ run'.surface = run.surface
      BY <1>8 DEF EndRun, RunState
    <2>3. call' \in CallRow
      BY <1>8 DEF EndRun, CallRow
    <2>4. UNCHANGED <<gw, fence, sess, ticket, rec, results, cand, runner, host, upsets>>
      BY <1>8 DEF EndRun
    <2>5. QuietWhenDown'
      BY <2>1, <2>2, <2>3, <2>4 DEF QuietWhenDown, HostHoldsGateway
    <2>6. PromotesTheDead'
      BY <2>1, <2>2, <2>3, <2>4 DEF PromotesTheDead, QuietWhenDown, HostHoldsGateway
    <2>7. RowFollowsRun'
      BY <2>1, <2>2, <2>3, <2>4
      DEF RowFollowsRun, PromotesTheDead, UnstoredAnswerIsFirst, HostHoldsGateway, QuietWhenDown,
          Durable
    <2>8. UnstoredAnswerIsFirst'
      BY <2>1, <2>2, <2>3, <2>4 DEF UnstoredAnswerIsFirst, RowFollowsRun, Durable
    <2>9. OneAttempt'
      BY <2>1, <2>2, <2>3, <2>4
      DEF OneAttempt, Idles, RowFollowsRun, AttemptsCount, UnstoredAnswerIsFirst, QuietWhenDown, Durable
    <2>10. TypeOK'
      BY <2>1, <2>2, <2>3, <2>4 DEF TypeOK
    <2> QED
      BY <2>5, <2>6, <2>7, <2>8, <2>9, <2>10, <2>4 DEF Control, HostHoldsGateway, AttemptsCount
  <1>9. ASSUME Receipt
        PROVE  TypeOK' /\ Control'
    <2>1. gw = "up" /\ run.receipt
      BY <1>9 DEF Receipt
    <2>2. run' \in RunState /\ run'.at = run.at /\ run'.receipt = FALSE /\ run'.surface = run.surface
      BY <1>9 DEF Receipt, RunState
    <2>3. \/ /\ rec' = rec /\ ticket' \in TicketRow
             /\ ticket'.status \in {ticket.status, "completed"} /\ ticket'.ready = ticket.ready
          \/ /\ ticket.status = "accepted" /\ Opens
             /\ ticket' \in TicketRow /\ ticket'.status = "accepted" /\ ~ticket'.ready
      <3>1. CASE MarkDirectRecovery
        BY <3>1, Marks
      <3>2. CASE rec' = rec /\ ticket' \in {ticket, [ticket EXCEPT !.status = "completed"]}
        BY <3>2 DEF TicketRow
      <3> QED
        BY <1>9, <3>1, <3>2 DEF Receipt
    <2>4. UNCHANGED <<gw, fence, sess, call, results, cand, runner, host, upsets>>
      BY <1>9 DEF Receipt
    <2>5. QuietWhenDown'
      BY <2>1, <2>2, <2>3, <2>4 DEF QuietWhenDown, HostHoldsGateway, Opens
    <2>6. PromotesTheDead'
      BY <2>1, <2>2, <2>3, <2>4 DEF PromotesTheDead, QuietWhenDown, HostHoldsGateway, Opens
    <2>7. RowFollowsRun'
      BY <2>1, <2>2, <2>3, <2>4
      DEF RowFollowsRun, PromotesTheDead, UnstoredAnswerIsFirst, HostHoldsGateway, QuietWhenDown,
          Durable, Opens
    <2>8. UnstoredAnswerIsFirst'
      BY <2>1, <2>2, <2>3, <2>4 DEF UnstoredAnswerIsFirst, RowFollowsRun, Durable, Opens
    <2>9. AttemptsCount'
      BY <2>1, <2>2, <2>3, <2>4 DEF AttemptsCount, Opens
    <2>10. OneAttempt'
      BY <2>1, <2>2, <2>3, <2>4
      DEF OneAttempt, Idles, RowFollowsRun, AttemptsCount, UnstoredAnswerIsFirst, QuietWhenDown, Durable,
          Opens
    <2>11. TypeOK'
      BY <2>1, <2>2, <2>3, <2>4 DEF TypeOK, Opens
    <2> QED
      BY <2>5, <2>6, <2>7, <2>8, <2>9, <2>10, <2>11, <2>4 DEF Control, HostHoldsGateway
  <1>10. ASSUME RecoverUndelivered
         PROVE  TypeOK' /\ Control'
    <2>1. gw = "up" /\ ticket.status = "accepted" /\ ticket.ready /\ results = {}
      BY <1>10 DEF RecoverUndelivered, Direct, Durable
    <2>2. \/ /\ rec' = rec /\ ticket' \in TicketRow
             /\ ticket'.status = "failed" /\ ticket'.ready = ticket.ready
          \/ Opens /\ ticket' \in TicketRow /\ ticket'.status = "accepted" /\ ~ticket'.ready
      <3>1. CASE rec' = Queued /\ ticket' = [ticket EXCEPT !.ready = FALSE]
        <4>1. Opens
          BY <3>1, QueuedOpens DEF Opens
        <4> QED
          BY <2>1, <3>1, <4>1, TicketReady
      <3>2. CASE rec' = rec /\ ticket' = [ticket EXCEPT !.status = "failed"]
        BY <3>2 DEF TicketRow
      <3> QED
        BY <1>10, <3>1, <3>2 DEF RecoverUndelivered
    <2>3. UNCHANGED <<gw, fence, sess, call, run, results, cand, runner, host, upsets>>
      BY <1>10 DEF RecoverUndelivered, plugin
    <2>4. RowFollowsRun'
      BY <2>1, <2>2, <2>3
      DEF RowFollowsRun, PromotesTheDead, UnstoredAnswerIsFirst, HostHoldsGateway, QuietWhenDown,
          Durable, Opens
    <2>5. UnstoredAnswerIsFirst'
      BY <2>1, <2>2, <2>3 DEF UnstoredAnswerIsFirst, RowFollowsRun, Durable, Opens
    <2>6. AttemptsCount'
      BY <2>1, <2>2, <2>3 DEF AttemptsCount, Opens
    <2>7. OneAttempt'
      BY <2>1, <2>2, <2>3
      DEF OneAttempt, Idles, RowFollowsRun, AttemptsCount, UnstoredAnswerIsFirst, QuietWhenDown, Durable,
          Opens
    <2>8. TypeOK'
      BY <2>1, <2>2, <2>3 DEF TypeOK, Opens
    <2> QED
      BY <2>4, <2>5, <2>6, <2>7, <2>8, <2>3
      DEF Control, QuietWhenDown, HostHoldsGateway, PromotesTheDead
  <1>11. ASSUME Revoke
         PROVE  TypeOK' /\ Control'
    <2>1. sess' \in SessionRow
      <3>1. PICK t \in {"active", "deleting"}, l \in {sess.live, TRUE} :
               sess' = [state |-> t, gen |-> sess.gen + 1, live |-> l]
        BY <1>11 DEF Revoke
      <3>2. sess.gen + 1 \in 0..MaxGen
        BY <1>11 DEF Revoke, SessionRow
      <3>3. l \in BOOLEAN
        BY DEF SessionRow
      <3> QED
        BY <3>1, <3>2, <3>3 DEF SessionRow
    <2>2. /\ ticket' \in TicketRow
          /\ \/ ticket'.status = ticket.status /\ ticket'.ready = ticket.ready
             \/ ticket'.status = "cancelled" /\ ~ticket'.ready
      BY <1>11 DEF Revoke, TicketRow
    <2>3. \/ rec' = rec
          \/ rec.state # "none" /\ Closes
      BY <1>11, RowMoves DEF Revoke, Closes, RowStates
    <2>4. UNCHANGED <<gw, fence, call, run, results, cand, runner, host, upsets>>
      BY <1>11 DEF Revoke, plugin
    <2>5. RowFollowsRun'
      BY <2>1, <2>2, <2>3, <2>4
      DEF RowFollowsRun, PromotesTheDead, UnstoredAnswerIsFirst, HostHoldsGateway, QuietWhenDown,
          Durable, Closes
    <2>6. UnstoredAnswerIsFirst'
      BY <2>1, <2>2, <2>3, <2>4 DEF UnstoredAnswerIsFirst, RowFollowsRun, Durable, Closes
    <2>7. AttemptsCount'
      BY <2>1, <2>2, <2>3, <2>4 DEF AttemptsCount, Closes
    <2>8. OneAttempt'
      BY <2>1, <2>2, <2>3, <2>4
      DEF OneAttempt, Idles, RowFollowsRun, AttemptsCount, UnstoredAnswerIsFirst, QuietWhenDown, Durable,
          Closes
    <2>9. TypeOK'
      BY <2>1, <2>2, <2>3, <2>4 DEF TypeOK, Closes
    <2> QED
      BY <2>5, <2>6, <2>7, <2>8, <2>9, <2>4
      DEF Control, QuietWhenDown, HostHoldsGateway, PromotesTheDead
  <1>12. ASSUME BackOffEnds
         PROVE  TypeOK' /\ Control'
    <2>1. rec.state = "pending" /\ Opens
      BY <1>12 DEF BackOffEnds, RecoveryRow, Opens
    <2>2. UNCHANGED <<gw, fence, sess, ticket, call, run, results, cand, runner, host, upsets>>
      BY <1>12 DEF BackOffEnds, plugin
    <2>3. RowFollowsRun'
      BY <2>1, <2>2
      DEF RowFollowsRun, PromotesTheDead, UnstoredAnswerIsFirst, HostHoldsGateway, QuietWhenDown,
          Durable, Opens
    <2>4. UnstoredAnswerIsFirst'
      BY <2>1, <2>2 DEF UnstoredAnswerIsFirst, RowFollowsRun, Durable, Opens
    <2>5. AttemptsCount'
      BY <2>1, <2>2 DEF AttemptsCount, Opens
    <2>6. OneAttempt'
      BY <2>1, <2>2
      DEF OneAttempt, Idles, RowFollowsRun, AttemptsCount, UnstoredAnswerIsFirst, QuietWhenDown, Durable,
          Opens
    <2>7. TypeOK'
      BY <2>1, <2>2 DEF TypeOK, Opens
    <2> QED
      BY <2>3, <2>4, <2>5, <2>6, <2>7, <2>2
      DEF Control, QuietWhenDown, HostHoldsGateway, PromotesTheDead
  <1>13. ASSUME ResetStale
         PROVE  TypeOK' /\ Control'
    <2>1. /\ gw = "up" /\ rec.state = "running"
          /\ \A a \in Attempts : runner[a].at = "none"
      BY <1>13 DEF ResetStale
    <2>2. Opens
      BY <1>13, RowMoves DEF ResetStale, Opens, RowStates
    <2>3. UNCHANGED <<gw, fence, sess, ticket, call, run, results, cand, runner, host, upsets>>
      BY <1>13 DEF ResetStale, plugin
    <2>4. RowFollowsRun'
      BY <2>1, <2>2, <2>3
      DEF RowFollowsRun, PromotesTheDead, UnstoredAnswerIsFirst, HostHoldsGateway, QuietWhenDown,
          Durable, Opens
    <2>5. UnstoredAnswerIsFirst'
      BY <2>1, <2>2, <2>3 DEF UnstoredAnswerIsFirst, RowFollowsRun, Durable, Opens
    <2>6. AttemptsCount'
      BY <2>1, <2>2, <2>3 DEF AttemptsCount, Opens
    <2>7. OneAttempt'
      BY <2>1, <2>2, <2>3
      DEF OneAttempt, Idles, RowFollowsRun, AttemptsCount, UnstoredAnswerIsFirst, QuietWhenDown, Durable,
          Opens
    <2>8. TypeOK'
      BY <2>1, <2>2, <2>3 DEF TypeOK, Opens
    <2> QED
      BY <2>4, <2>5, <2>6, <2>7, <2>8, <2>3
      DEF Control, QuietWhenDown, HostHoldsGateway, PromotesTheDead
  <1>14. ASSUME Due
         PROVE  TypeOK' /\ Control'
    <2>1. cand' \in Answer /\ cand'.att = rec.att + 1
      BY <1>14 DEF Due, Answer, RecoveryRow
    <2>2. UNCHANGED <<gw, fence, sess, ticket, call, run, rec, results, runner, host, upsets>>
      BY <1>14 DEF Due
    <2>3. AttemptsCount'
      BY <2>1, <2>2 DEF AttemptsCount
    <2>4. TypeOK'
      BY <2>1, <2>2 DEF TypeOK
    <2> QED
      BY <2>3, <2>4, <2>2
      DEF Control, QuietWhenDown, HostHoldsGateway, PromotesTheDead, RowFollowsRun,
          UnstoredAnswerIsFirst, OneAttempt, Idles, Durable
  <1>15. ASSUME Claim
         PROVE  TypeOK' /\ Control'
    <2>1. gw = "up" /\ cand.att = rec.att + 1 /\ cand' = NoCandidate
      BY <1>15 DEF Claim, AttemptsCount
    <2>2. cand.att \in Attempts /\ cand' \in Answer
      BY <1>15, <2>1 DEF Claim, Answer, Attempts, RecoveryRow, NoCandidate
    <2>3. \/ rec' = rec /\ runner' = runner
          \/ /\ rec.state = "pending"
             /\ rec' \in RecoveryRow /\ rec'.state = "running" /\ rec'.run = cand.att
             /\ runner' \in [Attempts -> RunnerState] /\ runner'[cand.att].at = "owner"
             /\ \A b \in Attempts \ {cand.att} : runner'[b] = runner[b]
      <3>1. cand.gen \in 0..MaxGen /\ cand.att \in 0..MaxAttempts /\ rec.att + 1 \in 0..MaxAttempts
        BY <2>1 DEF Answer
      <3>2. \/ rec' = rec /\ runner' = runner
            \/ /\ rec.state = "pending"
               /\ rec' = [rec EXCEPT !.state = "running", !.att = rec.att + 1, !.run = cand.att, !.due = FALSE]
               /\ runner' = [runner EXCEPT ![cand.att] = [at |-> "owner", gen |-> cand.gen, taken |-> FALSE]]
        BY <1>15 DEF Claim
      <3>3. CASE rec.state = "pending" /\ runner' = [runner EXCEPT ![cand.att] = [at |-> "owner", gen |-> cand.gen, taken |-> FALSE]]
                 /\ rec' = [rec EXCEPT !.state = "running", !.att = rec.att + 1, !.run = cand.att, !.due = FALSE]
        <4>1. /\ runner' \in [Attempts -> RunnerState] /\ runner'[cand.att].at = "owner"
              /\ \A b \in Attempts \ {cand.att} : runner'[b] = runner[b]
          BY <2>2, <3>1, <3>3, RunnerStarts
        <4>2. rec' \in RecoveryRow /\ rec'.state = "running" /\ rec'.run = cand.att
          BY <3>1, <3>3 DEF RecoveryRow
        <4> QED
          BY <3>3, <4>1, <4>2
      <3> QED
        BY <3>2, <3>3
    <2>4. UNCHANGED <<gw, fence, sess, ticket, call, run, results, host, upsets>>
      BY <1>15 DEF Claim
    <2>5. QuietWhenDown'
      BY <2>1, <2>2, <2>3, <2>4 DEF QuietWhenDown, HostHoldsGateway
    <2>6. RowFollowsRun'
      BY <2>1, <2>2, <2>3, <2>4
      DEF RowFollowsRun, PromotesTheDead, UnstoredAnswerIsFirst, HostHoldsGateway, QuietWhenDown,
          Durable
    <2>7. UnstoredAnswerIsFirst'
      BY <2>1, <2>2, <2>3, <2>4 DEF UnstoredAnswerIsFirst, RowFollowsRun, Durable
    <2>8. AttemptsCount'
      BY <2>1, <2>2, <2>3, <2>4 DEF AttemptsCount
    <2>9. OneAttempt'
      BY <2>1, <2>2, <2>3, <2>4
      DEF OneAttempt, Idles, RowFollowsRun, AttemptsCount, UnstoredAnswerIsFirst, QuietWhenDown, Durable
    <2>10. TypeOK'
      BY <2>1, <2>2, <2>3, <2>4 DEF TypeOK
    <2> QED
      BY <2>5, <2>6, <2>7, <2>8, <2>9, <2>10, <2>4 DEF Control, HostHoldsGateway, PromotesTheDead
  <1>16. ASSUME Deliver
         PROVE  TypeOK' /\ Control'
    <2>1. ticket.status = "accepted"
      BY <1>16 DEF Deliver, Direct
    <2>2. ticket' \in TicketRow /\ ticket'.status = "completed" /\ ticket'.ready = ticket.ready
      BY <1>16 DEF Deliver, TicketRow
    <2>3. \/ rec' = rec
          \/ rec.state # "none" /\ Closes
      BY <1>16, RowMoves DEF Deliver, Closes, RowStates
    <2>4. UNCHANGED <<gw, fence, sess, call, run, results, cand, runner, host, upsets>>
      BY <1>16 DEF Deliver, plugin
    <2>5. RowFollowsRun'
      BY <2>1, <2>2, <2>3, <2>4
      DEF RowFollowsRun, PromotesTheDead, UnstoredAnswerIsFirst, HostHoldsGateway, QuietWhenDown,
          Durable, Closes
    <2>6. UnstoredAnswerIsFirst'
      BY <2>1, <2>2, <2>3, <2>4 DEF UnstoredAnswerIsFirst, RowFollowsRun, Durable, Closes
    <2>7. AttemptsCount'
      BY <2>1, <2>2, <2>3, <2>4 DEF AttemptsCount, Closes
    <2>8. OneAttempt'
      BY <2>1, <2>2, <2>3, <2>4
      DEF OneAttempt, Idles, RowFollowsRun, AttemptsCount, UnstoredAnswerIsFirst, QuietWhenDown, Durable,
          Closes
    <2>9. TypeOK'
      BY <2>1, <2>2, <2>3, <2>4 DEF TypeOK, Closes
    <2> QED
      BY <2>5, <2>6, <2>7, <2>8, <2>9, <2>4
      DEF Control, QuietWhenDown, HostHoldsGateway, PromotesTheDead
  <1>17. ASSUME NEW a \in Attempts, Launch(a)
         PROVE  TypeOK' /\ Control'
    <2>1. gw = "up" /\ runner[a].at = "owner"
      BY <1>17 DEF Launch
    <2>2. \/ /\ rec' = rec /\ runner' \in [Attempts -> RunnerState] /\ runner'[a].at = "infer"
             /\ runner'[a].taken = runner[a].taken
             /\ \A b \in Attempts \ {a} : runner'[b] = runner[b]
          \/ Leaves(a) /\ Retries(a)
      <3>1. CASE rec' = rec /\ runner' = [runner EXCEPT ![a].at = "infer"]
        <4>1. /\ runner' \in [Attempts -> RunnerState] /\ runner'[a].at = "infer"
              /\ runner'[a].taken = runner[a].taken
              /\ \A b \in Attempts \ {a} : runner'[b] = runner[b]
          BY <1>17, <3>1, RunnerMoves
        <4> QED
          BY <3>1, <4>1
      <3>2. CASE Leave(a) /\ Retry(a)
        BY <1>17, <3>2, LeaveLeaves, RetryRetries
      <3> QED
        BY <1>17, <3>1, <3>2 DEF Launch
    <2>3. UNCHANGED <<gw, fence, sess, ticket, call, run, results, cand, host, upsets>>
      BY <1>17 DEF Launch
    <2>4. QuietWhenDown'
      BY <2>1, <2>2, <2>3 DEF QuietWhenDown, HostHoldsGateway, Leaves, Retries, Opens
    <2>5. RowFollowsRun'
      BY <2>1, <2>2, <2>3
      DEF RowFollowsRun, PromotesTheDead, UnstoredAnswerIsFirst, HostHoldsGateway, QuietWhenDown,
          Durable, Leaves, Retries, Opens
    <2>6. UnstoredAnswerIsFirst'
      BY <2>1, <2>2, <2>3 DEF UnstoredAnswerIsFirst, RowFollowsRun, Durable, Leaves, Retries, Opens
    <2>7. AttemptsCount'
      BY <2>1, <2>2, <2>3 DEF AttemptsCount, Leaves, Retries, Opens
    <2>8. OneAttempt'
      BY <2>1, <2>2, <2>3
      DEF OneAttempt, Idles, RowFollowsRun, AttemptsCount, UnstoredAnswerIsFirst, QuietWhenDown, Durable,
          Leaves, Retries, Opens
    <2>9. TypeOK'
      BY <2>1, <2>2, <2>3 DEF TypeOK, Leaves, Retries, Opens
    <2> QED
      BY <2>4, <2>5, <2>6, <2>7, <2>8, <2>9, <2>3 DEF Control, HostHoldsGateway, PromotesTheDead
  <1>18. ASSUME NEW a \in Attempts, AbortRevoked(a)
         PROVE  TypeOK' /\ Control'
    <2>1. gw = "up" /\ runner[a].at = "infer"
      BY <1>18 DEF AbortRevoked
    <2>2. /\ runner' \in [Attempts -> RunnerState] /\ runner'[a].at = "abort"
          /\ runner'[a].taken = runner[a].taken
          /\ \A b \in Attempts \ {a} : runner'[b] = runner[b]
      <3>1. runner' = [runner EXCEPT ![a].at = "abort"]
        BY <1>18 DEF AbortRevoked
      <3> QED
        BY <1>18, <3>1, RunnerMoves
    <2>3. UNCHANGED <<gw, fence, sess, ticket, call, run, rec, results, cand, host, upsets>>
      BY <1>18 DEF AbortRevoked
    <2>4. QuietWhenDown'
      BY <2>1, <2>2, <2>3 DEF QuietWhenDown, HostHoldsGateway
    <2>5. AttemptsCount'
      BY <2>1, <2>2, <2>3 DEF AttemptsCount
    <2>6. OneAttempt'
      BY <2>1, <2>2, <2>3
      DEF OneAttempt, Idles, RowFollowsRun, AttemptsCount, UnstoredAnswerIsFirst, QuietWhenDown, Durable
    <2>7. TypeOK'
      BY <2>1, <2>2, <2>3 DEF TypeOK
    <2> QED
      BY <2>4, <2>5, <2>6, <2>7, <2>3
      DEF Control, HostHoldsGateway, PromotesTheDead, RowFollowsRun, UnstoredAnswerIsFirst, Durable
  <1>19. ASSUME NEW a \in Attempts, AbortSettles(a)
         PROVE  TypeOK' /\ Control'
    <2>1. gw = "up"
      BY <1>19 DEF AbortSettles
    <2>2. Leaves(a)
      BY <1>19, LeaveLeaves DEF AbortSettles
    <2>3. UNCHANGED <<gw, fence, sess, ticket, call, run, rec, results, cand, host, upsets>>
      BY <1>19 DEF AbortSettles
    <2>4. QuietWhenDown'
      BY <2>1, <2>2, <2>3 DEF QuietWhenDown, HostHoldsGateway, Leaves
    <2>5. AttemptsCount'
      BY <2>1, <2>2, <2>3 DEF AttemptsCount, Leaves
    <2>6. OneAttempt'
      BY <2>1, <2>2, <2>3
      DEF OneAttempt, Idles, RowFollowsRun, AttemptsCount, UnstoredAnswerIsFirst, QuietWhenDown, Durable,
          Leaves
    <2>7. TypeOK'
      BY <2>1, <2>2, <2>3 DEF TypeOK, Leaves
    <2> QED
      BY <2>4, <2>5, <2>6, <2>7, <2>3
      DEF Control, HostHoldsGateway, PromotesTheDead, RowFollowsRun, UnstoredAnswerIsFirst, Durable
  <1>20. ASSUME NEW a \in Attempts, InferenceFails(a)
         PROVE  TypeOK' /\ Control'
    <2>1. gw = "up" /\ runner[a].at = "infer"
      BY <1>20 DEF InferenceFails
    <2>2. Leaves(a) /\ Retries(a)
      BY <1>20, LeaveLeaves, RetryRetries DEF InferenceFails
    <2>3. UNCHANGED <<gw, fence, sess, ticket, call, run, results, cand, host, upsets>>
      BY <1>20 DEF InferenceFails
    <2>4. QuietWhenDown'
      BY <2>1, <2>2, <2>3 DEF QuietWhenDown, HostHoldsGateway, Leaves, Retries, Opens
    <2>5. RowFollowsRun'
      BY <2>1, <2>2, <2>3
      DEF RowFollowsRun, PromotesTheDead, UnstoredAnswerIsFirst, HostHoldsGateway, QuietWhenDown,
          Durable, Leaves, Retries, Opens
    <2>6. UnstoredAnswerIsFirst'
      BY <2>1, <2>2, <2>3 DEF UnstoredAnswerIsFirst, RowFollowsRun, Durable, Leaves, Retries, Opens
    <2>7. AttemptsCount'
      BY <2>1, <2>2, <2>3 DEF AttemptsCount, Leaves, Retries, Opens
    <2>8. OneAttempt'
      BY <2>1, <2>2, <2>3
      DEF OneAttempt, Idles, RowFollowsRun, AttemptsCount, UnstoredAnswerIsFirst, QuietWhenDown, Durable,
          Leaves, Retries, Opens
    <2>9. TypeOK'
      BY <2>1, <2>2, <2>3 DEF TypeOK, Leaves, Retries, Opens
    <2> QED
      BY <2>4, <2>5, <2>6, <2>7, <2>8, <2>9, <2>3 DEF Control, HostHoldsGateway, PromotesTheDead
  <1>21. ASSUME NEW a \in Attempts, RetryFails(a)
         PROVE  TypeOK' /\ Control'
    <2>1. /\ gw = "up"
          /\ upsets' \in 0..MaxUpsets
      BY <1>21 DEF RetryFails
    <2>2. Leaves(a)
      BY <1>21, LeaveLeaves DEF RetryFails
    <2>3. UNCHANGED <<gw, fence, sess, ticket, call, run, rec, results, cand, host>>
      BY <1>21 DEF RetryFails
    <2>4. QuietWhenDown'
      BY <2>1, <2>2, <2>3 DEF QuietWhenDown, HostHoldsGateway, Leaves
    <2>5. AttemptsCount'
      BY <2>1, <2>2, <2>3 DEF AttemptsCount, Leaves
    <2>6. OneAttempt'
      BY <2>1, <2>2, <2>3
      DEF OneAttempt, Idles, RowFollowsRun, AttemptsCount, UnstoredAnswerIsFirst, QuietWhenDown, Durable,
          Leaves
    <2>7. TypeOK'
      BY <2>1, <2>2, <2>3 DEF TypeOK, Leaves
    <2> QED
      BY <2>4, <2>5, <2>6, <2>7, <2>3
      DEF Control, HostHoldsGateway, PromotesTheDead, RowFollowsRun, UnstoredAnswerIsFirst, Durable
  <1>22. ASSUME NEW a \in Attempts, MarkResponseReady(a)
         PROVE  TypeOK' /\ Control'
    <2>1. gw = "up" /\ Leaves(a)
      BY <1>22, LeaveLeaves DEF MarkResponseReady
    <2>2. \/ UNCHANGED <<ticket, rec, results>>
          \/ /\ rec.state = "running" /\ Closes
             /\ ticket.status = "accepted" /\ ticket' \in TicketRow /\ ticket'.status = "accepted"
             /\ results' \subseteq Answer /\ results' # {}
          \/ Retries(a) /\ UNCHANGED <<ticket, results>>
      <3>1. CASE UNCHANGED <<ticket, rec, results>>
        BY <3>1
      <3>2. CASE Retry(a) /\ UNCHANGED <<ticket, results>>
        BY <1>22, <3>2, RetryRetries
      <3> DEFINE committed == \E r \in results : r.gen = runner[a].gen
      <3>3. ASSUME /\ HoldsClaim(a)
                   /\ results' = IF committed THEN results
                                 ELSE results \cup {[gen |-> runner[a].gen, att |-> a]}
                   /\ ticket' = [ticket EXCEPT !.ready = TRUE]
                   /\ rec' = [rec EXCEPT !.state = "awaiting", !.run = 0, !.due = FALSE]
            PROVE  /\ rec.state = "running" /\ Closes
                   /\ ticket.status = "accepted" /\ ticket' \in TicketRow /\ ticket'.status = "accepted"
                   /\ results' \subseteq Answer /\ results' # {}
        <4>1. [gen |-> runner[a].gen, att |-> a] \in Answer
          BY <1>22 DEF Answer, RunnerState, Attempts
        <4>2. results' \subseteq Answer /\ results' # {}
          BY <3>3, <4>1
        <4>3. rec.state = "running" /\ ticket.status = "accepted"
          BY <3>3 DEF HoldsClaim, Authorized, Direct
        <4>4. Closes
          BY <3>3, RowMoves DEF Closes, RowStates
        <4>5. ticket' \in TicketRow /\ ticket'.status = ticket.status
          BY <3>3, TicketReady
        <4> QED
          BY <4>2, <4>3, <4>4, <4>5
      <3>4. \/ UNCHANGED <<ticket, rec, results>>
            \/ Retry(a) /\ UNCHANGED <<ticket, results>>
            \/ /\ HoldsClaim(a)
               /\ results' = IF committed THEN results
                             ELSE results \cup {[gen |-> runner[a].gen, att |-> a]}
               /\ ticket' = [ticket EXCEPT !.ready = TRUE]
               /\ rec' = [rec EXCEPT !.state = "awaiting", !.run = 0, !.due = FALSE]
        BY <1>22 DEF MarkResponseReady
      <3> QED
        BY <3>1, <3>2, <3>3, <3>4
    <2>3. UNCHANGED <<gw, fence, sess, call, run, cand, host, upsets>>
      BY <1>22 DEF MarkResponseReady
    <2>4. QuietWhenDown'
      BY <2>1, <2>2, <2>3 DEF QuietWhenDown, HostHoldsGateway, Leaves, Retries, Closes, Opens
    <2>5. RowFollowsRun'
      BY <2>1, <2>2, <2>3
      DEF RowFollowsRun, PromotesTheDead, UnstoredAnswerIsFirst, HostHoldsGateway, QuietWhenDown,
          Durable, Leaves, Retries, Closes, Opens
    <2>6. UnstoredAnswerIsFirst'
      BY <2>1, <2>2, <2>3
      DEF UnstoredAnswerIsFirst, RowFollowsRun, Durable, Leaves, Retries, Closes, Opens
    <2>7. AttemptsCount'
      BY <2>1, <2>2, <2>3 DEF AttemptsCount, Leaves, Retries, Closes, Opens
    <2>8. OneAttempt'
      BY <2>1, <2>2, <2>3
      DEF OneAttempt, Idles, RowFollowsRun, AttemptsCount, UnstoredAnswerIsFirst, QuietWhenDown, Durable,
          Leaves, Retries, Closes, Opens
    <2>9. TypeOK'
      BY <2>1, <2>2, <2>3 DEF TypeOK, Leaves, Retries, Closes, Opens
    <2> QED
      BY <2>4, <2>5, <2>6, <2>7, <2>8, <2>9, <2>3 DEF Control, HostHoldsGateway, PromotesTheDead
  <1>23. ASSUME DeadlinePasses
         PROVE  TypeOK' /\ Control'
    <2>1. call' \in CallRow
      BY <1>23 DEF DeadlinePasses, CallRow
    <2>2. UNCHANGED <<gw, fence, sess, ticket, run, rec, results, cand, runner, host, upsets>>
      BY <1>23 DEF DeadlinePasses, plugin
    <2>3. TypeOK'
      BY <2>1, <2>2 DEF TypeOK
    <2> QED
      BY <2>3, <2>2
      DEF Control, QuietWhenDown, HostHoldsGateway, PromotesTheDead, RowFollowsRun,
          UnstoredAnswerIsFirst, AttemptsCount, OneAttempt, Idles, Durable
  <1>24. ASSUME ClaimCall
         PROVE  TypeOK' /\ Control'
    <2>1. host.at = "idle"
      BY <1>24 DEF ClaimCall
    <2>2. call' \in CallRow
      BY <1>24, CallClaims DEF ClaimCall
    <2>3. host' \in HostState /\ host'.at = "claimed" /\ host'.job \in Supervisors /\ host'.joined = host.joined
      BY <1>24 DEF ClaimCall, HostState, CallRow
    <2>4. UNCHANGED <<gw, fence, sess, ticket, run, rec, results, cand, runner, upsets>>
      BY <1>24 DEF ClaimCall, plugin
    <2>5. HostHoldsGateway'
      BY <2>1, <2>2, <2>3, <2>4 DEF HostHoldsGateway
    <2>6. PromotesTheDead'
      BY <2>1, <2>2, <2>3, <2>4 DEF PromotesTheDead, QuietWhenDown, HostHoldsGateway
    <2>7. RowFollowsRun'
      BY <2>1, <2>2, <2>3, <2>4
      DEF RowFollowsRun, PromotesTheDead, UnstoredAnswerIsFirst, HostHoldsGateway, QuietWhenDown,
          Durable
    <2>8. UnstoredAnswerIsFirst'
      BY <2>1, <2>2, <2>3, <2>4 DEF UnstoredAnswerIsFirst, RowFollowsRun, Durable
    <2>9. OneAttempt'
      BY <2>1, <2>2, <2>3, <2>4
      DEF OneAttempt, Idles, RowFollowsRun, AttemptsCount, UnstoredAnswerIsFirst, QuietWhenDown, Durable
    <2>10. TypeOK'
      BY <2>1, <2>2, <2>3, <2>4 DEF TypeOK
    <2> QED
      BY <2>5, <2>6, <2>7, <2>8, <2>9, <2>10, <2>4 DEF Control, QuietWhenDown, AttemptsCount
  <1>25. ASSUME Quiesce
         PROVE  TypeOK' /\ Control'
    <2>1. host.at = "claimed" /\ gw' = "down"
      BY <1>25 DEF Quiesce, Killed
    <2>2. run' \in RunState /\ run'.at = "over" /\ ~run'.receipt /\ run'.surface = run.surface
      BY <1>25 DEF Quiesce, RunState, Killed, Forgotten
    <2>3. cand' \in Answer /\ cand' = NoCandidate
      BY <1>25 DEF Quiesce, NoCandidate, Answer, Killed, Forgotten
    <2>4. /\ runner' \in [Attempts -> RunnerState]
          /\ \A a \in Attempts : runner'[a].at = "none"
      BY <1>25 DEF Quiesce, NoRunner, RunnerState, Attempts, Killed, Forgotten
    <2>5. host' \in HostState /\ host'.at = "stopped" /\ host'.job = host.job /\ host'.joined = host.joined
      BY <1>25 DEF Quiesce, HostState
    <2>6. UNCHANGED <<fence, sess, ticket, call, rec, results, upsets>>
      BY <1>25 DEF Quiesce
    <2>7. QuietWhenDown'
      BY <2>1, <2>2, <2>3, <2>4, <2>5, <2>6 DEF QuietWhenDown, HostHoldsGateway
    <2>8. HostHoldsGateway'
      BY <2>1, <2>2, <2>3, <2>4, <2>5, <2>6 DEF HostHoldsGateway
    <2>9. PromotesTheDead'
      BY <2>1, <2>2, <2>3, <2>4, <2>5, <2>6 DEF PromotesTheDead, QuietWhenDown, HostHoldsGateway
    <2>10. RowFollowsRun'
      BY <2>1, <2>2, <2>3, <2>4, <2>5, <2>6
      DEF RowFollowsRun, PromotesTheDead, UnstoredAnswerIsFirst, HostHoldsGateway, QuietWhenDown,
          Durable
    <2>11. UnstoredAnswerIsFirst'
      BY <2>1, <2>2, <2>3, <2>4, <2>5, <2>6 DEF UnstoredAnswerIsFirst, RowFollowsRun, Durable
    <2>12. AttemptsCount'
      BY <2>1, <2>2, <2>3, <2>4, <2>5, <2>6 DEF AttemptsCount
    <2>13. OneAttempt'
      BY <2>1, <2>2, <2>3, <2>4, <2>5, <2>6
      DEF OneAttempt, Idles, RowFollowsRun, AttemptsCount, UnstoredAnswerIsFirst, QuietWhenDown, Durable
    <2>14. TypeOK'
      BY <2>1, <2>2, <2>3, <2>4, <2>5, <2>6 DEF TypeOK
    <2> QED
      BY <2>7, <2>8, <2>9, <2>10, <2>11, <2>12, <2>13, <2>14, <2>6 DEF Control
  <1>26. ASSUME Fence
         PROVE  TypeOK' /\ Control'
    <2>1. host.at = "stopped"
      BY <1>26 DEF Fence
    <2>2. host' \in HostState /\ host'.at = "fenced" /\ host'.job = host.job /\ host'.joined = host.joined
      BY <1>26 DEF Fence, HostState
    <2>3. \/ rec' = rec /\ ticket' = ticket
          \/ rec' = rec /\ results # {} /\ ticket' \in TicketRow /\ ticket'.status = "accepted"
          \/ /\ results = {} /\ ticket.ready /\ ticket' \in TicketRow /\ ticket'.status = "failed"
             /\ (rec.state = "none" /\ rec' = rec) \/ (rec.state # "none" /\ Closes)
      <3>1. CASE ~Held
        <4>1. ticket' = ticket
          BY <1>26, <3>1 DEF Fence
        <4>2. rec' = rec
          BY <1>26, <3>1 DEF Fence
        <4> QED
          BY <4>1, <4>2
      <3>2. CASE Held /\ Durable
        <4>1. rec' = rec /\ ticket' = [ticket EXCEPT !.status = "accepted", !.eligible = FALSE]
          BY <1>26, <3>2 DEF Fence
        <4> QED
          BY <3>2, <4>1, TicketLane DEF TicketStates, Durable
      <3>3. CASE Held /\ ~Durable
        <4>1. /\ ticket' = [ticket EXCEPT !.status = "failed", !.eligible = FALSE]
              /\ rec' = IF rec.state # "none"
                        THEN [rec EXCEPT !.state = "cancelled", !.run = 0, !.due = FALSE] ELSE rec
          BY <1>26, <3>3 DEF Fence
        <4>2. (rec.state = "none" /\ rec' = rec) \/ (rec.state # "none" /\ Closes)
          BY <4>1, RowMoves DEF Closes, RowStates
        <4> QED
          BY <3>3, <4>1, <4>2, TicketLane DEF TicketStates, Durable, Held
      <3> QED
        BY <3>1, <3>2, <3>3
    <2>4. UNCHANGED <<gw, fence, sess, call, run, results, cand, runner, upsets>>
      BY <1>26 DEF Fence, plugin
    <2>5. HostHoldsGateway'
      BY <2>1, <2>2, <2>3, <2>4 DEF HostHoldsGateway, Closes
    <2>6. PromotesTheDead'
      BY <2>1, <2>2, <2>3, <2>4 DEF PromotesTheDead, QuietWhenDown, HostHoldsGateway, Closes
    <2>7. RowFollowsRun'
      BY <2>1, <2>2, <2>3, <2>4
      DEF RowFollowsRun, PromotesTheDead, UnstoredAnswerIsFirst, HostHoldsGateway, QuietWhenDown,
          Durable, Closes
    <2>8. UnstoredAnswerIsFirst'
      BY <2>1, <2>2, <2>3, <2>4 DEF UnstoredAnswerIsFirst, RowFollowsRun, Durable, Closes
    <2>9. AttemptsCount'
      BY <2>1, <2>2, <2>3, <2>4 DEF AttemptsCount, Closes
    <2>10. OneAttempt'
      BY <2>1, <2>2, <2>3, <2>4
      DEF OneAttempt, Idles, RowFollowsRun, AttemptsCount, UnstoredAnswerIsFirst, QuietWhenDown, Durable,
          Closes
    <2>11. TypeOK'
      BY <2>1, <2>2, <2>3, <2>4 DEF TypeOK, Closes
    <2> QED
      BY <2>5, <2>6, <2>7, <2>8, <2>9, <2>10, <2>11, <2>4 DEF Control, QuietWhenDown
  <1>27. ASSUME Suppress
         PROVE  TypeOK' /\ Control'
    <2>1. host.at = "fenced"
      BY <1>27 DEF Suppress
    <2>2. host' \in HostState /\ host'.at = "suppressed" /\ host'.job = host.job /\ host'.joined = host.joined
      BY <1>27 DEF Suppress, HostState
    <2>3. \/ rec' = rec
          \/ rec.state # "none" /\ Closes
      BY <1>27, RowMoves DEF Suppress, Closes, RowStates
    <2>4. UNCHANGED <<gw, fence, sess, ticket, call, run, results, cand, runner, upsets>>
      BY <1>27 DEF Suppress, plugin
    <2>5. HostHoldsGateway'
      BY <2>1, <2>2, <2>3, <2>4 DEF HostHoldsGateway, Closes
    <2>6. PromotesTheDead'
      BY <2>1, <2>2, <2>3, <2>4 DEF PromotesTheDead, QuietWhenDown, HostHoldsGateway, Closes
    <2>7. RowFollowsRun'
      BY <2>1, <2>2, <2>3, <2>4
      DEF RowFollowsRun, PromotesTheDead, UnstoredAnswerIsFirst, HostHoldsGateway, QuietWhenDown,
          Durable, Closes
    <2>8. UnstoredAnswerIsFirst'
      BY <2>1, <2>2, <2>3, <2>4 DEF UnstoredAnswerIsFirst, RowFollowsRun, Durable, Closes
    <2>9. AttemptsCount'
      BY <2>1, <2>2, <2>3, <2>4 DEF AttemptsCount, Closes
    <2>10. OneAttempt'
      BY <2>1, <2>2, <2>3, <2>4
      DEF OneAttempt, Idles, RowFollowsRun, AttemptsCount, UnstoredAnswerIsFirst, QuietWhenDown, Durable,
          Closes
    <2>11. TypeOK'
      BY <2>1, <2>2, <2>3, <2>4 DEF TypeOK, Closes
    <2> QED
      BY <2>5, <2>6, <2>7, <2>8, <2>9, <2>10, <2>11, <2>4 DEF Control, QuietWhenDown
  <1>28. ASSUME Classify
         PROVE  TypeOK' /\ Control'
    <2>1. host.at = "suppressed" /\ host.job \in Supervisors
      BY <1>28 DEF Classify
    <2>2. host' \in HostState /\ host'.at = "classified" /\ host'.job = host.job /\ host'.joined = host.joined
      BY <1>28 DEF Classify, HostState
    <2>3. call' \in CallRow
      BY <1>28, CallLeaves DEF Classify
    <2>4. \/ rec' = rec /\ ticket' = ticket
          \/ Opens /\ ticket' \in TicketRow /\ ticket'.status = "accepted" /\ ~ticket'.ready
      <3>1. CASE NothingAnswered
        <4>1. /\ ticket' = [ticket EXCEPT !.status = "accepted", !.eligible = FALSE]
              /\ rec' = Queued /\ ~ticket.ready
          BY <1>28, <3>1 DEF Classify, NothingAnswered
        <4>2. Opens
          BY <4>1, QueuedOpens DEF Opens
        <4> QED
          BY <4>1, <4>2, TicketLane DEF TicketStates
      <3>2. CASE ~NothingAnswered
        <4>1. UNCHANGED <<ticket, rec>>
          BY <1>28, <3>2 DEF Classify
        <4> QED
          BY <4>1
      <3> QED
        BY <3>1, <3>2
    <2>5. UNCHANGED <<gw, fence, sess, run, results, cand, runner, upsets>>
      BY <1>28 DEF Classify, plugin
    <2>6. HostHoldsGateway'
      BY <2>1, <2>2, <2>3, <2>4, <2>5 DEF HostHoldsGateway, Opens
    <2>7. PromotesTheDead'
      BY <2>1, <2>2, <2>3, <2>4, <2>5 DEF PromotesTheDead, QuietWhenDown, HostHoldsGateway, Opens
    <2>8. RowFollowsRun'
      BY <2>1, <2>2, <2>3, <2>4, <2>5
      DEF RowFollowsRun, PromotesTheDead, UnstoredAnswerIsFirst, HostHoldsGateway, QuietWhenDown,
          Durable, Opens
    <2>9. UnstoredAnswerIsFirst'
      BY <2>1, <2>2, <2>3, <2>4, <2>5 DEF UnstoredAnswerIsFirst, RowFollowsRun, Durable, Opens
    <2>10. AttemptsCount'
      BY <2>1, <2>2, <2>3, <2>4, <2>5 DEF AttemptsCount, Opens
    <2>11. OneAttempt'
      <3>1. \A a \in Attempts : runner'[a].at = "none"
        BY <2>1, <2>2, <2>3, <2>4, <2>5 DEF HostHoldsGateway, QuietWhenDown
      <3> QED
        BY <2>1, <2>2, <2>3, <2>4, <2>5, <3>1 DEF OneAttempt, Idles, Opens
    <2>12. TypeOK'
      BY <2>1, <2>2, <2>3, <2>4, <2>5 DEF TypeOK, Opens
    <2> QED
      BY <2>6, <2>7, <2>8, <2>9, <2>10, <2>11, <2>12, <2>5 DEF Control, QuietWhenDown
  <1>29. ASSUME StartGateway
         PROVE  TypeOK' /\ Control'
    <2>1. host.at = "classified" /\ gw' = "starting" /\ fence'
      BY <1>29 DEF StartGateway, Started
    <2>2. host' \in HostState /\ host'.at = "idle" /\ host'.job = "none" /\ host'.joined = host.joined
      BY <1>29, HostRests DEF StartGateway
    <2>3. UNCHANGED <<sess, ticket, call, run, rec, results, cand, runner, upsets>>
      BY <1>29 DEF StartGateway, plugin
    <2>4. QuietWhenDown'
      BY <2>1, <2>2, <2>3 DEF QuietWhenDown, HostHoldsGateway
    <2>5. HostHoldsGateway'
      BY <2>1, <2>2, <2>3 DEF HostHoldsGateway
    <2>6. PromotesTheDead'
      BY <2>1, <2>2, <2>3 DEF PromotesTheDead, QuietWhenDown, HostHoldsGateway
    <2>7. RowFollowsRun'
      BY <2>1, <2>2, <2>3
      DEF RowFollowsRun, PromotesTheDead, UnstoredAnswerIsFirst, HostHoldsGateway, QuietWhenDown,
          Durable
    <2>8. UnstoredAnswerIsFirst'
      BY <2>1, <2>2, <2>3 DEF UnstoredAnswerIsFirst, RowFollowsRun, Durable
    <2>9. OneAttempt'
      BY <2>1, <2>2, <2>3
      DEF OneAttempt, Idles, RowFollowsRun, AttemptsCount, UnstoredAnswerIsFirst, QuietWhenDown, Durable
    <2>10. TypeOK'
      BY <2>1, <2>2, <2>3 DEF TypeOK
    <2> QED
      BY <2>4, <2>5, <2>6, <2>7, <2>8, <2>9, <2>10, <2>3 DEF Control, AttemptsCount
  <1>30. ASSUME StepFails
         PROVE  TypeOK' /\ Control'
    <2>1. \/ gw' = gw /\ fence' = fence
          \/ host.at # "claimed" /\ gw' = "starting" /\ fence'
      BY <1>30 DEF StepFails, Started
    <2>2. /\ host.job \in Supervisors
          /\ upsets' \in 0..MaxUpsets
      BY <1>30 DEF StepFails
    <2>3. host' \in HostState /\ host'.at = "idle" /\ host'.job = "none" /\ host'.joined = host.joined
      BY <1>30, HostRests DEF StepFails
    <2>4. call' \in CallRow
      BY <1>30, CallLeaves DEF StepFails
    <2>5. UNCHANGED <<sess, ticket, run, rec, results, cand, runner>>
      BY <1>30 DEF StepFails, plugin
    <2>6. QuietWhenDown'
      BY <2>1, <2>2, <2>3, <2>4, <2>5 DEF QuietWhenDown, HostHoldsGateway
    <2>7. HostHoldsGateway'
      BY <2>1, <2>2, <2>3, <2>4, <2>5 DEF HostHoldsGateway
    <2>8. PromotesTheDead'
      BY <2>1, <2>2, <2>3, <2>4, <2>5 DEF PromotesTheDead, QuietWhenDown, HostHoldsGateway
    <2>9. RowFollowsRun'
      BY <2>1, <2>2, <2>3, <2>4, <2>5
      DEF RowFollowsRun, PromotesTheDead, UnstoredAnswerIsFirst, HostHoldsGateway, QuietWhenDown,
          Durable
    <2>10. UnstoredAnswerIsFirst'
      BY <2>1, <2>2, <2>3, <2>4, <2>5 DEF UnstoredAnswerIsFirst, RowFollowsRun, Durable
    <2>11. OneAttempt'
      BY <2>1, <2>2, <2>3, <2>4, <2>5
      DEF OneAttempt, Idles, RowFollowsRun, AttemptsCount, UnstoredAnswerIsFirst, QuietWhenDown, Durable
    <2>12. TypeOK'
      BY <2>1, <2>2, <2>3, <2>4, <2>5 DEF TypeOK
    <2> QED
      BY <2>6, <2>7, <2>8, <2>9, <2>10, <2>11, <2>12, <2>5 DEF Control, AttemptsCount
  <1>31. ASSUME Command
         PROVE  TypeOK' /\ Control'
    <2>1. /\ host.at = "idle"
          /\ upsets' \in 0..MaxUpsets
      BY <1>31 DEF Command
    <2>2. /\ cand' \in Answer /\ runner' \in [Attempts -> RunnerState]
          /\ run' \in RunState /\ run'.surface = run.surface
          /\ host' \in HostState /\ host'.at = "stopped" /\ host'.job = "promote"
          /\ \/ /\ gw' = "starting" /\ fence' /\ host'.joined = host.joined
                /\ run'.at = "over" /\ ~run'.receipt /\ cand' = NoCandidate
                /\ \A a \in Attempts : runner'[a].at = "none"
             \/ /\ run' = run /\ cand' = cand /\ runner' = runner
                /\ \/ gw = "down" /\ gw' = "starting" /\ fence' /\ host'.joined = host.joined
                   \/ gw # "down" /\ gw' = gw /\ fence' = fence /\ host'.joined
      <3>1. CASE /\ Started /\ Forgotten
                 /\ host' = [host EXCEPT !.at = "stopped", !.job = "promote"]
        BY <3>1, HostPromotes, Forgetting DEF Started
      <3>2. ASSUME /\ UNCHANGED plugin
                   /\ IF gw = "down" THEN Started ELSE UNCHANGED <<gw, fence>>
                   /\ host' = [host EXCEPT !.at = "stopped", !.job = "promote",
                                           !.joined = host.joined \/ gw # "down"]
            PROVE  /\ cand' \in Answer /\ runner' \in [Attempts -> RunnerState]
                   /\ run' \in RunState /\ run'.surface = run.surface
                   /\ host' \in HostState /\ host'.at = "stopped" /\ host'.job = "promote"
                   /\ run' = run /\ cand' = cand /\ runner' = runner
                   /\ \/ gw = "down" /\ gw' = "starting" /\ fence' /\ host'.joined = host.joined
                      \/ gw # "down" /\ gw' = gw /\ fence' = fence /\ host'.joined
        <4> DEFINE j == host.joined \/ gw # "down"
        <4>1. j \in BOOLEAN /\ (gw # "down" => j) /\ (gw = "down" => j = host.joined)
          BY DEF HostState
        <4>2. host' = [host EXCEPT !.at = "stopped", !.job = "promote", !.joined = j]
          BY <3>2
        <4> HIDE DEF j
        <4>3. /\ host' \in HostState /\ host'.at = "stopped" /\ host'.job = "promote"
              /\ host'.joined = j
          BY <4>1, <4>2, HostJoins
        <4> QED
          BY <3>2, <4>1, <4>3 DEF Started, plugin
      <3> QED
        BY <1>31, <3>1, <3>2 DEF Command
    <2>3. UNCHANGED <<sess, ticket, call, rec, results>>
      BY <1>31 DEF Command, plugin
    <2>4. QuietWhenDown'
      BY <2>1, <2>2, <2>3 DEF QuietWhenDown, HostHoldsGateway
    <2>5. HostHoldsGateway'
      BY <2>1, <2>2, <2>3 DEF HostHoldsGateway
    <2>6. PromotesTheDead'
      BY <2>1, <2>2, <2>3 DEF PromotesTheDead, QuietWhenDown, HostHoldsGateway
    <2>7. RowFollowsRun'
      BY <2>1, <2>2, <2>3
      DEF RowFollowsRun, PromotesTheDead, UnstoredAnswerIsFirst, HostHoldsGateway, QuietWhenDown,
          Durable
    <2>8. UnstoredAnswerIsFirst'
      BY <2>1, <2>2, <2>3 DEF UnstoredAnswerIsFirst, RowFollowsRun, Durable
    <2>9. AttemptsCount'
      BY <2>1, <2>2, <2>3 DEF AttemptsCount
    <2>10. OneAttempt'
      BY <2>1, <2>2, <2>3
      DEF OneAttempt, Idles, RowFollowsRun, AttemptsCount, UnstoredAnswerIsFirst, QuietWhenDown, Durable
    <2>11. TypeOK'
      BY <2>1, <2>2, <2>3 DEF TypeOK
    <2> QED
      BY <2>4, <2>5, <2>6, <2>7, <2>8, <2>9, <2>10, <2>11, <2>3 DEF Control
  <1>32. ASSUME Promote
         PROVE  TypeOK' /\ Control'
    <2>1. host.at = "suppressed" /\ host.job = "promote"
      BY <1>32 DEF Promote
    <2>2. host' \in HostState /\ host'.at = "idle" /\ host'.job = "none" /\ host'.joined = host.joined
      BY <1>32 DEF Promote, HostState
    <2>3. \/ ticket' = ticket
          \/ /\ ~ticket.ready /\ ~(fence /\ rec.state # "none")
             /\ ticket' \in TicketRow /\ ticket'.status = "waiting" /\ ~ticket'.ready
      BY <1>32, TicketLane DEF Promote, LaneLocked, TicketStates
    <2>4. UNCHANGED <<gw, fence, sess, call, run, rec, results, cand, runner, upsets>>
      BY <1>32 DEF Promote, plugin
    <2>5. HostHoldsGateway'
      BY <2>1, <2>2, <2>3, <2>4 DEF HostHoldsGateway
    <2>6. PromotesTheDead'
      BY <2>1, <2>2, <2>3, <2>4 DEF PromotesTheDead, QuietWhenDown, HostHoldsGateway
    <2>7. RowFollowsRun'
      BY <2>1, <2>2, <2>3, <2>4
      DEF RowFollowsRun, PromotesTheDead, UnstoredAnswerIsFirst, HostHoldsGateway, QuietWhenDown,
          Durable
    <2>8. UnstoredAnswerIsFirst'
      BY <2>1, <2>2, <2>3, <2>4 DEF UnstoredAnswerIsFirst, RowFollowsRun, Durable
    <2>9. OneAttempt'
      BY <2>1, <2>2, <2>3, <2>4
      DEF OneAttempt, Idles, RowFollowsRun, AttemptsCount, UnstoredAnswerIsFirst, QuietWhenDown, Durable
    <2>10. TypeOK'
      BY <2>1, <2>2, <2>3, <2>4 DEF TypeOK
    <2> QED
      BY <2>5, <2>6, <2>7, <2>8, <2>9, <2>10, <2>4 DEF Control, QuietWhenDown, AttemptsCount
  <1>33. ASSUME Bind
         PROVE  TypeOK' /\ Control'
    <2>1. ticket.status = "waiting"
      BY <1>33 DEF Bind
    <2>2. ticket' \in TicketRow /\ ticket'.status = "workflow" /\ ticket'.ready = ticket.ready
      BY <1>33 DEF Bind, TicketRow
    <2>3. UNCHANGED <<gw, fence, sess, call, run, rec, results, cand, runner, host, upsets>>
      BY <1>33 DEF Bind, plugin
    <2>4. RowFollowsRun'
      BY <2>1, <2>2, <2>3
      DEF RowFollowsRun, PromotesTheDead, UnstoredAnswerIsFirst, HostHoldsGateway, QuietWhenDown,
          Durable
    <2>5. UnstoredAnswerIsFirst'
      BY <2>1, <2>2, <2>3 DEF UnstoredAnswerIsFirst, RowFollowsRun, Durable
    <2>6. TypeOK'
      BY <2>1, <2>2, <2>3 DEF TypeOK
    <2> QED
      BY <2>4, <2>5, <2>6, <2>3
      DEF Control, QuietWhenDown, HostHoldsGateway, PromotesTheDead, AttemptsCount, OneAttempt, Idles
  <1>34. ASSUME StartUp
         PROVE  TypeOK' /\ Control'
    <2>1. gw = "starting" /\ gw' = "up"
      BY <1>34 DEF StartUp
    <2>2. Prepares
      BY <1>34, PreparedPrepares DEF StartUp
    <2>3. UNCHANGED <<fence, sess, call, run, results, cand, runner, host, upsets>>
      BY <1>34 DEF StartUp, plugin
    <2>4. QuietWhenDown'
      BY <2>1, <2>2, <2>3 DEF QuietWhenDown, HostHoldsGateway, Prepares, Opens, Closes
    <2>5. HostHoldsGateway'
      BY <2>1, <2>2, <2>3 DEF HostHoldsGateway, Prepares, Opens, Closes
    <2>6. RowFollowsRun'
      BY <2>1, <2>2, <2>3
      DEF RowFollowsRun, PromotesTheDead, UnstoredAnswerIsFirst, HostHoldsGateway, QuietWhenDown,
          Durable, Prepares, Opens, Closes
    <2>7. UnstoredAnswerIsFirst'
      BY <2>1, <2>2, <2>3 DEF UnstoredAnswerIsFirst, RowFollowsRun, Durable, Prepares, Opens, Closes
    <2>8. AttemptsCount'
      BY <2>1, <2>2, <2>3 DEF AttemptsCount, Prepares, Opens, Closes
    <2>9. OneAttempt'
      BY <2>1, <2>2, <2>3
      DEF OneAttempt, Idles, RowFollowsRun, AttemptsCount, UnstoredAnswerIsFirst, QuietWhenDown, Durable,
          Prepares, Opens, Closes
    <2>10. TypeOK'
      BY <2>1, <2>2, <2>3 DEF TypeOK, Prepares, Opens, Closes
    <2> QED
      BY <2>4, <2>5, <2>6, <2>7, <2>8, <2>9, <2>10, <2>3 DEF Control, PromotesTheDead
  <1>35. ASSUME Reconcile
         PROVE  TypeOK' /\ Control'
    <2>1. /\ gw = "up"
          /\ ticket.status = "waiting" \/ ticket.status \in {"completed", "failed", "cancelled"}
      BY <1>35 DEF Reconcile
    <2>2. Prepares
      BY <1>35, PreparedPrepares DEF Reconcile
    <2>3. UNCHANGED <<gw, fence, sess, call, run, results, cand, runner, host, upsets>>
      BY <1>35 DEF Reconcile, plugin
    <2>4. RowFollowsRun'
      BY <2>1, <2>2, <2>3
      DEF RowFollowsRun, PromotesTheDead, UnstoredAnswerIsFirst, HostHoldsGateway, QuietWhenDown,
          Durable, Prepares, Opens, Closes
    <2>5. UnstoredAnswerIsFirst'
      BY <2>1, <2>2, <2>3 DEF UnstoredAnswerIsFirst, RowFollowsRun, Durable, Prepares, Opens, Closes
    <2>6. AttemptsCount'
      BY <2>1, <2>2, <2>3 DEF AttemptsCount, Prepares, Opens, Closes
    <2>7. OneAttempt'
      BY <2>1, <2>2, <2>3
      DEF OneAttempt, Idles, RowFollowsRun, AttemptsCount, UnstoredAnswerIsFirst, QuietWhenDown, Durable,
          Prepares, Opens, Closes
    <2>8. TypeOK'
      BY <2>1, <2>2, <2>3 DEF TypeOK, Prepares, Opens, Closes
    <2> QED
      BY <2>4, <2>5, <2>6, <2>7, <2>8, <2>3
      DEF Control, QuietWhenDown, HostHoldsGateway, PromotesTheDead
  <1>36. ASSUME HardHang
         PROVE  TypeOK' /\ Control'
    <2>1. host.at = "idle" /\ gw = "down" /\ gw' = "starting" /\ fence'
      BY <1>36 DEF HardHang, Started
    <2>2. UNCHANGED <<sess, ticket, call, run, rec, results, cand, runner, host, upsets>>
      BY <1>36 DEF HardHang, plugin
    <2>3. QuietWhenDown'
      BY <2>1, <2>2 DEF QuietWhenDown, HostHoldsGateway
    <2>4. HostHoldsGateway'
      BY <2>1, <2>2 DEF HostHoldsGateway
    <2>5. PromotesTheDead'
      BY <2>1, <2>2 DEF PromotesTheDead, QuietWhenDown, HostHoldsGateway
    <2>6. TypeOK'
      BY <2>1, <2>2 DEF TypeOK
    <2> QED
      BY <2>3, <2>4, <2>5, <2>6, <2>2
      DEF Control, RowFollowsRun, UnstoredAnswerIsFirst, AttemptsCount, OneAttempt, Idles, Durable
  <1>37. ASSUME HostDies
         PROVE  TypeOK' /\ Control'
    <2>1. upsets' \in 0..MaxUpsets
      BY <1>37 DEF HostDies
    <2>2. host' \in HostState /\ host'.at = "idle" /\ host'.job = "none" /\ host'.joined = host.joined
      BY <1>37, HostRests DEF HostDies
    <2>3. UNCHANGED <<gw, fence, sess, ticket, call, run, rec, results, cand, runner>>
      BY <1>37 DEF HostDies, plugin
    <2>4. HostHoldsGateway'
      BY <2>1, <2>2, <2>3 DEF HostHoldsGateway
    <2>5. PromotesTheDead'
      BY <2>1, <2>2, <2>3 DEF PromotesTheDead, QuietWhenDown, HostHoldsGateway
    <2>6. RowFollowsRun'
      BY <2>1, <2>2, <2>3
      DEF RowFollowsRun, PromotesTheDead, UnstoredAnswerIsFirst, HostHoldsGateway, QuietWhenDown,
          Durable
    <2>7. UnstoredAnswerIsFirst'
      BY <2>1, <2>2, <2>3 DEF UnstoredAnswerIsFirst, RowFollowsRun, Durable
    <2>8. OneAttempt'
      BY <2>1, <2>2, <2>3
      DEF OneAttempt, Idles, RowFollowsRun, AttemptsCount, UnstoredAnswerIsFirst, QuietWhenDown, Durable
    <2>9. TypeOK'
      BY <2>1, <2>2, <2>3 DEF TypeOK
    <2> QED
      BY <2>4, <2>5, <2>6, <2>7, <2>8, <2>9, <2>3 DEF Control, QuietWhenDown, AttemptsCount
  <1>38. ASSUME GatewayDies
         PROVE  TypeOK' /\ Control'
    <2>1. /\ gw' = "down"
          /\ upsets' \in 0..MaxUpsets
      BY <1>38 DEF GatewayDies, Killed
    <2>2. run' \in RunState /\ run'.at = "over" /\ ~run'.receipt /\ run'.surface = run.surface
      BY <1>38 DEF GatewayDies, RunState, Killed, Forgotten
    <2>3. cand' \in Answer /\ cand' = NoCandidate
      BY <1>38 DEF GatewayDies, NoCandidate, Answer, Killed, Forgotten
    <2>4. /\ runner' \in [Attempts -> RunnerState]
          /\ \A a \in Attempts : runner'[a].at = "none"
      BY <1>38 DEF GatewayDies, NoRunner, RunnerState, Attempts, Killed, Forgotten
    <2>5. UNCHANGED <<fence, sess, ticket, call, rec, results, host>>
      BY <1>38 DEF GatewayDies
    <2>6. QuietWhenDown'
      BY <2>1, <2>2, <2>3, <2>4, <2>5 DEF QuietWhenDown, HostHoldsGateway
    <2>7. HostHoldsGateway'
      BY <2>1, <2>2, <2>3, <2>4, <2>5 DEF HostHoldsGateway
    <2>8. PromotesTheDead'
      BY <2>1, <2>2, <2>3, <2>4, <2>5 DEF PromotesTheDead, QuietWhenDown, HostHoldsGateway
    <2>9. RowFollowsRun'
      BY <2>1, <2>2, <2>3, <2>4, <2>5
      DEF RowFollowsRun, PromotesTheDead, UnstoredAnswerIsFirst, HostHoldsGateway, QuietWhenDown,
          Durable
    <2>10. UnstoredAnswerIsFirst'
      BY <2>1, <2>2, <2>3, <2>4, <2>5 DEF UnstoredAnswerIsFirst, RowFollowsRun, Durable
    <2>11. AttemptsCount'
      BY <2>1, <2>2, <2>3, <2>4, <2>5 DEF AttemptsCount
    <2>12. OneAttempt'
      BY <2>1, <2>2, <2>3, <2>4, <2>5
      DEF OneAttempt, Idles, RowFollowsRun, AttemptsCount, UnstoredAnswerIsFirst, QuietWhenDown, Durable
    <2>13. TypeOK'
      BY <2>1, <2>2, <2>3, <2>4, <2>5 DEF TypeOK
    <2> QED
      BY <2>6, <2>7, <2>8, <2>9, <2>10, <2>11, <2>12, <2>13, <2>5 DEF Control
  <1>39. ASSUME SessionIdles
         PROVE  TypeOK' /\ Control'
    <2>1. sess' \in SessionRow
      BY <1>39 DEF SessionIdles, SessionRow
    <2>2. /\ upsets' \in 0..MaxUpsets
          /\ UNCHANGED <<gw, fence, ticket, call, run, rec, results, cand, runner, host>>
      BY <1>39 DEF SessionIdles, plugin
    <2>3. TypeOK'
      BY <2>1, <2>2 DEF TypeOK
    <2> QED
      BY <2>3, <2>2
      DEF Control, QuietWhenDown, HostHoldsGateway, PromotesTheDead, RowFollowsRun,
          UnstoredAnswerIsFirst, AttemptsCount, OneAttempt, Idles, Durable
  <1>40. ASSUME NEW a \in Attempts, WatchFails(a)
         PROVE  TypeOK' /\ Control'
    <2>1. gw = "up" /\ runner[a].at = "infer" /\ upsets' \in 0..MaxUpsets
      BY <1>40 DEF WatchFails
    <2>2. /\ runner' \in [Attempts -> RunnerState] /\ runner'[a].at = "loose" /\ runner'[a].taken
          /\ \A b \in Attempts \ {a} : runner'[b] = runner[b]
      BY <1>40, RunnerLoosens DEF WatchFails
    <2>3. Retries(a)
      <3>1. CASE Retry(a)
        BY <1>40, <3>1, RetryRetries
      <3>2. CASE rec' = rec
        BY <3>2 DEF Retries
      <3> QED
        BY <1>40, <3>1, <3>2 DEF WatchFails
    <2>4. UNCHANGED <<gw, fence, sess, ticket, call, run, results, cand, host>>
      BY <1>40 DEF WatchFails
    <2>5. QuietWhenDown'
      BY <2>1, <2>2, <2>3, <2>4 DEF QuietWhenDown
    <2>6. RowFollowsRun'
      BY <2>1, <2>2, <2>3, <2>4 DEF RowFollowsRun, Retries, Opens
    <2>7. UnstoredAnswerIsFirst'
      BY <2>1, <2>2, <2>3, <2>4 DEF UnstoredAnswerIsFirst, Durable, Retries, Opens
    <2>8. AttemptsCount'
      BY <2>1, <2>2, <2>3, <2>4 DEF AttemptsCount, Retries, Opens
    <2>9. OneAttempt'
      BY <2>1, <2>2, <2>3, <2>4 DEF OneAttempt, Idles, Retries, Opens
    <2>10. TypeOK'
      BY <2>1, <2>2, <2>3, <2>4 DEF TypeOK, Retries, Opens
    <2> QED
      BY <2>5, <2>6, <2>7, <2>8, <2>9, <2>10, <2>4 DEF Control, HostHoldsGateway, PromotesTheDead
  <1>41. ASSUME ReconcileElsewhere
         PROVE  TypeOK' /\ Control'
    <2>1. gw = "up" /\ upsets' \in 0..MaxUpsets
      BY <1>41 DEF ReconcileElsewhere
    <2>2. Prepares
      BY <1>41, PreparedPrepares DEF ReconcileElsewhere
    <2>3. /\ runner' \in [Attempts -> RunnerState]
          /\ \A a \in Attempts : runner'[a].at = runner[a].at /\ (runner[a].at # "none" => runner'[a].taken)
      BY <1>41, RunnersTaken DEF ReconcileElsewhere
    <2>4. UNCHANGED <<gw, fence, sess, call, run, results, cand, host>>
      BY <1>41 DEF ReconcileElsewhere
    <2>5. RowFollowsRun'
      BY <2>1, <2>2, <2>3, <2>4
      DEF RowFollowsRun, PromotesTheDead, UnstoredAnswerIsFirst, HostHoldsGateway, QuietWhenDown,
          Durable, Prepares, Opens, Closes
    <2>6. UnstoredAnswerIsFirst'
      BY <2>1, <2>2, <2>3, <2>4 DEF UnstoredAnswerIsFirst, RowFollowsRun, Durable, Prepares, Opens, Closes
    <2>7. AttemptsCount'
      BY <2>1, <2>2, <2>3, <2>4 DEF AttemptsCount, Prepares, Opens, Closes
    <2>8. OneAttempt'
      <3>1. \A a \in Attempts : Idles(a)'
        BY <2>3 DEF Idles
      <3> QED
        BY <3>1 DEF OneAttempt
    <2>9. TypeOK'
      BY <2>1, <2>2, <2>3, <2>4 DEF TypeOK, Prepares, Opens, Closes
    <2> QED
      BY <2>1, <2>3, <2>4, <2>5, <2>6, <2>7, <2>8, <2>9
      DEF Control, QuietWhenDown, HostHoldsGateway, PromotesTheDead
  <1> QED
    BY <1>1, <1>2, <1>3, <1>4, <1>5, <1>6, <1>7, <1>8, <1>9, <1>10, <1>11, <1>12, <1>13, <1>14,
       <1>15, <1>16, <1>17, <1>18, <1>19, <1>20, <1>21, <1>22, <1>23, <1>24, <1>25, <1>26, <1>27,
       <1>28, <1>29, <1>30, <1>31, <1>32, <1>33, <1>34, <1>35, <1>36, <1>37, <1>38,
       <1>39, <1>40, <1>41 DEF Next, Run, Worker, Host

\* One step preserves the invariant.
LEMMA RecoveryStep ==
    ASSUME RecoveryInv, [Next]_vars
    PROVE  RecoveryInv'
  <1>0. TypeOK /\ Control
    BY DEF RecoveryInv, Control
  <1>1. ASSUME Next PROVE RecoveryInv'
    <2>1. TypeOK' /\ Control'
      BY <1>0, <1>1, ActionKeeps
    <2>2. (RecoveryRunsAlone /\ OneInference /\ OneAuthority)'
      BY <2>1, ControlSuffices, PTL
    <2> QED
      BY <2>1, <2>2 DEF RecoveryInv, Control
  <1>2. ASSUME UNCHANGED vars PROVE RecoveryInv'
    <2>1. TypeOK'
      BY <1>0, <1>2 DEF vars, TypeOK
    <2>2. (QuietWhenDown /\ HostHoldsGateway /\ PromotesTheDead /\ RowFollowsRun)'
      BY <1>0, <1>2 DEF vars, Control, QuietWhenDown, HostHoldsGateway, PromotesTheDead, RowFollowsRun
    <2>3. (UnstoredAnswerIsFirst /\ AttemptsCount /\ OneAttempt)'
      BY <1>0, <1>2 DEF vars, Control, UnstoredAnswerIsFirst, Durable, AttemptsCount, OneAttempt, Idles
    <2>4. (RecoveryRunsAlone /\ OneInference /\ OneAuthority)'
      BY <1>2 DEF vars, RecoveryInv, RecoveryRunsAlone, OneInference, OneAuthority
    <2> QED
      BY <2>1, <2>2, <2>3, <2>4 DEF RecoveryInv
  <1> QED
    BY <1>1, <1>2

-----------------------------------------------------------------------------
(* The steps the action properties are about. *)

\* An inference is authorised by a classification only, from a Gateway that the
\* Host holds down and a Ticket without an answer.
LEMMA AuthorizationIsSilent ==
    ASSUME RecoveryInv, [Next]_vars, call.state # "interrupted", call'.state = "interrupted"
    PROVE  /\ results = {} /\ ~ticket.ready
           /\ run.at = "over" /\ \A a \in Attempts : runner[a].at = "none"

  <1>0. call \in CallRow
    BY DEF RecoveryInv, TypeOK
  <1>1. ~CallStart
    BY <1>0 DEF CallStart, CallRow
  <1>2. ~CallEnd
    BY <1>0 DEF CallEnd, CallRow
  <1>3. ~EndRun
    BY <1>0 DEF EndRun, CallRow
  <1>4. ~DeadlinePasses
    BY <1>0 DEF DeadlinePasses, CallRow
  <1>5. ~ClaimCall
    BY <1>0 DEF ClaimCall, CallRow
  <1>6. ~StepFails
    BY <1>0 DEF StepFails, CallRow
  <1>7. CASE Classify
    <2>1. NothingAnswered
      BY <1>0, <1>7 DEF Classify, CallRow
    <2>2. gw = "down"
      BY <1>7 DEF Classify, RecoveryInv, HostHoldsGateway
    <2> QED
      BY <2>1, <2>2 DEF NothingAnswered, Durable, RecoveryInv, QuietWhenDown
  <1>8. CASE UNCHANGED call
    BY <1>8
  <1>9. CallStart \/ CallEnd \/ EndRun \/ DeadlinePasses \/ ClaimCall \/ Classify \/ StepFails \/
        UNCHANGED call
    BY DEF Next, Run, Worker, Host, vars, Stage, NativeSettle, Succeed, Fail, FinalizeFailure,
           Receipt, RecoverUndelivered, Revoke, SessionIdles, BackOffEnds, ResetStale, Due, Claim, Deliver,
           Launch, AbortRevoked, WatchFails, AbortSettles, InferenceFails, RetryFails, MarkResponseReady,
           Quiesce, Fence, Suppress, StartGateway, Command, Promote, Bind, StartUp, Reconcile,
           ReconcileElsewhere, HardHang, HostDies, GatewayDies, plugin
  <1> QED
    BY <1>1, <1>2, <1>3, <1>4, <1>5, <1>6, <1>7, <1>8, <1>9

\* No step touches the status or the answers of a settled Ticket.
LEMMA SettledStays ==
    ASSUME [Next]_vars, ticket.status \in {"completed", "failed", "cancelled"}
    PROVE  ticket'.status = ticket.status /\ results' = results
  <1>0. ~Direct /\ ~Held /\ ~Reopens
    BY DEF Direct, Held, Reopens
  <1>1. CASE Stage
    BY <1>0, <1>1 DEF Stage
  <1>2. CASE NativeSettle
    BY <1>0, <1>2 DEF NativeSettle
  <1>3. CASE Succeed
    BY <1>0, <1>3 DEF Succeed
  <1>4. CASE FinalizeFailure
    BY <1>0, <1>4 DEF FinalizeFailure, MarkDirectRecovery
  <1>5. CASE Receipt
    BY <1>0, <1>5 DEF Receipt, MarkDirectRecovery
  <1>6. CASE RecoverUndelivered
    BY <1>0, <1>6 DEF RecoverUndelivered
  <1>7. CASE Revoke
    BY <1>0, <1>7 DEF Revoke
  <1>8. CASE Deliver
    BY <1>0, <1>8 DEF Deliver
  <1>9. ASSUME NEW a \in Attempts, MarkResponseReady(a) PROVE UNCHANGED <<ticket, results>>
    BY <1>0, <1>9 DEF MarkResponseReady, HoldsClaim, Authorized
  <1>10. CASE Fence
    BY <1>0, <1>10 DEF Fence
  <1>11. CASE Classify
    BY <1>0, <1>11 DEF Classify, NothingAnswered
  <1>12. CASE Promote
    BY <1>0, <1>12 DEF Promote
  <1>13. CASE Bind
    BY <1>0, <1>13 DEF Bind
  <1>14. CASE StartUp
    BY <1>0, <1>14 DEF StartUp, Prepared
  <1>15. CASE Reconcile
    BY <1>0, <1>15 DEF Reconcile, Prepared
  <1>16. CASE UNCHANGED <<ticket, results>>
    BY <1>16
  <1>17. CASE ReconcileElsewhere
    BY <1>0, <1>17 DEF ReconcileElsewhere, Prepared
  <1>18. Stage \/ NativeSettle \/ Succeed \/ FinalizeFailure \/ Receipt \/ RecoverUndelivered \/
         Revoke \/ Deliver \/ (\E a \in Attempts : MarkResponseReady(a)) \/ Fence \/ Classify \/
         Promote \/ Bind \/ StartUp \/ Reconcile \/ ReconcileElsewhere \/ UNCHANGED <<ticket, results>>
    BY DEF Next, Run, Worker, Host, vars, CallStart, CallEnd, Fail, EndRun, SessionIdles, BackOffEnds, ResetStale,
           Due, Claim, Launch, AbortRevoked, WatchFails, AbortSettles, InferenceFails, RetryFails,
           DeadlinePasses, ClaimCall, Quiesce, Suppress, StartGateway, StepFails, Command, HardHang,
           HostDies, GatewayDies
  <1> QED
    BY <1>1, <1>2, <1>3, <1>4, <1>5, <1>6, <1>7, <1>8, <1>9, <1>10, <1>11, <1>12, <1>13, <1>14,
       <1>15, <1>16, <1>17, <1>18

-----------------------------------------------------------------------------

\* Whatever crashes, is revoked or comes late between two transactions of the
\* plugin and the Host, the types and the control of a recovery hold.
THEOREM RecoveryIsSafe == Spec => []RecoveryInv
  <1>1. RecoveryInv /\ [Next]_vars => RecoveryInv'
    BY RecoveryStep
  <1> QED
    BY InitEstablishes, <1>1, PTL DEF Spec

\* A recovery never thinks beside the run it replaces.
THEOREM RecoveriesRunAlone == Spec => []RecoveryRunsAlone
  <1>1. RecoveryInv => RecoveryRunsAlone
    BY DEF RecoveryInv
  <1> QED
    BY RecoveryIsSafe, <1>1, PTL

\* One inference at a time recovers a Dashboard request.
THEOREM InferencesAreSingle == Spec => []OneInference
  <1>1. RecoveryInv => OneInference
    BY DEF RecoveryInv
  <1> QED
    BY RecoveryIsSafe, <1>1, PTL

\* While a recovery row is open the generic dispatcher never has the Ticket.
THEOREM AuthorityIsSingle == Spec => []OneAuthority
  <1>1. RecoveryInv => OneAuthority
    BY DEF RecoveryInv
  <1> QED
    BY RecoveryIsSafe, <1>1, PTL

\* The Host authorises an inference only when no answer is durable or on its way
\* and nothing is alive to produce one.
THEOREM AuthorizationsAreSilent == Spec => AuthorizedInSilence
  <1>1. RecoveryInv /\ [Next]_vars =>
            [call.state # "interrupted" /\ call'.state = "interrupted" =>
                /\ results = {} /\ ~ticket.ready
                /\ run.at = "over" /\ \A a \in Attempts : runner[a].at = "none"]_vars
    BY AuthorizationIsSilent
  <1> QED
    BY RecoveryIsSafe, <1>1, PTL DEF Spec, AuthorizedInSilence

\* A settled Ticket keeps its status and its answers.
THEOREM SettlementsAreFinal == Spec => SettledIsFinal
  <1>1. [Next]_vars =>
            [ticket.status \in {"completed", "failed", "cancelled"} =>
                ticket'.status = ticket.status /\ results' = results]_vars
    BY SettledStays
  <1> QED
    BY <1>1, PTL DEF Spec, SettledIsFinal
=============================================================================
