------------------------ MODULE WorkflowEngineProofs ------------------------
(***************************************************************************)
(* Proofs about the workflow engine, for any manifest and any number of    *)
(* controllers, children and crashes.                                      *)
(***************************************************************************)
EXTENDS WorkflowEngine, TLAPS

\* The initial state satisfies the invariant.
LEMMA InitEstablishes == Init => EngineInv
  BY WorkflowEngineAssumption
  DEF Init, EngineInv, TypeOK, Outcomes, StepStatus, StepRow, Process, Dead, Launchers, Places,
      OneController, ExecutionIsOwned, DependenciesFirst, WorkingIsRecorded, OneStepRuns,
      EndIsClean, Working, Executing, At, Interrupted, Ended

\* Updated rows and processes are rows and processes.
LEMMA StepUpdate ==
    ASSUME NEW r \in StepRow, NEW st \in StepStatus, NEW k \in Children \cup {None}
    PROVE  /\ [r EXCEPT !.status = st] \in StepRow
           /\ [r EXCEPT !.runner = k] \in StepRow
           /\ [r EXCEPT !.status = st, !.runner = k] \in StepRow
  BY DEF StepRow

LEMMA ProcessUpdate ==
    ASSUME NEW p \in Process, NEW place \in Places, NEW k \in Children \cup {None}
    PROVE  /\ [p EXCEPT !.at = place] \in Process
           /\ [p EXCEPT !.at = place, !.child = k] \in Process
  BY DEF Process

\* A controller that only moves on is still a controller.
LEMMA GotoType ==
    ASSUME TypeOK, NEW c \in Controllers, NEW place \in Places, Goto(c, place)
    PROVE  proc' \in [Controllers -> Process]
  <1>1. proc[c] \in Process
    BY DEF TypeOK
  <1>2. [proc[c] EXCEPT !.at = place] \in Process
    BY <1>1, ProcessUpdate
  <1> QED
    BY <1>2 DEF TypeOK, Goto

\* So is one that dies or starts a step.
LEMMA ProcessType ==
    ASSUME TypeOK, NEW c \in Controllers, NEW p \in Process, proc' = [proc EXCEPT ![c] = p]
    PROVE  proc' \in [Controllers -> Process]
  BY DEF TypeOK

\* A step keeps its type when its row is replaced by another.
LEMMA StepType ==
    ASSUME TypeOK, NEW s \in Steps, NEW r \in StepRow, step' = [step EXCEPT ![s] = r]
    PROVE  step' \in [Steps -> StepRow]
  BY DEF TypeOK

\* Processes without a step.
LEMMA BareProcess ==
    ASSUME NEW place \in Places
    PROVE  [at |-> place, step |-> None, child |-> None] \in Process
  BY DEF Process

\* A controller that raises is dead or about to release, the others are as they
\* were, and so is everything else.
LEMMA RaiseEffect ==
    ASSUME TypeOK, NEW c \in Controllers, Raise(c)
    PROVE  /\ proc' \in [Controllers -> Process]
           /\ proc'[c].at = "dead" \/ (proc'[c].at = "releasing" /\ Working(c))
           /\ \A d \in Controllers \ {c} : proc'[d] = proc[d]
           /\ UNCHANGED <<status, controller, step, notice, good, child, launching, canceller, crashes>>
  <1>1. CASE proc' = [proc EXCEPT ![c] = Dead]
    <2>1. Dead \in Process
      BY BareProcess DEF Dead, Places
    <2>2. proc'[c] = Dead /\ \A d \in Controllers \ {c} : proc'[d] = proc[d]
      BY <1>1 DEF TypeOK
    <2> QED
      BY <1>1, <2>1, <2>2, ProcessType DEF Raise, Dead
  <1>2. CASE Goto(c, "releasing") /\ ~At(c, "releasing")
    <2>1. proc' \in [Controllers -> Process]
      BY <1>2, GotoType DEF Places
    <2>2. proc'[c].at = "releasing" /\ \A d \in Controllers \ {c} : proc'[d] = proc[d]
      BY <1>2, <2>1 DEF Goto, TypeOK, Process
    <2>3. Working(c)
      BY <1>2 DEF Raise, Working, Finished, At
    <2> QED
      BY <2>1, <2>2, <2>3 DEF Raise
  <1> QED
    BY <1>1, <1>2 DEF Raise

\* Types are preserved by every step.
LEMMA TypeStep ==
    ASSUME EngineInv, [Next]_vars
    PROVE  TypeOK'
  <1> TypeOK
    BY DEF EngineInv
  <1> USE WorkflowEngineAssumption
  <1>0. /\ \A x \in {"dead", "launched", "ticking", "choosing", "waiting", "announcing",
                      "releasing", "leaving"} : x \in Places
        /\ Dead \in Process
    BY BareProcess DEF Places, Dead
  <1>1. ASSUME NEW x \in Launchers, Decide(x)
        PROVE  TypeOK'
    BY <1>1 DEF Decide, TypeOK
  <1>2. ASSUME NEW x \in Launchers, NEW c \in Controllers, Launch(x, c)
        PROVE  TypeOK'
    <2>1. proc' \in [Controllers -> Process]
      BY <1>0, <1>2, GotoType DEF Launch
    <2> QED
      BY <1>2, <2>1 DEF Launch, TypeOK
  <1>3. ASSUME NEW c \in Controllers, Claim(c)
        PROVE  TypeOK'
    <2>1. proc' \in [Controllers -> Process]
      BY <1>0, <1>3, GotoType DEF Claim
    <2> QED
      BY <1>3, <2>1 DEF Claim, TypeOK
  <1>4. ASSUME NEW c \in Controllers, ObserveBusy(c)
        PROVE  TypeOK'
    <2>1. proc' \in [Controllers -> Process]
      BY <1>0, <1>4, GotoType DEF ObserveBusy
    <2> QED
      BY <1>4, <2>1 DEF ObserveBusy, TypeOK
  <1>5. ASSUME NEW c \in Controllers, Reconcile(c)
        PROVE  TypeOK'
    <2>1. proc' \in [Controllers -> Process]
      BY <1>0, <1>5, GotoType DEF Reconcile
    <2>2. ASSUME NEW s \in Steps
          PROVE  [step[s] EXCEPT !.status = Reconciled(s)] \in StepRow
      <3>1. step[s] \in StepRow /\ Reconciled(s) \in StepStatus
        BY DEF TypeOK, Reconciled, StepStatus
      <3> QED
        BY <3>1, StepUpdate
    <2>3. step' \in [Steps -> StepRow]
      BY <1>5, <2>2 DEF Reconcile, TypeOK
    <2>4. status' \in {"ready", "running"} \cup Outcomes
      BY <1>5 DEF Reconcile, TypeOK, Outcomes
    <2> QED
      BY <1>5, <2>1, <2>3, <2>4 DEF Reconcile, TypeOK
  <1>6. ASSUME NEW c \in Controllers, FindEnded(c)
        PROVE  TypeOK'
    <2>1. proc' \in [Controllers -> Process]
      BY <1>0, <1>6, GotoType DEF FindEnded
    <2> QED
      BY <1>6, <2>1 DEF FindEnded, TypeOK
  <1>7. ASSUME NEW c \in Controllers, Conclude(c)
        PROVE  TypeOK'
    <2>1. proc' \in [Controllers -> Process]
      BY <1>0, <1>7, GotoType DEF Conclude
    <2>2. status' \in Outcomes
      BY <1>7 DEF Conclude, Outcomes
    <2> QED
      BY <1>7, <2>1, <2>2 DEF Conclude, TypeOK
  <1>8. ASSUME NEW c \in Controllers, StartStep(c)
        PROVE  TypeOK'
    <2>1. PICK s \in Steps :
            /\ step' = [step EXCEPT ![s] = [status |-> "running", attempts |-> OneMore(s), runner |-> None]]
            /\ proc' = [proc EXCEPT ![c] = [at |-> "started", step |-> s, child |-> None]]
      BY <1>8 DEF StartStep, Runnable
    <2>2. OneMore(s) \in Nat
      BY DEF OneMore, TypeOK, StepRow
    <2>3. [status |-> "running", attempts |-> OneMore(s), runner |-> None] \in StepRow
      BY <2>2 DEF StepRow, StepStatus
    <2>4. step' \in [Steps -> StepRow]
      BY <2>1, <2>3, StepType
    <2>5. [at |-> "started", step |-> s, child |-> None] \in Process
      BY DEF Process, Places
    <2>6. proc' \in [Controllers -> Process]
      BY <2>1, <2>5, ProcessType
    <2> QED
      BY <1>8, <2>4, <2>6 DEF StartStep, TypeOK
  <1>9. ASSUME NEW c \in Controllers, NEW k \in Children, Spawn(c, k)
        PROVE  TypeOK'
    <2>1. [proc[c] EXCEPT !.at = "spawned", !.child = k] \in Process
      BY ProcessUpdate DEF TypeOK, Places
    <2>2. proc' = [proc EXCEPT ![c] = [proc[c] EXCEPT !.at = "spawned", !.child = k]]
      BY <1>9 DEF Spawn, TypeOK
    <2>3. proc' \in [Controllers -> Process]
      BY <2>1, <2>2, ProcessType
    <2>4. child' \in [Children -> Steps \cup {None}]
      BY <1>9 DEF Spawn, TypeOK
    <2> QED
      BY <1>9, <2>3, <2>4 DEF Spawn, TypeOK
  <1>10. ASSUME NEW c \in Controllers, RecordRunner(c)
         PROVE  TypeOK'
    <2> DEFINE s == proc[c].step
    <2>1. proc' \in [Controllers -> Process]
      BY <1>0, <1>10, GotoType DEF RecordRunner
    <2>2. s \in Steps /\ proc[c].child \in Children \cup {None}
      BY <1>10 DEF EngineInv, OneStepRuns, Executing, RecordRunner, At, TypeOK, Process
    <2>3. [step[s] EXCEPT !.runner = proc[c].child] \in StepRow
      BY <2>2, StepUpdate DEF TypeOK, StepStatus
    <2>4. step' = step \/ step' = [step EXCEPT ![s] = [step[s] EXCEPT !.runner = proc[c].child]]
      BY <1>10 DEF RecordRunner
    <2>5. step' \in [Steps -> StepRow]
      BY <2>2, <2>3, <2>4, StepType DEF TypeOK
    <2> QED
      BY <1>10, <2>1, <2>5 DEF RecordRunner, TypeOK
  <1>11. ASSUME NEW c \in Controllers, RunInline(c)
         PROVE  TypeOK'
    <2>1. proc' \in [Controllers -> Process]
      BY <1>0, <1>11, GotoType DEF RunInline
    <2>2. proc[c].step \in Steps
      BY <1>11 DEF EngineInv, OneStepRuns, Executing, RunInline, At
    <2>3. good' \subseteq Steps
      BY <1>11, <2>2 DEF RunInline, TypeOK
    <2> QED
      BY <1>11, <2>1, <2>3 DEF RunInline, TypeOK
  <1>12. ASSUME NEW c \in Controllers, StepCompletes(c)
         PROVE  TypeOK'
    <2> DEFINE s == proc[c].step
               p == [at |-> IF Ended THEN "announcing" ELSE "ticking", step |-> None, child |-> None]
    <2>1. proc' = [proc EXCEPT ![c] = p] /\ p \in Process
      BY <1>0, <1>12, BareProcess DEF StepCompletes
    <2>2. proc' \in [Controllers -> Process]
      BY <2>1, ProcessType
    <2>3. s \in Steps
      BY <1>12 DEF EngineInv, OneStepRuns, Executing, StepCompletes, Finished, At
    <2>4. [step[s] EXCEPT !.status = "completed", !.runner = None] \in StepRow
      BY <2>3, StepUpdate DEF TypeOK, StepStatus
    <2>5. step' = [step EXCEPT ![s] = [step[s] EXCEPT !.status = "completed", !.runner = None]]
      BY <1>12, <2>3 DEF StepCompletes, TypeOK
    <2>6. step' \in [Steps -> StepRow]
      BY <2>3, <2>4, <2>5, StepType
    <2> QED
      BY <1>12, <2>2, <2>6 DEF StepCompletes, TypeOK
  <1>13. ASSUME NEW c \in Controllers, StepFails(c)
         PROVE  TypeOK'
    <2> DEFINE s == proc[c].step
    <2>1. PICK again \in BOOLEAN :
            /\ step' = [step EXCEPT ![s].status = IF again THEN "pending" ELSE "blocked",
                                    ![s].runner = None]
            /\ status' = IF again THEN status ELSE "blocked"
            /\ proc' = [proc EXCEPT ![c] = [at |-> IF status' \in Outcomes THEN "announcing" ELSE "ticking",
                                            step |-> None, child |-> None]]
      BY <1>13 DEF StepFails
    <2>2. proc' \in [Controllers -> Process]
      BY <1>0, <2>1, BareProcess, ProcessType
    <2>3. s \in Steps
      BY <1>13 DEF EngineInv, OneStepRuns, Executing, StepFails, Finished, At
    <2> DEFINE result == IF again THEN "pending" ELSE "blocked"
    <2>4. [step[s] EXCEPT !.status = result, !.runner = None] \in StepRow
      BY <2>3, StepUpdate DEF TypeOK, StepStatus
    <2>5. step' = [step EXCEPT ![s] = [step[s] EXCEPT !.status = result, !.runner = None]]
      BY <2>1, <2>3 DEF TypeOK
    <2>6. step' \in [Steps -> StepRow]
      BY <2>3, <2>4, <2>5, StepType
    <2>7. status' \in {"ready", "running"} \cup Outcomes
      BY <2>1 DEF TypeOK, Outcomes
    <2> QED
      BY <1>13, <2>2, <2>6, <2>7 DEF StepFails, TypeOK
  <1>14. ASSUME NEW c \in Controllers, Announce(c)
         PROVE  TypeOK'
    <2>1. proc' \in [Controllers -> Process]
      BY <1>0, <1>14, GotoType DEF Announce
    <2> QED
      BY <1>14, <2>1 DEF Announce, QueueCompletion, Ended, TypeOK
  <1>15. ASSUME NEW c \in Controllers, Release(c)
         PROVE  TypeOK'
    <2>1. proc' \in [Controllers -> Process]
      BY <1>0, <1>15, BareProcess, ProcessType DEF Release
    <2> QED
      BY <1>15, <2>1 DEF Release, TypeOK
  <1>16. ASSUME NEW c \in Controllers, Crash(c)
         PROVE  TypeOK'
    <2>1. proc' \in [Controllers -> Process]
      BY <1>0, <1>16, ProcessType DEF Crash
    <2> QED
      BY <1>16, <2>1 DEF Crash, TypeOK
  <1>17. ASSUME NEW k \in Children, ChildExits(k)
         PROVE  TypeOK'
    <2>1. good' \subseteq Steps /\ child' \in [Children -> Steps \cup {None}]
      BY <1>17 DEF ChildExits, TypeOK
    <2> QED
      BY <1>17, <2>1 DEF ChildExits, TypeOK
  <1>18. CASE Cancel
    <2>1. proc' \in [Controllers -> Process]
      BY <1>0, <1>18 DEF Cancel, TypeOK
    <2>2. child' \in [Children -> Steps \cup {None}]
      BY <1>18 DEF Cancel, TypeOK
    <2>3. ASSUME NEW s \in Steps
          PROVE  [step[s] EXCEPT !.status = "cancelled", !.runner = None] \in StepRow
      BY StepUpdate DEF TypeOK, StepStatus
    <2>4. step' \in [Steps -> StepRow]
      BY <1>18, <2>3 DEF Cancel, TypeOK
    <2>5. status' \in Outcomes /\ controller' = None /\ canceller' = "announcing"
      BY <1>18 DEF Cancel, Outcomes
    <2>6. UNCHANGED <<notice, good, launching, crashes>>
      BY <1>18 DEF Cancel
    <2> QED
      BY <2>1, <2>2, <2>4, <2>5, <2>6 DEF TypeOK
  <1>19. CASE AnnounceCancel
    BY <1>19 DEF AnnounceCancel, QueueCompletion, Ended, TypeOK
  <1>20. CASE CancelCrashes
    BY <1>20 DEF CancelCrashes, TypeOK
  <1>22. ASSUME NEW c \in Controllers, Raise(c)
         PROVE  TypeOK'
    BY <1>22, RaiseEffect DEF TypeOK
  <1>21. CASE UNCHANGED vars
    BY <1>21 DEF vars, TypeOK
  <1> QED
    BY <1>1, <1>2, <1>3, <1>4, <1>5, <1>6, <1>7, <1>8, <1>9, <1>10, <1>11, <1>12, <1>13,
       <1>14, <1>15, <1>16, <1>17, <1>18, <1>19, <1>20, <1>21, <1>22 DEF Next, ControllerStep

\* What an action does to the controllers: one of them moves, and Cancel ends
\* the recorded one.
LEMMA ExclusionStep ==
    ASSUME EngineInv, [Next]_vars
    PROVE  WorkingIsRecorded'
  <1> TypeOK /\ WorkingIsRecorded
    BY DEF EngineInv
  <1> USE DEF TypeOK, WorkingIsRecorded, Working, At, Goto, Dead
  <1>1. ASSUME NEW x \in Launchers, Decide(x)
        PROVE  WorkingIsRecorded'
    BY <1>1 DEF Decide
  <1>2. ASSUME NEW x \in Launchers, NEW c \in Controllers, Launch(x, c)
        PROVE  WorkingIsRecorded'
    BY <1>2 DEF Launch
  <1>3. ASSUME NEW c \in Controllers, Claim(c)
        PROVE  WorkingIsRecorded'
    <2>1. \A d \in Controllers : d # c => proc'[d].at = proc[d].at
      BY <1>3 DEF Claim
    <2>2. CASE Alive(controller)
      <3>1. proc'[c].at = "dead" /\ controller' = controller
        BY <1>3, <2>2 DEF Claim, Process
      <3> QED
        BY <2>1, <3>1
    <2>3. CASE ~Alive(controller)
      <3>1. \A d \in Controllers : ~Working(d)
        BY <2>3, WorkflowEngineAssumption DEF Alive
      <3>2. controller' = c
        BY <1>3, <2>3 DEF Claim
      <3> QED
        BY <2>1, <3>1, <3>2
    <2> QED
      BY <2>2, <2>3
  <1>4. ASSUME NEW c \in Controllers, ObserveBusy(c)
        PROVE  WorkingIsRecorded'
    BY <1>4 DEF ObserveBusy
  <1>5. ASSUME NEW c \in Controllers, Reconcile(c)
        PROVE  WorkingIsRecorded'
    BY <1>5 DEF Reconcile
  <1>6. ASSUME NEW c \in Controllers, FindEnded(c)
        PROVE  WorkingIsRecorded'
    BY <1>6 DEF FindEnded
  <1>7. ASSUME NEW c \in Controllers, Conclude(c)
        PROVE  WorkingIsRecorded'
    BY <1>7 DEF Conclude
  <1>8. ASSUME NEW c \in Controllers, StartStep(c)
        PROVE  WorkingIsRecorded'
    BY <1>8 DEF StartStep
  <1>9. ASSUME NEW c \in Controllers, NEW k \in Children, Spawn(c, k)
        PROVE  WorkingIsRecorded'
    BY <1>9 DEF Spawn
  <1>10. ASSUME NEW c \in Controllers, RecordRunner(c)
        PROVE  WorkingIsRecorded'
    BY <1>10 DEF RecordRunner
  <1>11. ASSUME NEW c \in Controllers, RunInline(c)
        PROVE  WorkingIsRecorded'
    BY <1>11 DEF RunInline
  <1>12. ASSUME NEW c \in Controllers, StepCompletes(c)
        PROVE  WorkingIsRecorded'
    <2>1. Working(c)
      BY <1>12 DEF StepCompletes, Finished
    <2>2. \A d \in Controllers : d # c => proc'[d].at = proc[d].at
      BY <1>12 DEF StepCompletes
    <2>3. controller' = controller
      BY <1>12 DEF StepCompletes
    <2> QED
      BY <2>1, <2>2, <2>3
  <1>13. ASSUME NEW c \in Controllers, StepFails(c)
        PROVE  WorkingIsRecorded'
    <2>1. Working(c)
      BY <1>13 DEF StepFails, Finished
    <2>2. \A d \in Controllers : d # c => proc'[d].at = proc[d].at
      BY <1>13 DEF StepFails
    <2>3. controller' = controller
      BY <1>13 DEF StepFails
    <2> QED
      BY <2>1, <2>2, <2>3
  <1>14. ASSUME NEW c \in Controllers, Announce(c)
        PROVE  WorkingIsRecorded'
    <2>1. \A d \in Controllers : d # c => proc'[d].at = proc[d].at
      BY <1>14 DEF Announce
    <2>2. Working(c)' => Working(c)
      BY <1>14 DEF Announce, Process
    <2>3. controller' = controller
      BY <1>14 DEF Announce
    <2> QED
      BY <2>1, <2>2, <2>3
  <1>15. ASSUME NEW c \in Controllers, Release(c)
        PROVE  WorkingIsRecorded'
    BY <1>15 DEF Release
  <1>16. ASSUME NEW c \in Controllers, Crash(c)
        PROVE  WorkingIsRecorded'
    BY <1>16 DEF Crash
  <1>17. ASSUME NEW k \in Children, ChildExits(k)
        PROVE  WorkingIsRecorded'
    BY <1>17 DEF ChildExits
  <1>18. CASE Cancel
    BY <1>18 DEF Cancel
  <1>19. CASE AnnounceCancel
    BY <1>19 DEF AnnounceCancel
  <1>20. CASE CancelCrashes
    BY <1>20 DEF CancelCrashes
  <1>22. ASSUME NEW c \in Controllers, Raise(c)
         PROVE  WorkingIsRecorded'
    BY <1>22, RaiseEffect
  <1>21. CASE UNCHANGED vars
    BY <1>21 DEF vars
  <1> QED
    BY <1>1, <1>2, <1>3, <1>4, <1>5, <1>6, <1>7, <1>8, <1>9, <1>10, <1>11, <1>12, <1>13,
       <1>14, <1>15, <1>16, <1>17, <1>18, <1>19, <1>20, <1>21, <1>22 DEF Next, ControllerStep

\* Nobody executes or chooses beside a working controller.
LEMMA OthersRest ==
    ASSUME EngineInv, NEW c \in Controllers, Working(c), NEW d \in Controllers \ {c}
    PROVE  ~Working(d) /\ ~Executing(d) /\ ~At(d, "choosing")
  BY DEF EngineInv, OneController, Working, Executing, At

\* A controller that moves on takes its step and its child along.
LEMMA GotoEffect ==
    ASSUME TypeOK, NEW c \in Controllers, NEW place, Goto(c, place)
    PROVE  /\ proc'[c].at = place
           /\ proc'[c].step = proc[c].step
           /\ proc'[c].child = proc[c].child
           /\ \A d \in Controllers \ {c} : proc'[d] = proc[d]
  <1>1. proc[c] \in Process
    BY DEF TypeOK
  <1>2. proc' = [proc EXCEPT ![c] = [proc[c] EXCEPT !.at = place]]
    BY DEF Goto
  <1>3. proc'[c] = [proc[c] EXCEPT !.at = place]
    BY <1>2 DEF TypeOK
  <1>4. \A d \in Controllers \ {c} : proc'[d] = proc[d]
    BY <1>2 DEF TypeOK
  <1> QED
    BY <1>1, <1>3, <1>4 DEF Process

\* Steps stay owned while nobody enters or moves within the execution of one.
LEMMA QuietStep ==
    ASSUME EngineInv, step' = step,
           \A d \in Controllers :
              proc'[d] = proc[d] \/ proc'[d].at \notin {"started", "spawned", "waiting", "choosing"}
    PROVE  ExecutionIsOwned' /\ OneStepRuns'
  BY DEF EngineInv, ExecutionIsOwned, OneStepRuns, Executing, At, Interrupted

\* Steps stay owned when only the working controller c and the steps change,
\* if they do for c.
LEMMA ExecutionMoves ==
    ASSUME EngineInv, NEW c \in Controllers, Working(c),
           \A d \in Controllers \ {c} : proc'[d] = proc[d],
           proc'[c].at \in {"started", "spawned", "waiting"} =>
              /\ proc'[c].step \in Steps
              /\ \A s \in Steps : step'[s].status = "running" <=> s = proc'[c].step,
           proc'[c].at = "started" => proc'[c].child = None,
           proc'[c].at \in {"started", "spawned"} => step'[proc'[c].step].runner = None,
           proc'[c].at = "waiting" => step'[proc'[c].step].runner = proc'[c].child,
           proc'[c].at = "choosing" => \A s \in Steps : step'[s].status # "running"
    PROVE  ExecutionIsOwned' /\ OneStepRuns'
  <1>1. \A d \in Controllers \ {c} : ~Executing(d)' /\ ~At(d, "choosing")'
    BY OthersRest DEF Executing, At
  <1>2. ExecutionIsOwned'
    BY <1>1 DEF ExecutionIsOwned, Executing, At
  <1>3. OneStepRuns'
    BY <1>1 DEF OneStepRuns, Executing, At, Interrupted
  <1> QED
    BY <1>2, <1>3

\* What a controller executes stays its own, and alone, in every step.
LEMMA ExecutionStep ==
    ASSUME EngineInv, [Next]_vars
    PROVE  ExecutionIsOwned' /\ OneStepRuns'
  <1> TypeOK /\ ExecutionIsOwned /\ OneStepRuns
    BY DEF EngineInv
  <1>1. ASSUME NEW x \in Launchers, Decide(x)
        PROVE  ExecutionIsOwned' /\ OneStepRuns'
    <2>1. step' = step
      BY <1>1 DEF Decide
    <2>2. \A d \in Controllers : proc'[d] = proc[d] \/ proc'[d].at \notin {"started", "spawned", "waiting", "choosing"}
      BY <1>1 DEF Decide, TypeOK, At, Goto
    <2> QED
      BY <2>1, <2>2, QuietStep
  <1>2. ASSUME NEW x \in Launchers, NEW c \in Controllers, Launch(x, c)
        PROVE  ExecutionIsOwned' /\ OneStepRuns'
    <2>1. step' = step
      BY <1>2 DEF Launch
    <2>2. \A d \in Controllers : proc'[d] = proc[d] \/ proc'[d].at \notin {"started", "spawned", "waiting", "choosing"}
      BY <1>2 DEF Launch, TypeOK, At, Goto
    <2> QED
      BY <2>1, <2>2, QuietStep
  <1>3. ASSUME NEW c \in Controllers, Claim(c)
        PROVE  ExecutionIsOwned' /\ OneStepRuns'
    <2>1. step' = step
      BY <1>3 DEF Claim
    <2>2. \A d \in Controllers : proc'[d] = proc[d] \/ proc'[d].at \notin {"started", "spawned", "waiting", "choosing"}
      <3>1. PICK place \in {"dead", "ticking"} : proc' = [proc EXCEPT ![c].at = place]
        BY <1>3 DEF Claim, Goto
      <3>2. proc[c] \in Process
        BY DEF TypeOK
      <3>3. proc'[c].at = place
        BY <3>1, <3>2 DEF TypeOK, Process
      <3>4. \A d \in Controllers : d # c => proc'[d] = proc[d]
        BY <3>1 DEF TypeOK
      <3> QED
        BY <3>3, <3>4
    <2> QED
      BY <2>1, <2>2, QuietStep
  <1>4. ASSUME NEW c \in Controllers, ObserveBusy(c)
        PROVE  ExecutionIsOwned' /\ OneStepRuns'
    <2>1. step' = step
      BY <1>4 DEF ObserveBusy
    <2>2. \A d \in Controllers : proc'[d] = proc[d] \/ proc'[d].at \notin {"started", "spawned", "waiting", "choosing"}
      BY <1>4 DEF ObserveBusy, TypeOK, At, Goto
    <2> QED
      BY <2>1, <2>2, QuietStep
  <1>5. ASSUME NEW c \in Controllers, Reconcile(c)
        PROVE  ExecutionIsOwned' /\ OneStepRuns'
    <2>1. Working(c) /\ (\A d \in Controllers \ {c} : proc'[d] = proc[d])
      BY <1>5 DEF Reconcile, Working, TypeOK, At, Goto
    <2>2. proc'[c].at = "choosing"
      BY <1>5 DEF Reconcile, TypeOK, At, Goto
    <2>3. ASSUME NEW s \in Steps
          PROVE  step'[s].status # "running"
      <3>1. step[s] \in StepRow /\ Reconciled(s) # "running"
        BY DEF TypeOK, Reconciled
      <3>2. step'[s] = IF s \in Interrupted THEN [step[s] EXCEPT !.status = Reconciled(s)] ELSE step[s]
        BY <1>5 DEF Reconcile, TypeOK, At, Goto
      <3> QED
        BY <3>1, <3>2 DEF StepRow, Interrupted
    <2> QED
      BY <2>1, <2>2, <2>3, ExecutionMoves
  <1>6. ASSUME NEW c \in Controllers, FindEnded(c)
        PROVE  ExecutionIsOwned' /\ OneStepRuns'
    <2>1. step' = step
      BY <1>6 DEF FindEnded
    <2>2. \A d \in Controllers : proc'[d] = proc[d] \/ proc'[d].at \notin {"started", "spawned", "waiting", "choosing"}
      BY <1>6 DEF FindEnded, TypeOK, At, Goto
    <2> QED
      BY <2>1, <2>2, QuietStep
  <1>7. ASSUME NEW c \in Controllers, Conclude(c)
        PROVE  ExecutionIsOwned' /\ OneStepRuns'
    <2>1. step' = step
      BY <1>7 DEF Conclude
    <2>2. \A d \in Controllers : proc'[d] = proc[d] \/ proc'[d].at \notin {"started", "spawned", "waiting", "choosing"}
      BY <1>7 DEF Conclude, TypeOK, At, Goto
    <2> QED
      BY <2>1, <2>2, QuietStep
  <1>8. ASSUME NEW c \in Controllers, StartStep(c)
        PROVE  ExecutionIsOwned' /\ OneStepRuns'
    <2>1. Working(c) /\ (\A d \in Controllers \ {c} : proc'[d] = proc[d])
      BY <1>8 DEF StartStep, Working, TypeOK, At, Goto
    <2>2. PICK s \in Steps :
            /\ step[s].status = "pending"
            /\ step' = [step EXCEPT ![s] = [status |-> "running", attempts |-> OneMore(s), runner |-> None]]
            /\ proc' = [proc EXCEPT ![c] = [at |-> "started", step |-> s, child |-> None]]
      BY <1>8 DEF StartStep, Runnable, TypeOK, At, Goto
    <2>3. proc'[c].at = "started" /\ proc'[c].step = s /\ proc'[c].child = None
      BY <2>2 DEF TypeOK
    <2>4. \A u \in Steps : step[u].status # "running"
      BY <1>8 DEF StartStep, At, OneStepRuns, Interrupted, TypeOK, At, Goto
    <2>5. \A u \in Steps : step'[u].status = "running" <=> u = s
      BY <2>2, <2>4 DEF TypeOK
    <2>6. step'[s].runner = None
      BY <2>2 DEF TypeOK
    <2> QED
      BY <2>1, <2>3, <2>5, <2>6, ExecutionMoves
  <1>9. ASSUME NEW c \in Controllers, NEW k \in Children, Spawn(c, k)
        PROVE  ExecutionIsOwned' /\ OneStepRuns'
    <2>1. Working(c) /\ (\A d \in Controllers \ {c} : proc'[d] = proc[d])
      BY <1>9 DEF Spawn, Working, TypeOK, At, Goto
    <2>2. step' = step
      BY <1>9 DEF Spawn
    <2>3. proc[c].at = "started" /\ proc'[c].at = "spawned" /\ proc'[c].step = proc[c].step
      BY <1>9 DEF Spawn, TypeOK, At, Goto
    <2>4. /\ proc[c].step \in Steps
          /\ \A s \in Steps : step[s].status = "running" <=> s = proc[c].step
          /\ step[proc[c].step].runner = None
      BY <2>3 DEF OneStepRuns, Executing, At, Interrupted
    <2> QED
      BY <2>1, <2>2, <2>3, <2>4, ExecutionMoves
  <1>10. ASSUME NEW c \in Controllers, RecordRunner(c)
        PROVE  ExecutionIsOwned' /\ OneStepRuns'
    <2>1. Working(c) /\ (\A d \in Controllers \ {c} : proc'[d] = proc[d])
      BY <1>10 DEF RecordRunner, Working, TypeOK, At, Goto
    <2>2. proc[c].at = "spawned" /\ proc'[c].step = proc[c].step /\ proc'[c].child = proc[c].child
      BY <1>10, GotoEffect DEF RecordRunner, At
    <2>3. /\ proc[c].step \in Steps
          /\ \A s \in Steps : step[s].status = "running" <=> s = proc[c].step
      BY <2>2 DEF OneStepRuns, Executing, At, Interrupted
    <2>4. Goto(c, "waiting") /\ step' = [step EXCEPT ![proc[c].step].runner = proc[c].child]
      BY <1>10, <2>3 DEF RecordRunner
    <2>7. proc'[c].at = "waiting"
      BY <2>4, GotoEffect
    <2>5. step[proc[c].step] \in StepRow
      BY <2>3 DEF TypeOK
    <2>6. /\ \A s \in Steps : step'[s].status = step[s].status
          /\ step'[proc[c].step].runner = proc[c].child
      BY <2>3, <2>4, <2>5 DEF TypeOK, StepRow
    <2> QED
      BY <2>1, <2>2, <2>3, <2>6, <2>7, ExecutionMoves
  <1>11. ASSUME NEW c \in Controllers, RunInline(c)
        PROVE  ExecutionIsOwned' /\ OneStepRuns'
    <2>1. Working(c) /\ (\A d \in Controllers \ {c} : proc'[d] = proc[d])
      BY <1>11 DEF RunInline, Working, TypeOK, At, Goto
    <2>2. step' = step
      BY <1>11 DEF RunInline
    <2>3. /\ proc[c].at = "started" /\ proc'[c].at = "waiting"
          /\ proc'[c].step = proc[c].step /\ proc'[c].child = proc[c].child
      BY <1>11 DEF RunInline, TypeOK, At, Goto
    <2>4. /\ proc[c].step \in Steps
          /\ \A s \in Steps : step[s].status = "running" <=> s = proc[c].step
          /\ step[proc[c].step].runner = None /\ proc[c].child = None
      BY <2>3 DEF OneStepRuns, Executing, At, Interrupted
    <2> QED
      BY <2>1, <2>2, <2>3, <2>4, ExecutionMoves
  <1>12. ASSUME NEW c \in Controllers, StepCompletes(c)
        PROVE  ExecutionIsOwned' /\ OneStepRuns'
    <2>1. Working(c) /\ (\A d \in Controllers \ {c} : proc'[d] = proc[d])
      BY <1>12 DEF StepCompletes, Working, Finished, TypeOK, At, Goto
    <2>2. proc'[c].at \notin {"started", "spawned", "waiting", "choosing"}
      BY <1>12 DEF StepCompletes, TypeOK, At, Goto
    <2> QED
      BY <2>1, <2>2, ExecutionMoves
  <1>13. ASSUME NEW c \in Controllers, StepFails(c)
        PROVE  ExecutionIsOwned' /\ OneStepRuns'
    <2>1. Working(c) /\ (\A d \in Controllers \ {c} : proc'[d] = proc[d])
      BY <1>13 DEF StepFails, Working, Finished, TypeOK, At, Goto
    <2>2. PICK place \in {"announcing", "ticking"} :
            proc' = [proc EXCEPT ![c] = [at |-> place, step |-> None, child |-> None]]
      <3>1. proc' = [proc EXCEPT ![c] = [at |-> IF status' \in Outcomes THEN "announcing" ELSE "ticking",
                                         step |-> None, child |-> None]]
        BY <1>13 DEF StepFails
      <3>2. CASE status' \in Outcomes
        BY <3>1, <3>2
      <3>3. CASE status' \notin Outcomes
        BY <3>1, <3>3
      <3> QED
        BY <3>2, <3>3
    <2>3. proc'[c].at = place
      BY <2>2 DEF TypeOK
    <2> QED
      BY <2>1, <2>3, ExecutionMoves
  <1>14. ASSUME NEW c \in Controllers, Announce(c)
        PROVE  ExecutionIsOwned' /\ OneStepRuns'
    <2>1. step' = step
      BY <1>14 DEF Announce
    <2>2. \A d \in Controllers : proc'[d] = proc[d] \/ proc'[d].at \notin {"started", "spawned", "waiting", "choosing"}
      <3>1. PICK place \in {"releasing", "dead"} : Goto(c, place)
        BY <1>14 DEF Announce
      <3>2. proc'[c].at = place /\ \A d \in Controllers \ {c} : proc'[d] = proc[d]
        BY <3>1, GotoEffect
      <3> QED
        BY <3>2
    <2> QED
      BY <2>1, <2>2, QuietStep
  <1>15. ASSUME NEW c \in Controllers, Release(c)
        PROVE  ExecutionIsOwned' /\ OneStepRuns'
    <2>1. step' = step
      BY <1>15 DEF Release
    <2>2. \A d \in Controllers : proc'[d] = proc[d] \/ proc'[d].at \notin {"started", "spawned", "waiting", "choosing"}
      BY <1>15 DEF Release, TypeOK, At, Goto
    <2> QED
      BY <2>1, <2>2, QuietStep
  <1>16. ASSUME NEW c \in Controllers, Crash(c)
        PROVE  ExecutionIsOwned' /\ OneStepRuns'
    <2>1. step' = step
      BY <1>16 DEF Crash
    <2>2. \A d \in Controllers : proc'[d] = proc[d] \/ proc'[d].at \notin {"started", "spawned", "waiting", "choosing"}
      BY <1>16 DEF Crash, Dead, TypeOK, At, Goto
    <2> QED
      BY <2>1, <2>2, QuietStep
  <1>17. ASSUME NEW k \in Children, ChildExits(k)
        PROVE  ExecutionIsOwned' /\ OneStepRuns'
    <2>1. step' = step
      BY <1>17 DEF ChildExits
    <2>2. \A d \in Controllers : proc'[d] = proc[d] \/ proc'[d].at \notin {"started", "spawned", "waiting", "choosing"}
      BY <1>17 DEF ChildExits, TypeOK, At, Goto
    <2> QED
      BY <2>1, <2>2, QuietStep
  <1>18. CASE Cancel
    <2>1. ASSUME NEW d \in Controllers
          PROVE  proc'[d].at \notin {"started", "spawned", "waiting", "choosing"}
      <3>1. CASE d = controller
        BY <1>18, <3>1 DEF Cancel, Dead, TypeOK, At, Goto
      <3>2. CASE d # controller
        <4>1. ~Working(d) /\ proc'[d] = proc[d]
          BY <1>18, <3>2 DEF Cancel, EngineInv, WorkingIsRecorded, TypeOK, At, Goto
        <4> QED
          BY <4>1 DEF Working
      <3> QED
        BY <3>1, <3>2
    <2> QED
      BY <2>1 DEF ExecutionIsOwned, OneStepRuns, Executing, At
  <1>19. CASE AnnounceCancel
    <2>1. step' = step
      BY <1>19 DEF AnnounceCancel
    <2>2. \A d \in Controllers : proc'[d] = proc[d] \/ proc'[d].at \notin {"started", "spawned", "waiting", "choosing"}
      BY <1>19 DEF AnnounceCancel, TypeOK, At, Goto
    <2> QED
      BY <2>1, <2>2, QuietStep
  <1>20. CASE CancelCrashes
    <2>1. step' = step
      BY <1>20 DEF CancelCrashes
    <2>2. \A d \in Controllers : proc'[d] = proc[d] \/ proc'[d].at \notin {"started", "spawned", "waiting", "choosing"}
      BY <1>20 DEF CancelCrashes, TypeOK, At, Goto
    <2> QED
      BY <2>1, <2>2, QuietStep
  <1>22. ASSUME NEW c \in Controllers, Raise(c)
         PROVE  ExecutionIsOwned' /\ OneStepRuns'
    <2>1. \A d \in Controllers : proc'[d] = proc[d] \/ proc'[d].at \notin {"started", "spawned", "waiting", "choosing"}
      BY <1>22, RaiseEffect
    <2> QED
      BY <1>22, <2>1, RaiseEffect, QuietStep
  <1>21. CASE UNCHANGED vars
    BY <1>21, QuietStep DEF vars
  <1> QED
    BY <1>1, <1>2, <1>3, <1>4, <1>5, <1>6, <1>7, <1>8, <1>9, <1>10, <1>11, <1>12, <1>13,
       <1>14, <1>15, <1>16, <1>17, <1>18, <1>19, <1>20, <1>21, <1>22 DEF Next, ControllerStep

\* All that a step of the engine can do to a step of the manifest: leave it,
\* start it when its dependencies are completed, or change it while it runs:
\* reconcile it without a live runner, record its runner, settle it with the
\* result its controller came back with, or cancel it with its runner.
LEMMA StepChanges ==
    ASSUME EngineInv, [Next]_vars, NEW s \in Steps
    PROVE  \/ step'[s] = step[s]
           \/ /\ step[s].status = "pending" /\ step'[s].status = "running" /\ ~Ended
              /\ \A d \in DependsOn[s] : step[d].status = "completed"
           \/ /\ step[s].status = "running" /\ step'[s].attempts = step[s].attempts
              /\ \/ ~LiveRunner(s) /\ step'[s].status = Reconciled(s)
                 \/ step[s].runner = None /\ step'[s].status = "running"
                 \/ /\ step'[s].status \in {"completed", "pending", "blocked"}
                    /\ \E c \in Controllers : Finished(c) /\ proc[c].step = s
                 \/ /\ step'[s].status = "cancelled"
                    /\ step[s].runner # None => child'[step[s].runner] = None
  <1> DEFINE Goal ==
           \/ step'[s] = step[s]
           \/ /\ step[s].status = "pending" /\ step'[s].status = "running" /\ ~Ended
              /\ \A d \in DependsOn[s] : step[d].status = "completed"
           \/ /\ step[s].status = "running" /\ step'[s].attempts = step[s].attempts
              /\ \/ ~LiveRunner(s) /\ step'[s].status = Reconciled(s)
                 \/ step[s].runner = None /\ step'[s].status = "running"
                 \/ /\ step'[s].status \in {"completed", "pending", "blocked"}
                    /\ \E c \in Controllers : Finished(c) /\ proc[c].step = s
                 \/ /\ step'[s].status = "cancelled"
                    /\ step[s].runner # None => child'[step[s].runner] = None
  <1>1. step[s] \in StepRow /\ step \in [Steps -> StepRow]
    BY DEF EngineInv, TypeOK
  <1>2. ASSUME NEW c \in Controllers, Reconcile(c)
        PROVE  Goal
    <2>1. CASE s \in Interrupted
      <3>1. step'[s] = [step[s] EXCEPT !.status = Reconciled(s)] /\ ~LiveRunner(s)
        BY <1>2, <2>1 DEF Reconcile
      <3>2. step'[s].status = Reconciled(s) /\ step'[s].attempts = step[s].attempts
        BY <1>1, <3>1 DEF StepRow
      <3> QED
        BY <2>1, <3>1, <3>2 DEF Interrupted
    <2>2. CASE s \notin Interrupted
      BY <1>2, <2>2 DEF Reconcile
    <2> QED
      BY <2>1, <2>2
  <1>3. ASSUME NEW c \in Controllers, StartStep(c)
        PROVE  Goal
    <2>1. PICK t \in Steps :
            /\ step[t].status = "pending"
            /\ \A d \in DependsOn[t] : step[d].status = "completed"
            /\ step' = [step EXCEPT ![t] = [status |-> "running", attempts |-> OneMore(t), runner |-> None]]
      BY <1>3 DEF StartStep, Runnable
    <2>2. ~Ended
      BY <1>3 DEF StartStep
    <2>3. CASE s = t
      <3>1. step'[s].status = "running"
        BY <1>1, <2>1, <2>3
      <3> QED
        BY <2>1, <2>2, <2>3, <3>1
    <2>4. CASE s # t
      BY <1>1, <2>1, <2>4
    <2> QED
      BY <2>3, <2>4
  <1>4. ASSUME NEW c \in Controllers, RecordRunner(c)
        PROVE  Goal
    <2>1. proc[c].at = "spawned"
      BY <1>4 DEF RecordRunner, At
    <2>2. proc[c].step \in Steps /\ step[proc[c].step].runner = None
      BY <2>1 DEF EngineInv, OneStepRuns, Executing, At
    <2>3. CASE s = proc[c].step /\ step[s].status = "running"
      <3>1. step' = [step EXCEPT ![s].runner = proc[c].child]
        BY <1>4, <2>3 DEF RecordRunner
      <3>2. step'[s] = [step[s] EXCEPT !.runner = proc[c].child]
        BY <1>1, <3>1
      <3>3. step'[s].status = step[s].status /\ step'[s].attempts = step[s].attempts
        BY <1>1, <3>2 DEF StepRow
      <3> QED
        BY <2>2, <2>3, <3>3
    <2>4. CASE ~(s = proc[c].step /\ step[s].status = "running")
      BY <1>1, <1>4, <2>2, <2>4 DEF RecordRunner
    <2> QED
      BY <2>3, <2>4
  <1>5. ASSUME NEW c \in Controllers, Finished(c),
               NEW st \in {"completed", "pending", "blocked"},
               step' = [step EXCEPT ![proc[c].step].status = st, ![proc[c].step].runner = None]
        PROVE  Goal
    <2>1. proc[c].step \in Steps /\ step[proc[c].step].status = "running"
      BY <1>5 DEF EngineInv, OneStepRuns, ExecutionIsOwned, Executing, Finished, At
    <2>2. step' = [step EXCEPT ![proc[c].step] = [step[proc[c].step] EXCEPT !.status = st, !.runner = None]]
      BY <1>1, <1>5, <2>1
    <2>3. CASE s = proc[c].step
      <3>1. step'[s] = [step[s] EXCEPT !.status = st, !.runner = None]
        BY <1>1, <2>2, <2>3
      <3>2. step'[s].status = st /\ step'[s].attempts = step[s].attempts
        BY <1>1, <3>1 DEF StepRow
      <3> QED
        BY <1>5, <2>1, <2>3, <3>2
    <2>4. CASE s # proc[c].step
      BY <1>1, <2>2, <2>4
    <2> QED
      BY <2>3, <2>4
  <1>6. ASSUME NEW c \in Controllers, StepCompletes(c)
        PROVE  Goal
    <2>1. /\ Finished(c)
          /\ step' = [step EXCEPT ![proc[c].step].status = "completed", ![proc[c].step].runner = None]
      BY <1>6 DEF StepCompletes
    <2> QED
      BY <1>5, <2>1
  <1>7. ASSUME NEW c \in Controllers, StepFails(c)
        PROVE  Goal
    <2>1. PICK again \in BOOLEAN :
            step' = [step EXCEPT ![proc[c].step].status = IF again THEN "pending" ELSE "blocked",
                                 ![proc[c].step].runner = None]
      BY <1>7 DEF StepFails
    <2>2. Finished(c)
      BY <1>7 DEF StepFails
    <2>3. PICK st \in {"completed", "pending", "blocked"} : st = IF again THEN "pending" ELSE "blocked"
      OBVIOUS
    <2>4. step' = [step EXCEPT ![proc[c].step].status = st, ![proc[c].step].runner = None]
      BY <2>1, <2>3
    <2> QED
      BY <1>5, <2>2, <2>4
  <1>8. ASSUME Cancel PROVE Goal
    <2>1. CASE s \in Interrupted
      <3>1. step'[s] = [step[s] EXCEPT !.status = "cancelled", !.runner = None]
        BY <1>8, <2>1 DEF Cancel
      <3>2. step'[s].status = "cancelled" /\ step'[s].attempts = step[s].attempts
        BY <1>1, <3>1 DEF StepRow
      <3>3. step[s].runner \in Children \cup {None}
        BY <1>1 DEF StepRow
      <3>4. step[s].runner # None => child'[step[s].runner] = None
        BY <1>8, <2>1, <3>3 DEF Cancel
      <3> QED
        BY <2>1, <3>2, <3>4 DEF Interrupted
    <2>2. CASE s \notin Interrupted
      BY <1>8, <2>2 DEF Cancel
    <2> QED
      BY <2>1, <2>2
  <1>9. ASSUME step' = step PROVE Goal
    BY <1>9
  <1>10. \/ \E c \in Controllers : \/ Reconcile(c) \/ StartStep(c) \/ RecordRunner(c)
                                   \/ StepCompletes(c) \/ StepFails(c)
         \/ Cancel
         \/ step' = step
    BY DEF Next, ControllerStep, Decide, Launch, Claim, ObserveBusy, FindEnded, Conclude, Spawn,
           RunInline, Announce, Release, Raise, Crash, ChildExits, AnnounceCancel, CancelCrashes, vars
  <1> HIDE DEF Goal
  <1>11. Goal
    BY <1>2, <1>3, <1>4, <1>6, <1>7, <1>8, <1>9, <1>10
  <1> QED
    BY <1>11 DEF Goal

\* Completed steps stay completed, and only those start whose dependencies are.
LEMMA DependenciesStep ==
    ASSUME EngineInv, [Next]_vars
    PROVE  DependenciesFirst'
  <1>1. ASSUME NEW d \in Steps, step[d].status = "completed"
        PROVE  step'[d].status = "completed"
    BY <1>1, StepChanges
  <1>2. ASSUME NEW s \in Steps, step'[s].attempts > 0
        PROVE  \A d \in DependsOn[s] : step[d].status = "completed"
    <2>1. CASE step'[s].attempts = step[s].attempts
      BY <1>2, <2>1 DEF EngineInv, DependenciesFirst
    <2>2. CASE step'[s].attempts # step[s].attempts
      BY <2>2, StepChanges
    <2> QED
      BY <2>1, <2>2
  <1>3. \A s \in Steps : DependsOn[s] \subseteq Steps
    BY WorkflowEngineAssumption
  <1> QED
    BY <1>1, <1>2, <1>3 DEF DependenciesFirst

\* The outcome of an ended workflow stays, and no step runs when one is reached.
LEMMA OutcomeStep ==
    ASSUME EngineInv, [Next]_vars
    PROVE  /\ Ended => status' = status
           /\ ~Ended /\ status' \in Outcomes => \A s \in Steps : step'[s].status # "running"
  <1> DEFINE Goal == /\ Ended => status' = status
                     /\ ~Ended /\ status' \in Outcomes => \A s \in Steps : step'[s].status # "running"
  <1>1. step \in [Steps -> StepRow]
    BY DEF EngineInv, TypeOK
  <1>2. Ended => \A s \in Steps : step[s].status # "running"
    BY DEF EngineInv, EndIsClean, Interrupted
  <1>3. ASSUME NEW c \in Controllers, Reconcile(c)
        PROVE  Goal
    <2>1. Ended => status' = status
      BY <1>2, <1>3 DEF Reconcile, Interrupted
    <2>2. ASSUME NEW s \in Steps
          PROVE  step'[s].status # "running"
      <3>1. CASE s \in Interrupted
        <4>1. step'[s] = [step[s] EXCEPT !.status = Reconciled(s)] /\ step[s] \in StepRow
          BY <1>1, <1>3, <3>1 DEF Reconcile
        <4>2. step'[s].status = Reconciled(s)
          BY <4>1 DEF StepRow
        <4> QED
          BY <4>2 DEF Reconciled
      <3>2. CASE s \notin Interrupted
        BY <1>3, <3>2 DEF Reconcile, Interrupted
      <3> QED
        BY <3>1, <3>2
    <2> QED
      BY <2>1, <2>2
  <1>4. ASSUME NEW c \in Controllers, Conclude(c)
        PROVE  Goal
    <2>1. Interrupted = {}
      BY <1>4 DEF Conclude, At, EngineInv, OneStepRuns
    <2> QED
      BY <1>4, <2>1 DEF Conclude, Interrupted
  <1>5. ASSUME NEW c \in Controllers, StartStep(c)
        PROVE  Goal
    <2>1. ~Ended /\ status' = "running"
      BY <1>5 DEF StartStep
    <2> QED
      BY <2>1 DEF Outcomes
  <1>6. ASSUME NEW c \in Controllers, StepFails(c)
        PROVE  Goal
    <2>1. At(c, "waiting")
      BY <1>6 DEF StepFails, Finished
    <2>2. proc[c].step \in Steps /\ Interrupted = {proc[c].step}
      BY <2>1 DEF EngineInv, OneStepRuns, Executing, At
    <2>3. ~Ended
      BY <2>2 DEF EngineInv, EndIsClean
    <2>4. PICK again \in BOOLEAN :
            /\ step' = [step EXCEPT ![proc[c].step].status = IF again THEN "pending" ELSE "blocked",
                                    ![proc[c].step].runner = None]
            /\ status' = IF again THEN status ELSE "blocked"
      BY <1>6 DEF StepFails
    <2>5. CASE again
      BY <2>3, <2>4, <2>5 DEF Ended
    <2>6. CASE ~again
      <3>1. step' = [step EXCEPT ![proc[c].step] =
                        [step[proc[c].step] EXCEPT !.status = "blocked", !.runner = None]]
        BY <1>1, <2>2, <2>4, <2>6
      <3>2. step'[proc[c].step] = [step[proc[c].step] EXCEPT !.status = "blocked", !.runner = None]
        BY <1>1, <2>2, <3>1
      <3>3. step[proc[c].step] \in StepRow
        BY <1>1, <2>2
      <3>4. step'[proc[c].step].status = "blocked"
        BY <3>2, <3>3 DEF StepRow
      <3>5. \A s \in Steps \ {proc[c].step} : step'[s] = step[s] /\ step[s].status # "running"
        BY <1>1, <2>2, <3>1 DEF Interrupted
      <3> QED
        BY <2>3, <3>4, <3>5
    <2> QED
      BY <2>5, <2>6
  <1>7. ASSUME Cancel
        PROVE  Goal
    <2>1. ~Ended
      BY <1>7 DEF Cancel
    <2>2. ASSUME NEW s \in Steps
          PROVE  step'[s].status # "running"
      <3>1. CASE s \in Interrupted
        <4>1. /\ step'[s] = [step[s] EXCEPT !.status = "cancelled", !.runner = None]
              /\ step[s] \in StepRow
          BY <1>1, <1>7, <3>1 DEF Cancel
        <4>2. step'[s].status = "cancelled"
          BY <4>1 DEF StepRow
        <4> QED
          BY <4>2
      <3>2. CASE s \notin Interrupted
        BY <1>7, <3>2 DEF Cancel, Interrupted
      <3> QED
        BY <3>1, <3>2
    <2> QED
      BY <2>1, <2>2
  <1>8. ASSUME status' = status
        PROVE  Goal
    BY <1>8 DEF Ended
  <1>9. \/ \E c \in Controllers : Reconcile(c) \/ Conclude(c) \/ StartStep(c) \/ StepFails(c)
        \/ Cancel
        \/ status' = status
    BY DEF Next, ControllerStep, Decide, Launch, Claim, ObserveBusy, FindEnded, Spawn, RecordRunner,
           RunInline, StepCompletes, Announce, Release, Raise, Crash, ChildExits, AnnounceCancel,
           CancelCrashes, vars
  <1> HIDE DEF Goal
  <1>10. Goal
    BY <1>3, <1>4, <1>5, <1>6, <1>7, <1>8, <1>9
  <1> QED
    BY <1>10 DEF Goal

\* The notice is left alone, or written once, with the outcome.
LEMMA NoticeStep ==
    ASSUME EngineInv, [Next]_vars
    PROVE  \/ notice' = notice
           \/ Ended /\ status' = status /\ notice = "none" /\ notice' = status
  <1>1. \/ notice' = notice
        \/ QueueCompletion /\ status' = status
    BY DEF Next, ControllerStep, Decide, Launch, Claim, ObserveBusy, Reconcile, FindEnded, Conclude,
           StartStep, Spawn, RecordRunner, RunInline, StepCompletes, StepFails, Announce, Release,
           Raise, Crash, ChildExits, Cancel, AnnounceCancel, CancelCrashes, vars
  <1> QED
    BY <1>1 DEF QueueCompletion

\* An ended workflow stays clean.
LEMMA EndStep ==
    ASSUME EngineInv, [Next]_vars
    PROVE  EndIsClean'
  <1>1. ASSUME status' \in Outcomes, NEW s \in Steps
        PROVE  step'[s].status # "running"
    <2>1. CASE Ended
      <3>1. step[s].status # "running"
        BY <2>1 DEF EngineInv, EndIsClean, Interrupted
      <3> QED
        BY <2>1, <3>1, StepChanges
    <2>2. CASE ~Ended
      BY <1>1, <2>2, OutcomeStep
    <2> QED
      BY <2>1, <2>2
  <1>2. ASSUME notice' # "none"
        PROVE  status' \in Outcomes /\ notice' = status'
    <2>1. CASE notice' = notice
      <3>1. Ended /\ notice = status
        BY <1>2, <2>1 DEF EngineInv, EndIsClean
      <3> QED
        BY <2>1, <3>1, OutcomeStep DEF Ended
    <2>2. CASE notice' # notice
      BY <2>2, NoticeStep DEF Ended
    <2> QED
      BY <2>1, <2>2
  <1> QED
    BY <1>1, <1>2 DEF EndIsClean, Ended, Interrupted

\* Every step preserves the invariant.
LEMMA EngineStep ==
    ASSUME EngineInv, [Next]_vars
    PROVE  EngineInv'
  <1>1. TypeOK' /\ WorkingIsRecorded' /\ DependenciesFirst' /\ EndIsClean'
    BY TypeStep, ExclusionStep, DependenciesStep, EndStep
  <1>2. ExecutionIsOwned' /\ OneStepRuns'
    BY ExecutionStep
  <1>3. OneController'
    BY <1>1 DEF WorkingIsRecorded, OneController
  <1> QED
    BY <1>1, <1>2, <1>3 DEF EngineInv

-----------------------------------------------------------------------------

\* Controllers exclude each other, a step belongs to the controller that started
\* it until it comes back, dependencies come first and an ended workflow is
\* clean, in every reachable state: the PID fence of claim_controller() is
\* enough although launchers decide without the lock and controllers die.
THEOREM EngineIsSafe == Spec => []EngineInv
  <1>1. EngineInv /\ [Next]_vars => EngineInv'
    BY EngineStep
  <1> QED
    BY InitEstablishes, <1>1, PTL DEF Spec

\* Two controllers never work on the workflow at once, which tick() relies on
\* outside the lock.
THEOREM ControllersExclude == Spec => []OneController
  <1>1. EngineInv => OneController
    BY DEF EngineInv
  <1> QED
    BY EngineIsSafe, <1>1, PTL

\* The step of a returning controller is still running and still its own, which
\* the last locked section of tick() takes for granted.
THEOREM StepsStayOwned == Spec => []ExecutionIsOwned
  <1>1. EngineInv => ExecutionIsOwned
    BY DEF EngineInv
  <1> QED
    BY EngineIsSafe, <1>1, PTL

\* A step that was ever attempted had its dependencies completed, and they stay
\* completed.
THEOREM DependenciesComeFirst == Spec => []DependenciesFirst
  <1>1. EngineInv => DependenciesFirst
    BY DEF EngineInv
  <1> QED
    BY EngineIsSafe, <1>1, PTL

\* A live recorded runner fences its step against every step of the engine but
\* its own end and cancellation.
THEOREM RunnersFence == Spec => LiveRunnerFences
  <1>1. ASSUME EngineInv, [Next]_vars, NEW s \in Steps,
               LiveRunner(s), child'[step[s].runner] # None
        PROVE  step'[s] = step[s]
    <2>1. step[s].status = "running" /\ step[s].runner # None /\ child[step[s].runner] # None
      BY <1>1 DEF LiveRunner
    <2>2. ASSUME NEW c \in Controllers, Finished(c), proc[c].step = s
          PROVE  FALSE
      <3>1. step[s].runner = proc[c].child
        BY <1>1, <2>2 DEF EngineInv, ExecutionIsOwned, Finished
      <3> QED
        BY <2>1, <2>2, <3>1 DEF Finished
    <2> QED
      BY <1>1, <2>1, <2>2, StepChanges
  <1>2. EngineInv /\ [Next]_vars =>
          [\A s \in Steps :
              LiveRunner(s) /\ child'[step[s].runner] # None => step'[s] = step[s]]_vars
    BY <1>1
  <1> QED
    BY EngineIsSafe, <1>2, PTL DEF Spec, LiveRunnerFences

\* What is not idempotent is repeated only after its controller saw it fail.
THEOREM NothingRepeatsBlindly == Spec => NoBlindRepetition
  <1>1. ASSUME EngineInv, [Next]_vars, NEW s \in Steps \ Idempotent,
               step[s].status = "running", step'[s].status = "pending"
        PROVE  \E c \in Controllers : Finished(c) /\ proc[c].step = s
    <2>1. Reconciled(s) # "pending"
      BY DEF Reconciled
    <2> QED
      BY <1>1, <2>1, StepChanges
  <1>2. EngineInv /\ [Next]_vars =>
          [\A s \in Steps \ Idempotent :
              step[s].status = "running" /\ step'[s].status = "pending" =>
                  \E c \in Controllers : Finished(c) /\ proc[c].step = s]_vars
    BY <1>1
  <1> QED
    BY EngineIsSafe, <1>2, PTL DEF Spec, NoBlindRepetition

\* The engine implements the contract TicketRuntime relies on: one outcome, and
\* a notice that names it.
THEOREM EngineImplementsContract == Spec => ImplementsContract
  <1>1. Init => Contract!Init
    BY DEF Init, Contract!Init, Ended, Outcomes
  <1>2. ASSUME EngineInv, [Next]_vars
        PROVE  [Contract!Conclude \/ Contract!Announce]_(Contract!contractVars)
    <2>1. CASE Ended
      <3>1. status' = status /\ status \in Outcomes /\ status # "open"
        BY <1>2, <2>1, OutcomeStep DEF Ended, Outcomes
      <3>2. notice' = notice \/ (notice = "none" /\ notice' = status)
        BY <1>2, NoticeStep
      <3> QED
        BY <3>1, <3>2 DEF Ended, Contract!Announce, Contract!contractVars
    <2>2. CASE ~Ended
      <3>1. notice' = notice
        BY <1>2, <2>2, NoticeStep
      <3> QED
        BY <2>2, <3>1 DEF Ended, Contract!Conclude, Contract!contractVars
    <2> QED
      BY <2>1, <2>2
  <1> QED
    BY EngineIsSafe, <1>1, <1>2, PTL DEF Spec, ImplementsContract, Contract!Spec
=============================================================================
