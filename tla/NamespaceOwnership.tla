------------------------- MODULE NamespaceOwnership -------------------------
(***************************************************************************)
(* The installer's durable protocol (namespace_ownership.py driven by      *)
(* install.ps1): the fresh-install transaction and its marker, the         *)
(* recovery preflight and the classification of what is found on disk, the *)
(* rollover of the plugin generation with its transaction file, the        *)
(* quarantine of the ownership manifest and its recovery, and the reviewed *)
(* rollover plan.  An installer run is a sequence of steps; it may crash   *)
(* between any two of them or in the middle of a marker's write, and a     *)
(* step may fail.  Payload 0 is the previous version's (0.9.3), the others *)
(* are candidates of the current one.                                      *)
(***************************************************************************)
EXTENDS Naturals, Sequences, FiniteSets

CONSTANTS None, Direct, Projects, LastRelease, MaxCrashes, MaxFailures

Roots == {"skill", "state", "appData", "launcher"}
Slots == {Direct} \cup Projects
Payloads == 0..LastRelease
Releases == 1..LastRelease
InstallMarkers == [state : {"incomplete", "committed"}, created : Seq(Roots), appPre : BOOLEAN]
Transactions == [slot : Slots, old : Payloads, expected : Releases, outdated : BOOLEAN]

ASSUME OwnershipAssumption ==
  /\ LastRelease \in Nat \ {0} /\ MaxCrashes \in Nat /\ MaxFailures \in Nat
  /\ Direct \notin Projects /\ None \notin Projects \cup {Direct}
  /\ None \notin Nat \cup InstallMarkers \cup Transactions

VARIABLES
  disk,        \* the owned roots that exist
  mark,        \* install-transaction.json, kept inside the state root
  manifest,    \* the plugin slot ownership.json binds, or None
  outdated,    \* ownership.json was written by the previous version
  plugin,      \* the payload each plugin slot of OpenClaw holds
  active,      \* the slot OpenClaw has registered
  backups,     \* the payloads kept under plugin-generation-rollover-backups
  tx,          \* the persisted rollover transaction
  run,         \* the running installer or command
  release,     \* the candidate the operator installs
  owned,       \* history: the payload of the last completed installation
  foreign,     \* history: another workspace made the application data root, and when
  crashes, failures

ownershipVars == <<disk, mark, manifest, outdated, plugin, active, backups, tx, run,
                   release, owned, foreign, crashes, failures>>

FreshSteps == <<"begin", "recordSkill", "recordState", "testAppData", "recordAppData",
                "moveSkill", "installPlugin", "provision", "recordLauncher", "writeLauncher",
                "create", "commit">>
InstallTail == <<"provision", "writeLauncher", "create", "done">>
UpgradeSteps == <<"dropSkill", "moveSkill", "prepare", "installPlugin",
                  "finalize", "confirm">> \o InstallTail
ExactSteps == <<"dropSkill", "moveSkill">> \o InstallTail
RecoverSteps == <<"restore", "finalize", "confirm">>
PlanSteps == <<"retire", "apply">>

Idle == [mode |-> "none", steps |-> <<>>, todo |-> <<>>, old |-> None,
         absent |-> FALSE, missed |-> {}, plugged |-> FALSE, errors |-> FALSE]
Run(mode, steps) == [Idle EXCEPT !.mode = mode, !.steps = steps]

\* The product's payloads; a current one is of this installer's version.
Candidates == {s \in Slots : plugin[s] # None}
Current == {s \in Candidates : plugin[s] # 0}
Inventory == disk \cup Candidates

InstallSteps == {"begin", "recordSkill", "recordState", "testAppData", "recordAppData",
                 "recordLauncher", "dropSkill", "moveSkill", "installPlugin", "provision", "writeLauncher",
                 "create", "commit", "done", "prepare", "finalize", "confirm", "restore",
                 "retire", "apply"}
InstallRuns == [mode : {"none", "classify", "fresh", "upgrade", "recover", "plan", "rollback", "preflight"},
                steps : Seq(InstallSteps), todo : Seq(Roots), old : Payloads \cup {None},
                absent : BOOLEAN, missed : SUBSET Roots, plugged : BOOLEAN, errors : BOOLEAN]

OwnershipTypes ==
  /\ disk \subseteq Roots
  /\ mark = None \/ (mark \in InstallMarkers /\ "state" \in disk)
  /\ manifest = None \/ (manifest \in Slots /\ "state" \in disk)
  /\ outdated \in BOOLEAN
  /\ plugin \in [Slots -> Payloads \cup {None}] /\ active \in Slots \cup {None}
  /\ backups \subseteq Payloads /\ (tx = None \/ tx \in Transactions)
  /\ run \in InstallRuns
  /\ release \in Releases /\ owned \in Payloads \cup {None}
  /\ foreign \in {"no", "spared", "exposed"}
  /\ crashes \in 0..MaxCrashes /\ failures \in 0..MaxFailures

\* A clean workspace, or a complete installation of the previous version.
Clean ==
  /\ disk = {} /\ mark = None /\ manifest = None /\ outdated = FALSE
  /\ plugin = [s \in Slots |-> None] /\ active = None /\ owned = None

Previous ==
  /\ disk = Roots /\ manifest \in Slots /\ outdated = TRUE
  /\ mark \in {None, [state |-> "committed", created |-> <<"skill", "state", "appData", "launcher">>,
                     appPre |-> FALSE]}
  /\ plugin = [s \in Slots |-> IF s = manifest THEN 0 ELSE None] /\ active = manifest
  /\ owned = 0

OwnershipInit ==
  /\ Clean \/ Previous
  /\ backups = {} /\ tx = None /\ run = Idle /\ release = 1
  /\ foreign = "no" /\ crashes = 0 /\ failures = 0

(***************************************************************************)
(* What the code proves before it acts.                                    *)
(***************************************************************************)
ArtifactsExist == {"state", "skill", "launcher"} \subseteq disk

\* _managed_wrapper_proof: the slot is a generation of the managed npm projects,
\* and its lock file names this installer's version.
Managed(slot) == slot \in Projects /\ slot \in Current

\* _retired_storage_root: what a rollover can retire.
Retirable(slot) == slot = Direct \/ Managed(slot)

\* _active_registered_plugin: what OpenClaw has registered is the candidate.
Attested(candidate) == active # None /\ plugin[active] = candidate

\* verify_manifest: the manifest is of this version, the bound payload is the
\* only one of this version, nothing is missing.
Verified(slot) == ArtifactsExist /\ ~outdated /\ Current = {slot}

\* _exact_rollover_state: two managed generations, the active one attested.
ExactRollover(candidate) ==
  /\ ArtifactsExist
  /\ Candidates = {manifest, active} /\ manifest # active
  /\ Attested(candidate) /\ Managed(manifest) /\ Managed(active)

\* Mutant: the missing and the present generation are swapped.
ReentryOfPresent(candidate) ==
  /\ plugin[manifest] # None /\ ~outdated /\ ArtifactsExist
  /\ Attested(candidate) /\ Candidates = {active}

\* _classify_interrupted_rollover_reentry: the owned generation is gone, the
\* attested replacement is the only one; a manifest of the previous version is
\* not accepted here.
Reentry(candidate) ==
  /\ plugin[manifest] = None /\ ~outdated /\ ArtifactsExist
  /\ Attested(candidate) /\ Candidates = {active}

\* classify_install for a workspace that an ownership manifest binds.
Classified(candidate) ==
  IF plugin[manifest] = None
  THEN IF Reentry(candidate) THEN "exact" ELSE "refused"
  ELSE IF ArtifactsExist /\ Candidates = {manifest}
       THEN IF plugin[manifest] = candidate THEN "exact" ELSE "upgrade"
       ELSE IF ExactRollover(candidate) THEN "exact" ELSE "refused"

(***************************************************************************)
(* Undoing a fresh attempt: the recorded roots, deepest first.             *)
(***************************************************************************)
DeepestFirst(created) ==
  IF \E i \in 1..Len(created) : created[i] = "skill"
  THEN LET i == CHOOSE i \in 1..Len(created) : created[i] = "skill"
       IN <<"skill">> \o SubSeq(created, 1, i - 1) \o SubSeq(created, i + 1, Len(created))
  ELSE created

\* Removing the state root removes what is kept inside it.
LoseState ==
  /\ mark' = None /\ manifest' = None /\ tx' = None

UndoRoot ==
  /\ run.mode \in {"rollback", "preflight"} /\ run.todo # <<>>
  /\ LET root == Head(run.todo) rest == Tail(run.todo) IN
     \/ /\ disk' = disk \ {root}
        /\ run' = [run EXCEPT !.todo = rest]
        /\ backups' = IF root = "appData" THEN {} ELSE backups
        /\ IF root = "state" THEN LoseState ELSE UNCHANGED <<mark, manifest, tx>>
        /\ UNCHANGED failures
     \/ /\ root \in disk /\ failures < MaxFailures
        /\ failures' = failures + 1
        /\ run' = [run EXCEPT !.todo = rest, !.errors = TRUE]
        /\ backups' \in IF root = "appData" THEN {backups, {}} ELSE {backups}
        /\ \/ UNCHANGED <<mark, manifest, tx>>
           \/ root = "state" /\ LoseState
        /\ UNCHANGED disk
  /\ UNCHANGED <<outdated, plugin, active, release, owned, foreign, crashes>>

\* Mutant: a finished undo leaves its marker.
EndUndoKeepsMarker ==
  /\ run.mode \in {"rollback", "preflight"} /\ run.todo = <<>>
  /\ run' = Idle
  /\ UNCHANGED <<disk, mark, manifest, outdated, plugin, active, backups, tx, release, owned,
                 foreign, crashes, failures>>

\* Errors are raised with the marker as it is; otherwise the marker is retired
\* and the preflight removes a state root that is empty then, when it can.
EndUndo ==
  /\ run.mode \in {"rollback", "preflight"} /\ run.todo = <<>>
  /\ IF run.errors
     THEN run' = Idle /\ UNCHANGED <<disk, mark>>
     ELSE /\ mark' = None
          /\ \/ disk' = disk
             \/ run.mode = "preflight" /\ tx = None /\ disk' = disk \ {"state"}
          /\ run' = IF run.mode = "preflight" THEN Run("classify", <<>>) ELSE Idle
  /\ UNCHANGED <<manifest, outdated, plugin, active, backups, tx, release, owned, foreign,
                 crashes, failures>>

(***************************************************************************)
(* The operator starts an installer or an ownership command.               *)
(***************************************************************************)
\* Mutant: the state of the marker is not looked at.
AnyMarker == TRUE

\* _validate_marker_boundary: only an incomplete marker authorises recovery.
Undoable == mark.state = "incomplete"

\* recovery_preflight: an owned workspace goes on, a clean one is fresh, an
\* incomplete fresh attempt is undone, and anything else is refused.
Preflight ==
  /\ run = Idle
  /\ \/ /\ manifest # None \/ (mark = None /\ Inventory = {})
        /\ run' = Run("classify", <<>>)
     \/ /\ manifest = None /\ mark # None
        /\ Undoable
        /\ run' = [Run("preflight", <<>>) EXCEPT !.todo = DeepestFirst(mark.created)]
  /\ UNCHANGED <<disk, mark, manifest, outdated, plugin, active, backups, tx, release,
                 owned, foreign, crashes, failures>>

Classify ==
  /\ run.mode = "classify"
  /\ run' = IF manifest # None
           THEN CASE Classified(release) = "exact"   -> Run("upgrade", ExactSteps)
                  [] Classified(release) = "upgrade" -> Run("upgrade", UpgradeSteps)
                  [] OTHER -> Idle
           ELSE IF Inventory = {} /\ active = None THEN Run("fresh", FreshSteps) ELSE Idle
  /\ UNCHANGED <<disk, mark, manifest, outdated, plugin, active, backups, tx, release,
                 owned, foreign, crashes, failures>>

\* rollover-recover and rollover-apply are authorised by digests the operator
\* supplies for the transaction file or the reviewed plan.
StartRecovery ==
  /\ run = Idle
  /\ manifest = None /\ tx # None
  /\ mark # None /\ mark.state = "committed"
  /\ tx.expected = release /\ Retirable(tx.slot)
  /\ run' = Run("recover", RecoverSteps)
  /\ UNCHANGED <<disk, mark, manifest, outdated, plugin, active, backups, tx, release,
                 owned, foreign, crashes, failures>>

StartPlan ==
  /\ run = Idle
  /\ manifest # None /\ ExactRollover(release)
  /\ run' = Run("plan", PlanSteps)
  /\ UNCHANGED <<disk, mark, manifest, outdated, plugin, active, backups, tx, release,
                 owned, foreign, crashes, failures>>

\* The operator fetches the next candidate once the last one is installed.
NextRelease ==
  /\ run = Idle
  /\ owned = release /\ release < LastRelease
  /\ release' = release + 1
  /\ UNCHANGED <<disk, mark, manifest, outdated, plugin, active, backups, tx, run, owned,
                 foreign, crashes, failures>>

(***************************************************************************)
(* The steps of a run.                                                     *)
(***************************************************************************)
Due(step) == run.steps # <<>> /\ Head(run.steps) = step
Proceed == run' = [run EXCEPT !.steps = Tail(@)]

\* _project_tree_sha256: the copy is the tree the transaction attests.
BackedUp == tx.old \in backups

\* The proofs a step makes before it changes anything; without them it raises.
Proven ==
  \/ Due("prepare")   /\ ArtifactsExist /\ plugin[manifest] # None /\ Retirable(manifest)
  \/ /\ Due("finalize")
     /\ run.mode = "recover" => ArtifactsExist /\ plugin[tx.slot] # None
     /\ Attested(tx.expected) /\ manifest = tx.slot /\ BackedUp
     /\ tx.slot = Direct => active = Direct
     /\ active = tx.slot => /\ active = Direct /\ Candidates = {Direct}
                            /\ tx.expected # tx.old
  \/ Due("confirm")   /\ Verified(manifest)
  \/ Due("create")    /\ \E s \in Slots : Current = {s} /\ plugin[s] = release
  \/ (Due("commit") \/ Due("done")) /\ Verified(manifest)
  \/ Due("retire")    /\ ExactRollover(release)
  \/ Due("apply")     /\ Verified(active)
  \/ /\ run.steps # <<>>
     /\ Head(run.steps) \notin {"prepare", "finalize", "confirm", "create", "commit",
                               "done", "retire", "apply"}

Begin ==
  /\ Due("begin")
  /\ disk' = disk \cup {"state"}
  /\ mark' = [state |-> "incomplete", created |-> <<>>, appPre |-> "appData" \in disk]
  /\ Proceed
  /\ UNCHANGED <<manifest, outdated, plugin, active, backups, tx, release, owned, foreign,
                 crashes, failures>>

Recorded(root) == \E i \in DOMAIN mark.created : mark.created[i] = root

\* Mutant: what is there at the record is not told apart.
AppDataIgnored == TRUE

\* The installer asks for a record of the application data root only when it
\* finds none; another workspace can make it before the record is written.
AppDataAbsent == "appData" \notin disk

TestAppData ==
  /\ Due("testAppData")
  /\ run' = [run EXCEPT !.steps = Tail(@), !.absent = AppDataAbsent]
  /\ UNCHANGED <<disk, mark, manifest, outdated, plugin, active, backups, tx, release,
                 owned, foreign, crashes, failures>>

\* record_transaction_path appends what is not recorded yet, and refuses the
\* application data root that was there at the beginning; an unreadable marker
\* records nothing.
Recordable(root) ==
  /\ mark # None /\ ~Recorded(root)
  /\ root = "appData" => run.absent /\ ~mark.appPre

Record(step, root) ==
  /\ Due(step)
  /\ mark' = IF Recordable(root) THEN [mark EXCEPT !.created = Append(@, root)]
               ELSE mark
  /\ Proceed
  /\ UNCHANGED <<disk, manifest, outdated, plugin, active, backups, tx, release, owned,
                 foreign, crashes, failures>>

RecordRoots ==
  \/ Record("recordSkill", "skill") \/ Record("recordState", "state")
  \/ Record("recordAppData", "appData") \/ Record("recordLauncher", "launcher")

\* The installer does not look at the exit code of a record: when one fails, with
\* the marker as it was or torn by the write, it goes on to make the root.
RecordFails(step, root) ==
  /\ Due(step) /\ failures < MaxFailures
  /\ Recordable(root)
  /\ mark' \in {mark, None}
  /\ run' = [run EXCEPT !.steps = Tail(@), !.missed = @ \cup {root}]
  /\ failures' = failures + 1
  /\ UNCHANGED <<disk, manifest, outdated, plugin, active, backups, tx, release, owned,
                 foreign, crashes>>

RecordsFail ==
  \/ RecordFails("recordSkill", "skill") \/ RecordFails("recordState", "state")
  \/ RecordFails("recordAppData", "appData") \/ RecordFails("recordLauncher", "launcher")

\* The skill is replaced by a removal and a move; the runtime is provisioned
\* under the application data root.
PlaceRoot ==
  /\ \/ Due("dropSkill")     /\ disk' = disk \ {"skill"}
     \/ Due("moveSkill")     /\ disk' = disk \cup {"skill"}
     \/ Due("provision")     /\ disk' = disk \cup {"appData"}
     \/ Due("writeLauncher") /\ disk' = disk \cup {"launcher"}
  /\ Proceed
  /\ UNCHANGED <<mark, manifest, outdated, plugin, active, backups, tx, release, owned,
                 foreign, crashes, failures>>

\* prepare_plugin_rollover_transaction: snapshot the owned generation, then
\* persist the transaction.
PrepareRollover ==
  /\ Due("prepare") /\ Proven
  /\ backups' = backups \cup {plugin[manifest]}
  /\ tx' = [slot |-> manifest, old |-> plugin[manifest], expected |-> release,
             outdated |-> outdated]
  /\ disk' = disk \cup {"appData"}
  /\ Proceed
  /\ UNCHANGED <<mark, manifest, outdated, plugin, active, release, owned, foreign,
                 crashes, failures>>

\* openclaw plugins install: in place for a direct plugin, else a new managed
\* generation, with the previous one kept or removed.
InstallPlugin ==
  /\ Due("installPlugin")
  /\ \E slot \in Slots, keep \in BOOLEAN :
       /\ plugin[slot] = None \/ (slot = Direct /\ run.mode = "upgrade" /\ manifest = Direct)
       /\ plugin' = [s \in Slots |-> IF s = slot THEN release
                                     ELSE IF s = manifest /\ ~keep THEN None
                                     ELSE plugin[s]]
       /\ active' = slot
  /\ run' = [run EXCEPT !.steps = Tail(@), !.plugged = (run.mode = "fresh")]
  /\ UNCHANGED <<disk, mark, manifest, outdated, backups, tx, release, owned, foreign,
                 crashes, failures>>

\* finalize_plugin_rollover_transaction and the manifest write of a recovery;
\* confirm is the verification behind it.
Bind ==
  /\ \/ /\ Due("finalize") /\ Proven
        /\ manifest' = active /\ outdated' = FALSE
     \/ /\ Due("restore")
        /\ manifest' = tx.slot /\ outdated' = tx.outdated
     \/ /\ Due("create") /\ Proven
        /\ manifest' \in Current /\ outdated' = FALSE
  /\ Proceed
  /\ UNCHANGED <<disk, mark, plugin, active, backups, tx, release, owned, foreign,
                 crashes, failures>>

Confirm ==
  /\ Due("confirm") /\ Proven
  /\ run' = IF run.mode = "recover" THEN Idle ELSE [run EXCEPT !.steps = Tail(@)]
  /\ UNCHANGED <<disk, mark, manifest, outdated, plugin, active, backups, tx, release, owned,
                 foreign, crashes, failures>>

\* commit_transaction retires the marker of a fresh installation, unless it
\* cannot be read any more; an upgrade leaves the marker alone.
Complete ==
  /\ (Due("commit") \/ Due("done")) /\ Proven
  /\ mark' = IF Due("commit") /\ mark # None THEN [mark EXCEPT !.state = "committed"] ELSE mark
  /\ owned' = plugin[manifest]
  /\ run' = Idle
  /\ UNCHANGED <<disk, manifest, outdated, plugin, active, backups, tx, release, foreign,
                 crashes, failures>>

\* apply_plugin_rollover_plan: rename the retired generation away, then bind the
\* replacement.
Retire ==
  /\ Due("retire") /\ Proven
  /\ backups' = backups \cup {plugin[manifest]}
  /\ plugin' = [plugin EXCEPT ![manifest] = None]
  /\ run' = [run EXCEPT !.steps = Tail(@), !.old = plugin[manifest]]
  /\ UNCHANGED <<disk, mark, manifest, outdated, active, tx, release, owned, foreign,
                 crashes, failures>>

Apply ==
  /\ Due("apply") /\ Proven
  /\ manifest' = active
  /\ run' = Idle
  /\ UNCHANGED <<disk, mark, outdated, plugin, active, backups, tx, release, owned, foreign,
                 crashes, failures>>

(***************************************************************************)
(* A step that raises, and a crash.                                        *)
(***************************************************************************)
\* Mutant: the retired generation is bound again, whatever it is now.
RetiredRegardless == TRUE

RetiredIsExact == plugin[tx.slot] = tx.old

\* Quarantined: the retired generation is no longer the one of the transaction.
PutsBack == run.mode = "upgrade" /\ Due("confirm") /\ RetiredIsExact

\* What the handlers around a raising step put back.
Restored ==
  CASE run.mode = "recover" -> None
    [] run.mode = "upgrade" /\ Due("confirm") -> IF PutsBack THEN tx.slot ELSE None
    [] OTHER -> manifest

\* The steps that write the marker in place; a write that stops in the middle
\* leaves a state root without a readable marker.
Writing ==
  \/ Due("begin") \/ Due("recordSkill") \/ Due("recordState") \/ Due("recordAppData")
  \/ Due("recordLauncher") \/ Due("commit")
Torn(torn) ==
  /\ torn => Writing
  /\ mark' = IF torn THEN None ELSE mark
  /\ disk' = IF torn THEN disk \cup {"state"} ELSE disk

\* A fresh attempt uninstalls its plugin and is rolled back, unless the
\* uninstall fails too or there is no marker to roll back by; every other run
\* just ends.
Unwind(spent) ==
  /\ manifest' = Restored
  /\ outdated' = IF PutsBack THEN tx.outdated ELSE outdated
  /\ IF run.mode = "fresh" /\ ~Due("begin")
     THEN \/ /\ run' = IF mark' = None THEN Idle
                       ELSE [Run("rollback", <<>>) EXCEPT !.todo = DeepestFirst(mark.created)]
             /\ plugin' = IF run.plugged THEN [plugin EXCEPT ![active] = None] ELSE plugin
             /\ active' = IF run.plugged THEN None ELSE active
             /\ failures' = failures + spent
          \/ /\ run.plugged /\ failures + spent < MaxFailures
             /\ failures' = failures + spent + 1
             /\ run' = Idle /\ UNCHANGED <<plugin, active>>
     ELSE /\ run' = Idle
          /\ plugin' = IF Due("apply") THEN [plugin EXCEPT ![manifest] = run.old] ELSE plugin
          /\ failures' = failures + spent
          /\ UNCHANGED active
  /\ UNCHANGED <<backups, tx, release, owned, foreign, crashes>>

\* The steps whose outcome the installer does not look at.
Unchecked ==
  \/ Due("testAppData") \/ Due("recordSkill") \/ Due("recordState")
  \/ Due("recordAppData") \/ Due("recordLauncher")

Raise == run.steps # <<>> /\ ~Proven /\ Torn(FALSE) /\ Unwind(0)

Fail ==
  /\ run.steps # <<>> /\ failures < MaxFailures
  /\ ~Unchecked
  /\ (\E torn \in BOOLEAN : Torn(torn)) /\ Unwind(1)

Crash ==
  /\ run # Idle /\ crashes < MaxCrashes
  /\ crashes' = crashes + 1
  /\ run' = Idle
  /\ \E torn \in BOOLEAN : Torn(torn)
  /\ UNCHANGED <<manifest, outdated, plugin, active, backups, tx, release, owned,
                 foreign, failures>>

\* This attempt will take the application data root for its own: it found none
\* and records it next, it recorded it, or it is about to remove it.
Exposed ==
  \/ Due("recordAppData") /\ run.absent
  \/ mark # None /\ Recorded("appData")
  \/ \E i \in 1..Len(run.todo) : run.todo[i] = "appData"

\* The application data root is per user: the installer of another workspace
\* may make it at any moment at which there is none.
OtherWorkspace ==
  /\ "appData" \notin disk /\ foreign = "no"
  /\ disk' = disk \cup {"appData"}
  /\ foreign' = IF Exposed THEN "exposed" ELSE "spared"
  /\ UNCHANGED <<mark, manifest, outdated, plugin, active, backups, tx, run, release, owned,
                 crashes, failures>>

InstallerStep ==
  \/ Begin \/ TestAppData \/ RecordRoots \/ PlaceRoot \/ PrepareRollover \/ InstallPlugin \/ Bind
  \/ Confirm \/ Complete \/ Retire \/ Apply \/ UndoRoot \/ EndUndo \/ Classify

OwnershipNext ==
  \/ Preflight \/ StartRecovery \/ StartPlan \/ NextRelease
  \/ InstallerStep \/ RecordsFail \/ Raise \/ Fail \/ Crash \/ OtherWorkspace

OwnershipSpec ==
  /\ OwnershipInit /\ [][OwnershipNext]_ownershipVars
  /\ WF_ownershipVars(InstallerStep) /\ WF_ownershipVars(Raise) /\ WF_ownershipVars(Preflight)

(***************************************************************************)
(* Properties.                                                             *)
(***************************************************************************)
\* A crash at any point of a fresh attempt whose marker can be read leaves no
\* artifact the marker does not record: every root is recorded before it is made
\* (install.ps1:395).  Excepted are the roots whose record failed, because nobody
\* looks at its exit code, and the application data of another workspace.
ArtifactsAreJournalled ==
  run.mode = "fresh" /\ mark # None =>
    \A root \in disk : \/ root = "state" \/ Recorded(root) \/ root \in run.missed
                       \/ root = "appData" /\ foreign # "no"

\* The payload of the last completed installation survives every upgrade, crash
\* and failed step: as long as a manifest binds the workspace or a recovery could,
\* it is in a plugin slot or in the backup made before OpenClaw replaced it.
Bindable == manifest # None \/ (tx # None /\ mark # None /\ mark.state = "committed")
PriorGenerationIsKept ==
  owned # None /\ Bindable => owned \in backups \/ \E s \in Slots : plugin[s] = owned

\* Wherever an upgrade stopped, the installer accepts the workspace again for
\* the same candidate, unless OpenClaw kept the previous generation and one of
\* the two is direct or the manifest already binds the new one, or the manifest
\* is the previous version's and OpenClaw removed the plugin it binds.
UpgradeIsReentrant ==
  run = Idle /\ owned # None /\ manifest # None /\ ArtifactsExist =>
    \/ Classified(release) # "refused"
    \/ Cardinality(Candidates) > 1 /\ (Direct \in Candidates \/ manifest = active)
    \/ outdated /\ plugin[manifest] = None

\* A quarantined ownership manifest with a committed marker authorises nothing:
\* until it is recovered no root is removed and no plugin is touched.
QuarantineAuthorisesNothing ==
  [][(manifest = None /\ mark # None /\ mark.state = "committed")
       => disk \subseteq disk' /\ plugin' = plugin /\ mark' = mark]_ownershipVars

\* An upgrade that gives up behind its replaced manifest binds again what the last
\* completed installation had, if it is still there unchanged, and otherwise
\* nothing, whatever crashes, re-entries and upgrades came before.
GivenUpIsExact ==
  [][run.mode = "upgrade" /\ run' = Idle /\ manifest' # manifest
       => manifest' = IF plugin[tx.slot] = owned THEN tx.slot ELSE None]_ownershipVars

\* No undoing of a fresh attempt removes an application data root that another
\* workspace's installation made before this attempt looked for one, or when no
\* attempt had recorded it.  One made behind the record is lost to the rollback.
ForeignDataSurvives ==
  [][foreign = "spared" /\ "appData" \in disk => "appData" \in disk']_ownershipVars

\* An interrupted fresh attempt does not stay half made: rerunning the installer
\* ends in an owned installation or in a refusal that leaves the residue alone.
Residue == run = Idle /\ manifest = None /\ mark = None /\ Inventory # {}
FreshAttemptEnds ==
  (mark # None /\ mark.state = "incomplete" /\ manifest = None)
    ~> (manifest # None \/ Residue)

(* What the properties rest on: the place of a run in its program, and what *)
(* each place may rely on.                                                  *)
Remains(step) == \E i \in 1..Len(run.steps) : run.steps[i] = step
LastOf(q) == \E n \in 1..Len(q) : run.steps = SubSeq(q, n, Len(q))
RunFits ==
  /\ run.mode = "none" => run = Idle
  /\ run.mode \in {"classify", "rollback", "preflight"} => run.steps = <<>>
  /\ run.mode = "fresh" => LastOf(FreshSteps)
  /\ run.mode = "upgrade" => LastOf(UpgradeSteps) \/ LastOf(ExactSteps)
  /\ run.mode = "recover" => LastOf(RecoverSteps)
  /\ run.mode = "plan" => LastOf(PlanSteps)
  /\ run.mode \notin {"rollback", "preflight"} => run.todo = <<>>

(* A fresh attempt works on an empty workspace, under an incomplete marker  *)
(* that records what it is about to make.                                   *)
Shared(root) == root = "appData" /\ foreign # "no"
Covered(root) == Recorded(root) \/ root \in run.missed \/ Shared(root)
FreshFits ==
  run.mode = "fresh" =>
    /\ owned = None
    /\ Remains("begin") => mark = None /\ (\A root \in disk : Shared(root)) /\ run.missed = {}
    /\ ~Remains("begin") /\ mark # None =>
         /\ mark \in InstallMarkers /\ mark.state = "incomplete" /\ (mark.appPre => foreign # "no")
         /\ \A root \in disk : root = "state" \/ Covered(root)
         /\ Remains("recordSkill") \/ Covered("skill")
         /\ Remains("testAppData") \/ run.absent \/ foreign # "no"
         /\ Remains("recordAppData") \/ Covered("appData")
         /\ Remains("recordLauncher") \/ Covered("launcher")
    /\ Remains("begin") \/ "state" \in disk
    /\ Remains("testAppData") => ~run.absent /\ ("appData" \in disk => foreign # "no")
    /\ IF Remains("installPlugin") THEN ~run.plugged /\ Candidates = {} /\ active = None
       ELSE run.plugged /\ Candidates = {active}
    /\ Remains("create") => manifest = None
    /\ Remains("provision") \/ "appData" \in disk

(* Only an attempt that was not committed is undone.                        *)
UndoFits ==
  /\ run.mode \in {"rollback", "preflight"} => mark = None \/ mark.state = "incomplete"
  /\ run.mode = "rollback" => owned = None /\ Candidates = {} /\ active = None
  /\ run.mode = "preflight" => manifest = None

(* The application data root of another workspace is there and is neither   *)
(* recorded, nor to be recorded, nor to be removed.                         *)
ForeignFits == foreign = "spared" => "appData" \in disk /\ ~Exposed /\ ~(run.absent /\ Remains("recordAppData"))

(* The replacement is installed, the upgrade to it is not complete.         *)
Unfinished == active \in Slots /\ plugin[active] = release /\ owned # None /\ owned # release

(* Which slots are occupied: before the first installation is complete at   *)
(* most the candidate's; then the bound one and, while an upgrade is        *)
(* unfinished, the one that replaces it.  A managed generation of the       *)
(* previous version is not replaced.                                        *)
SlotsFit ==
  /\ \A s \in Projects : plugin[s] = 0 => Candidates = {s}
  /\ owned = None =>
       /\ release = 1 /\ tx = None
       /\ \/ Candidates = {} /\ active = None
          \/ active \in Slots /\ Candidates = {active} /\ plugin[active] = release
  /\ owned # None =>
       /\ active \in Slots /\ plugin[active] # None
       /\ \E s \in Slots : Candidates \subseteq {s, active}
       /\ manifest # None =>
            /\ \/ manifest = active /\ (Candidates = {active} \/ Unfinished)
               \/ Unfinished /\ Candidates \subseteq {manifest, active}
            /\ owned = release => plugin[manifest] = release
       /\ manifest = None /\ tx # None => Unfinished /\ Candidates \subseteq {tx.slot, active}

(* An upgrade has a bound generation to replace; it snapshots it before it  *)
(* is replaced, and remembers in the transaction what it replaces.          *)
UpgradeFits ==
  run.mode = "upgrade" =>
    /\ manifest # None
    /\ Remains("installPlugin") =>
         /\ owned \notin {None, release} /\ Candidates = {manifest} /\ active = manifest
         /\ ~Remains("prepare") => plugin[manifest] \in backups /\ Retirable(manifest)
    /\ Remains("finalize") /\ ~Remains("prepare") =>
         tx \in Transactions /\ tx.slot = manifest /\ tx.expected = release
    /\ Remains("confirm") /\ ~Remains("installPlugin") =>
         tx \in Transactions /\ Unfinished /\ Candidates \subseteq {tx.slot, active}
    /\ Remains("finalize") \/ (Direct \in Candidates => active = Direct)
    /\ Remains("provision") \/ "appData" \in disk

(* A recovery works on a quarantined upgrade.                               *)
RecoverFits ==
  run.mode = "recover" =>
    /\ mark \in InstallMarkers /\ mark.state = "committed" /\ "state" \in disk
    /\ tx \in Transactions /\ Unfinished /\ Candidates \subseteq {tx.slot, active}
    /\ manifest = IF Remains("restore") THEN None ELSE IF Remains("finalize") THEN tx.slot ELSE active

(* A plan retires the bound generation for the one that replaces it.        *)
PlanFits ==
  run.mode = "plan" =>
    /\ manifest \in Slots /\ manifest # active /\ owned # None
    /\ ~Remains("retire") => plugin[manifest] = None /\ run.old \in Releases

(* What a completed installation had is kept; a workspace that is undone    *)
(* with it is never worked on again.                                        *)
HasPrior == "appData" \in disk /\ (owned \in backups \/ \E s \in Slots : plugin[s] = owned)
Undone ==
  /\ manifest = None /\ (mark = None \/ mark.state = "incomplete")
  /\ run.mode \in {"none", "classify", "preflight"}
KeptFits == owned # None => HasPrior \/ Undone

(* The state invariants of ownership in one formula: every artifact of a fresh    *)
(* attempt is journalled before it is made, the generation an upgrade replaces is *)
(* kept until it is verified, and an interrupted upgrade can be resumed.          *)
OwnershipInv ==
    /\ OwnershipTypes
    /\ ArtifactsAreJournalled
    /\ PriorGenerationIsKept
    /\ UpgradeIsReentrant
    /\ RunFits
    /\ FreshFits
    /\ UndoFits
    /\ ForeignFits
    /\ SlotsFit
    /\ UpgradeFits
    /\ RecoverFits
    /\ PlanFits
    /\ KeptFits

==============================================================================
