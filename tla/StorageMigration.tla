-------------------------- MODULE StorageMigration --------------------------
(***************************************************************************)
(* The storage migration as its HTTP interface shows it: approvals, the    *)
(* migration status, and the move of the persistent volumes from the       *)
(* storage class "scaling" to Rook's, during which the operator's reconcile*)
(* must leave Prometheus and kotsadm alone.  The object store's part,      *)
(* which comes first, is the module ObjectStoreMigration; here it is one   *)
(* step that succeeds or fails.                                            *)
(***************************************************************************)
EXTENDS Integers

CONSTANTS
  Volumes,         \* PVCs on "scaling" at the start
  NewVolumes,      \* PVCs that scaling kotsadm-rqlite up creates
  NumNodes,        \* len(nodes), all of them ready
  MaxApprovals, MaxFailures, MaxCrashes    \* bounds

Volume == Volumes \cup NewVolumes
Status == {"not started", "running object storage migration", "running pvc migration",
           "failed", "completed", "not ready"}
MigLabel == {"idle", "ready", "objects", "scaleDown", "validate", "copy", "setDefault",
             "deleteClass", "scaleUp"}
RecLabel == {"idle", "scalePrometheus", "kotsadm", "scaleRqlite"}
Replicas == 0 .. 2

ASSUME ConstantsAssumption ==
  /\ Volumes \cap NewVolumes = {}
  /\ NumNodes \in Nat \ {0}
  /\ MaxApprovals \in Nat /\ MaxFailures \in Nat /\ MaxCrashes \in Nat

VARIABLES
  status, approvals, waiting,
  mig, toCopy,               \* the goroutine holding migrateStorageMut
  prometheusPaused, kotsadmPaused,   \* pkg/ekcoops/overrides
  rec,                       \* the operator's reconcile
  prometheus,                \* spec.replicas of the Prometheus
  rqliteScaled,              \* kotsadm-rqlite runs its three replicas
  onScaling, onRook,         \* the PVCs by storage class
  scalingClass,              \* the StorageClass "scaling" exists
  defaultClass,
  overtaken,     \* history: volumes were listed with a reconcile past its look at the pause
  failures, crashes

server == <<status, approvals, waiting>>
pauses == <<prometheusPaused, kotsadmPaused>>
classes == <<scalingClass, defaultClass, overtaken>>
storage == <<onScaling, onRook, classes>>
budget == <<failures, crashes>>
vars == <<server, mig, toCopy, pauses, rec, prometheus, rqliteScaled, storage, budget>>

TypeOK ==
  /\ status \in Status /\ approvals \in Nat /\ waiting \in Nat
  /\ mig \in MigLabel /\ toCopy \subseteq Volume
  /\ prometheusPaused \in BOOLEAN /\ kotsadmPaused \in BOOLEAN
  /\ rec \in RecLabel /\ prometheus \in Replicas /\ rqliteScaled \in BOOLEAN
  /\ onScaling \subseteq Volume /\ onRook \subseteq Volume
  /\ scalingClass \in BOOLEAN /\ defaultClass \in {"scaling", "rook"}
  /\ overtaken \in BOOLEAN /\ failures \in Nat /\ crashes \in Nat

\* Seeded fault: one replica on every node.
DesiredPrometheusUnbounded == NumNodes

DesiredPrometheus == IF NumNodes < 2 THEN NumNodes ELSE 2

Init ==
  /\ status = "not started" /\ approvals = 0 /\ waiting = 0
  /\ mig = "idle" /\ toCopy = {}
  /\ prometheusPaused = FALSE /\ kotsadmPaused = FALSE
  /\ rec = "idle" /\ prometheus = DesiredPrometheus
  /\ rqliteScaled = (NewVolumes = {})
  /\ onScaling = Volumes /\ onRook = {}
  /\ scalingClass = TRUE /\ defaultClass = "scaling"
  /\ overtaken = FALSE /\ failures = 0 /\ crashes = 0

Fails == failures < MaxFailures /\ failures' = failures + 1 /\ UNCHANGED crashes
Works == UNCHANGED budget

\* GetMigrationStatus: the default class overrides the status kept in memory.
GetMigrationStatus == IF defaultClass = "rook" THEN "completed" ELSE status

-----------------------------------------------------------------------------
(* /storagemigration/approve and ObjectStorageAndPVCs.                     *)

Approve ==
  /\ approvals < MaxApprovals
  /\ approvals' = approvals + 1 /\ waiting' = waiting + 1
  /\ UNCHANGED <<status, mig, toCopy, pauses, rec, prometheus, rqliteScaled, storage, budget>>

Lock ==
  /\ mig = "idle" /\ waiting > 0
  /\ waiting' = waiting - 1
  /\ mig' = IF status = "completed" THEN "idle" ELSE "ready"
  /\ UNCHANGED <<status, approvals, toCopy, pauses, rec, prometheus, rqliteScaled, storage,
                 budget>>

\* IsMigrationReady: an error is a failed migration, a "no" is not.
CheckReady ==
  /\ mig = "ready"
  /\ \/ status' = "running object storage migration" /\ mig' = "objects" /\ Works
     \/ status' \in {"failed", "not ready"} /\ mig' = "idle" /\ Fails
  /\ UNCHANGED <<approvals, waiting, toCopy, pauses, rec, prometheus, rqliteScaled, storage>>

\* Seeded fault: the error is logged and the status left as it is.
MigrateObjectsLogsError ==
  /\ mig = "objects"
  /\ \/ /\ status' = "running pvc migration" /\ mig' = "scaleDown"
        /\ prometheusPaused' = TRUE /\ kotsadmPaused' = TRUE
        /\ Works
     \/ UNCHANGED status /\ mig' = "idle" /\ UNCHANGED pauses /\ Fails
  /\ UNCHANGED <<approvals, waiting, toCopy, rec, prometheus, rqliteScaled, storage>>

\* migrateObjectStorage; then migrateStorageClasses begins by setting the pauses.
MigrateObjects ==
  /\ mig = "objects"
  /\ \/ /\ status' = "running pvc migration" /\ mig' = "scaleDown"
        /\ prometheusPaused' = TRUE /\ kotsadmPaused' = TRUE
        /\ Works
     \/ status' = "failed" /\ mig' = "idle" /\ UNCHANGED pauses /\ Fails
  /\ UNCHANGED <<approvals, waiting, toCopy, rec, prometheus, rqliteScaled, storage>>

\* Seeded fault: only a migration that completes resumes.
FinishResumesOnSuccess(result) ==
  /\ mig' = "idle" /\ status' = result
  /\ prometheusPaused' = (result = "failed") /\ kotsadmPaused' = (result = "failed")
  /\ UNCHANGED <<approvals, waiting>>

\* migrateStorageClasses returns: both Resume calls are deferred.
Finish(result) ==
  /\ mig' = "idle" /\ status' = result
  /\ prometheusPaused' = FALSE /\ kotsadmPaused' = FALSE
  /\ UNCHANGED <<approvals, waiting>>

Goto(label) == mig' = label /\ UNCHANGED <<server, pauses>>

\* ScalePrometheus does nothing, and says so to nobody, when the Prometheus cannot be read.
ScalePrometheus(replicas) ==
  \/ prometheus' = replicas /\ Works
  \/ UNCHANGED prometheus /\ Fails

ScaleDown ==
  /\ mig = "scaleDown"
  /\ ScalePrometheus(0) /\ Goto("validate")
  /\ UNCHANGED <<toCopy, rec, rqliteScaled, storage>>

\* pvmigrate lists the volumes of the source class; without the class it may refuse.
Validate ==
  /\ mig = "validate"
  /\ \/ /\ Goto("copy") /\ toCopy' = onScaling
        /\ overtaken' = (overtaken \/ rec = "scaleRqlite")
     \/ ~scalingClass /\ Finish("failed") /\ UNCHANGED <<toCopy, overtaken>>
  /\ UNCHANGED <<rec, prometheus, rqliteScaled, onScaling, onRook, scalingClass, defaultClass,
                 budget>>

CopyVolume ==
  /\ mig = "copy"
  /\ \/ \E v \in toCopy :
          /\ onScaling' = onScaling \ {v} /\ onRook' = onRook \cup {v}
          /\ toCopy' = toCopy \ {v}
          /\ UNCHANGED mig
     \/ toCopy = {} /\ mig' = "setDefault" /\ UNCHANGED <<toCopy, onScaling, onRook>>
  /\ UNCHANGED <<server, pauses, rec, prometheus, rqliteScaled, classes, budget>>

\* Seeded fault: the default is set before the volumes are copied.
SetDefaultEarly ==
  /\ mig \in {"copy", "setDefault"}
  /\ defaultClass' = "rook"
  /\ UNCHANGED <<mig, server, pauses, toCopy, rec, prometheus, rqliteScaled, onScaling, onRook,
                 scalingClass, overtaken, budget>>

\* SetDefaults: the last thing pvmigrate does.
SetDefault ==
  /\ mig = "setDefault"
  /\ defaultClass' = "rook"
  /\ Goto("deleteClass")
  /\ UNCHANGED <<toCopy, rec, prometheus, rqliteScaled, onScaling, onRook, scalingClass,
                 overtaken, budget>>

\* NotFound is an error of this Delete.
DeleteClass ==
  /\ mig = "deleteClass"
  /\ scalingClass' = FALSE
  /\ IF scalingClass THEN Goto("scaleUp") ELSE Finish("failed")
  /\ UNCHANGED <<toCopy, rec, prometheus, rqliteScaled, onScaling, onRook, defaultClass,
                 overtaken, budget>>

ScaleUp ==
  /\ mig = "scaleUp"
  /\ ScalePrometheus(2) /\ Finish("completed")
  /\ UNCHANGED <<toCopy, rec, rqliteScaled, storage>>

MigCallFails ==
  /\ mig \in {"scaleDown", "validate", "copy", "setDefault", "deleteClass", "scaleUp"}
  /\ Finish("failed") /\ Fails
  /\ UNCHANGED <<toCopy, rec, prometheus, rqliteScaled, storage>>

MigrationStep ==
  \/ Lock \/ CheckReady \/ MigrateObjects \/ ScaleDown \/ Validate \/ CopyVolume
  \/ SetDefault \/ DeleteClass \/ ScaleUp

-----------------------------------------------------------------------------
(* The reconcile of the operator: Prometheus first, kotsadm last.  Each    *)
(* reads its pause flag, and writes later.                                 *)

CheckPrometheus ==
  /\ rec = "idle"
  /\ rec' = IF prometheusPaused THEN "kotsadm" ELSE "scalePrometheus"
  /\ UNCHANGED <<server, mig, toCopy, pauses, prometheus, rqliteScaled, storage, budget>>

ReconcilePrometheus ==
  /\ rec = "scalePrometheus"
  /\ ScalePrometheus(DesiredPrometheus) /\ rec' = "kotsadm"
  /\ UNCHANGED <<server, mig, toCopy, pauses, rqliteScaled, storage>>

\* Seeded fault: the pause is not looked at.
CheckKotsadmUnpaused ==
  /\ rec = "kotsadm"
  /\ rec' = IF NumNodes < 3 THEN "idle" ELSE "scaleRqlite"
  /\ UNCHANGED <<server, mig, toCopy, pauses, prometheus, rqliteScaled, storage, budget>>

CheckKotsadm ==
  /\ rec = "kotsadm"
  /\ rec' = IF kotsadmPaused \/ NumNodes < 3 THEN "idle" ELSE "scaleRqlite"
  /\ UNCHANGED <<server, mig, toCopy, pauses, prometheus, rqliteScaled, storage, budget>>

\* ScaleKotsadmRqlite; the statefulset's new claims take the default class.
ScaleKotsadmRqlite ==
  /\ rec = "scaleRqlite"
  /\ \/ /\ rqliteScaled' = TRUE /\ Works
        /\ LET created == IF rqliteScaled THEN {} ELSE NewVolumes
           IN IF defaultClass = "scaling"
                THEN onScaling' = onScaling \cup created /\ UNCHANGED onRook
                ELSE onRook' = onRook \cup created /\ UNCHANGED onScaling
     \/ UNCHANGED <<rqliteScaled, onScaling, onRook>> /\ Fails
  /\ rec' = "idle"
  /\ UNCHANGED <<server, mig, toCopy, pauses, prometheus, classes>>

ReconcileStep ==
  CheckPrometheus \/ ReconcilePrometheus \/ CheckKotsadm \/ ScaleKotsadmRqlite

\* A new operator pod: the status, the goroutines and the pauses are forgotten.
Crash ==
  /\ crashes < MaxCrashes /\ crashes' = crashes + 1
  /\ status' = "not started" /\ waiting' = 0 /\ mig' = "idle" /\ rec' = "idle"
  /\ prometheusPaused' = FALSE /\ kotsadmPaused' = FALSE
  /\ UNCHANGED <<approvals, toCopy, prometheus, rqliteScaled, storage, failures>>

Next == Approve \/ MigrationStep \/ MigCallFails \/ ReconcileStep \/ Crash

Spec == Init /\ [][Next]_vars

\* Poll ticks, and a goroutine that holds the mutex goes on.
FairSpec == Spec /\ WF_vars(MigrationStep) /\ WF_vars(ReconcileStep)

-----------------------------------------------------------------------------
(* Properties.                                                             *)

\* The operator manages Prometheus and kotsadm again whenever no migration is
\* moving volumes: every way out of migrateStorageClasses resumes both.
PausedOnlyByMigration ==
  prometheusPaused \/ kotsadmPaused =>
    mig \in {"scaleDown", "validate", "copy", "setDefault", "deleteClass", "scaleUp"}

\* Prometheus does not stay at the replicas a failed or interrupted migration left:
\* the reconcile brings it back.
PrometheusRestored == []<>(prometheus = DesiredPrometheus)

\* A migration that GetMigrationStatus reports as completed, which the default class
\* may tell before the migration has ended or after a restart has forgotten it
\* (storage.go:90), has left no volume on the old class, and none comes to it later: the
\* class that is deleted is "(empty)", as storage.go:341 says.  The exception is a reconcile
\* past its look at the pause when the volumes were listed, whose claims come too late.
CompletedMeansMoved == GetMigrationStatus = "completed" => onScaling = {} \/ overtaken

\* Whoever polls /storagemigration/status (storage.go:89) sees MigrationInterface:
\* its volumes, those there were at the start, move only while it says so, and "completed"
\* comes when all have moved and stays across retries and restarts.
Interface ==
  INSTANCE MigrationInterface WITH reported <- GetMigrationStatus, moved <- onRook \cap Volumes
ImplementsInterface == Interface!Spec

\* They do not poll for ever: a status that says "running" is left, whatever call fails
\* while the migration holds its mutex (storage.go:64 to 80).
RunningEnds == Interface!RunsEnd
=============================================================================
