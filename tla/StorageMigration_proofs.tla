----------------------- MODULE StorageMigration_proofs -----------------------
(***************************************************************************)
(* Proofs about StorageMigration, for any volumes, any number of nodes and *)
(* any bounds.                                                             *)
(***************************************************************************)
EXTENDS StorageMigration, TLAPS

\* prometheusReplicas is one or two: a Prometheus never gets a replica per node.
LEMMA DesiredType == DesiredPrometheus \in Replicas
  BY ConstantsAssumption DEF DesiredPrometheus, Replicas

\* Type correctness of the migration, the reconcile and the volumes.
THEOREM TypeCorrect == Spec => []TypeOK
<1>1. Init => TypeOK
  <2> SUFFICES ASSUME Init PROVE TypeOK
    OBVIOUS
  <2>1. status \in Status /\ mig \in MigLabel /\ rec \in RecLabel
    BY DEF Init, Status, MigLabel, RecLabel
  <2>2. /\ prometheus \in Replicas
        /\ onScaling \subseteq Volume /\ onRook \subseteq Volume
        /\ defaultClass \in {"scaling", "rook"}
    BY DesiredType DEF Init, Volume
  <2>3. /\ prometheusPaused \in BOOLEAN /\ kotsadmPaused \in BOOLEAN
        /\ scalingClass \in BOOLEAN /\ overtaken \in BOOLEAN
    BY DEF Init
  <2>4. rqliteScaled \in BOOLEAN
    BY DEF Init
  <2>5. QED
    BY <2>1, <2>2, <2>3, <2>4 DEF Init, TypeOK
<1>2. TypeOK /\ [Next]_vars => TypeOK'
  <2> SUFFICES ASSUME TypeOK, [Next]_vars PROVE TypeOK'
    OBVIOUS
  <2> USE DEF TypeOK, server, pauses, storage, classes, budget, Works, Fails, Finish, Goto
  <2>1. CASE Approve
    BY <2>1 DEF Approve
  <2>2. CASE MigrationStep
    <3>1. CASE Lock
      <4>1. waiting > 0 /\ waiting' = waiting - 1
        BY <3>1 DEF Lock
      <4>2. mig' \in MigLabel
        BY <3>1 DEF Lock, MigLabel
      <4>3. QED
        BY <3>1, <4>1, <4>2 DEF Lock
    <3>2. CASE CheckReady
      <4>1. mig' \in MigLabel /\ status' \in Status
        BY <3>2 DEF CheckReady, MigLabel, Status
      <4>2. failures' \in {failures, failures + 1} /\ crashes' = crashes
        BY <3>2 DEF CheckReady
      <4>3. prometheusPaused' \in BOOLEAN /\ kotsadmPaused' \in BOOLEAN
        BY <3>2 DEF CheckReady
      <4>4. UNCHANGED <<approvals, waiting, toCopy, rec, prometheus, rqliteScaled, storage>>
        BY <3>2 DEF CheckReady
      <4>5. QED
        BY <4>1, <4>2, <4>3, <4>4
    <3>3. CASE MigrateObjects
      <4>1. mig' \in MigLabel /\ status' \in Status
        BY <3>3 DEF MigrateObjects, MigLabel, Status
      <4>2. failures' \in {failures, failures + 1} /\ crashes' = crashes
        BY <3>3 DEF MigrateObjects
      <4>3. prometheusPaused' \in BOOLEAN /\ kotsadmPaused' \in BOOLEAN
        BY <3>3 DEF MigrateObjects
      <4>4. UNCHANGED <<approvals, waiting, toCopy, rec, prometheus, rqliteScaled, storage>>
        BY <3>3 DEF MigrateObjects
      <4>5. QED
        BY <4>1, <4>2, <4>3, <4>4
    <3>4. CASE ScaleDown
      <4>1. mig' \in MigLabel
        BY <3>4 DEF ScaleDown, MigLabel
      <4>2. prometheus' \in Replicas /\ failures' \in Nat /\ crashes' \in Nat
        BY <3>4 DEF ScaleDown, ScalePrometheus, Replicas
      <4>3. UNCHANGED <<server, pauses, toCopy, rec, rqliteScaled, storage>>
        BY <3>4 DEF ScaleDown
      <4>4. QED
        BY <4>1, <4>2, <4>3
    <3>5. CASE Validate
      <4>1. mig' \in MigLabel /\ status' \in Status
        BY <3>5 DEF Validate, MigLabel, Status
      <4>2. toCopy' \subseteq Volume /\ overtaken' \in BOOLEAN
        BY <3>5 DEF Validate
      <4>3. prometheusPaused' \in BOOLEAN /\ kotsadmPaused' \in BOOLEAN
        BY <3>5 DEF Validate
      <4>4. UNCHANGED <<approvals, waiting, rec, prometheus, rqliteScaled, onScaling, onRook,
                        scalingClass, defaultClass, budget>>
        BY <3>5 DEF Validate
      <4>5. QED
        BY <4>1, <4>2, <4>3, <4>4
    <3>6. CASE CopyVolume
      BY <3>6 DEF CopyVolume, MigLabel
    <3>7. CASE SetDefault
      BY <3>7 DEF SetDefault, MigLabel
    <3>8. CASE DeleteClass
      BY <3>8 DEF DeleteClass, MigLabel, Status
    <3>9. CASE ScaleUp
      <4>1. mig' \in MigLabel /\ status' \in Status
        BY <3>9 DEF ScaleUp, MigLabel, Status
      <4>2. prometheusPaused' \in BOOLEAN /\ kotsadmPaused' \in BOOLEAN
        BY <3>9 DEF ScaleUp
      <4>3. UNCHANGED <<approvals, waiting, toCopy, rec, rqliteScaled, storage>>
        BY <3>9 DEF ScaleUp
      <4>4. prometheus' \in Replicas /\ failures' \in Nat /\ crashes' \in Nat
        BY <3>9 DEF ScaleUp, ScalePrometheus, Replicas
      <4>5. QED
        BY <4>1, <4>2, <4>3, <4>4
    <3>10. QED
      BY <2>2, <3>1, <3>2, <3>3, <3>4, <3>5, <3>6, <3>7, <3>8, <3>9 DEF MigrationStep
  <2>3. CASE MigCallFails
    <3>1. mig' \in MigLabel /\ status' \in Status
      BY <2>3 DEF MigCallFails, MigLabel, Status
    <3>2. failures' \in Nat /\ crashes' \in Nat
      BY <2>3 DEF MigCallFails
    <3>3. prometheusPaused' \in BOOLEAN /\ kotsadmPaused' \in BOOLEAN
      BY <2>3 DEF MigCallFails
    <3>4. UNCHANGED <<approvals, waiting, toCopy, rec, prometheus, rqliteScaled, storage>>
      BY <2>3 DEF MigCallFails
    <3>5. QED
      BY <3>1, <3>2, <3>3, <3>4
  <2>4. CASE ReconcileStep
    <3>1. CASE CheckPrometheus
      BY <3>1 DEF CheckPrometheus, RecLabel
    <3>2. CASE ReconcilePrometheus
      <4>1. rec' \in RecLabel
        BY <3>2 DEF ReconcilePrometheus, RecLabel
      <4>2. prometheus' \in Replicas /\ failures' \in Nat /\ crashes' \in Nat
        BY <3>2, DesiredType DEF ReconcilePrometheus, ScalePrometheus
      <4>3. UNCHANGED <<server, mig, toCopy, pauses, rqliteScaled, storage>>
        BY <3>2 DEF ReconcilePrometheus
      <4>4. QED
        BY <4>1, <4>2, <4>3
    <3>3. CASE CheckKotsadm
      BY <3>3 DEF CheckKotsadm, RecLabel
    <3>4. CASE ScaleKotsadmRqlite
      <4>1. rec' \in RecLabel
        BY <3>4 DEF ScaleKotsadmRqlite, RecLabel
      <4>2. onScaling' \subseteq Volume /\ onRook' \subseteq Volume
        BY <3>4 DEF ScaleKotsadmRqlite, Volume
      <4>3. failures' \in Nat /\ crashes' \in Nat
        BY <3>4 DEF ScaleKotsadmRqlite
      <4>4. rqliteScaled' \in BOOLEAN
        BY <3>4 DEF ScaleKotsadmRqlite
      <4>5. UNCHANGED <<server, mig, toCopy, pauses, prometheus, classes>>
        BY <3>4 DEF ScaleKotsadmRqlite
      <4>6. QED
        BY <4>1, <4>2, <4>3, <4>4, <4>5
    <3>5. QED
      BY <2>4, <3>1, <3>2, <3>3, <3>4 DEF ReconcileStep
  <2>5. CASE Crash
    <3>1. mig' \in MigLabel /\ status' \in Status /\ rec' \in RecLabel
      BY <2>5 DEF Crash, MigLabel, RecLabel, Status
    <3>2. prometheusPaused' \in BOOLEAN /\ kotsadmPaused' \in BOOLEAN
      BY <2>5 DEF Crash
    <3>3. waiting' = 0 /\ crashes' = crashes + 1
      BY <2>5 DEF Crash
    <3>4. UNCHANGED <<approvals, toCopy, prometheus, rqliteScaled, storage, failures>>
      BY <2>5 DEF Crash
    <3>5. QED
      BY <3>1, <3>2, <3>3, <3>4
  <2>6. CASE UNCHANGED vars
    BY <2>6 DEF vars
  <2>7. QED
    BY <2>1, <2>2, <2>3, <2>4, <2>5, <2>6 DEF Next
<1>3. QED
  BY <1>1, <1>2, PTL DEF Spec

(* The pauses end with the migration.                                       *)

\* PausedOnlyByMigration for every run: no failure, retry or restart leaves the
\* operator with Prometheus or kotsadm paused.
THEOREM PausesEnd == Spec => []PausedOnlyByMigration
<1>1. Init => PausedOnlyByMigration
  BY DEF Init, PausedOnlyByMigration
<1>2. PausedOnlyByMigration /\ [Next]_vars => PausedOnlyByMigration'
  <2> SUFFICES ASSUME PausedOnlyByMigration, [Next]_vars PROVE PausedOnlyByMigration'
    OBVIOUS
  <2> USE DEF PausedOnlyByMigration, server, pauses, Finish, Goto
  <2>1. CASE Approve
    BY <2>1 DEF Approve
  <2>2. CASE MigrationStep
    BY <2>2 DEF MigrationStep, Lock, CheckReady, MigrateObjects, ScaleDown, Validate,
               CopyVolume, SetDefault, DeleteClass, ScaleUp
  <2>3. CASE MigCallFails
    BY <2>3 DEF MigCallFails
  <2>4. CASE ReconcileStep
    BY <2>4 DEF ReconcileStep, CheckPrometheus, ReconcilePrometheus, CheckKotsadm,
               ScaleKotsadmRqlite
  <2>5. CASE Crash
    BY <2>5 DEF Crash
  <2>6. CASE UNCHANGED vars
    BY <2>6 DEF vars
  <2>7. QED
    BY <2>1, <2>2, <2>3, <2>4, <2>5, <2>6 DEF Next
<1>3. QED
  BY <1>1, <1>2, PTL DEF Spec

PvcMigration == {"scaleDown", "validate", "copy", "setDefault", "deleteClass", "scaleUp"}

\* The places behind the listing of the volumes.
Listed == PvcMigration \ {"scaleDown", "validate"}

(* A completed migration has moved the volumes.                             *)

\* What makes CompletedMeansMoved inductive.  The default class is set behind the copy, and
\* the copy covers all that is on the old class: a claim that was not listed comes from a
\* reconcile that had looked at the pause before, for kotsadm is paused from the listing on.
EmptyClassInv ==
  /\ mig \in PvcMigration => kotsadmPaused
  /\ mig \in Listed /\ rec = "scaleRqlite" => overtaken
  /\ mig = "copy" => onScaling \subseteq toCopy \/ overtaken
  /\ mig \in {"setDefault", "deleteClass", "scaleUp"} => onScaling = {} \/ overtaken
  /\ mig \in {"deleteClass", "scaleUp"} => defaultClass = "rook"
  /\ status = "completed" => defaultClass = "rook"
  /\ defaultClass = "rook" => onScaling = {} \/ overtaken

\* EmptyClassInv holds in every run.
LEMMA EmptyClassInvariant == Spec => []EmptyClassInv
<1>1. Init => EmptyClassInv
  BY DEF Init, EmptyClassInv, PvcMigration, Listed
<1>2. EmptyClassInv /\ [Next]_vars => EmptyClassInv'
  <2> SUFFICES ASSUME EmptyClassInv, [Next]_vars PROVE EmptyClassInv'
    OBVIOUS
  <2> USE DEF EmptyClassInv, PvcMigration, Listed, server, pauses, storage, classes, Finish,
             Goto
  <2>1. CASE Approve
    BY <2>1 DEF Approve
  <2>2. CASE MigrationStep
    <3>1. CASE Lock
      BY <3>1 DEF Lock
    <3>2. CASE CheckReady
      BY <3>2 DEF CheckReady
    <3>3. CASE MigrateObjects
      BY <3>3 DEF MigrateObjects
    <3>4. CASE ScaleDown
      BY <3>4 DEF ScaleDown
    <3>5. CASE Validate
      BY <3>5 DEF Validate
    <3>6. CASE CopyVolume
      BY <3>6 DEF CopyVolume
    <3>7. CASE SetDefault
      BY <3>7 DEF SetDefault
    <3>8. CASE DeleteClass
      BY <3>8 DEF DeleteClass
    <3>9. CASE ScaleUp
      BY <3>9 DEF ScaleUp
    <3>10. QED
      BY <2>2, <3>1, <3>2, <3>3, <3>4, <3>5, <3>6, <3>7, <3>8, <3>9 DEF MigrationStep
  <2>3. CASE MigCallFails
    BY <2>3 DEF MigCallFails
  <2>4. CASE ReconcileStep
    <3>1. CASE CheckPrometheus
      BY <3>1 DEF CheckPrometheus
    <3>2. CASE ReconcilePrometheus
      BY <3>2 DEF ReconcilePrometheus
    <3>3. CASE CheckKotsadm
      BY <3>3 DEF CheckKotsadm
    <3>4. CASE ScaleKotsadmRqlite
      BY <3>4 DEF ScaleKotsadmRqlite
    <3>5. QED
      BY <2>4, <3>1, <3>2, <3>3, <3>4 DEF ReconcileStep
  <2>5. CASE Crash
    BY <2>5 DEF Crash
  <2>6. CASE UNCHANGED vars
    BY <2>6 DEF vars
  <2>7. QED
    BY <2>1, <2>2, <2>3, <2>4, <2>5, <2>6 DEF Next
<1>3. QED
  BY <1>1, <1>2, PTL DEF Spec

\* CompletedMeansMoved for every run: a status of "completed" means that every volume has
\* been moved, those that kotsadm-rqlite claims meanwhile too, whatever fails, is approved
\* again or is interrupted, and although the status is derived from a step that is not the
\* migration's last; but for a reconcile that had looked at the pause before it was set.
THEOREM CompletedMoved == Spec => []CompletedMeansMoved
<1>1. EmptyClassInv => CompletedMeansMoved
  BY DEF EmptyClassInv, CompletedMeansMoved, GetMigrationStatus
<1>2. QED
  BY <1>1, EmptyClassInvariant, PTL

(* The migration implements its interface.                                  *)

\* The status kept in memory is that of the migration's place, and a completed
\* migration has set the default class.
StatusFollows ==
  /\ mig \in {"idle", "ready"} => status \in Interface!Stopped \cup {"completed"}
  /\ mig = "objects" => status = "running object storage migration"
  /\ mig \in PvcMigration => status = "running pvc migration"
  /\ status = "completed" => defaultClass = "rook"
  /\ mig \in {"deleteClass", "scaleUp"} => defaultClass = "rook"

\* Each volume there was at the start is in one class; the copy has still to do those on
\* the old one.
VolumesPlaced ==
  /\ \A v \in Volumes : v \in onScaling <=> v \notin onRook
  /\ mig = "copy" => \A v \in Volumes : v \in toCopy <=> v \in onScaling
  /\ mig \in {"setDefault", "deleteClass", "scaleUp"} => onScaling \cap Volumes = {}
  /\ defaultClass = "rook" => onScaling \cap Volumes = {}

\* What the mapping of a step needs to know of the state it starts in.
InterfaceInv == StatusFollows /\ VolumesPlaced

\* InterfaceInv holds in every run: the new claims of kotsadm-rqlite are other volumes.
LEMMA InterfaceInvariant == Spec => []InterfaceInv
<1>1. Init => InterfaceInv
  BY DEF Init, InterfaceInv, StatusFollows, VolumesPlaced, PvcMigration, Interface!Stopped
<1>2. InterfaceInv /\ [Next]_vars => InterfaceInv'
  <2> SUFFICES ASSUME InterfaceInv, [Next]_vars PROVE StatusFollows' /\ VolumesPlaced'
    BY DEF InterfaceInv
  <2> USE DEF InterfaceInv, StatusFollows, VolumesPlaced, PvcMigration, Interface!Stopped,
             server, pauses, storage, classes, Finish, Goto
  <2>1. CASE Approve
    BY <2>1 DEF Approve
  <2>2. CASE MigrationStep
    <3>1. CASE Lock
      BY <3>1 DEF Lock
    <3>2. CASE CheckReady
      BY <3>2 DEF CheckReady
    <3>3. CASE MigrateObjects
      BY <3>3 DEF MigrateObjects
    <3>4. CASE ScaleDown
      BY <3>4 DEF ScaleDown
    <3>5. CASE Validate
      BY <3>5 DEF Validate
    <3>6. CASE CopyVolume
      BY <3>6 DEF CopyVolume
    <3>7. CASE SetDefault
      BY <3>7 DEF SetDefault
    <3>8. CASE DeleteClass
      BY <3>8 DEF DeleteClass
    <3>9. CASE ScaleUp
      BY <3>9 DEF ScaleUp
    <3>10. QED
      BY <2>2, <3>1, <3>2, <3>3, <3>4, <3>5, <3>6, <3>7, <3>8, <3>9 DEF MigrationStep
  <2>3. CASE MigCallFails
    BY <2>3 DEF MigCallFails
  <2>4. CASE ReconcileStep
    <3>1. CASE CheckPrometheus
      BY <3>1 DEF CheckPrometheus
    <3>2. CASE ReconcilePrometheus
      BY <3>2 DEF ReconcilePrometheus
    <3>3. CASE CheckKotsadm
      BY <3>3 DEF CheckKotsadm
    <3>4. CASE ScaleKotsadmRqlite
      <4>1. \A v \in Volumes : v \notin NewVolumes
        BY ConstantsAssumption
      <4>2. \A v \in Volumes : (v \in onScaling' <=> v \in onScaling)
                              /\ (v \in onRook' <=> v \in onRook)
        BY <3>4, <4>1 DEF ScaleKotsadmRqlite
      <4>3. UNCHANGED <<server, mig, toCopy, defaultClass>>
        BY <3>4 DEF ScaleKotsadmRqlite
      <4>4. QED
        BY <4>2, <4>3
    <3>5. QED
      BY <2>4, <3>1, <3>2, <3>3, <3>4 DEF ReconcileStep
  <2>5. CASE Crash
    BY <2>5 DEF Crash
  <2>6. CASE UNCHANGED vars
    BY <2>6 DEF vars
  <2>7. QED
    BY <2>1, <2>2, <2>3, <2>4, <2>5, <2>6 DEF Next
<1>3. QED
  BY <1>1, <1>2, PTL DEF Spec

\* The abstract step or stutter that each step of the migration is, in a state where
\* InterfaceInv holds.
LEMMA StepSimulation ==
  ASSUME InterfaceInv, [Next]_vars
  PROVE  [Interface!Next]_(Interface!vars)
<1> USE DEF GetMigrationStatus, Interface!vars, classes
<1>1. CASE Approve
  BY <1>1 DEF Approve, storage
<1>2. CASE Lock
  BY <1>2 DEF Lock, storage
<1>3. CASE CheckReady
  <2>1. CASE defaultClass = "rook"
    BY <1>3, <2>1 DEF CheckReady, storage
  <2>2. CASE defaultClass # "rook"
    <3>1. status \in Interface!Stopped
      BY <1>3, <2>2 DEF CheckReady, InterfaceInv, StatusFollows
    <3>2. Interface!Begin \/ Interface!Refuse
      BY <1>3, <2>2, <3>1 DEF CheckReady, storage, Interface!Begin, Interface!Refuse
    <3>3. QED
      BY <3>2 DEF Interface!Next
  <2>3. QED
    BY <2>1, <2>2
<1>4. CASE MigrateObjects
  <2>1. CASE defaultClass = "rook"
    BY <1>4, <2>1 DEF MigrateObjects, storage
  <2>2. CASE defaultClass # "rook"
    <3>1. status = "running object storage migration"
      BY <1>4 DEF MigrateObjects, InterfaceInv, StatusFollows
    <3>2. Interface!ObjectsMoved \/ Interface!Fail
      BY <1>4, <2>2, <3>1 DEF MigrateObjects, storage, Interface!ObjectsMoved,
         Interface!Fail, Interface!Running
    <3>3. QED
      BY <3>2 DEF Interface!Next
  <2>3. QED
    BY <2>1, <2>2
<1>5. CASE ScaleDown
  BY <1>5 DEF ScaleDown, Goto, server, storage
\* What fails while the volumes move, before the default class is set.
<1>6. ASSUME mig \in PvcMigration, Finish("failed"), UNCHANGED storage
      PROVE  [Interface!Next]_(Interface!vars)
  <2>1. CASE defaultClass = "rook"
    BY <1>6, <2>1 DEF storage
  <2>2. CASE defaultClass # "rook"
    <3>1. status = "running pvc migration"
      BY <1>6 DEF InterfaceInv, StatusFollows
    <3>2. Interface!Fail
      BY <1>6, <2>2, <3>1 DEF Finish, storage, Interface!Fail, Interface!Running
    <3>3. QED
      BY <3>2 DEF Interface!Next
  <2>3. QED
    BY <2>1, <2>2
<1>7. CASE Validate
  <2>1. CASE Finish("failed")
    <3>1. UNCHANGED storage
      BY <1>7, <2>1 DEF Validate, Finish, Goto, storage
    <3>2. QED
      BY <1>6, <1>7, <2>1, <3>1 DEF Validate, PvcMigration
  <2>2. CASE Goto("copy")
    BY <1>7, <2>2 DEF Validate, Goto, server, storage
  <2>3. QED
    BY <1>7, <2>1, <2>2 DEF Validate
<1>8. CASE CopyVolume
  <2>1. UNCHANGED <<status, defaultClass>>
    BY <1>8 DEF CopyVolume, server
  <2>2. ASSUME NEW v \in toCopy, v \in Volumes, onRook' = onRook \cup {v}
        PROVE  Interface!MoveVolume
    <3>1. v \in Volumes \ (onRook \cap Volumes) /\ defaultClass # "rook"
          /\ status = "running pvc migration"
      BY <1>8, <2>2 DEF CopyVolume, InterfaceInv, StatusFollows, VolumesPlaced, PvcMigration
    <3>2. onRook' \cap Volumes = (onRook \cap Volumes) \cup {v}
      BY <2>2
    <3>3. QED
      BY <2>1, <3>1, <3>2 DEF Interface!MoveVolume
  \* A claim that kotsadm-rqlite made before the listing moves with the others, unseen.
  <2>3. ASSUME NEW v \in toCopy, v \notin Volumes, onRook' = onRook \cup {v}
        PROVE  UNCHANGED Interface!vars
    <3>1. onRook' \cap Volumes = onRook \cap Volumes
      BY <2>3
    <3>2. QED
      BY <2>1, <3>1
  <2>4. CASE UNCHANGED onRook
    BY <2>1, <2>4
  <2>5. QED
    BY <1>8, <2>2, <2>3, <2>4 DEF CopyVolume, Interface!Next
<1>9. CASE SetDefault
  <2>1. CASE defaultClass = "rook"
    BY <1>9, <2>1 DEF SetDefault
  <2>2. CASE defaultClass # "rook"
    <3>1. status = "running pvc migration" /\ onRook \cap Volumes = Volumes
      BY <1>9 DEF SetDefault, InterfaceInv, StatusFollows, VolumesPlaced, PvcMigration
    <3>2. Interface!Complete
      BY <1>9, <2>2, <3>1 DEF SetDefault, Interface!Complete
    <3>3. QED
      BY <3>2 DEF Interface!Next
  <2>3. QED
    BY <2>1, <2>2
\* Behind SetDefault nothing shows any more.
<1>10. CASE DeleteClass
  BY <1>10 DEF DeleteClass, InterfaceInv, StatusFollows
<1>11. CASE ScaleUp
  BY <1>11 DEF ScaleUp, storage, InterfaceInv, StatusFollows
<1>12. CASE MigCallFails
  BY <1>6, <1>12 DEF MigCallFails, PvcMigration
<1>13. CASE ReconcileStep
  <2>1. CASE CheckPrometheus \/ ReconcilePrometheus \/ CheckKotsadm
    BY <2>1 DEF CheckPrometheus, ReconcilePrometheus, CheckKotsadm, server, storage
  <2>2. CASE ScaleKotsadmRqlite
    <3>1. onRook' \cap Volumes = onRook \cap Volumes
      BY <2>2, ConstantsAssumption DEF ScaleKotsadmRqlite
    <3>2. UNCHANGED <<status, defaultClass>>
      BY <2>2 DEF ScaleKotsadmRqlite, server
    <3>3. QED
      BY <3>1, <3>2
  <2>3. QED
    BY <1>13, <2>1, <2>2 DEF ReconcileStep
<1>14. CASE Crash
  <2>1. CASE defaultClass = "rook"
    BY <1>14, <2>1 DEF Crash, storage
  <2>2. CASE defaultClass # "rook"
    <3>1. status # "completed"
      BY <2>2 DEF InterfaceInv, StatusFollows
    <3>2. Interface!Restart
      BY <1>14, <2>2, <3>1 DEF Crash, storage, Interface!Restart
    <3>3. QED
      BY <3>2 DEF Interface!Next
  <2>3. QED
    BY <2>1, <2>2
<1>15. CASE UNCHANGED vars
  BY <1>15 DEF vars, server, storage
<1>16. QED
  BY <1>1, <1>2, <1>3, <1>4, <1>5, <1>7, <1>8, <1>9, <1>10, <1>11, <1>12, <1>13, <1>14, <1>15
     DEF Next, MigrationStep

\* Whoever polls the status sees the abstract migration, for any volumes and whatever
\* fails, is approved again or is interrupted, and whatever kotsadm-rqlite claims meanwhile:
\* volumes move only under "running pvc migration", and "completed" is final.
THEOREM InterfaceImplemented == Spec => ImplementsInterface
<1>1. Init => Interface!Init
  BY DEF Init, Interface!Init, GetMigrationStatus
<1>2. InterfaceInv /\ [Next]_vars => [Interface!Next]_(Interface!vars)
  BY StepSimulation
<1>3. Spec => []InterfaceInv
  BY InterfaceInvariant
<1>4. QED
  BY <1>1, <1>2, <1>3, PTL DEF Spec, ImplementsInterface, Interface!Spec
=============================================================================
