--------------------- MODULE ObjectStoreMigration_proofs ---------------------
(***************************************************************************)
(* Proofs about ObjectStoreMigration, for any number of consumers and of   *)
(* reconcileMinio goroutines, and any bounds.                              *)
(***************************************************************************)
EXTENDS ObjectStoreMigration, TLAPS

\* A version stored in one bucket leaves the stores well formed.
LEMMA StoreUpdate ==
  ASSUME NEW d \in [Store -> [Consumer -> Version]], NEW s \in Store, NEW c \in Consumer,
         NEW v \in Version
  PROVE  [d EXCEPT ![s][c] = v] \in [Store -> [Consumer -> Version]]
  OBVIOUS

\* Copying a bucket, syncBucket, leaves the stores well formed.
LEMMA CopyType ==
  ASSUME data \in [Store -> [Consumer -> Version]], NEW from \in Store, NEW to \in Store,
         NEW c \in Consumer, CopyBucket(from, to, c)
  PROVE  data' \in [Store -> [Consumer -> Version]]
  BY StoreUpdate DEF CopyBucket

\* The service, when it leads somewhere, leads to a store.
LEMMA ServesStore == ASSUME NEW c \in Consumer, Serves(c) # None PROVE Serves(c) \in Store
<1>1. CASE endpoint[c] = "rook"
  BY <1>1 DEF Serves, Store
<1>2. CASE endpoint[c] # "rook" /\ service = "minio" /\ deployment
  BY <1>2 DEF Serves, Store
<1>3. CASE endpoint[c] # "rook" /\ service = "ha" /\ statefulset
  BY <1>3 DEF Serves, Store
<1>4. QED
  BY <1>1, <1>2, <1>3 DEF Serves

\* The operator starts in a well-typed state, its migration not started.
LEMMA InitTypes == Init => TypeOK
<1> SUFFICES ASSUME Init PROVE TypeOK
  OBVIOUS
<1>1. 0 \in Version /\ 1 \in 1 .. NumConsumers + 1
  BY ConstantsAssumption DEF Version
<1>2. /\ data \in [Store -> [Consumer -> Version]]
      /\ acked \in [Consumer -> Version]
      /\ endpoint \in [Consumer -> {"service", "rook"}]
  BY <1>1 DEF Init
<1>3. /\ rec \in [Reconcilers -> RecLabel]
      /\ recRevision \in [Reconcilers -> Nat]
      /\ recTodo \in [Reconcilers -> SUBSET Consumer]
  BY DEF Init, RecLabel
<1>4. service \in {"minio", "ha", "none"} /\ revision \in Nat
  BY DEF Init
<1>5. status \in Status /\ mig \in MigLabel /\ source \in Store
  BY DEF Init, Status, MigLabel, Store
<1>6. /\ namespace \in BOOLEAN /\ deployment \in BOOLEAN /\ statefulset \in BOOLEAN
      /\ paused \in BOOLEAN /\ approvals \in Nat
  <2>1. PICK k \in InitClusters : deployment = k[1] /\ statefulset = k[2] /\ approvals = k[3]
    BY DEF Init
  <2>2. k[1] \in BOOLEAN /\ k[2] \in BOOLEAN /\ k[3] \in Nat
    BY ConstantsAssumption
  <2>3. QED
    BY <2>1, <2>2 DEF Init
<1>7. QED
  BY <1>1, <1>2, <1>3, <1>4, <1>5, <1>6 DEF Init, TypeOK

\* Type correctness of the stores, the migration, the goroutines and the counters.
THEOREM TypeCorrect == Spec => []TypeOK
<1>1. Init => TypeOK
  BY InitTypes
<1>2. TypeOK /\ [Next]_vars => TypeOK'
  <2> SUFFICES ASSUME TypeOK, [Next]_vars PROVE TypeOK'
    OBVIOUS
  <2> USE ConstantsAssumption
  <2> USE DEF TypeOK, workloads, svc, clients, migration, reconcile, budget,
             Works, Fails, MigError, Return, Goto, SetService, CopyBucket
  <2>1. ASSUME NEW c \in Consumer, Write(c) PROVE TypeOK'
    <3>1. Serves(c) \in Store
      BY <2>1, ServesStore DEF Write
    <3>2. acked[c] + 1 \in Version
      BY <2>1 DEF Write, Version
    <3>3. data' \in [Store -> [Consumer -> Version]]
      BY <2>1, <3>1, <3>2, StoreUpdate DEF Write
    <3>4. acked' \in [Consumer -> Version]
      BY <2>1, <3>2 DEF Write
    <3>5. QED
      BY <2>1, <3>3, <3>4 DEF Write
  <2>2. CASE Approve
    BY <2>2 DEF Approve
  <2>3. CASE MigrationStep
    <3>1. CASE Start
      <4>1. waiting' \in Nat
        <5>1. waiting > 0 /\ waiting' = waiting - 1
          BY <3>1 DEF Start
        <5>2. QED
          BY <5>1
      <4>2. status' \in Status
        BY <3>1 DEF Start, Status
      <4>3. mig' \in MigLabel
        BY <3>1 DEF Start, MigLabel
      <4>4. failures' \in {failures, failures + 1} /\ crashes' = crashes
        BY <3>1 DEF Start
      <4>5. UNCHANGED <<workloads, svc, data, clients, paused, approvals, source, migTodo,
                        migNext, reconcile>>
        BY <3>1 DEF Start
      <4>6. QED
        BY <4>1, <4>2, <4>3, <4>4, <4>5
    <3>2. CASE InUse
      BY <3>2 DEF InUse, MigLabel
    <3>3. CASE FindPod
      BY <3>3 DEF FindPod, MigLabel, Status, Store
    <3>4. CASE DisableService
      BY <3>4 DEF DisableService, MigLabel
    <3>5. CASE SyncBucket
      <4>1. data' \in [Store -> [Consumer -> Version]]
        BY <3>5, CopyType DEF SyncBucket, Store
      <4>2. migTodo' \subseteq Consumer /\ source' \in Store
        BY <3>5 DEF SyncBucket
      <4>3. mig' \in MigLabel /\ status' \in Status
        BY <3>5 DEF SyncBucket, MigLabel, Status
      <4>4. paused' \in {paused, FALSE} /\ migNext' \in {migNext, 1}
        BY <3>5 DEF SyncBucket
      <4>5. approvals' \in Nat /\ waiting' \in Nat
        BY <3>5 DEF SyncBucket
      <4>6. UNCHANGED <<workloads, svc, clients, reconcile, budget>>
        BY <3>5 DEF SyncBucket
      <4>7. paused' \in BOOLEAN
        BY <4>4, Zenon
      <4>8. migNext' \in 1 .. NumConsumers + 1
        BY <4>4
      <4>9. QED
        BY <4>1, <4>2, <4>3, <4>5, <4>6, <4>7, <4>8
    <3>6. CASE UpdateConsumer
      <4>1. endpoint' \in [Consumer -> {"service", "rook"}]
        BY <3>6 DEF UpdateConsumer
      <4>2. migNext' \in 1 .. NumConsumers + 1
        BY <3>6 DEF UpdateConsumer, Consumer
      <4>3. mig' \in MigLabel /\ status' \in Status
        BY <3>6 DEF UpdateConsumer, MigLabel, Status
      <4>4. paused' \in BOOLEAN
        BY <3>6 DEF UpdateConsumer
      <4>5. failures' \in Nat /\ crashes' \in Nat
        BY <3>6 DEF UpdateConsumer
      <4>6. UNCHANGED <<workloads, svc, data, acked, reconcile, approvals, waiting, source,
                        migTodo>>
        BY <3>6 DEF UpdateConsumer
      <4>7. QED
        BY <4>1, <4>2, <4>3, <4>4, <4>5, <4>6
    <3>7. CASE DeleteStatefulSet
      BY <3>7 DEF DeleteStatefulSet, MigLabel
    <3>8. CASE DeleteDeployment
      BY <3>8 DEF DeleteDeployment, MigLabel
    <3>9. CASE DeleteNamespace
      <4>1. service' \in {"minio", "ha", "none"} /\ revision' \in Nat
        BY <3>9 DEF DeleteNamespace
      <4>2. mig' \in MigLabel
        BY <3>9 DEF DeleteNamespace, MigLabel
      <4>3. /\ namespace' \in BOOLEAN /\ deployment' \in BOOLEAN /\ statefulset' \in BOOLEAN
            /\ paused' \in BOOLEAN
        BY <3>9 DEF DeleteNamespace
      <4>4. QED
        BY <3>9, <4>1, <4>2, <4>3 DEF DeleteNamespace
    <3>10. CASE MigratePVCs
      <4>1. mig' \in MigLabel /\ status' \in Status
        BY <3>10 DEF MigratePVCs, MigLabel, Status
      <4>2. failures' \in Nat /\ crashes' \in Nat
        BY <3>10 DEF MigratePVCs
      <4>3. QED
        BY <3>10, <4>1, <4>2 DEF MigratePVCs
    <3>11. QED
      BY <2>3, <3>1, <3>2, <3>3, <3>4, <3>5, <3>6, <3>7, <3>8, <3>9, <3>10 DEF MigrationStep
  <2>4. CASE MigCallFails
    <3>1. mig' \in MigLabel /\ status' \in Status
      BY <2>4 DEF MigCallFails, MigLabel, Status
    <3>2. failures' \in Nat /\ crashes' \in Nat
      BY <2>4 DEF MigCallFails
    <3>3. paused' \in BOOLEAN
      BY <2>4 DEF MigCallFails
    <3>4. QED
      BY <2>4, <3>1, <3>2, <3>3 DEF MigCallFails
  <2>5. ASSUME NEW r \in Reconcilers, ReconcileStep(r) PROVE TypeOK'
    <3>1. CASE CheckPaused(r)
      BY <3>1 DEF CheckPaused, RecLabel
    <3>2. CASE TryLock(r)
      BY <3>2 DEF TryLock, RecLabel
    <3>3. CASE HAMinioExists(r)
      BY <3>3 DEF HAMinioExists, RecLabel
    <3>4. CASE CheckNodes(r)
      BY <3>4 DEF CheckNodes, RecLabel
    <3>5. CASE GetService(r)
      BY <3>5 DEF GetService, RecLabel
    <3>6. CASE PutService(r)
      BY <3>6 DEF PutService, RecLabel
    <3>7. CASE RecDisable(r)
      BY <3>7 DEF RecDisable, RecLabel
    <3>8. CASE RecSync(r)
      <4>1. data' \in [Store -> [Consumer -> Version]]
        BY <3>8, CopyType DEF RecSync, Store
      <4>2. recTodo' \in [Reconcilers -> SUBSET Consumer]
        BY <3>8 DEF RecSync
      <4>3. rec' \in [Reconcilers -> RecLabel] /\ minioMutex' \in Reconcilers \cup {None}
        BY <3>8 DEF RecSync, RecLabel
      <4>4. QED
        BY <3>8, <4>1, <4>2, <4>3 DEF RecSync
    <3>9. CASE RecEnable(r)
      BY <3>9 DEF RecEnable, RecLabel
    <3>10. CASE RecDeleteDeployment(r)
      BY <3>10 DEF RecDeleteDeployment, RecLabel
    <3>11. CASE RecDeletePVC(r)
      BY <3>11 DEF RecDeletePVC, RecLabel
    <3>12. CASE Rebalance(r)
      BY <3>12 DEF Rebalance, RecLabel
    <3>13. QED
      BY <2>5, <3>1, <3>2, <3>3, <3>4, <3>5, <3>6, <3>7, <3>8, <3>9, <3>10, <3>11, <3>12 DEF ReconcileStep
  <2>6. ASSUME NEW r \in Reconcilers, RecCallFails(r) PROVE TypeOK'
    BY <2>6 DEF RecCallFails, RecLabel
  <2>7. CASE Crash
    <3>1. rec' \in [Reconcilers -> RecLabel]
      BY <2>7 DEF Crash, RecLabel
    <3>2. mig' \in MigLabel /\ status' \in Status
      BY <2>7 DEF Crash, MigLabel, Status
    <3>3. paused' = FALSE /\ waiting' = 0 /\ crashes' = crashes + 1
      BY <2>7 DEF Crash
    <3>4. UNCHANGED <<workloads, svc, data, clients, approvals, source, migTodo, migNext,
                      recRevision, recTodo, failures>> /\ minioMutex' = None
      BY <2>7 DEF Crash
    <3>5. paused' \in BOOLEAN
      BY <3>3
    <3>6. QED
      BY <3>1, <3>2, <3>3, <3>4, <3>5
  <2>8. CASE UNCHANGED vars
    BY <2>8 DEF vars
  <2>9. QED
    BY <2>1, <2>2, <2>3, <2>4, <2>5, <2>6, <2>7, <2>8 DEF Next
<1>3. QED
  BY <1>1, <1>2, PTL DEF Spec

(* No consumer loses the store behind its configuration.                    *)

AllMoved == \A c \in Consumer : endpoint[c] = "rook"

\* What makes StoreBehindConsumer inductive: MinIO's workloads are deleted by the
\* migration when every consumer has moved, and the old deployment by a goroutine
\* that has seen ha-minio, which only that migration deletes.
StoreBehindInv ==
  /\ TypeOK
  /\ StoreBehindConsumer
  /\ mig = "update" => \A c \in Consumer : c < migNext => endpoint[c] = "rook"
  /\ mig \in {"delStatefulSet", "delDeployment", "delNamespace"} => AllMoved
  /\ \A r \in Reconcilers :
       rec[r] \notin {"idle", "tryLock", "exists"} => statefulset \/ AllMoved

\* StoreBehindConsumer for every run: whatever fails, is retried, interleaved or
\* interrupted, a consumer configured with the minio service has a MinIO behind it.
THEOREM StoreBehind == Spec => []StoreBehindConsumer
<1>1. Init => StoreBehindInv
  <2> SUFFICES ASSUME Init PROVE StoreBehindInv
    OBVIOUS
  <2>1. TypeOK
    BY InitTypes
  <2>2. QED
    BY <2>1, ConstantsAssumption DEF Init, StoreBehindInv, StoreBehindConsumer
<1>2. StoreBehindInv /\ TypeOK' /\ [Next]_vars => StoreBehindInv'
  <2> SUFFICES ASSUME StoreBehindInv, TypeOK', [Next]_vars PROVE StoreBehindInv'
    OBVIOUS
  <2> USE ConstantsAssumption
  <2> USE DEF StoreBehindInv, StoreBehindConsumer, AllMoved, TypeOK, Consumer,
             workloads, svc, clients, migration, reconcile, budget,
             Works, Fails, MigError, Return, Goto, SetService, CopyBucket
  <2>1. ASSUME NEW c \in Consumer, Write(c) PROVE StoreBehindInv'
    BY <2>1 DEF Write
  <2>2. CASE Approve
    BY <2>2 DEF Approve
  <2>3. CASE MigrationStep
    <3>1. CASE Start
      BY <3>1 DEF Start
    <3>2. CASE InUse
      BY <3>2 DEF InUse
    <3>3. CASE FindPod
      BY <3>3 DEF FindPod
    <3>4. CASE DisableService
      BY <3>4 DEF DisableService
    <3>5. CASE SyncBucket
      BY <3>5 DEF SyncBucket
    <3>6. CASE UpdateConsumer
      BY <3>6 DEF UpdateConsumer
    <3>7. CASE DeleteStatefulSet
      BY <3>7 DEF DeleteStatefulSet
    <3>8. CASE DeleteDeployment
      BY <3>8 DEF DeleteDeployment
    <3>9. CASE DeleteNamespace
      BY <3>9 DEF DeleteNamespace
    <3>10. CASE MigratePVCs
      BY <3>10 DEF MigratePVCs
    <3>11. QED
      BY <2>3, <3>1, <3>2, <3>3, <3>4, <3>5, <3>6, <3>7, <3>8, <3>9, <3>10 DEF MigrationStep
  <2>4. CASE MigCallFails
    BY <2>4 DEF MigCallFails
  <2>5. ASSUME NEW r \in Reconcilers, ReconcileStep(r) PROVE StoreBehindInv'
    <3>1. CASE CheckPaused(r)
      BY <3>1 DEF CheckPaused
    <3>2. CASE TryLock(r)
      BY <3>2 DEF TryLock
    <3>3. CASE HAMinioExists(r)
      BY <3>3 DEF HAMinioExists
    <3>4. CASE CheckNodes(r)
      BY <3>4 DEF CheckNodes
    <3>5. CASE GetService(r)
      BY <3>5 DEF GetService
    <3>6. CASE PutService(r)
      BY <3>6 DEF PutService
    <3>7. CASE RecDisable(r)
      BY <3>7 DEF RecDisable
    <3>8. CASE RecSync(r)
      BY <3>8 DEF RecSync
    <3>9. CASE RecEnable(r)
      BY <3>9 DEF RecEnable
    <3>10. CASE RecDeleteDeployment(r)
      BY <3>10 DEF RecDeleteDeployment
    <3>11. CASE RecDeletePVC(r)
      BY <3>11 DEF RecDeletePVC
    <3>12. CASE Rebalance(r)
      BY <3>12 DEF Rebalance
    <3>13. QED
      BY <2>5, <3>1, <3>2, <3>3, <3>4, <3>5, <3>6, <3>7, <3>8, <3>9, <3>10, <3>11, <3>12 DEF ReconcileStep
  <2>6. ASSUME NEW r \in Reconcilers, RecCallFails(r) PROVE StoreBehindInv'
    BY <2>6 DEF RecCallFails
  <2>7. CASE Crash
    BY <2>7 DEF Crash
  <2>8. CASE UNCHANGED vars
    BY <2>8 DEF vars
  <2>9. QED
    BY <2>1, <2>2, <2>3, <2>4, <2>5, <2>6, <2>7, <2>8 DEF Next
<1>3. StoreBehindInv => StoreBehindConsumer
  BY DEF StoreBehindInv
<1>4. QED
  BY <1>1, <1>2, <1>3, TypeCorrect, PTL DEF Spec

(* The service that the migration disabled stays so.                        *)

\* The migration has paused MinIO.
MovesMinIO == {"findPod", "disable", "sync", "update",
               "delStatefulSet", "delDeployment", "delNamespace"}

\* A goroutine that does not enable the service any more before it has looked at the pause
\* flag again: the resourceVersion that it read, if it is about to write, is an old one.
Harmless(r) ==
  \/ rec[r] \in {"idle", "rebalance", "delDeployment", "delPVC"}
  \/ rec[r] = "putService" /\ recRevision[r] < revision

\* What makes DisabledDuringMigration inductive.
DisabledInv ==
  /\ TypeOK
  /\ mig \in MovesMinIO => paused
  /\ \A r \in Reconcilers : recRevision[r] <= revision
  /\ mig \in {"sync", "update"} => \A r \in Reconcilers \ overtaking : Harmless(r)
  /\ DisabledDuringMigration

\* Disabling the service makes every resourceVersion old that was read while it led
\* somewhere; who could still enable it then is noted.
LEMMA DisableLeavesHarmless ==
  ASSUME DisabledInv, DisableService
  PROVE  DisabledInv' \/ ~TypeOK'
<1> SUFFICES ASSUME TypeOK' PROVE DisabledInv'
  OBVIOUS
<1>1. /\ service' = "none" /\ overtaking' = {r \in Reconcilers : MayEnable(r)}
      /\ revision' = IF service = "none" THEN revision ELSE revision + 1
      /\ mig = "disable" /\ mig' = "sync" /\ paused' = paused
      /\ rec' = rec /\ recRevision' = recRevision
  BY DEF DisableService, SetService, reconcile
<1>2. revision \in Nat /\ recRevision \in [Reconcilers -> Nat] /\ rec \in [Reconcilers -> RecLabel]
  BY DEF DisabledInv, TypeOK
<1>3. \A r \in Reconcilers : recRevision[r] <= revision /\ recRevision'[r] <= revision'
  BY <1>1, <1>2 DEF DisabledInv
<1>4. ASSUME NEW r \in Reconcilers, r \notin overtaking' PROVE Harmless(r)'
  <2>1. ~MayEnable(r)
    BY <1>1, <1>4
  <2>2. rec[r] \in {"idle", "rebalance", "delDeployment", "delPVC", "putService"}
    BY <1>2, <2>1 DEF MayEnable, RecLabel
  <2>3. CASE rec[r] = "putService"
    <3>1. service # "none" \/ recRevision[r] # revision
      BY <2>1, <2>3 DEF MayEnable
    <3>2. recRevision[r] \in Nat /\ recRevision[r] <= revision
      BY <1>2, <1>3
    <3>3. recRevision'[r] < revision'
      BY <1>1, <1>2, <3>1, <3>2
    <3>4. QED
      BY <1>1, <2>3, <3>3 DEF Harmless
  <2>4. QED
    BY <1>1, <2>2, <2>3 DEF Harmless
<1>5. paused'
  BY <1>1 DEF DisabledInv, MovesMinIO
<1>6. DisabledDuringMigration'
  BY <1>1 DEF DisabledDuringMigration
<1>7. QED
  BY <1>3, <1>4, <1>5, <1>6 DEF DisabledInv

\* A goroutine that is harmless stays so and leaves a disabled service alone, while MinIO is
\* paused.
LEMMA HarmlessStays ==
  ASSUME DisabledInv, paused, NEW r \in Reconcilers, Harmless(r),
         ReconcileStep(r) \/ RecCallFails(r)
  PROVE  /\ rec'[r] \in {"idle", "rebalance", "delDeployment", "delPVC"}
         /\ service' = service
<1>1. rec \in [Reconcilers -> RecLabel] /\ revision \in Nat /\ recRevision \in [Reconcilers -> Nat]
  BY DEF DisabledInv, TypeOK
<1>2. CASE RecCallFails(r)
  BY <1>1, <1>2 DEF RecCallFails, Return, svc
<1>3. CASE PutService(r)
  <2>1. rec[r] = "putService" /\ recRevision[r] < revision
    BY <1>3 DEF PutService, Harmless
  <2>2. revision # recRevision[r]
    BY <1>1, <2>1
  <2>3. QED
    BY <1>1, <1>3, <2>2 DEF PutService, Return
<1>4. CASE RecDeleteDeployment(r) \/ RecDeletePVC(r) \/ Rebalance(r)
  BY <1>1, <1>4 DEF RecDeleteDeployment, RecDeletePVC, Rebalance, Return, Goto, svc
<1>5. CASE CheckPaused(r)
  BY <1>5 DEF CheckPaused
<1>6. CASE \/ TryLock(r) \/ HAMinioExists(r) \/ CheckNodes(r) \/ GetService(r) \/ RecDisable(r)
           \/ RecSync(r) \/ RecEnable(r)
  BY <1>6 DEF Harmless, TryLock, HAMinioExists, CheckNodes, GetService, RecDisable, RecSync, RecEnable
<1>7. QED
  BY <1>2, <1>3, <1>4, <1>5, <1>6 DEF ReconcileStep

\* What a goroutine leaves alone: the other ones, the migration and what it noted; and a
\* resourceVersion only grows.
LEMMA ReconcilerAlone ==
  ASSUME TypeOK, NEW r \in Reconcilers, ReconcileStep(r) \/ RecCallFails(r),
         \A q \in Reconcilers : recRevision[q] <= revision
  PROVE  /\ mig' = mig /\ paused' = paused /\ overtaking' = overtaking
         /\ revision' \in {revision, revision + 1}
         /\ \A q \in Reconcilers : q # r => rec'[q] = rec[q] /\ recRevision'[q] = recRevision[q]
         /\ recRevision'[r] <= revision'
<1>1. rec \in [Reconcilers -> RecLabel] /\ revision \in Nat /\ recRevision \in [Reconcilers -> Nat]
  BY DEF TypeOK
<1> USE DEF workloads, svc, clients, migration, reconcile, budget, Return, Goto, SetService
<1>2. CASE RecCallFails(r)
  BY <1>1, <1>2 DEF RecCallFails
<1>3. CASE CheckPaused(r) \/ TryLock(r) \/ HAMinioExists(r) \/ CheckNodes(r)
  BY <1>1, <1>3 DEF CheckPaused, TryLock, HAMinioExists, CheckNodes
<1>4. CASE GetService(r)
  BY <1>1, <1>4 DEF GetService
<1>5. CASE PutService(r)
  BY <1>1, <1>5 DEF PutService
<1>6. CASE RecDisable(r)
  BY <1>1, <1>6 DEF RecDisable
<1>7. CASE RecSync(r)
  BY <1>1, <1>7 DEF RecSync
<1>8. CASE RecEnable(r)
  BY <1>1, <1>8 DEF RecEnable
<1>9. CASE RecDeleteDeployment(r) \/ RecDeletePVC(r) \/ Rebalance(r)
  BY <1>1, <1>9 DEF RecDeleteDeployment, RecDeletePVC, Rebalance
<1>10. QED
  BY <1>2, <1>3, <1>4, <1>5, <1>6, <1>7, <1>8, <1>9 DEF ReconcileStep

\* A step of a goroutine.
LEMMA ReconcilerKeepsDisabled ==
  ASSUME DisabledInv, TypeOK', NEW r \in Reconcilers, ReconcileStep(r) \/ RecCallFails(r)
  PROVE  DisabledInv'
<1>1. /\ mig' = mig /\ paused' = paused /\ overtaking' = overtaking
      /\ revision' \in {revision, revision + 1}
      /\ \A q \in Reconcilers : q # r => rec'[q] = rec[q] /\ recRevision'[q] = recRevision[q]
      /\ recRevision'[r] <= revision'
  BY ReconcilerAlone DEF DisabledInv
<1>2. revision \in Nat /\ recRevision \in [Reconcilers -> Nat]
      /\ \A q \in Reconcilers : recRevision[q] <= revision
  BY DEF DisabledInv, TypeOK
<1>3. \A q \in Reconcilers : recRevision'[q] <= revision'
  <2>1. TAKE q \in Reconcilers
  <2>2. recRevision[q] \in Nat /\ recRevision[q] <= revision
    BY <1>2
  <2>3. QED
    BY <1>1, <1>2, <2>2
<1>4. ASSUME mig \in {"sync", "update"}
      PROVE  DisabledDuringMigration' /\ \A q \in Reconcilers \ overtaking' : Harmless(q)'
  <2>1. paused /\ \A q \in Reconcilers \ overtaking : Harmless(q)
    BY <1>4 DEF DisabledInv, MovesMinIO
  <2>2. ASSUME NEW q \in Reconcilers \ overtaking, q # r PROVE Harmless(q)'
    <3>1. recRevision[q] \in Nat /\ Harmless(q)
      BY <1>2, <2>1
    <3>2. rec'[q] = rec[q] /\ recRevision'[q] = recRevision[q]
      BY <1>1, <2>2
    <3>3. QED
      BY <1>1, <1>2, <3>1, <3>2 DEF Harmless
  <2>3. r \notin overtaking => Harmless(r)' /\ service' = service
    BY <2>1, HarmlessStays DEF Harmless
  <2>4. service = "none" \/ overtaking # {}
    BY <1>4 DEF DisabledInv, DisabledDuringMigration
  <2>5. DisabledDuringMigration'
    BY <1>1, <2>3, <2>4 DEF DisabledDuringMigration
  <2>6. QED
    BY <1>1, <2>2, <2>3, <2>5
<1>5. mig \notin {"sync", "update"} => DisabledDuringMigration'
  BY <1>1 DEF DisabledDuringMigration
<1>6. QED
  BY <1>1, <1>3, <1>4, <1>5 DEF DisabledInv

\* A step that leaves the goroutines and the service alone, or makes its version newer once
\* the consumers have moved.
LEMMA OthersKeepDisabled ==
  ASSUME DisabledInv, TypeOK', UNCHANGED <<rec, recRevision, overtaking>>,
         revision' \in {revision, revision + 1},
         mig' \in MovesMinIO => paused',
         mig' \in {"sync", "update"} => mig \in {"sync", "update"} /\ UNCHANGED <<service, revision>>
  PROVE  DisabledInv'
<1>1. revision \in Nat /\ recRevision \in [Reconcilers -> Nat]
      /\ \A q \in Reconcilers : recRevision[q] <= revision
  BY DEF DisabledInv, TypeOK
<1>2. \A q \in Reconcilers : recRevision'[q] <= revision'
  <2>1. TAKE q \in Reconcilers
  <2>2. recRevision[q] \in Nat /\ recRevision[q] <= revision
    BY <1>1
  <2>3. QED
    BY <1>1, <2>2
<1>3. DisabledDuringMigration'
  BY DEF DisabledInv, DisabledDuringMigration
<1>4. mig' \in {"sync", "update"} => \A r \in Reconcilers \ overtaking' : Harmless(r)'
  BY DEF DisabledInv, Harmless
<1>5. QED
  BY <1>2, <1>3, <1>4 DEF DisabledInv

\* One step.
LEMMA DisabledStep == DisabledInv /\ TypeOK' /\ [Next]_vars => DisabledInv'
<1> SUFFICES ASSUME DisabledInv, TypeOK', [Next]_vars PROVE DisabledInv'
  OBVIOUS
<1>0. mig \in MovesMinIO => paused
  BY DEF DisabledInv
<1> USE DEF workloads, svc, clients, migration, reconcile, budget
<1>1. ASSUME NEW c \in Consumer, Write(c) PROVE DisabledInv'
  BY <1>0, <1>1, OthersKeepDisabled DEF Write
<1>2. CASE Approve
  BY <1>0, <1>2, OthersKeepDisabled DEF Approve
<1>3. CASE MigrationStep
  <2>1. CASE DisableService
    BY <2>1, DisableLeavesHarmless
  <2>2. CASE Start \/ InUse \/ FindPod
    BY <1>0, <2>2, OthersKeepDisabled DEF Start, InUse, FindPod, MigError, MovesMinIO
  <2>3. CASE SyncBucket \/ UpdateConsumer
    BY <1>0, <2>3, OthersKeepDisabled DEF SyncBucket, UpdateConsumer, MigError, MovesMinIO
  <2>4. CASE DeleteStatefulSet \/ DeleteDeployment \/ MigratePVCs
    BY <1>0, <2>4, OthersKeepDisabled DEF DeleteStatefulSet, DeleteDeployment, MigratePVCs, MovesMinIO
  <2>5. CASE DeleteNamespace
    BY <1>0, <2>5, OthersKeepDisabled DEF DeleteNamespace, SetService, MovesMinIO
  <2>6. QED
    BY <1>3, <2>1, <2>2, <2>3, <2>4, <2>5 DEF MigrationStep
<1>4. CASE MigCallFails
  BY <1>0, <1>4, OthersKeepDisabled DEF MigCallFails, MigError, MovesMinIO
<1>5. ASSUME NEW r \in Reconcilers, ReconcileStep(r) PROVE DisabledInv'
  BY <1>5, ReconcilerKeepsDisabled
<1>6. ASSUME NEW r \in Reconcilers, RecCallFails(r) PROVE DisabledInv'
  BY <1>6, ReconcilerKeepsDisabled
<1>7. CASE Crash
  BY <1>7 DEF Crash, DisabledInv, DisabledDuringMigration, MovesMinIO
<1>8. CASE UNCHANGED vars
  BY <1>0, <1>8, OthersKeepDisabled DEF vars
<1>9. QED
  BY <1>1, <1>2, <1>3, <1>4, <1>5, <1>6, <1>7, <1>8 DEF Next

\* DisabledDuringMigration for any consumers, goroutines, clusters, failures and restarts:
\* only a goroutine that was past its look at the pause flag when the service was disabled,
\* and had no old resourceVersion, may enable it under the migration.
THEOREM ServiceDisabled == Spec => []DisabledDuringMigration
<1>1. Init => DisabledInv
  <2> SUFFICES ASSUME Init PROVE DisabledInv
    OBVIOUS
  <2>1. mig = "idle"
    BY DEF Init
  <2>2. recRevision = [r \in Reconcilers |-> 0] /\ revision = 0
    BY DEF Init
  <2>3. \A r \in Reconcilers : recRevision[r] <= revision
    BY <2>2
  <2>4. QED
    BY <2>1, <2>3, InitTypes DEF DisabledInv, DisabledDuringMigration, MovesMinIO
<1>2. DisabledInv /\ TypeOK' /\ [Next]_vars => DisabledInv'
  BY DisabledStep
<1>3. DisabledInv => DisabledDuringMigration
  BY DEF DisabledInv
<1>4. QED
  BY <1>1, <1>2, <1>3, TypeCorrect, PTL DEF Spec

(* One move of the store at a time.                                         *)

\* A cluster has a single MinIO, which only the migration moves, or ha-minio and
\* no approval to come.
OneMoveOnly == \A k \in InitClusters : ~k[2] \/ k[3] >= MaxApprovals

\* The clusters the two procedures leave to each other, at any time.
OnlyMigration == ~statefulset /\ \A r \in Reconcilers : rec[r] \in {"idle", "tryLock", "exists"}
OnlyReconcile == mig = "idle" /\ waiting = 0 /\ approvals >= MaxApprovals

(* The buckets are moved whole when no call fails and the operator stays up. *)

UpToDate(s) == \A c \in Consumer : data[s][c] = acked[c]
AllOnService == \A c \in Consumer : endpoint[c] = "service"

NotMoved == mig \in {"inUse", "findPod", "disable"} \/ (mig = "idle" /\ status = "not started")
Moved == \/ mig \in {"delStatefulSet", "delDeployment", "delNamespace", "pvcs"}
         \/ mig = "idle" /\ status = "completed"

\* The migration to Rook: MinIO holds the last writes until the service is disabled,
\* then nobody writes until the consumers, one by one, find their copies in Rook.
MigrationMoves ==
  /\ mig = "idle" => status \in {"not started", "completed"}
  /\ NotMoved => namespace /\ deployment /\ service = "minio" /\ UpToDate("minio") /\ AllOnService
  /\ mig = "disable" => source = "minio"
  /\ mig = "sync" => /\ deployment /\ source = "minio" /\ service = "none"
                     /\ UpToDate("minio") /\ AllOnService
                     /\ \A c \in Consumer \ migTodo : data["rook"][c] = acked[c]
  /\ mig = "update" => /\ service = "none" /\ UpToDate("rook")
                       /\ \A c \in Consumer : c < migNext => endpoint[c] = "rook"
  /\ Moved => UpToDate("rook") /\ AllMoved

\* A goroutine of reconcileMinio at work holds the mutex, so there is one.
MinioMutexHeld ==
  \A r \in Reconcilers : rec[r] \notin {"idle", "tryLock"} => minioMutex = r

Moving(r) == rec[r] \in {"sync", "enable", "delDeployment"}

\* The move to ha-minio, by the goroutine that holds the mutex: the deployment holds
\* the last writes, then nobody writes, then ha-minio holds them for good.
ReconcileMoves ==
  /\ namespace /\ statefulset /\ AllOnService /\ MinioMutexHeld
  /\ deployment /\ (\A r \in Reconcilers : ~Moving(r)) => service = "minio" /\ UpToDate("minio")
  /\ ~deployment => service = "ha" /\ UpToDate("ha")
  /\ \A r \in Reconcilers :
       /\ Moving(r) \/ rec[r] = "disable" => deployment
       /\ rec[r] = "sync" => /\ service = "none" /\ UpToDate("minio")
                             /\ \A c \in Consumer \ recTodo[r] : data["ha"][c] = acked[c]
       /\ rec[r] = "enable" => service = "none" /\ UpToDate("ha")
       /\ rec[r] = "delDeployment" => service = "ha" /\ UpToDate("ha")
       /\ rec[r] = "getService" => ~deployment
       /\ rec[r] # "putService"

\* What makes LastWriteServed inductive: who moves the store, and how far he is.
MoveInv ==
  /\ TypeOK
  /\ (OnlyMigration /\ MigrationMoves) \/ (OnlyReconcile /\ ReconcileMoves)

\* Without ha-minio, reconcileMinio returns before it writes anything, at every tick.
LEMMA OnlyMigrationStays == TypeOK /\ OnlyMigration /\ [Next]_vars => OnlyMigration'
<1> SUFFICES ASSUME TypeOK, OnlyMigration, [Next]_vars PROVE OnlyMigration'
  OBVIOUS
<1> USE DEF TypeOK, OnlyMigration, workloads, svc, clients, migration, reconcile, budget,
           Works, Fails, MigError, Return, Goto
<1>1. ASSUME NEW c \in Consumer, Write(c) PROVE OnlyMigration'
  BY <1>1 DEF Write
<1>2. CASE Approve
  BY <1>2 DEF Approve
<1>3. CASE MigrationStep
  <2>1. statefulset' \in {statefulset, FALSE}
    BY <1>3 DEF MigrationStep, Start, InUse, FindPod, DisableService, SyncBucket,
                UpdateConsumer, DeleteStatefulSet, DeleteDeployment, DeleteNamespace, MigratePVCs
  <2>2. rec' = rec
    BY <1>3 DEF MigrationStep, Start, InUse, FindPod, DisableService, SyncBucket,
                UpdateConsumer, DeleteStatefulSet, DeleteDeployment, DeleteNamespace, MigratePVCs
  <2>3. ~statefulset'
    BY <2>1, Zenon
  <2>4. QED
    BY <2>2, <2>3
<1>4. CASE MigCallFails
  BY <1>4 DEF MigCallFails
<1>5. ASSUME NEW r \in Reconcilers, ReconcileStep(r) PROVE OnlyMigration'
  BY <1>5 DEF ReconcileStep, CheckPaused, TryLock, HAMinioExists, CheckNodes, GetService, PutService,
    RecDisable, RecSync, RecEnable, RecDeleteDeployment, RecDeletePVC, Rebalance
<1>6. ASSUME NEW r \in Reconcilers, RecCallFails(r) PROVE OnlyMigration'
  BY <1>6 DEF RecCallFails
<1>7. CASE Crash
  BY <1>7 DEF Crash
<1>8. CASE UNCHANGED vars
  BY <1>8 DEF vars
<1>9. QED
  BY <1>1, <1>2, <1>3, <1>4, <1>5, <1>6, <1>7, <1>8 DEF Next

\* Without an approval nothing is migrated.
LEMMA OnlyReconcileStays == TypeOK /\ OnlyReconcile /\ [Next]_vars => OnlyReconcile'
<1> SUFFICES ASSUME TypeOK, OnlyReconcile, [Next]_vars PROVE OnlyReconcile'
  OBVIOUS
<1> USE ConstantsAssumption
<1> USE DEF TypeOK, OnlyReconcile, workloads, svc, clients, migration, reconcile, budget,
           Works, Fails, MigError, Return, Goto
<1>1. ASSUME NEW c \in Consumer, Write(c) PROVE OnlyReconcile'
  BY <1>1 DEF Write
<1>2. CASE Approve
  BY <1>2 DEF Approve
<1>3. CASE MigrationStep
  BY <1>3 DEF MigrationStep, Start, InUse, FindPod, DisableService, SyncBucket, UpdateConsumer,
    DeleteStatefulSet, DeleteDeployment, DeleteNamespace, MigratePVCs
<1>4. CASE MigCallFails
  BY <1>4 DEF MigCallFails
<1>5. ASSUME NEW r \in Reconcilers, ReconcileStep(r) PROVE OnlyReconcile'
  BY <1>5 DEF ReconcileStep, CheckPaused, TryLock, HAMinioExists, CheckNodes, GetService, PutService,
    RecDisable, RecSync, RecEnable, RecDeleteDeployment, RecDeletePVC, Rebalance
<1>6. ASSUME NEW r \in Reconcilers, RecCallFails(r) PROVE OnlyReconcile'
  BY <1>6 DEF RecCallFails
<1>7. CASE Crash
  BY <1>7 DEF Crash
<1>8. CASE UNCHANGED vars
  BY <1>8 DEF vars
<1>9. QED
  BY <1>1, <1>2, <1>3, <1>4, <1>5, <1>6, <1>7, <1>8 DEF Next

\* What a write to one bucket of one store changes, and what it leaves alone.
LEMMA PutAt ==
  ASSUME NEW d \in [Store -> [Consumer -> Version]], NEW s \in Store, NEW c \in Consumer,
         NEW v \in Version, NEW e, e = [d EXCEPT ![s][c] = v]
  PROVE  /\ e[s][c] = v
         /\ \A t \in Store : \A b \in Consumer : t # s \/ b # c => e[t][b] = d[t][b]
  OBVIOUS

\* Within a run of no failures and no crashes, no call fails.
LEMMA NothingFails == TypeOK /\ MaxFailures = 0 => ~Fails
  BY DEF TypeOK, Fails

\* Nor does the operator restart.
LEMMA NothingCrashes == TypeOK /\ MaxCrashes = 0 => ~Crash
<1>1. TypeOK /\ MaxCrashes = 0 => ~(crashes < MaxCrashes)
  BY DEF TypeOK
<1>2. Crash => crashes < MaxCrashes
  BY DEF Crash
<1>3. QED
  BY <1>1, <1>2

\* Where the service leads, for a consumer that still uses it.
LEMMA ServesCases ==
  ASSUME NEW c \in Consumer
  PROVE  /\ endpoint[c] = "rook" => Serves(c) = "rook"
         /\ endpoint[c] # "rook" => Serves(c) \in {None, service}
         /\ endpoint[c] # "rook" /\ service = "none" => Serves(c) = None
  BY DEF Serves

\* MigrationMoves survives every step that the migration does not take and that leaves
\* the stores, the workloads, the service and the consumers as they are.
LEMMA MigrationUntouched ==
  ASSUME MigrationMoves,
         UNCHANGED <<workloads, svc, data, clients, status, mig, source, migTodo, migNext>>
  PROVE  MigrationMoves'
  BY DEF MigrationMoves, NotMoved, Moved, UpToDate, AllOnService, AllMoved, workloads, svc, clients

\* The migration alone moves the store: step by step no write is lost.
LEMMA MigrationMovesStep ==
  ASSUME TypeOK, MaxFailures = 0, MaxCrashes = 0, OnlyMigration, MigrationMoves, [Next]_vars
  PROVE  MigrationMoves'
<1> USE ConstantsAssumption
<1>0. {"minio", "ha", "rook"} \subseteq Store
  BY DEF Store
<1>1. ASSUME NEW c \in Consumer, Write(c) PROVE MigrationMoves'
  <2> DEFINE s == Serves(c)
  <2>1. s \in Store /\ acked[c] + 1 \in Version
    BY <1>1, ServesStore DEF Write, Version, TypeOK
  <2>2. data' = [data EXCEPT ![s][c] = acked[c] + 1]
    BY <1>1 DEF Write
  <2>3. /\ data'[s][c] = acked'[c]
        /\ \A b \in Consumer : b # c => acked'[b] = acked[b]
        /\ \A t \in Store : \A b \in Consumer : t # s \/ b # c => data'[t][b] = data[t][b]
    <3> HIDE DEF s
    <3>1. /\ data'[s][c] = acked[c] + 1
          /\ \A t \in Store : \A b \in Consumer : t # s \/ b # c => data'[t][b] = data[t][b]
      BY <2>1, <2>2, PutAt DEF TypeOK
    <3>2. acked' = [acked EXCEPT ![c] = acked[c] + 1] /\ acked \in [Consumer -> Version]
      BY <1>1 DEF Write, TypeOK
    <3>3. QED
      BY <3>1, <3>2
  <2>4. UNCHANGED <<namespace, deployment, service, endpoint, status, mig, source, migTodo, migNext>>
    BY <1>1 DEF Write, workloads, svc, migration
  <2>5. \A t \in Store : UpToDate(t) /\ s = t => UpToDate(t)'
    <3> HIDE DEF s
    <3> QED
      BY <2>3 DEF UpToDate
  <2>6. endpoint[c] \in {"service", "rook"}
    BY DEF TypeOK
  <2>7. s # None
    BY <1>1 DEF Write
  <2>8. CASE NotMoved
    <3>1. s = "minio"
      BY <2>6, <2>7, <2>8, ServesCases DEF MigrationMoves, AllOnService
    <3>2. QED
      BY <1>0, <2>4, <2>5, <2>8, <3>1 DEF MigrationMoves, NotMoved, Moved, AllOnService
  <2>9. CASE mig = "sync"
    BY <2>7, <2>9, ServesCases DEF MigrationMoves, AllOnService
  <2>10. CASE mig = "update"
    <3>1. s = "rook"
      BY <2>7, <2>10, ServesCases DEF MigrationMoves
    <3>2. QED
      BY <1>0, <2>4, <2>5, <2>10, <3>1 DEF MigrationMoves, NotMoved, Moved
  <2>11. CASE Moved
    <3>1. s = "rook"
      BY <2>11, ServesCases DEF MigrationMoves, AllMoved
    <3>2. QED
      BY <1>0, <2>4, <2>5, <2>11, <3>1 DEF MigrationMoves, NotMoved, Moved, AllMoved
  <2>12. QED
    BY <2>8, <2>9, <2>10, <2>11 DEF MigrationMoves, NotMoved, Moved, TypeOK, MigLabel
<1>2. CASE Approve
  BY <1>2, MigrationUntouched DEF Approve
<1>3. CASE MigrationStep
  <2> USE DEF workloads, svc, clients, reconcile, budget, Works, MigError, NotMoved, Moved
  <2>1. CASE Start
    BY <2>1, NothingFails DEF Start, MigrationMoves, UpToDate, AllOnService, AllMoved
  <2>2. CASE InUse
    BY <2>2 DEF InUse, MigrationMoves, UpToDate, AllOnService, AllMoved
  <2>3. CASE FindPod
    BY <2>3 DEF FindPod, MigrationMoves, UpToDate, AllOnService, AllMoved
  <2>4. CASE DisableService
    <3>1. mig = "disable" /\ mig' = "sync" /\ migTodo' = Consumer /\ service' = "none"
      BY <2>4 DEF DisableService, SetService
    <3>2. UNCHANGED <<deployment, data, acked, endpoint, status, source>>
      BY <2>4 DEF DisableService
    <3>3. source = "minio"
      BY <3>1 DEF MigrationMoves
    <3>4. QED
      BY <3>1, <3>2, <3>3 DEF MigrationMoves, UpToDate, AllOnService
  <2>5. CASE SyncBucket
    <3>1. /\ mig = "sync" /\ deployment /\ source = "minio" /\ service = "none"
          /\ UpToDate("minio") /\ AllOnService
          /\ \A b \in Consumer \ migTodo : data["rook"][b] = acked[b]
      BY <2>5 DEF SyncBucket, MigrationMoves
    <3>2. UNCHANGED <<namespace, deployment, service, acked, endpoint>>
      BY <2>5 DEF SyncBucket
    <3>3. ASSUME NEW c \in migTodo, CopyBucket(source, "rook", c), migTodo' = migTodo \ {c},
                 UNCHANGED <<mig, source, status>>
          PROVE  MigrationMoves'
      <4>1. c \in Consumer /\ data["minio"][c] \in Version
        BY <1>0 DEF TypeOK
      <4>2. data' = [data EXCEPT !["rook"][c] = data["minio"][c]]
        BY <3>1, <3>3 DEF CopyBucket
      <4>3. /\ data'["rook"][c] = data["minio"][c]
            /\ \A t \in Store : \A b \in Consumer :
                 t # "rook" \/ b # c => data'[t][b] = data[t][b]
        BY <1>0, <4>1, <4>2, PutAt DEF TypeOK
      <4>4. UpToDate("minio")'
        BY <1>0, <3>1, <3>2, <4>3 DEF UpToDate
      <4>5. \A b \in Consumer \ migTodo' : data'["rook"][b] = acked'[b]
        BY <1>0, <3>1, <3>2, <3>3, <4>1, <4>3 DEF UpToDate
      <4>6. QED
        BY <3>1, <3>2, <3>3, <4>4, <4>5 DEF MigrationMoves, AllOnService
    <3>4. CASE migTodo = {} /\ mig' = "update" /\ migNext' = 1 /\ UNCHANGED data
      BY <3>1, <3>2, <3>4 DEF MigrationMoves, UpToDate, Consumer
    <3>5. QED
      BY <2>5, <3>1, <3>3, <3>4 DEF SyncBucket, SourceRuns
  <2>6. CASE UpdateConsumer
    <3>1. /\ mig = "update" /\ service = "none" /\ UpToDate("rook")
          /\ \A b \in Consumer : b < migNext => endpoint[b] = "rook"
      BY <2>6 DEF UpdateConsumer, MigrationMoves
    <3>2. UNCHANGED <<service, data, acked>>
      BY <2>6 DEF UpdateConsumer
    <3>3. ASSUME migNext \in Consumer, endpoint' = [endpoint EXCEPT ![migNext] = "rook"],
                 migNext' = migNext + 1, mig' = mig
          PROVE  MigrationMoves'
      <4>1. \A b \in Consumer : b < migNext' => endpoint'[b] = "rook"
        BY <3>1, <3>3 DEF Consumer, TypeOK
      <4>2. QED
        BY <3>1, <3>2, <3>3, <4>1 DEF MigrationMoves, UpToDate
    <3>4. ASSUME migNext \notin Consumer, mig' = "delStatefulSet", UNCHANGED endpoint
          PROVE  MigrationMoves'
      <4>1. \A b \in Consumer : b < migNext
        BY <3>4 DEF Consumer, TypeOK
      <4>2. QED
        BY <3>1, <3>2, <3>4, <4>1 DEF MigrationMoves, UpToDate, AllMoved
    <3>5. QED
      BY <2>6, <3>3, <3>4, NothingFails DEF UpdateConsumer
  <2>7. CASE DeleteStatefulSet
    BY <2>7 DEF DeleteStatefulSet, MigrationMoves, UpToDate, AllMoved
  <2>8. CASE DeleteDeployment
    BY <2>8 DEF DeleteDeployment, MigrationMoves, UpToDate, AllMoved
  <2>9. CASE DeleteNamespace
    BY <2>9 DEF DeleteNamespace, MigrationMoves, UpToDate, AllMoved
  <2>10. CASE MigratePVCs
    BY <2>10, NothingFails DEF MigratePVCs, MigrationMoves, UpToDate, AllMoved
  <2>11. QED
    BY <1>3, <2>1, <2>2, <2>3, <2>4, <2>5, <2>6, <2>7, <2>8, <2>9, <2>10 DEF MigrationStep
<1>4. CASE MigCallFails
  BY <1>4, NothingFails DEF MigCallFails
<1>5. ASSUME NEW r \in Reconcilers, ReconcileStep(r) PROVE MigrationMoves'
  <2>1. rec[r] \in {"idle", "tryLock", "exists"} /\ ~statefulset
    BY DEF OnlyMigration
  <2>2. CheckPaused(r) \/ TryLock(r) \/ HAMinioExists(r)
    BY <1>5, <2>1 DEF ReconcileStep, CheckNodes, GetService, PutService, RecDisable, RecSync,
                      RecEnable, RecDeleteDeployment, RecDeletePVC, Rebalance
  <2>3. QED
    BY <2>2, MigrationUntouched
       DEF CheckPaused, TryLock, HAMinioExists, migration
<1>6. ASSUME NEW r \in Reconcilers, RecCallFails(r) PROVE MigrationMoves'
  BY <1>6, NothingFails DEF RecCallFails
<1>7. CASE Crash
  BY <1>7, NothingCrashes
<1>8. CASE UNCHANGED vars
  BY <1>8, MigrationUntouched DEF vars, migration
<1>9. QED
  BY <1>1, <1>2, <1>3, <1>4, <1>5, <1>6, <1>7, <1>8 DEF Next

\* The mutex lets one goroutine of reconcileMinio work.
LEMMA AloneAtWork ==
  ASSUME MinioMutexHeld, NEW r \in Reconcilers, rec[r] \notin {"idle", "tryLock"}
  PROVE  \A q \in Reconcilers : q # r => rec[q] \in {"idle", "tryLock"}
  BY DEF MinioMutexHeld

\* ReconcileMoves survives every step that leaves the stores, the workloads, the
\* service, the consumers and the goroutines as they are.
LEMMA ReconcileUntouched ==
  ASSUME ReconcileMoves, UNCHANGED <<workloads, svc, data, clients, reconcile>>
  PROVE  ReconcileMoves'
  BY DEF ReconcileMoves, Moving, MinioMutexHeld, UpToDate, AllOnService,
         workloads, svc, clients, reconcile

\* The reconciles alone move the store: step by step no write is lost.
LEMMA ReconcileMovesStep ==
  ASSUME TypeOK, MaxFailures = 0, MaxCrashes = 0, OnlyReconcile, ReconcileMoves, [Next]_vars
  PROVE  ReconcileMoves'
<1> USE ConstantsAssumption
<1>0. {"minio", "ha", "rook"} \subseteq Store
  BY DEF Store
<1>1. ASSUME NEW c \in Consumer, Write(c) PROVE ReconcileMoves'
  <2> DEFINE s == Serves(c)
  <2>1. s \in Store /\ acked[c] + 1 \in Version
    BY <1>1, ServesStore DEF Write, Version, TypeOK
  <2>2. data' = [data EXCEPT ![s][c] = acked[c] + 1]
    BY <1>1 DEF Write
  <2>3. \A t \in Store : UpToDate(t) /\ s = t => UpToDate(t)'
    <3> HIDE DEF s
    <3>1. /\ data'[s][c] = acked[c] + 1
          /\ \A t \in Store : \A b \in Consumer : t # s \/ b # c => data'[t][b] = data[t][b]
      BY <2>1, <2>2, PutAt DEF TypeOK
    <3>2. acked' = [acked EXCEPT ![c] = acked[c] + 1] /\ acked \in [Consumer -> Version]
      BY <1>1 DEF Write, TypeOK
    <3>3. QED
      BY <3>1, <3>2 DEF UpToDate
  <2>4. UNCHANGED <<namespace, deployment, statefulset, service, endpoint, minioMutex, rec, recTodo>>
    BY <1>1 DEF Write, workloads, svc, reconcile
  <2>5. s # None /\ s \in {None, service}
    BY <1>1, ServesCases DEF Write, ReconcileMoves, AllOnService
  <2>6. \A r \in Reconcilers : rec[r] \notin {"sync", "enable"}
    <3>1. service # "none"
      BY <2>1, <2>5 DEF Store
    <3>2. QED
      BY <3>1 DEF ReconcileMoves
  <2>7. MinioMutexHeld' /\ AllOnService'
    BY <2>4 DEF ReconcileMoves, MinioMutexHeld, AllOnService
  <2>8. service = "minio" /\ UpToDate("minio") => UpToDate("minio")'
    BY <1>0, <2>3, <2>5
  <2>9. service = "ha" /\ UpToDate("ha") => UpToDate("ha")'
    BY <1>0, <2>3, <2>5
  <2>10. QED
    BY <2>4, <2>6, <2>7, <2>8, <2>9 DEF ReconcileMoves, Moving
<1>2. CASE Approve
  BY <1>2 DEF Approve, OnlyReconcile, TypeOK
<1>3. CASE MigrationStep
  BY <1>3 DEF MigrationStep, OnlyReconcile, TypeOK, Start, InUse, FindPod, DisableService,
              SyncBucket, UpdateConsumer, DeleteStatefulSet, DeleteDeployment, DeleteNamespace,
              MigratePVCs
<1>4. CASE MigCallFails
  BY <1>4, NothingFails DEF MigCallFails
<1>5. ASSUME NEW r \in Reconcilers, ReconcileStep(r) PROVE ReconcileMoves'
  <2> USE DEF workloads, svc, clients, Works, Goto, Return
  <2>1. rec \in [Reconcilers -> RecLabel] /\ recTodo \in [Reconcilers -> SUBSET Consumer]
    BY DEF TypeOK
  <2>2. ASSUME rec[r] \notin {"idle", "tryLock"}
        PROVE  /\ minioMutex = r
               /\ \A q \in Reconcilers : q # r => rec[q] \in {"idle", "tryLock"}
    BY <2>2, AloneAtWork DEF ReconcileMoves, MinioMutexHeld
  <2>3. CASE CheckPaused(r)
    BY <2>1, <2>3 DEF CheckPaused, ReconcileMoves, Moving, MinioMutexHeld, UpToDate, AllOnService
  <2>4. CASE TryLock(r)
    <3>1. rec[r] = "tryLock" /\ UNCHANGED <<workloads, svc, data, clients, recTodo>>
      BY <2>4 DEF TryLock
    <3>2. CASE minioMutex = None /\ minioMutex' = r /\ rec' = [rec EXCEPT ![r] = "exists"]
      <4>1. \A q \in Reconcilers : rec[q] \in {"idle", "tryLock"}
        BY <3>2 DEF ReconcileMoves, MinioMutexHeld
      <4>2. QED
        BY <2>1, <3>1, <3>2, <4>1 DEF ReconcileMoves, Moving, MinioMutexHeld, UpToDate, AllOnService
    <3>3. CASE rec' = [rec EXCEPT ![r] = "idle"] /\ minioMutex' = minioMutex
      BY <2>1, <3>1, <3>3 DEF ReconcileMoves, Moving, MinioMutexHeld, UpToDate, AllOnService
    <3>4. QED
      BY <2>4, <3>2, <3>3 DEF TryLock
  <2>5. CASE HAMinioExists(r)
    <3>1. /\ rec' = [rec EXCEPT ![r] = "nodes"]
          /\ UNCHANGED <<workloads, svc, data, clients, minioMutex, recTodo>>
      BY <2>5 DEF HAMinioExists, ReconcileMoves
    <3>2. rec[r] = "exists"
      BY <2>5 DEF HAMinioExists
    <3>3. QED
      BY <2>1, <2>2, <3>1, <3>2 DEF ReconcileMoves, Moving, MinioMutexHeld, UpToDate, AllOnService
  <2>6. CASE CheckNodes(r)
    <3>1. /\ rec' = [rec EXCEPT ![r] = IF deployment THEN "disable" ELSE "getService"]
          /\ UNCHANGED <<workloads, svc, data, clients, minioMutex, recTodo>>
      BY <2>6, NothingFails DEF CheckNodes
    <3>2. rec[r] = "nodes"
      BY <2>6 DEF CheckNodes
    <3>3. QED
      BY <2>1, <2>2, <3>1, <3>2 DEF ReconcileMoves, Moving, MinioMutexHeld, UpToDate, AllOnService
  <2>7. CASE GetService(r)
    <3>1. rec[r] = "getService" /\ UNCHANGED <<workloads, svc, data, clients>>
      BY <2>7 DEF GetService
    <3>2. namespace /\ service = "ha"
      BY <3>1 DEF ReconcileMoves
    <3>3. rec' = [rec EXCEPT ![r] = "rebalance"] /\ UNCHANGED <<minioMutex, recTodo>>
      BY <2>7, <3>2 DEF GetService
    <3>4. QED
      BY <2>1, <2>2, <3>1, <3>3 DEF ReconcileMoves, Moving, MinioMutexHeld, UpToDate, AllOnService
  <2>8. CASE PutService(r)
    BY <2>8 DEF PutService, ReconcileMoves
  <2>9. CASE RecDisable(r)
    <3>1. rec[r] = "disable"
      BY <2>9 DEF RecDisable
    <3>2. namespace /\ deployment /\ UpToDate("minio")
      BY <2>2, <3>1 DEF ReconcileMoves, Moving
    <3>3. /\ service' = "none" /\ rec' = [rec EXCEPT ![r] = "sync"]
          /\ recTodo' = [recTodo EXCEPT ![r] = Consumer]
          /\ UNCHANGED <<workloads, data, clients, minioMutex>>
      BY <2>9, <3>2 DEF RecDisable, SetService
    <3>4. QED
      BY <2>1, <2>2, <3>1, <3>2, <3>3
         DEF ReconcileMoves, Moving, MinioMutexHeld, UpToDate, AllOnService
  <2>10. CASE RecSync(r)
    <3>1. rec[r] = "sync" /\ UNCHANGED <<workloads, svc, clients>>
      BY <2>10 DEF RecSync
    <3>2. /\ namespace /\ statefulset /\ deployment /\ service = "none" /\ UpToDate("minio")
          /\ \A b \in Consumer \ recTodo[r] : data["ha"][b] = acked[b]
      BY <3>1 DEF ReconcileMoves, Moving
    <3>3. ASSUME NEW c \in recTodo[r], CopyBucket("minio", "ha", c),
                 recTodo' = [recTodo EXCEPT ![r] = @ \ {c}], UNCHANGED <<minioMutex, rec>>
          PROVE  ReconcileMoves'
      <4>1. c \in Consumer /\ data["minio"][c] \in Version
        BY <1>0, <2>1 DEF TypeOK
      <4>2. data' = [data EXCEPT !["ha"][c] = data["minio"][c]]
        BY <3>3 DEF CopyBucket
      <4>3. /\ data'["ha"][c] = data["minio"][c]
            /\ \A t \in Store : \A b \in Consumer :
                 t # "ha" \/ b # c => data'[t][b] = data[t][b]
        BY <1>0, <4>1, <4>2, PutAt DEF TypeOK
      <4>4. UpToDate("minio")'
        BY <1>0, <3>1, <3>2, <4>3 DEF UpToDate
      <4>5. \A b \in Consumer \ recTodo'[r] : data'["ha"][b] = acked'[b]
        BY <1>0, <2>1, <3>1, <3>2, <3>3, <4>1, <4>3 DEF UpToDate
      <4>6. QED
        BY <2>2, <3>1, <3>2, <3>3, <4>4, <4>5
           DEF ReconcileMoves, Moving, MinioMutexHeld, AllOnService
    <3>4. CASE recTodo[r] = {} /\ rec' = [rec EXCEPT ![r] = "enable"]
               /\ UNCHANGED <<data, minioMutex, recTodo>>
      BY <2>1, <2>2, <3>1, <3>2, <3>4
         DEF ReconcileMoves, Moving, MinioMutexHeld, UpToDate, AllOnService
    <3>5. QED
      BY <2>10, <3>2, <3>3, <3>4 DEF RecSync
  <2>11. CASE RecEnable(r)
    <3>1. rec[r] = "enable"
      BY <2>11 DEF RecEnable
    <3>2. namespace /\ deployment /\ UpToDate("ha")
      BY <3>1 DEF ReconcileMoves, Moving
    <3>3. /\ service' = "ha" /\ rec' = [rec EXCEPT ![r] = "delDeployment"]
          /\ UNCHANGED <<workloads, data, clients, minioMutex, recTodo>>
      BY <2>11, <3>2 DEF RecEnable, SetService
    <3>4. QED
      BY <2>1, <2>2, <3>1, <3>2, <3>3
         DEF ReconcileMoves, Moving, MinioMutexHeld, UpToDate, AllOnService
  <2>12. CASE RecDeleteDeployment(r)
    <3>1. rec[r] = "delDeployment"
      BY <2>12 DEF RecDeleteDeployment
    <3>2. deployment /\ service = "ha" /\ UpToDate("ha")
      BY <3>1 DEF ReconcileMoves, Moving
    <3>3. /\ ~deployment' /\ rec' = [rec EXCEPT ![r] = "delPVC"]
          /\ UNCHANGED <<namespace, statefulset, svc, data, clients, minioMutex, recTodo>>
      BY <2>12, <3>2 DEF RecDeleteDeployment
    <3>4. QED
      BY <2>1, <2>2, <3>1, <3>2, <3>3
         DEF ReconcileMoves, Moving, MinioMutexHeld, UpToDate, AllOnService
  <2>13. CASE RecDeletePVC(r)
    <3>1. /\ rec[r] = "delPVC" /\ rec' = [rec EXCEPT ![r] = "rebalance"]
          /\ UNCHANGED <<workloads, svc, data, clients, minioMutex, recTodo>>
      BY <2>13 DEF RecDeletePVC
    <3>2. QED
      BY <2>1, <2>2, <3>1 DEF ReconcileMoves, Moving, MinioMutexHeld, UpToDate, AllOnService
  <2>14. CASE Rebalance(r)
    <3>1. /\ rec[r] = "rebalance" /\ rec' = [rec EXCEPT ![r] = "idle"]
          /\ UNCHANGED <<workloads, svc, data, clients, recTodo>>
      BY <2>14 DEF Rebalance
    <3>2. QED
      BY <2>1, <2>2, <3>1 DEF ReconcileMoves, Moving, MinioMutexHeld, UpToDate, AllOnService
  <2>15. QED
    BY <1>5, <2>3, <2>4, <2>5, <2>6, <2>7, <2>8, <2>9, <2>10, <2>11, <2>12, <2>13, <2>14
       DEF ReconcileStep
<1>6. ASSUME NEW r \in Reconcilers, RecCallFails(r) PROVE ReconcileMoves'
  BY <1>6, NothingFails DEF RecCallFails
<1>7. CASE Crash
  BY <1>7, NothingCrashes
<1>8. CASE UNCHANGED vars
  BY <1>8, ReconcileUntouched DEF vars
<1>9. QED
  BY <1>1, <1>2, <1>3, <1>4, <1>5, <1>6, <1>7, <1>8 DEF Next

\* The two shapes of a move start from a whole store.
LEMMA MoveStarts == OneMoveOnly /\ Init => MoveInv
<1> SUFFICES ASSUME OneMoveOnly, Init PROVE MoveInv
  OBVIOUS
<1>1. PICK k \in InitClusters : deployment = k[1] /\ statefulset = k[2] /\ approvals = k[3]
  BY DEF Init
<1>2. k[1] \in BOOLEAN /\ k[2] \in BOOLEAN /\ k[3] \in Nat /\ (k[1] \/ k[2])
  BY <1>1, ConstantsAssumption
<1>3. \A s \in Store : UpToDate(s)
  BY DEF Init, UpToDate
<1>4. {"minio", "ha", "rook"} \subseteq Store
  BY DEF Store
<1>5. AllOnService /\ mig = "idle" /\ status = "not started" /\ waiting = 0 /\ namespace
  BY DEF Init, AllOnService
<1>6. \A r \in Reconcilers : rec[r] = "idle"
  BY DEF Init
<1>7. service = IF deployment THEN "minio" ELSE "ha"
  BY DEF Init
<1>8. CASE ~k[2]
  BY <1>1, <1>2, <1>3, <1>4, <1>5, <1>6, <1>7, <1>8, InitTypes
     DEF MoveInv, OnlyMigration, MigrationMoves, NotMoved, Moved
<1>9. CASE k[2] /\ k[3] >= MaxApprovals
  BY <1>1, <1>2, <1>3, <1>4, <1>5, <1>6, <1>7, <1>9, InitTypes
     DEF MoveInv, OnlyReconcile, ReconcileMoves, Moving, MinioMutexHeld
<1>10. QED
  BY <1>1, <1>2, <1>8, <1>9 DEF OneMoveOnly

\* Whoever moves the store, a consumer that is served is served its last write.
LEMMA MoveServes == MoveInv => LastWriteServed
<1> SUFFICES ASSUME MoveInv, NEW c \in Consumer, Serves(c) # None
             PROVE  data[Serves(c)][c] = acked[c]
  BY DEF LastWriteServed
<1>1. endpoint[c] \in {"service", "rook"}
  BY DEF MoveInv, TypeOK
<1>2. CASE OnlyMigration /\ MigrationMoves
  <2>1. CASE NotMoved
    BY <1>1, <1>2, <2>1, ServesCases DEF MigrationMoves, AllOnService, UpToDate
  <2>2. CASE mig = "sync"
    BY <1>1, <1>2, <2>2, ServesCases DEF MigrationMoves, AllOnService
  <2>3. CASE mig = "update"
    BY <1>1, <1>2, <2>3, ServesCases DEF MigrationMoves, UpToDate
  <2>4. CASE Moved
    BY <1>1, <1>2, <2>4, ServesCases DEF MigrationMoves, AllMoved, UpToDate
  <2>5. QED
    BY <1>2, <2>1, <2>2, <2>3, <2>4 DEF MigrationMoves, NotMoved, Moved, MoveInv, TypeOK, MigLabel
<1>3. CASE OnlyReconcile /\ ReconcileMoves
  <2>1. Serves(c) = service
    BY <1>3, ServesCases DEF ReconcileMoves, AllOnService
  <2>2. Serves(c) \in Store
    BY ServesStore
  <2>3. service \in {"minio", "ha"} /\ UpToDate(service)
    BY <1>3, <2>1, <2>2 DEF ReconcileMoves, Moving, Store
  <2>4. QED
    BY <2>1, <2>3 DEF UpToDate
<1>4. QED
  BY <1>2, <1>3 DEF MoveInv

\* LastWriteServed for any number of consumers, writes, approvals and goroutines: a
\* move of the store that no failure and no restart interrupts loses no write.
THEOREM LastWriteKept ==
  OneMoveOnly /\ MaxFailures = 0 /\ MaxCrashes = 0 /\ Spec => []LastWriteServed
<1> SUFFICES ASSUME OneMoveOnly, MaxFailures = 0, MaxCrashes = 0
             PROVE  Spec => []LastWriteServed
  OBVIOUS
<1>1. Init => MoveInv
  BY MoveStarts
<1>2. MoveInv /\ TypeOK' /\ [Next]_vars => MoveInv'
  BY OnlyMigrationStays, OnlyReconcileStays, MigrationMovesStep, ReconcileMovesStep DEF MoveInv
<1>3. MoveInv => LastWriteServed
  BY MoveServes
<1>4. QED
  BY <1>1, <1>2, <1>3, TypeCorrect, PTL DEF Spec
=============================================================================
