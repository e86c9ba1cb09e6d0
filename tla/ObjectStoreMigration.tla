------------------------ MODULE ObjectStoreMigration ------------------------
(***************************************************************************)
(* The object store of a kURL cluster and the two procedures that move it: *)
(*                                                                         *)
(*  - migrateObjectStorage, run by the storage migration once it is        *)
(*    approved over HTTP: MinIO to Rook;                                   *)
(*  - reconcileMinio, a goroutine of every reconcile: the MinIO deployment *)
(*    to the ha-minio statefulset, and the repair of the minio service.    *)
(*                                                                         *)
(* They share the "minio" service, the stores and the pause flag, and run  *)
(* beside the consumers of the store, each of which keeps overwriting one  *)
(* object of its own bucket.  A version stands for the object's contents.  *)
(***************************************************************************)
EXTENDS Integers, FiniteSets

CONSTANTS
  NumConsumers,      \* consumers 1..NumConsumers, in the order of UpdateConsumers
  Reconcilers,       \* reconcileMinio goroutines alive at the same time
  InitClusters,      \* the clusters to start from: <<the deployment exists, ha-minio
                     \*   exists, approvals of MaxApprovals that will not be given>>
  None,
  MaxWrites, MaxApprovals, MaxFailures, MaxCrashes   \* bounds

Consumer == 1 .. NumConsumers
Store == {"minio", "ha", "rook"}
Version == 0 .. MaxWrites
Status == {"not started", "running", "failed", "not ready", "completed"}
MigLabel == {"idle", "inUse", "findPod", "disable", "sync", "update",
             "delStatefulSet", "delDeployment", "delNamespace", "pvcs"}
RecLabel == {"idle", "tryLock", "exists", "nodes", "getService", "putService",
             "disable", "sync", "enable", "delDeployment", "delPVC", "rebalance"}

ASSUME ConstantsAssumption ==
  /\ NumConsumers \in Nat \ {0}
  /\ InitClusters \subseteq BOOLEAN \X BOOLEAN \X Nat
  /\ \A k \in InitClusters : k[1] \/ k[2]
  /\ None \notin Reconcilers
  /\ MaxWrites \in Nat /\ MaxApprovals \in Nat /\ MaxFailures \in Nat /\ MaxCrashes \in Nat

VARIABLES
  namespace, deployment, statefulset,  \* the MinIO namespace and workloads exist
  service,       \* the selector of the service minio: "minio", "ha" or "none"
  revision,      \* its resourceVersion
  overtaking,    \* history: reconcilers that could still enable it when a migration disabled it
  data,          \* data[s][c]: the version of consumer c's object in store s
  acked,         \* the last version whose write was acknowledged to c
  endpoint,      \* where c is configured to write: "service" or "rook"
  paused,        \* overrides.minio
  status,        \* migrationStatus
  approvals,     \* goroutines started by /storagemigration/approve so far,
  waiting,       \*   and those waiting for migrateStorageMut
  mig, source, migTodo, migNext,   \* the one holding it: pc and locals
  minioMutex,    \* its holder, or None
  rec, recRevision, recTodo,       \* the reconcilers: pc and locals
  failures, crashes

workloads == <<namespace, deployment, statefulset>>
svc       == <<service, revision, overtaking>>
clients   == <<acked, endpoint>>
migration == <<status, approvals, waiting, mig, source, migTodo, migNext>>
reconcile == <<minioMutex, rec, recRevision, recTodo>>
budget    == <<failures, crashes>>
vars == <<workloads, svc, data, clients, paused, migration, reconcile, budget>>

TypeOK ==
  /\ namespace \in BOOLEAN /\ deployment \in BOOLEAN /\ statefulset \in BOOLEAN
  /\ service \in {"minio", "ha", "none"} /\ revision \in Nat /\ overtaking \subseteq Reconcilers
  /\ data \in [Store -> [Consumer -> Version]]
  /\ acked \in [Consumer -> Version] /\ endpoint \in [Consumer -> {"service", "rook"}]
  /\ paused \in BOOLEAN /\ status \in Status
  /\ approvals \in Nat /\ waiting \in Nat
  /\ mig \in MigLabel /\ source \in Store
  /\ migTodo \subseteq Consumer /\ migNext \in 1 .. NumConsumers + 1
  /\ minioMutex \in Reconcilers \cup {None}
  /\ rec \in [Reconcilers -> RecLabel] /\ recRevision \in [Reconcilers -> Nat]
  /\ recTodo \in [Reconcilers -> SUBSET Consumer]
  /\ failures \in Nat /\ crashes \in Nat

Init ==
  /\ \E k \in InitClusters : deployment = k[1] /\ statefulset = k[2] /\ approvals = k[3]
  /\ namespace = TRUE
  /\ service = (IF deployment THEN "minio" ELSE "ha") /\ revision = 0 /\ overtaking = {}
  /\ data = [s \in Store |-> [c \in Consumer |-> 0]]
  /\ acked = [c \in Consumer |-> 0]
  /\ endpoint = [c \in Consumer |-> "service"]
  /\ paused = FALSE /\ status = "not started" /\ waiting = 0
  /\ mig = "idle" /\ source = "minio" /\ migTodo = {} /\ migNext = 1
  /\ minioMutex = None
  /\ rec = [r \in Reconcilers |-> "idle"]
  /\ recRevision = [r \in Reconcilers |-> 0]
  /\ recTodo = [r \in Reconcilers |-> {}]
  /\ failures = 0 /\ crashes = 0

-----------------------------------------------------------------------------
Fails == failures < MaxFailures /\ failures' = failures + 1 /\ UNCHANGED crashes
Works == UNCHANGED budget

\* The store behind a consumer's endpoint, None when the service leads nowhere.
Serves(c) ==
  CASE endpoint[c] = "rook"                    -> "rook"
    [] endpoint[c] # "rook" /\ service = "minio" /\ deployment -> "minio"
    [] endpoint[c] # "rook" /\ service = "ha" /\ statefulset   -> "ha"
    [] OTHER                                   -> None

\* A patch of the service's selector: replacing it by itself writes nothing.
SetService(selector) ==
  /\ service' = selector
  /\ revision' = IF service = selector THEN revision ELSE revision + 1

\* syncBucket: the destination's objects are overwritten, whichever is newer.
CopyBucket(from, to, c) == data' = [data EXCEPT ![to][c] = data[from][c]]

Write(c) ==
  /\ Serves(c) # None /\ acked[c] < MaxWrites
  /\ acked' = [acked EXCEPT ![c] = @ + 1]
  /\ data' = [data EXCEPT ![Serves(c)][c] = acked[c] + 1]
  /\ UNCHANGED <<workloads, svc, endpoint, paused, migration, reconcile, budget>>

-----------------------------------------------------------------------------
(* ObjectStorageAndPVCs and migrateObjectStorage.                          *)

\* The handler answers at once; its goroutine waits for migrateStorageMut.
Approve ==
  /\ approvals < MaxApprovals
  /\ approvals' = approvals + 1 /\ waiting' = waiting + 1
  /\ UNCHANGED <<workloads, svc, data, clients, paused, status, mig, source, migTodo,
                 migNext, reconcile, budget>>

\* A goroutine takes the mutex and returns if a migration has completed, or if
\* IsMigrationReady says no or fails.
Start ==
  /\ mig = "idle" /\ waiting > 0
  /\ waiting' = waiting - 1
  /\ \/ status = "completed" /\ UNCHANGED <<status, mig>> /\ Works
     \/ status # "completed" /\ status' = "running" /\ mig' = "inUse" /\ Works
     \/ status # "completed" /\ status' \in {"failed", "not ready"} /\ UNCHANGED mig /\ Fails
  /\ UNCHANGED <<workloads, svc, data, clients, paused, approvals, source, migTodo,
                 migNext, reconcile>>

\* Any error of migrateObjectStorage: ResumeMinIO is deferred, the status is failed.
MigError ==
  /\ mig' = "idle" /\ status' = "failed" /\ paused' = FALSE
  /\ UNCHANGED <<approvals, waiting, source, migTodo, migNext>>

\* IsMinioInUse, then PauseMinIO; a reconcileMinio already past its check goes on.
InUse ==
  /\ mig = "inUse"
  /\ IF namespace /\ (deployment \/ statefulset)
       THEN mig' = "findPod" /\ paused' = TRUE
       ELSE mig' = "pvcs" /\ UNCHANGED paused
  /\ UNCHANGED <<workloads, svc, data, clients, status, approvals, waiting, source,
                 migTodo, migNext, reconcile, budget>>

\* A pod of the deployment if there is one, of the statefulset otherwise.
FindPod ==
  /\ mig = "findPod"
  /\ IF deployment \/ statefulset
       THEN /\ source' = IF deployment THEN "minio" ELSE "ha"
            /\ mig' = "disable"
            /\ UNCHANGED <<status, approvals, waiting, migTodo, migNext, paused>>
       ELSE MigError
  /\ UNCHANGED <<workloads, svc, data, clients, reconcile, budget>>

\* A reconcileMinio past its look at the pause flag and before its last write of the service
\* may enable it, unless the resourceVersion that it read is, or is about to be, an old one.
MayEnable(r) ==
  \/ rec[r] \in {"tryLock", "exists", "nodes", "getService", "disable", "sync", "enable"}
  \/ rec[r] = "putService" /\ service = "none" /\ recRevision[r] = revision

DisableService ==
  /\ mig = "disable"
  /\ SetService("none") /\ overtaking' = {r \in Reconcilers : MayEnable(r)}
  /\ mig' = "sync" /\ migTodo' = Consumer
  /\ UNCHANGED <<workloads, data, clients, paused, status, approvals, waiting, source,
                 migNext, reconcile, budget>>

SourceRuns == IF source = "minio" THEN deployment ELSE statefulset

\* Seeded fault: the buckets that are left when the sync ends are forgotten.
SyncBucketStopsEarly ==
  /\ mig = "sync"
  /\ \/ \E c \in migTodo : CopyBucket(source, "rook", c) /\ migTodo' = migTodo \ {c}
     \/ UNCHANGED <<data, migTodo>>
  /\ mig' = "update" /\ migNext' = 1
  /\ UNCHANGED <<paused, status, approvals, waiting, source>>
  /\ UNCHANGED <<workloads, svc, clients, reconcile, budget>>

\* SyncAllBuckets, one bucket per step, from the IP of the pod found above.
SyncBucket ==
  /\ mig = "sync"
  /\ \/ \E c \in migTodo :
          /\ SourceRuns
          /\ CopyBucket(source, "rook", c)
          /\ migTodo' = migTodo \ {c}
          /\ UNCHANGED <<mig, paused, status, approvals, waiting, source, migNext>>
     \/ migTodo # {} /\ ~SourceRuns /\ MigError /\ UNCHANGED data
     \/ /\ migTodo = {}
        /\ mig' = "update" /\ migNext' = 1
        /\ UNCHANGED <<data, paused, status, approvals, waiting, source, migTodo>>
  /\ UNCHANGED <<workloads, svc, clients, reconcile, budget>>

\* Seeded fault: one index too many.
UpdateConsumerOffByOne ==
  /\ mig = "update"
  /\ IF migNext <= NumConsumers + 1
       THEN endpoint' = [endpoint EXCEPT ![migNext] = "rook"]
            /\ migNext' = migNext + 1 /\ UNCHANGED mig
       ELSE mig' = "delStatefulSet" /\ UNCHANGED <<endpoint, migNext>>
  /\ UNCHANGED <<workloads, svc, data, acked, reconcile, budget, paused, status,
                 approvals, waiting, source, migTodo>>

\* Seeded fault: the error of a consumer's update does not end the migration.
UpdateConsumerIgnoresErrors ==
  /\ mig = "update"
  /\ IF migNext \in Consumer
       THEN /\ \/ endpoint' = [endpoint EXCEPT ![migNext] = "rook"] /\ Works
               \/ UNCHANGED endpoint /\ Fails
            /\ migNext' = migNext + 1 /\ UNCHANGED mig
       ELSE mig' = "delStatefulSet" /\ UNCHANGED <<endpoint, migNext, budget>>
  /\ UNCHANGED <<workloads, svc, data, acked, reconcile, paused, status, approvals,
                 waiting, source, migTodo>>

\* UpdateConsumers: registry, velero, kotsadm; a consumer may have its new
\* configuration although its restart fails.
UpdateConsumer ==
  /\ mig = "update"
  /\ IF migNext \in Consumer
       THEN /\ endpoint' = [endpoint EXCEPT ![migNext] = "rook"]
            /\ \/ /\ migNext' = migNext + 1 /\ Works
                  /\ UNCHANGED <<mig, paused, status, approvals, waiting, source, migTodo>>
               \/ MigError /\ Fails
       ELSE /\ mig' = "delStatefulSet"
            /\ UNCHANGED <<endpoint, paused, status, approvals, waiting, source, migTodo,
                           migNext, budget>>
  /\ UNCHANGED <<workloads, svc, data, acked, reconcile>>

\* Deletions for which NotFound is no error.
DeleteStatefulSet ==
  /\ mig = "delStatefulSet" /\ statefulset' = FALSE /\ mig' = "delDeployment"
  /\ UNCHANGED <<namespace, deployment, svc, data, clients, paused, status, approvals,
                 waiting, source, migTodo, migNext, reconcile, budget>>

DeleteDeployment ==
  /\ mig = "delDeployment" /\ deployment' = FALSE /\ mig' = "delNamespace"
  /\ UNCHANGED <<namespace, statefulset, svc, data, clients, paused, status, approvals,
                 waiting, source, migTodo, migNext, reconcile, budget>>

\* The namespace takes what is left in it along; the deferred ResumeMinIO runs.
DeleteNamespace ==
  /\ mig = "delNamespace"
  /\ namespace' = FALSE /\ deployment' = FALSE /\ statefulset' = FALSE
  /\ SetService("none")
  /\ mig' = "pvcs" /\ paused' = FALSE
  /\ UNCHANGED <<overtaking, data, clients, status, approvals, waiting, source, migTodo,
                 migNext, reconcile, budget>>

\* migrateStorageClasses, modelled in StorageMigration: it succeeds or fails.
MigratePVCs ==
  /\ mig = "pvcs" /\ mig' = "idle"
  /\ \/ status' = "completed" /\ Works
     \/ status' = "failed" /\ Fails
  /\ UNCHANGED <<workloads, svc, data, clients, paused, approvals, waiting, source,
                 migTodo, migNext, reconcile>>

\* A call of migrateObjectStorage that fails without effect.
MigCallFails ==
  /\ mig \in MigLabel \ {"idle", "pvcs"}
  /\ MigError /\ Fails
  /\ UNCHANGED <<workloads, svc, data, clients, reconcile>>

MigrationStep ==
  \/ Start \/ InUse \/ FindPod \/ DisableService \/ SyncBucket \/ UpdateConsumer
  \/ DeleteStatefulSet \/ DeleteDeployment \/ DeleteNamespace \/ MigratePVCs
-----------------------------------------------------------------------------
(* reconcileMinio, goroutine r.                                            *)

\* Release the mutex and return; the next tick starts the goroutine again.
Return(r) ==
  /\ rec' = [rec EXCEPT ![r] = "idle"] /\ minioMutex' = None
  /\ UNCHANGED <<recRevision, recTodo>>

Goto(r, label) ==
  /\ rec' = [rec EXCEPT ![r] = label]
  /\ UNCHANGED <<minioMutex, recRevision, recTodo>>

\* Seeded fault: the pause flag is not read.
CheckPausedNever(r) ==
  /\ rec[r] = "idle"
  /\ Goto(r, "tryLock")
  /\ UNCHANGED <<workloads, svc, data, clients, paused, migration, budget>>

\* MinIOPaused is read before the mutex is tried, and never again.
CheckPaused(r) ==
  /\ rec[r] = "idle" /\ ~paused
  /\ Goto(r, "tryLock")
  /\ UNCHANGED <<workloads, svc, data, clients, paused, migration, budget>>

TryLock(r) ==
  /\ rec[r] = "tryLock"
  /\ IF minioMutex = None
       THEN /\ minioMutex' = r /\ rec' = [rec EXCEPT ![r] = "exists"]
            /\ UNCHANGED <<recRevision, recTodo>>
       ELSE Goto(r, "idle")
  /\ UNCHANGED <<workloads, svc, data, clients, paused, migration, budget>>

HAMinioExists(r) ==
  /\ rec[r] = "exists"
  /\ IF statefulset THEN Goto(r, "nodes") ELSE Return(r)
  /\ UNCHANGED <<workloads, svc, data, clients, paused, migration, budget>>

\* Three ready nodes and, where the deployment is left, a healthy ha-minio; what is
\* missing of that at one tick counts as a failure of the environment.
CheckNodes(r) ==
  /\ rec[r] = "nodes"
  /\ \/ Goto(r, IF deployment THEN "disable" ELSE "getService") /\ Works
     \/ Goto(r, "rebalance") /\ Fails
  /\ UNCHANGED <<workloads, svc, data, clients, paused, migration>>

\* Seeded fault: the service found is taken for the right one.
GetServiceAsIs(r) ==
  /\ rec[r] = "getService"
  /\ Goto(r, "rebalance")
  /\ UNCHANGED <<workloads, svc, data, clients, paused, migration, budget>>

\* EnsureHAMinioSvc: Get, and Update with the resourceVersion it returned.
GetService(r) ==
  /\ rec[r] = "getService"
  /\ IF namespace
       THEN /\ recRevision' = [recRevision EXCEPT ![r] = revision]
            /\ rec' = [rec EXCEPT ![r] = IF service = "none" THEN "putService" ELSE "rebalance"]
            /\ UNCHANGED <<minioMutex, recTodo>>
       ELSE Return(r)
  /\ UNCHANGED <<workloads, svc, data, clients, paused, migration, budget>>

PutService(r) ==
  /\ rec[r] = "putService"
  /\ IF namespace /\ revision = recRevision[r]
       THEN SetService("ha") /\ Goto(r, "rebalance")
       ELSE Return(r) /\ UNCHANGED <<service, revision>>
  /\ UNCHANGED <<workloads, overtaking, data, clients, paused, migration, budget>>

\* MigrateMinioData: the service is disabled whether or not a pod is left ...
RecDisable(r) ==
  /\ rec[r] = "disable"
  /\ IF namespace THEN SetService("none") ELSE UNCHANGED <<service, revision>>
  /\ IF deployment
       THEN /\ rec' = [rec EXCEPT ![r] = "sync"]
            /\ recTodo' = [recTodo EXCEPT ![r] = Consumer]
            /\ UNCHANGED <<minioMutex, recRevision>>
       ELSE Return(r)
  /\ UNCHANGED <<workloads, overtaking, data, clients, paused, migration, budget>>

\* ... the buckets are copied ...
RecSync(r) ==
  /\ rec[r] = "sync"
  /\ \/ \E c \in recTodo[r] :
          /\ deployment /\ statefulset
          /\ CopyBucket("minio", "ha", c)
          /\ recTodo' = [recTodo EXCEPT ![r] = @ \ {c}]
          /\ UNCHANGED <<minioMutex, rec, recRevision>>
     \/ recTodo[r] # {} /\ ~(deployment /\ statefulset) /\ Return(r) /\ UNCHANGED data
     \/ recTodo[r] = {} /\ Goto(r, "enable") /\ UNCHANGED data
  /\ UNCHANGED <<workloads, svc, clients, paused, migration, budget>>

\* ... and the service is enabled before the old deployment is deleted.
RecEnable(r) ==
  /\ rec[r] = "enable"
  /\ IF namespace
       THEN SetService("ha") /\ Goto(r, "delDeployment")
       ELSE Return(r) /\ UNCHANGED <<service, revision>>
  /\ UNCHANGED <<workloads, overtaking, data, clients, paused, migration, budget>>

RecDeleteDeployment(r) ==
  /\ rec[r] = "delDeployment"
  /\ deployment' = FALSE
  /\ IF deployment THEN Goto(r, "delPVC") ELSE Return(r)
  /\ UNCHANGED <<namespace, statefulset, svc, data, clients, paused, migration, budget>>

\* The PVC of the deleted deployment; its data could no longer be reached.
RecDeletePVC(r) ==
  /\ rec[r] = "delPVC"
  /\ Goto(r, "rebalance")
  /\ UNCHANGED <<workloads, svc, data, clients, paused, migration, budget>>

\* MaybeRebalanceMinioServers moves pods, not data, and ends the goroutine.
Rebalance(r) ==
  /\ rec[r] = "rebalance"
  /\ Return(r)
  /\ UNCHANGED <<workloads, svc, data, clients, paused, migration, budget>>

RecCallFails(r) ==
  /\ rec[r] \notin {"idle", "tryLock"}
  /\ Return(r) /\ Fails
  /\ UNCHANGED <<workloads, svc, data, clients, paused, migration>>

ReconcileStep(r) ==
  \/ CheckPaused(r) \/ TryLock(r) \/ HAMinioExists(r) \/ CheckNodes(r)
  \/ GetService(r) \/ PutService(r) \/ RecDisable(r) \/ RecSync(r) \/ RecEnable(r)
  \/ RecDeleteDeployment(r) \/ RecDeletePVC(r) \/ Rebalance(r)

-----------------------------------------------------------------------------
\* The operator's pod is replaced: goroutines, mutexes, pause flags and the
\* migration status were in its memory only.
Crash ==
  /\ crashes < MaxCrashes /\ crashes' = crashes + 1
  /\ mig' = "idle" /\ status' = "not started" /\ paused' = FALSE /\ waiting' = 0
  /\ rec' = [r \in Reconcilers |-> "idle"] /\ minioMutex' = None
  /\ UNCHANGED <<workloads, svc, data, clients, approvals, source, migTodo, migNext,
                 recRevision, recTodo, failures>>

Next ==
  \/ \E c \in Consumer : Write(c)
  \/ Approve
  \/ MigrationStep
  \/ MigCallFails
  \/ \E r \in Reconcilers : ReconcileStep(r) \/ RecCallFails(r)
  \/ Crash

Spec == Init /\ [][Next]_vars

\* Goroutines that can run do run, and Poll starts reconcileMinio at every tick.
FairSpec ==
  /\ Spec
  /\ WF_vars(MigrationStep)
  /\ \A r \in Reconcilers : WF_vars(ReconcileStep(r))

-----------------------------------------------------------------------------
(* Properties.                                                             *)

\* A consumer that is served reads back its last acknowledged write, whichever
\* procedure moved its bucket and however often.
LastWriteServed == \A c \in Consumer : Serves(c) # None => data[Serves(c)][c] = acked[c]

\* "disable the minio service to prevent race conditions with files being updated
\* during the migration" (storage.go:193).  The pause flag does not stop a reconcileMinio
\* that has read it already, and one of those may enable the service again, against that
\* comment.  No other can, through failures, retries and restarts: from the first bucket
\* copied to the last consumer updated, the service leads nowhere.
DisabledDuringMigration == mig \in {"sync", "update"} => service = "none" \/ overtaking # {}

\* The workloads go only when nobody needs them: a consumer still configured with
\* the minio service has a MinIO behind it, across failures, retries and restarts.
StoreBehindConsumer ==
  \A c \in Consumer : endpoint[c] = "service" => namespace /\ (deployment \/ statefulset)

\* Where ha-minio is managed, no consumer is left without a store for good: a later
\* reconcile repairs the service that a failed or interrupted migration disabled.
ServiceComesBack == \A c \in Consumer : []<>(Serves(c) # None)
=============================================================================
