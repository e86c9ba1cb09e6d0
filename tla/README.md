# A TLA+ model of ekco

ekco is the operator that kURL installs in a Kubernetes cluster. It watches the nodes, purges the ones that
are lost, keeps Rook/Ceph, MinIO, the internal load balancer and the certificates in the state the cluster
needs, and migrates storage from MinIO and a "scaling" storage class to Rook. This directory holds TLA+
modules of its state machines, TLC configurations that check them on small instances, and TLAPS proofs.
Paths below are relative to `src/`.

## 1. The system

### Components, their state and their operations

| Component | Code | State | Operations |
|---|---|---|---|
| Reconcile loop | `pkg/ekcoops/poll.go`, `operator.go`, `config.go` | counter, tick's node list; everything else is in the cluster | `Poll`, `onLaunch`, `Reconcile`, `reconcileNode`, `reconcileRook`, `reconcileCertificateSigningRequests` |
| Node removal | `pkg/cluster/purge_node.go`, `clear_node.go`, `etcd.go`, `cmd/ekco/cli/purge_node.go` | Node objects, kubeadm's `ClusterStatus`, etcd members, stuck pods | `PurgeNode`, `ClearNode`, `removeKubeadmEndpoint`, `removeEtcdPeer`, `ekco purge-node` |
| Ceph storage nodes and OSDs | `pkg/cluster/rook_ceph.go` | the CephCluster's storage list, OSD deployments, OSDs in ceph | `UseNodesForStorage`, `removeCephClusterStorageNode`, `deleteK8sDeploymentOSD`, `execCephOSDPurge` |
| Ceph pools | `pkg/cluster/rook_ceph.go`, `operator.go` | pool sizes, mon and mgr counts | `SetBlockPoolReplication`, `SetFilesystemReplication`, `SetObjectStoreReplication`, ... |
| Rook cluster creation | `pkg/rook`, `pkg/helm` | Helm releases, the CephCluster | `ReconcileRookCluster`, `InstallChart` |
| Certificate rotation | `pkg/cluster/certs.go`, `pkg/rotate` | the `last-attempted` annotation, files on hosts | `RotateCerts`, `CheckRotateCertsDue`, the pods that renew files and restart static pods |
| Other certificates | `pkg/cluster/contour_certs.go`, `registry_cert.go`, `kotsadm.go`, `pkg/util/cert.go` | secrets | `RotateContourCerts`, `RotateRegistryCert`, kurl-proxy and kubelet client certificates |
| Internal load balancer | `pkg/cluster/internallb.go`, `pkg/internallb`, `change-load-balancer.go` | the recorded node list, haproxy's files on hosts | `ReconcileInternalLB`, `UpdateInternalLB` |
| Object store migration | `pkg/migrate/storage.go`, `pkg/objectstore` | the stores, the `minio` service, the consumers' configuration | `ObjectStorageAndPVCs`, `migrateObjectStorage`, `SyncAllBuckets`, `UpdateConsumers` |
| HA MinIO | `pkg/cluster/minio.go`, `operator.go` | the minio deployment, the ha-minio statefulset, the same service | `reconcileMinio`, `MigrateMinioData`, `EnsureHAMinioSvc`, `MaybeRebalanceMinioServers` |
| Storage class migration | `pkg/migrate/storage.go`, `pkg/server`, `pkg/ekcoops/overrides` | status, mutex and pause flags in memory; volumes and classes | `migrateStorageClasses`, `/storagemigration/{ready,approve,status}` |
| Prometheus, kotsadm | `pkg/ekcoops/prometheus.go`, `pkg/util/prometheus.go`, `pkg/cluster/kotsadm.go` | replicas | `ReconcilePrometheus`, `ScaleKotsadmRqlite` |
| Envoy pods, CSRs | `pkg/cluster/contour.go`, `operator.go` | pods that have failed for long, requests without an answer | `RestartFailedEnvoyPods`, `reconcileCertificateSigningRequests` |
| Webhooks, CLI, logging | `pkg/webhook`, `cmd`, `pkg/logger`, `pkg/version`, `pkg/k8s` | - | stateless |

### How they interact

`Poll` is the only loop. At each tick it lists the nodes and runs every reconciliation in order, each one
ignoring the failures of the previous ones; every 60th successful tick is a full reconcile. Three things run
beside it and share its state:

* `reconcileMinio`, a goroutine started by every tick, so that several may be alive at the same time;
* the storage migration, a goroutine started by an HTTP request, which asks the operator to leave Prometheus,
  kotsadm and MinIO alone through three flags that the operator polls;
* commands run in other processes: `ekco purge-node` and `ekco change-load-balancer`.

None of them holds a lock on the cluster. State is kept in objects of the Kubernetes API that each one reads,
changes and writes back, sometimes with a resource version (ConfigMaps, the minio service in
`EnsureHAMinioSvc`) and sometimes without one (the JSON patches of the CephCluster and of the service).

### What is hard

* Interleavings of these processes between a read and the write that depends on it, and between the check of a
  pause flag and the work it protects.
* A procedure of many calls that fails, or whose process is replaced, in the middle: the next attempt has to
  find what is left to do in the cluster, since memory is lost.
* Decisions on a list that was read at the beginning of the tick.
* Waits for pods on nodes that may be lost, bounded by the tick's deadline or by nothing.

### What makes the components correct

* Node removal: a master leaves kubeadm's endpoints and etcd before its Node object goes; an OSD leaves ceph
  with its node; enough ready masters remain; a dead node that may be purged is purged in the end.
* Object store: a consumer reads its last acknowledged write, whichever procedure moved its bucket and however
  often; its store is not deleted under it; the service is disabled only for the time of a move.
* Storage classes: Prometheus is down while it is copied and up again afterwards; the pauses end; `completed`
  means that every volume has moved, and that the class which is deleted stays empty.
* Ceph pools: the copies, `min_size`, the mons and the mgrs follow the number of hosts with OSDs, and what a failed
  call left undone is made up for.
* Reconcile loop: it starts; full reconciles come again; certificates are checked when due; the load balancer
  follows the nodes; the steps behind the waits of a tick are reached.
* Certificates: none expires, whatever fails and whichever order they are renewed in; what is restarted uses the
  new ones; contour and envoy trust one authority.
* Internal load balancer: what is recorded is on the hosts, the record follows the node list, and no kubeconfig
  points to a balancer that is not there.
* ha-minio: the servers are spread over the nodes, one volume being given up at a time.

`PROJECT.json` lists every hazard with its line and the properties that cover it.

## 2. The modules

| Module | Models | Its state and actions against the code |
|---|---|---|
| `NodePurge` | `reconcileNode` over the tick's list, `PurgeNode`, `ClearNode`, `ekco purge-node`, the CephCluster's storage list | Two processes, each with a `pc`; one action per API, etcd or ceph call. `listed`, `listedHealth` are the tick's node list; `cm` and `cephSeen` are the ConfigMap and the storage list as read; at the end of the nodes the list that the operator writes holds the ready nodes, all of them or those with the label of `RookStorageNodes`. `Answer` is a call that had its effect and whose answer may be lost; `CallFails` a call without effect. `WriteEndpoints` is refused when the ConfigMap has changed; the patches of the storage list never are. |
| `ObjectStoreMigration` | `migrateObjectStorage` and `reconcileMinio` with `MigrateMinioData` and `EnsureHAMinioSvc` | The selector of the `minio` service with its resource version, the three workloads, `data[store][consumer]`, a version that each consumer keeps incrementing in its bucket, and where it is configured to write. The migration and each reconciling goroutine have a program counter; a bucket is copied per step. `overtaking` is history: the goroutines that could still enable the service when a migration disabled it. |
| `StorageMigration` | `ObjectStorageAndPVCs`, `migrateStorageClasses`, `GetMigrationStatus`, the pauses, the operator's handling of Prometheus and kotsadm | `mig` is the goroutine that holds `migrateStorageMut`, `rec` the reconcile; the volumes by class, those that kotsadm-rqlite claims when it is scaled among them. `overtaken` is history: the volumes were listed while a reconcile was past its look at the pause. The move of the objects is one step here, refined in `ObjectStoreMigration`. |
| `MigrationInterface` | what `/storagemigration/status` promises | An abstract specification: the reported status and the volumes that have moved. `Spec` is its safety and `RunsEnd` its liveness; `StorageMigration` states them as `ImplementsInterface` and `RunningEnds`, under a mapping of `reported` to `GetMigrationStatus` and of `moved` to those volumes on Rook's class that there were at the start. |
| `PollLoop` | `Poll`, `onLaunch`, the order and the failures of `Reconcile`'s steps, `RotateCerts` and `ReconcileInternalLB` up to the pods they wait for, the restart of envoy pods, the approval of certificate requests, the creation of the Rook cluster | `i`, `full`, `failed` are the loop's own variables, `podTodo` the nodes whose pod has not completed. The node removal of `NodePurge` is one step that removes dead nodes or fails. `release` is the Helm release of the CephCluster: "unfinished" from the moment Helm records it until it is deployed. |
| `CertRenewal` | `RotateCerts` step by step, `rotate-certs` on each primary with the restart of the static pods, `rotate-kotsadm-certs` | `pc`, `hostAt` are the operator's, `podFile`, `podRestart`, `podMoving` are those of the pods that run: the one of this rotation (`now`), which goes on when the operator stops waiting, and one of an earlier rotation that could not be deleted (`left`). `aside` holds the manifests that are between the two renames of a restart, `podResult` how the awaited pod has ended. `secret` and `file` hold ages, `inUse` and `loaded` what the users of a certificate have read. |
| `InternalLB` | `ReconcileInternalLB`, `UpdateInternalLB`, the pods that write haproxy's files, `ekco change-load-balancer` | Two updaters, each with a `pc`, a node list and the nodes to come; `config`, `manifest`, `loaded` are what is on each host; the pods of both updaters are one set, since both delete by one label. |
| `MinioRebalance` | `ScaleMinioStatefulset`, `MaybeRebalanceMinioServers`, `rescheduleOnePod` | `seen` is the list of pods as read, `victim` the pod being rescheduled; the claim and the pod are deleted by an action each. `full` are the servers whose volume has all of its data, `deleted` the claims that their pod still keeps. The scheduler, the StatefulSet and MinIO's healing are actions of the environment. |
| `RookReconcile` | `adjustPoolReplicationLevels` with the functions it calls, `ReconcileMonCount`, `ReconcileMgrCount`, `SetCephCSIResources`, `PatchFilesystemMDSPlacementMultinode`, `PrioritizeRook`, within the ticks of `Poll` | `spec` is the size in the custom resources, `size` and `minSize` those in ceph, `mons` and `mgrs` the counts of the CephCluster. `step`, `cr` and `todo` say where the tick is; each patch and each ceph command is an action. `skipped` records a command for which there was no pod: `rookCephExec` reports success. |

`MC<Module>` declares the model values; the `.cfg` files give the constants. The definitions marked "Seeded
fault" are faulty variants of the definition below each of them. They are used by no specification: replacing
the definition by its variant must break a property, which shows that the property can see such a fault.

### Abstractions, and why they are sound for the properties

* An API call is atomic. Time is absent: a wait ends when what it waits for holds or when its deadline passes.
* `NodePurge`. The IP of a node is "known" or not. The endpoints that kubeadm 1.22 and later keeps in pod
  annotations are modelled by an empty `ClusterStatus` (`HasClusterStatus`); the repair of a malformed
  `ClusterStatus` is left out. `terminating` stands for the pods stuck on a dead node. etcd answers when a
  majority of its members is on ready nodes.
* `ObjectStoreMigration`. A bucket holds one object, a number that grows with each write. Velero, which is
  updated in four objects, is one consumer. The rebalancing of ha-minio's pods moves no data between stores. A
  check that finds the cluster not ready is counted as a failure, since at any tick it may.
* `StorageMigration`. pvmigrate copies one volume per step, in any order, and sets the default class last. A read
  of the Prometheus that fails is taken as success without scaling, as the code does.
  Alertmanager is scaled by the same code as Prometheus and is left out.
* `PollLoop`. A node that may be purged is purged in one step. A pod on a lost node never completes. The
  environment's failures are bounded and otherwise arbitrary; certificates become due at any time, any number
  of times. The deadline of a tick is taken only when a pod is blocked. Requests and failed envoy pods appear
  between two ticks, which stands for any time since a tick reads each of them once. Approvals of one tick are one
  step, and so are its restarts of envoy pods. Which pods have failed for long enough is decided by the
  environment. That Helm refuses the name of a release that is not deployed is a property of the library. The
  scaling of Prometheus and of kotsadm only fails or works here (see `StorageMigration`).
* `CertRenewal`. Time passes in check intervals and a certificate is its age; a rotation is over within an interval.
  Each of the two renames that restart a static pod is a step, and a pod may end between them. Of the pods that
  earlier rotations could not delete one is kept, and a deleted pod stops at once. A certificate's content is its
  age, and, for contour and envoy, whether both come from one authority. The restart of the kubelet is no part of a
  rotation. The rotation's pod is on the host of a primary and is not replaced with the operator's.
* `InternalLB`. A pod that fails leaves haproxy's configuration as it was, written, or truncated; an haproxy that
  cannot read its file keeps what it has loaded. The names of removed nodes are not used again. The deletion of a
  pod takes effect at once. The tick's deadline passes when the awaited pod is gone or on a node that is
  unreachable. Conflicts on the ConfigMap, which only the operator writes, do not occur. The manifest's version and
  image do not change, and the command runs with `--internal`. The contents of a kubeconfig are its server.
* `MinioRebalance`. The environment acts at any step of a rebalancing: nodes stop reporting, one or all of them, are
  lost and come back, their pods are evicted or found unschedulable, and lost nodes are purged. The scheduler takes
  the first of the least loaded ready nodes. With no ready node the bounds are some integer, as the conversion of an
  infinite float to an `int` depends on the platform. A purged node does not come back.
* `RookReconcile`. The versions of Rook and Ceph are chosen initially: 1.0, 1.4 or 1.9, each with its Ceph. The
  metadata pools of the object store are one pool, but for `rgw.buckets.non-ec`, which may not exist. What Rook and
  ceph do is taken from the code's comments: before 1.4 Rook applies the block pool's size and nothing else, later
  it applies every resource with its `min_size`; ceph lowers `min_size` with the size and refuses one above it. A
  resource that does not exist is left out. Every node has an OSD, so that the node list's length is the number
  of hosts. Of the deployments that get a priority class the OSDs are kept, since only they come and go; a tick
  also takes one deployment of each other label, so that the comment "Change at most 1 deployment per reconcile"
  holds for each label only. `HighIds` are the OSDs whose ids have two digits.

## 3. What TLC checks

Deadlock is checked in every run. All instances are small because every hazard involves one or two nodes,
volumes or buckets and at most two processes.

| Run | Properties | Instance, and why it is enough |
|---|---|---|
| `purge_two` | `TypeOK`, `NoOrphanMember`, `PurgedOsdGone`, `DeadNodePurged` | Three masters, two of them with an OSD, the `ClusterStatus` in the ConfigMap, the operator and the command, two health changes, one failure, one restart. Two masters are an etcd quorum without the third, so that a dead master may be purged, by both processes at once, with a failure or a restart at any call; a removal that stops between endpoint, etcd member and Node is completed. |
| `object_moves` | `TypeOK`, `LastWriteServed` | Two clusters: a single MinIO migrated to Rook, and one moved to ha-minio by two goroutines of successive ticks. Two consumers that write twice each, two approvals: writes fall before, between and after the copies. |
| `object_faults` | `StoreBehindConsumer`, `DisabledDuringMigration`, `ServiceComesBack` | Both procedures, two approvals, two failures, one restart, ha-minio present: a `reconcileMinio` runs beside a migration that disables the service, before or behind its look at the pause flag, and beside the retry of one that failed. |
| `storage_faults` | `TypeOK`, `PausedOnlyByMigration`, `CompletedMeansMoved`, `PrometheusRestored`, `ImplementsInterface`, `RunningEnds` | Two volumes, two approvals, two failures, one restart, three nodes, so that kotsadm-rqlite is scaled at some time, before, during or after a migration, and claims a new volume on the default class. The refinement of `MigrationInterface` is checked in its two parts, safety and liveness. |
| `poll_recovers` | `TypeOK`, `FullReconcileRecurs`, `DueCertsChecked`, `LoadBalancerFollows`, `LateStepsReached`, `RookClusterCompleted` | A master, two workers of which one may be lost twice, a failure, a restart, two requests that keep coming, an envoy pod, three nodes wanted for Rook, a full reconcile every second tick (60 in the code: what counts is that there are ticks that are full and ticks that are not). |
| `rook_follows` | `TypeOK`, `FullReconcileRepairs`, `ReplicationFollows`, `DaemonsFollow`, `UpkeepFollows` | Three hosts, two of them with an OSD at first, one change of OSDs, one failure, one loss of the pod, at most two copies, a full reconcile every second tick. Three hosts are needed for the third mon and the CSI resources; a second copy is where `min_size` changes. |
| `certs_renewed` | `TypeOK`, `NoCertExpires`, `MismatchIsDue`, `RestartsCatchUp` | Two primaries with two files each, whose users are different components, over periods of seven intervals of which the last four are within the TTL: four attempts before a certificate expires. A failed call and a restart of the operator cost one each at most; a pod that ends between its two renames costs two, its own and the later one that finds no manifest to move. With a TTL of three intervals `NoCertExpires` is refuted. |
| `lb_updates` | `TypeOK`, `RecordedIsWritten`, `PointedHasBalancer`, `RecordFollows` | Two primaries, one of which joins later, and two of: a failure, a lost node, a removal, a restart, a command with or without an excluded host. Two hosts are needed for an update that stops halfway, two disturbances for a command beside a failing update. |
| `minio_spread` | `TypeOK`, `QuorumKept`, `ServersSpread` | Four servers on three nodes with a write quorum of three, one outage (a node lost, or a node or all of them not reporting) and one failure or restart, at any step: the number of servers is no multiple of the nodes', and a lost node leaves four on two. |

The following runs show a disagreement between the code and what a comment, a configuration's description or a
message says. Each checks one property, which TLC finds violated; the text it contradicts is quoted in the
findings of `PROJECT.json`.

| Run | What the shortest trace shows |
|---|---|
| `rook_osd_ids` | The OSD of a second host has an id of two digits. `countUniqueHostsWithOSD` does not see the host and no pool gets a second copy. |
| `certs_external_ca` | The CA of etcd is external. `rotate.go:58` makes an error from a nil error, which is nil: the host's rotation ends there as a success, the certificates behind it, of the cluster's own CA, are not renewed, and what was renewed before it is not restarted. |
| `purge_list` | A worker stops reporting and the tick lists it as not ready; `purge-node` takes that worker out of the storage list behind the tick's read of the CephCluster; `UseNodesForStorage` writes back the list that the tick made of what it had read, with that worker in it. |

Other behaviours that the modules reach, for which no run is kept; each is a hazard of `PROJECT.json`:

* The ready counts of `reconcileNode` are those of the tick's list. Two masters of one list, dead when it was read,
  may be purged although one has become ready again, and nodes may be lost after the list was read: fewer ready
  masters remain than `min_ready_master_nodes` (`NodePurge`, three masters, four health changes).
* The operator is replaced between the deletion of an OSD's deployment and ceph's purge, or the purge fails, which
  is only logged. The deployment was the only record of the OSD's id, so that no retry removes it
  (`NodePurge!PurgedNodeHasNoOsd` is refuted with one restart; `PurgedOsdGone` covers the attempts in which every
  call works).
* A migration that failed after the first consumer was moved is approved again and copies MinIO's old objects over
  that consumer's new ones (`LastWriteServed` with one failure).
* A reconcile past its pause check scales kotsadm-rqlite, which creates claims on the class that the migration then
  deletes, and reports as completed: `CompletedMeansMoved` without `overtaken` is refuted.
* An update of Velero that stops behind the backup location is not completed by the retry, which finds the location
  updated and skips the restic repositories (`objectstore/migrate.go:182`; no module has this state).
* A dead node which the thresholds keep from being purged is not cleared either, since `reconcileNode` returns.
* A `reconcileMinio` past its pause check enables the service that the migration has disabled, against
  `storage.go:193` (`DisabledDuringMigration` without `overtaking` is refuted, ha-minio present); a migration that
  fails leaves it disabled, for good without ha-minio.
* A reconcile past its pause check scales Prometheus up while its volumes are copied (`StorageMigration`).
* After a restart between `EnableService` and the deletion of the minio deployment, the next tick copies the old
  data over the new (`ObjectStoreMigration`, `LastWriteServed` with one restart and ha-minio present).
* A master lost during the launch hook blocks `Poll` before its loop, which alone would purge the master
  (`PollLoop`, step `launchPods`).
* A full reconcile may report success although no command ran for want of a pod: `FullReconcileRepairs` without
  `~skipped` is refuted (`RookReconcile`, one loss of the pod). A later full reconcile makes up for it.
* The deletion of the class is not repeatable: after a failure behind it no migration completes.
* Helm's installation of the CephCluster is interrupted or fails. `GetRelease` lists deployed releases only, and Helm
  refuses to use the name again: from then on every tick with enough ready nodes fails. No tick is counted any
  more, and unless the counter happens to stand at a full reconcile no certificate is checked until the operator
  is restarted. `FullReconcileRecurs` and `DueCertsChecked` except this case by `NeverInstalled`, and are refuted
  without the exception (`PollLoop`, one failure).
* `change-load-balancer` waits without a deadline for a pod that the operator has deleted: `InternalLB!CommandEnds`
  is refuted with a command beside an update.
* The load balancer's list changes and changes back while an update has stopped halfway: the record equals the list
  again, nothing is updated, and a host keeps the configuration in between. A haproxy that could not be signalled
  is not signalled by any later tick. Both are among the reasons that `RecordedIsWritten` names in `spoilt`.
* A certificate renewed on a host whose static pods could not be restarted stays unused until its next renewal,
  which comes before it expires on disk; what the pod has loaded, though, expires first
  (`CertRenewal!InUseNeverExpires` is refuted with one failure).
* A pod that ends between the two renames of `rotate.go:108-114` leaves the manifest of the static pod in
  `/etc/kubernetes`. Nothing moves it back: the component stays stopped on that host, and every later restart of it
  fails at the first rename (`RestartsCatchUp` without `LeftAside` is refuted with one interruption).
* A server's volume is given up while another is being healed, until fewer than a write quorum hold the data: an
  unschedulable pod is rescheduled on the cluster's health alone, which counts the servers that are still being
  healed. It takes two nodes lost one after the other, or, with six servers on three nodes and a write quorum of
  four, one node lost after a rebalancing; a pod that was unschedulable when it was listed and runs again is not
  asked about either. This is why `QuorumKept` speaks of `losses = 0` only.
* Where the command lists no primary with an internal IP, `UpdateInternalLB` returns nil without an update
  (`internallb.go:80-83`), and the kubeconfigs are pointed all the same; `PointedHasBalancer` excepts such a list.
* With `purge_dead_nodes` off, a lost worker keeps the load balancer's update waiting in every tick; ticks that fail
  are not counted, so that the certificates are never checked (`PollLoop`, `PurgeDeadNodes = FALSE`,
  `DueCertsChecked`).

### Bounds

Each bound is a constant that appears in a guard: `MaxHealthChanges`, `MaxFailures`, `MaxCrashes` or `MaxRestarts`,
`MaxCliRuns`, `MaxApprovals`, `MaxWrites`, `MaxOsdChanges`, `MaxPodLosses`, `MaxInterruptions` (of `rotate-certs`
between two renames), `MaxOutages` (nodes lost or not reporting, `MinioRebalance`) and `MaxDisturbances` (failures,
losses, removals, restarts and commands together, `InternalLB`). Certificate requests, failed envoy pods and
intervals are not bounded. The code has no such limits; they keep the state space finite. After the last failure the
environment is quiet, which is what the liveness properties need: they say that the system recovers once nothing
fails any more.

### Fairness

* `NodePurge`: weak fairness of the operator's steps and of a started command. The ticker fires for ever and
  API calls return, with an answer or an error. The command being run, failures, crashes and health changes are
  not fair.
* `ObjectStoreMigration`: weak fairness of a started migration and of each reconciling goroutine, which every
  tick starts again. Writes, approvals, failures and crashes are not fair.
* `StorageMigration`: weak fairness of a started migration and of the reconcile. The waits of pvmigrate, for pods that
  stop and for copies, have no deadline in the code: `RunningEnds` assumes that they end, by success or by an error.
* `PollLoop`: weak fairness of the operator's steps, including the deadline of a tick, and of `Die`: a node that
  is lost comes back, or is tainted as unreachable for good by the node lifecycle controller. The launch
  hook's wait has no deadline in the code and therefore none here.
* `RookReconcile`: weak fairness of the operator's steps, of Rook's application of each resource and of the return
  of the pod, which a deployment keeps. OSDs, failures and losses of the pod are not fair.
* `CertRenewal`: weak fairness of the operator's steps, of the pod's and of the passing of intervals. Failures,
  the tick's deadline and restarts are not fair.
* `InternalLB`: weak fairness of each updater's steps, the tick's deadline included, of the pods of a host, and of
  the return of an unreachable node. The command's wait has no deadline.
* `MinioRebalance`: weak fairness of the operator's steps and, for each server, of the scheduler, the StatefulSet
  and MinIO's healing.

## 4. What TLAPS proves

| Theorem | Statement |
|---|---|
| `NodePurge_proofs!TypeCorrect` | `Spec => []TypeOK` |
| `NodePurge_proofs!NoOrphans` | `Spec => []NoOrphanMember` |
| `NodePurge_proofs!OsdsPurged` | `OneOsdPerNode /\ Spec => []PurgedOsdGone` |
| `ObjectStoreMigration_proofs!TypeCorrect` | `Spec => []TypeOK` |
| `ObjectStoreMigration_proofs!StoreBehind` | `Spec => []StoreBehindConsumer` |
| `ObjectStoreMigration_proofs!ServiceDisabled` | `Spec => []DisabledDuringMigration` |
| `ObjectStoreMigration_proofs!LastWriteKept` | `OneMoveOnly /\ MaxFailures = 0 /\ MaxCrashes = 0 /\ Spec => []LastWriteServed` |
| `StorageMigration_proofs!TypeCorrect` | `Spec => []TypeOK` |
| `StorageMigration_proofs!CompletedMoved` | `Spec => []CompletedMeansMoved` |
| `StorageMigration_proofs!PausesEnd` | `Spec => []PausedOnlyByMigration` |
| `StorageMigration_proofs!InterfaceImplemented` | `Spec => ImplementsInterface` |
| `CertRenewal_proofs!TypeCorrect` | `Spec => []TypeOK` |
| `CertRenewal_proofs!MismatchRepaired` | `Spec => []MismatchIsDue` |
| `CertRenewal_proofs!CertsRenewed` | `ExternalCA = {} /\ MaxInterruptions = 0 /\ MaxFailures + 1 < TTL /\ Spec => []NoCertExpires` |
| `RookReconcile_proofs!TypeCorrect` | `Spec => []TypeOK` |
| `RookReconcile_proofs!FullReconcileRepaired` | `Spec => []FullReconcileRepairs` |
| `InternalLB_proofs!TypeCorrect` | `Spec => []TypeOK` |
| `InternalLB_proofs!PointedBehindBalancer` | `Spec => []PointedHasBalancer` |
| `InternalLB_proofs!RecordWritten` | `Spec => []RecordedIsWritten` |
| `MinioRebalance_proofs!TypeCorrect` | `Spec => []TypeOK` |
| `MinioRebalance_proofs!QuorumSurvives` | `Spec => []QuorumKept` |
| `PollLoop_proofs!TypeCorrect` | `Spec => []TypeOK` |

They hold for every value of the constants that meets the modules' assumptions (`ConstantsAssumption`,
`BoundsAssumption`) and the hypotheses in the table: any nodes, OSDs, thresholds, consumers, goroutines, volumes,
servers, periods, failures and restarts. With them every invariant of the passing runs is a theorem. Each proof has
one step per action. The hypotheses, the inductive invariants and why they are needed:

* `NoOrphanMember` alone is not inductive: the deletion of the Node could come before that of its etcd member.
  `OrphanInv` adds what the order of `PurgeNode`'s calls guarantees: a process that has found the Node knows an
  IP, so that it does not skip etcd; at `etcdRemove` the target's endpoint is gone; at `deleteNode` its endpoint
  and its member are gone. It is preserved beside a second process because nothing adds an endpoint or a member:
  an update of the ConfigMap by a process that read it earlier is refused.
* `PurgedOsdGone` needs `OsdInv`, whose parts speak of the part of a run before the first failure: an OSD in ceph
  keeps its deployment until a process takes the deployment, and that process is then about to purge it; past that
  step no deployment is left on the target, so that only Nodes without one are deleted. `OneOsdPerNode` is needed,
  as `deleteK8sDeploymentOSD` removes one deployment a call.
* `StoreBehindConsumer` needs `StoreBehindInv`: in the loop of `UpdateConsumers` all consumers before `migNext`
  have moved; when MinIO's workloads are being deleted all have; and a `reconcileMinio` past `HAMinioExists`, which
  may delete the deployment, still has the statefulset unless all have moved.
* `DisabledDuringMigration` needs `DisabledInv`: while the flag is up and the service is disabled, every goroutine
  that is not in `overtaking` is `Harmless`. Either it has no write to the service before its next look at the flag,
  or it is about to write with a resource version older than the one of the disabling, which is refused.
* `LastWriteServed` needs `MoveInv`, which says for each step of a move which store holds the last writes: the old
  one until the service is disabled, then the buckets copied so far (nobody writes), then the new one. `OneMoveOnly`
  says that a cluster has no ha-minio or no approval to come, so that no `reconcileMinio` enables the service beside
  a migration. A failure or a restart in between is what makes a later move overwrite newer data (section 3), so that
  their absence is a hypothesis.
* `CompletedMeansMoved` needs `EmptyClassInv`: during the copy what is on the old class is still to be copied, and
  once the default class is set nothing is left, new claims going to Rook's class. A claim that comes to the old
  class in between is made by a reconcile that was past its look at the pause when the volumes were listed
  (`overtaken`), since kotsadm is paused from then on.
* `ImplementsInterface` is a step simulation, `StepSimulation`, under `InterfaceInvariant`: the volumes there were
  at the start are copied before the default class is set (`VolumesPlaced`), and what the status says at each step
  of the migration. Every action is mapped to one of the interface or to a stutter.
* `MismatchIsDue` needs `AuthorityInv`: certificates of contour and envoy from one authority have one age, and as long
  as they come from two, envoy's is due. `NoCertExpires` needs `AgeInv`: what a failure costs is one interval, what
  a restart costs is none, so that a certificate is no older than the failures so far account for; a pod left over
  only renews files; and without interruptions every manifest out of its place is about to be moved back
  (`MovingInv`), so that no restart fails for want of one. With
  `MaxFailures + 1 >= TTL` there is a run in which a certificate expires; an external authority's is not renewed.
* `FullReconcileRepairs` needs `RepairInv`: at each step of a full reconcile the pools before it are level with
  their resources, except those whose command was skipped or failed. Rook, before 1.4, sets a pool's size behind
  the tick's back; it changes nothing where the block pool's resource is exactly level with the pool.
* `PointedHasBalancer` and `RecordedIsWritten` need to know what the update pods of either updater may still write:
  `PodsInv` and `ListsInv` (each pod carries the list of an updater that has started; names are never used again),
  `PointedInv`, `HistoryInv` (where pods of others may run, a disturbance has been noted) and `WrittenInv` (the
  hosts that an undisturbed updater has behind it hold its list, and a pod of it that still runs is on a host to
  come). The next host of an updater is the least of a set, which is a member of the set (`MinIsMember`, by the
  well-foundedness of strict inclusion on finite sets).
* `QuorumKept` needs `QuorumInv`: while no node is lost there is a set of servers that run on whole volumes, without
  the victim and without the servers whose claim is deleted, and it is a write quorum but for one server per failure.
  It is chosen anew when MinIO agrees to a victim (`ChosenKept`), and nothing else in a rebalancing or around it
  takes a volume or a pod of it (`KeptStays`): a pod that is rescheduled as unschedulable does not run. The claims
  left deleted without their pod are at most as many as the failures. `VictimsSafe` shows that each of the three
  loops asks MinIO, `TargetReady` that the scheduler of the model has a choice.

Only model-checked:

* the liveness properties, with fairness: `RunningEnds`, `DeadNodePurged`, `ServiceComesBack`, `PrometheusRestored`,
  `FullReconcileRecurs`, `DueCertsChecked`, `LoadBalancerFollows`, `LateStepsReached`, `RookClusterCompleted`,
  `ReplicationFollows`, `DaemonsFollow`, `UpkeepFollows`, `RestartsCatchUp`, `RecordFollows`, `ServersSpread`. TLAPS
  1.4.5 has no reasoning about ENABLED.
* `NoCertExpires` beside a pod that ends between its two renames: the theorem leaves interruptions out.

## 5. What is not modelled, and the plan

Not modelled for good: the admission webhooks, the command line, logging and version (no state of their own or
pure input and output), and the text processing of kubeconfig and haproxy files.

Left out of modules that exist, and why:

* `NodePurge`: the repair of a malformed `ClusterStatus` and the endpoints in pod annotations, which are text; and
  Rook's creation of OSDs on the listed nodes.
* `ObjectStoreMigration`: the four objects that the update of Velero rewrites. They say nothing about the objects
  in the stores, and would need a model of backups.
* `StorageMigration`: Alertmanager, scaled as Prometheus is.
* `InternalLB`: the text of haproxy's configuration and of the kubeconfigs, and the restart of the kubelet.
* `PollLoop`: the values of the chart; a CephCluster that was not created by Helm.

Abstract specifications worth stating, with refinement mappings:

* a registry of masters from which a node is removed in one step, implemented by `NodePurge` under a mapping that
  takes a master to be present until its Node object goes;
* one store per consumer that moves atomically and keeps its contents, implemented by `ObjectStoreMigration`
  without failures.

Theorems worth proving next: the two abstract specifications above, each with a step simulation; the action
properties behind the liveness runs, such as what a failed tick of `PollLoop` may not change.

## 6. Running it

    tlc -config purge_two.cfg MCNodePurge.tla
    tlapm NodePurge_proofs.tla
