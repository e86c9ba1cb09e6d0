---------------------------- MODULE RookReconcile ----------------------------
(***************************************************************************)
(* The part of a tick that follows the number of hosts with OSDs: the      *)
(* replication of Rook's pools and the numbers of mons and mgrs; and what  *)
(* it does as the cluster grows: the CSI resources, the placement of the   *)
(* MDS and the priority class of Rook's deployments.                       *)
(*                                                                         *)
(* A pool has a size in a custom resource, which Rook applies or not       *)
(* depending on its version, and the size and min_size it really has in    *)
(* ceph, which ekco sets itself where Rook does not.  The device health    *)
(* pool has no custom resource.                                            *)
(***************************************************************************)
EXTENDS Integers, FiniteSets, Sequences

CONSTANTS
  Osd, HostOf,           \* OSDs that may be created, and their hosts
  HighIds,               \* those whose id has two digits
  InitOsds,
  MinCephPoolReplication, MaxCephPoolReplication,
  Period,                \* a full reconcile every Period ticks
  MaxOsdChanges, MaxPodLosses, MaxFailures   \* bounds

Resource == {"block", "fs", "os"}
CrPool == {"block", "fsMeta", "fsData", "osMeta", "osData"}
Pool == CrPool \cup {"nonEc", "health"}
Size == MinCephPoolReplication .. MaxCephPoolReplication
Step == {"wait", "count", "version", "patch", "size", "min", "pgNum", "health",
         "healthMin", "mon", "mgr", "csi", "mds", "prioritize", "end"}

ASSUME ConstantsAssumption ==
  /\ IsFiniteSet(Osd) /\ HighIds \subseteq Osd /\ InitOsds \subseteq Osd
  /\ MinCephPoolReplication \in Nat \ {0}
  /\ MaxCephPoolReplication \in Nat /\ MaxCephPoolReplication >= MinCephPoolReplication
  /\ Period \in Nat \ {0} /\ MaxOsdChanges \in Nat
  /\ MaxPodLosses \in Nat /\ MaxFailures \in Nat

VARIABLES
  rook, ceph,      \* the versions installed: rook is "1.0", "1.4" or "1.9"
  pools,           \* the pools that exist in ceph
  osds,            \* the OSDs in ceph
  pod,             \* there is a pod to run ceph's commands in
  spec,            \* the sizes in the custom resources
  size, minSize,   \* the sizes in ceph
  mons, mgrs,      \* their counts in the CephCluster
  csiResources,    \* rook-ceph-operator-config has the recommended resources
  mdsSpread,       \* the MDS pods' anti-affinity is the required one
  classed,         \* the OSDs whose deployment has a priority class
  step, cr, todo,  \* where the tick is: the resource, the pools it has left
  i, full, failed, \* Poll's counter, doFullReconcile, multiErr # nil
  skipped,         \* a command of this tick was not run for want of a pod
  nodes,           \* len(nodes) of the tick; every node here has an OSD
  level, count, didUpdate, cephVersion,   \* locals; cephVersion # nil
  osdChanges, podLosses, failures

versions == <<rook, ceph, pools>>
sizes == <<spec, size, minSize>>
upkeep == <<csiResources, mdsSpread, classed>>
counts == <<mons, mgrs>>
daemons == <<counts, upkeep>>
place == <<step, cr, todo>>
locals == <<i, full, nodes, level, count, didUpdate, cephVersion>>
outcome == <<failed, skipped, failures>>
env == <<osds, pod, osdChanges, podLosses>>
vars == <<versions, sizes, daemons, place, locals, outcome, env>>

TypeOK ==
  /\ rook \in {"1.0", "1.4", "1.9"} /\ ceph \in {"pacific or older", "quincy"}
  /\ pools \subseteq Pool /\ osds \subseteq Osd
  /\ spec \in [CrPool -> Size] /\ size \in [Pool -> Size] /\ minSize \in [Pool -> {1, 2}]
  /\ mons \in {1, 3} /\ mgrs \in {1, 2}
  /\ csiResources \in BOOLEAN /\ mdsSpread \in BOOLEAN /\ classed \subseteq osds
  /\ nodes \in 0 .. Cardinality(Osd)
  /\ step \in Step /\ cr \in Resource /\ todo \in Seq(Pool)
  /\ i \in 0 .. Period - 1 /\ full \in BOOLEAN /\ failed \in BOOLEAN /\ skipped \in BOOLEAN
  /\ level \in Size /\ count \in 0 .. Cardinality(Osd)
  /\ didUpdate \in BOOLEAN /\ cephVersion \in BOOLEAN
  /\ pod \in BOOLEAN /\ osdChanges \in Nat /\ podLosses \in Nat /\ failures \in Nat

\* min_size: two copies wherever there is more than one.
MinOf(n) == IF n > 1 THEN 2 ELSE 1

Before14 == rook = "1.0"

\* Clusters as kURL installs them.  Only Rook 1.0 may lack the non-ec pool.
Init ==
  /\ \E v \in {<<"1.0", "pacific or older">>, <<"1.4", "pacific or older">>, <<"1.9", "quincy">>} :
       rook = v[1] /\ ceph = v[2]
  /\ pools \in (IF Before14 THEN {Pool \ {"health"}, CrPool} ELSE {Pool \ {"nonEc"}})
  /\ osds = InitOsds /\ pod = TRUE
  /\ spec = [p \in CrPool |-> MinCephPoolReplication]
  /\ size = [p \in Pool |-> MinCephPoolReplication]
  /\ minSize = [p \in Pool |-> MinOf(MinCephPoolReplication)]
  /\ mons = 1 /\ mgrs = 1
  /\ csiResources = FALSE /\ mdsSpread = FALSE /\ classed = {} /\ nodes = 0
  /\ step = "wait" /\ cr = "block" /\ todo = << >>
  /\ i = 0 /\ full = FALSE /\ failed = FALSE /\ skipped = FALSE
  /\ level = MinCephPoolReplication /\ count = 0
  /\ didUpdate = FALSE /\ cephVersion = FALSE
  /\ osdChanges = 0 /\ podLosses = 0 /\ failures = 0

-----------------------------------------------------------------------------
(* Control.                                                                *)

Works == UNCHANGED outcome
Fails ==
  /\ failures < MaxFailures /\ failures' = failures + 1
  /\ failed' = TRUE /\ UNCHANGED skipped

\* rookCephExec: without a pod it wraps a nil error, and so the caller goes on.
CephRuns == pod /\ Works
CephSkipped == ~pod /\ skipped' = TRUE /\ UNCHANGED <<failed, failures>>
CephRefuses == pod /\ failed' = TRUE /\ UNCHANGED <<skipped, failures>>

At(s, r, t) == step' = s /\ cr' = r /\ todo' = t

\* SetBlockPoolReplication, SetFilesystemReplication and SetObjectStoreReplication
\* are called in this order, whether or not the previous one failed.
EndResource ==
  CASE cr = "block" -> At("patch", "fs", << >>)
    [] cr = "fs"    -> At("patch", "os", << >>)
    [] cr = "os"    -> At("health", "block", << >>)

PoolsOf(r) ==
  CASE r = "block" -> {"block"}
    [] r = "fs"    -> {"fsMeta", "fsData"}
    [] r = "os"    -> {"osMeta", "osData"}

\* The order of the ceph commands; the metadata pools of the store but one go together.
Commands(r) ==
  CASE r = "block" -> <<"block">>
    [] r = "fs"    -> <<"fsMeta", "fsData">>
    [] r = "os"    -> <<"osMeta", "nonEc", "osData">>

Hosts(set) == {HostOf[o] : o \in set}

\* The tick fires; reconcileRook runs first.
Tick ==
  /\ step = "wait" /\ At("count", "block", << >>)
  /\ full' = (i = 0) /\ nodes' = Cardinality(Hosts(osds))
  /\ UNCHANGED <<versions, sizes, daemons, outcome, env, i, level, count, didUpdate, cephVersion>>

\* Seeded fault: the maximum is not looked at.
FactorUnbounded(n) == IF n < MinCephPoolReplication THEN MinCephPoolReplication ELSE n

\* adjustPoolReplicationLevels' factor.
Factor(n) ==
  IF n < MinCephPoolReplication THEN MinCephPoolReplication
  ELSE IF n > MaxCephPoolReplication THEN MaxCephPoolReplication ELSE n

\* countUniqueHostsWithOSD: the pattern of a status line wants one digit, then a space.
CountHosts ==
  /\ step = "count"
  /\ \/ /\ pod /\ count' = Cardinality(Hosts(osds \ HighIds))
        /\ level' = Factor(count')
        /\ At("version", "block", << >>) /\ Works
     \/ At("csi", "block", << >>) /\ UNCHANGED <<count, level>> /\ Fails
     \/ /\ ~pod /\ At("csi", "block", << >>)
        /\ failed' = TRUE /\ UNCHANGED <<count, level, skipped, failures>>
  /\ UNCHANGED <<versions, sizes, daemons, env, i, full, nodes, didUpdate, cephVersion>>

\* GetCephVersion; an error leaves the version nil.
GetCephVersion ==
  /\ step = "version" /\ At("patch", "block", << >>)
  /\ \/ cephVersion' = TRUE /\ Works
     \/ cephVersion' = FALSE /\ Fails
  /\ UNCHANGED <<versions, sizes, daemons, env, i, full, nodes, level, count, didUpdate>>

-----------------------------------------------------------------------------
(* The resources.                                                          *)

Behind(r) == {p \in PoolsOf(r) : spec[p] < level}

\* Only the block pool's resource is ever lowered.
PatchedSpec(r) ==
  [p \in CrPool |-> IF p \in Behind(r) \cup ({"block"} \cap PoolsOf(r)) THEN level ELSE spec[p]]

AfterPatch ==
  IF Before14 THEN At("size", cr, Commands(cr)) /\ UNCHANGED didUpdate
  ELSE IF cr = "os" /\ ceph = "quincy" /\ cephVersion
    THEN At("pgNum", cr, << >>) /\ UNCHANGED didUpdate
  ELSE EndResource /\ didUpdate' = TRUE

PatchMade == spec' = PatchedSpec(cr) /\ AfterPatch /\ Works

\* A failed patch may have been made.
PatchFails ==
  spec' \in {spec, PatchedSpec(cr)} /\ EndResource /\ UNCHANGED didUpdate /\ Fails

\* Seeded fault: a full reconcile leaves a resource alone that has its size already.
PatchResourceIfBehind ==
  /\ step = "patch"
  /\ IF Behind(cr) = {}
       THEN EndResource /\ UNCHANGED <<spec, didUpdate>> /\ (Works \/ Fails)
       ELSE PatchMade \/ PatchFails
  /\ UNCHANGED <<versions, size, minSize, daemons, env, i, full, nodes, level, count, cephVersion>>

\* The resource is read and, where it is behind or the reconcile a full one, patched.
PatchResource ==
  /\ step = "patch"
  /\ IF Behind(cr) = {} /\ ~full
       THEN EndResource /\ UNCHANGED <<spec, didUpdate>> /\ (Works \/ Fails)
       ELSE PatchMade \/ PatchFails
  /\ UNCHANGED <<versions, size, minSize, daemons, env, i, full, nodes, level, count, cephVersion>>

\* What ceph does with "osd pool set size": it takes min_size along where it must.
Resize(p, n) ==
  /\ size' = [size EXCEPT ![p] = n]
  /\ minSize' = [minSize EXCEPT ![p] = IF n < @ THEN n ELSE @]

\* Before Rook 1.4: cephOSDPoolSetSize for the next pool of the resource.  ENOENT for
\* a metadata pool of the object store only skips the pool.
SetSize ==
  /\ step = "size"
  /\ LET p == Head(todo) IN
       \/ p \in pools /\ Resize(p, level) /\ At("min", cr, todo) /\ CephRuns
       \/ p \notin pools /\ At("size", cr, Tail(todo)) /\ UNCHANGED <<size, minSize>> /\ CephRuns
       \/ At("min", cr, todo) /\ UNCHANGED <<size, minSize>> /\ CephSkipped
       \/ /\ UNCHANGED <<size, minSize>> \/ (p \in pools /\ Resize(p, level))
          /\ EndResource /\ Fails
  /\ UNCHANGED <<versions, spec, daemons, locals, env>>

\* Ceph refuses a min_size above the size.
MinAllowed(p) == MinOf(level) <= size[p]

\* cephOSDPoolSetMinSize; the resource has been updated when no pool is left.
SetMinSize ==
  /\ step = "min"
  /\ \/ /\ \/ /\ MinAllowed(Head(todo)) /\ CephRuns
              /\ minSize' = [minSize EXCEPT ![Head(todo)] = MinOf(level)]
           \/ UNCHANGED minSize /\ CephSkipped
        /\ IF Len(todo) > 1
             THEN At("size", cr, Tail(todo)) /\ UNCHANGED didUpdate
             ELSE EndResource /\ didUpdate' = TRUE
     \/ /\ UNCHANGED <<minSize, didUpdate>> /\ EndResource
        /\ Fails \/ (~MinAllowed(Head(todo)) /\ CephRefuses)
  /\ UNCHANGED <<versions, spec, size, daemons, env, i, full, nodes, level, count, cephVersion>>

\* cephOSDPoolSetPgNumMin for the store's pools; an error hides that they were updated.
SetPgNumMin ==
  /\ step = "pgNum" /\ EndResource
  /\ \/ didUpdate' = TRUE /\ (CephRuns \/ CephSkipped)
     \/ UNCHANGED didUpdate /\ Fails
  /\ UNCHANGED <<versions, sizes, daemons, env, i, full, nodes, level, count, cephVersion>>

HealthSized ==
  \/ Resize("health", level) /\ At("healthMin", cr, todo) /\ CephRuns
  \/ UNCHANGED <<size, minSize>> /\ At("healthMin", cr, todo) /\ CephSkipped
HealthFails == UNCHANGED <<size, minSize>> /\ At("mon", cr, todo) /\ Fails

\* SetDeviceHealthMetricsReplication; without a version quincy's pool has a wrong name.
SetDeviceHealthSize ==
  /\ step = "health"
  /\ \/ /\ Before14 \/ ~(full \/ didUpdate)
        /\ At("mon", cr, todo) /\ Works /\ UNCHANGED <<size, minSize>>
     \/ /\ ~Before14 /\ (full \/ didUpdate) /\ (ceph = "quincy" => cephVersion)
        /\ HealthSized \/ HealthFails
     \/ /\ full \/ didUpdate
        /\ ceph = "quincy" /\ ~cephVersion /\ UNCHANGED <<size, minSize>>
        /\ \/ At("mon", cr, todo) /\ CephRefuses
           \/ At("healthMin", cr, todo) /\ CephSkipped
  /\ UNCHANGED <<versions, spec, daemons, locals, env>>

SetDeviceHealthMinSize ==
  /\ step = "healthMin" /\ At("mon", cr, todo)
  /\ \/ /\ ceph = "quincy" => cephVersion
        /\ MinAllowed("health")
        /\ minSize' = [minSize EXCEPT !["health"] = MinOf(level)] /\ CephRuns
     \/ UNCHANGED minSize /\ CephSkipped
     \/ UNCHANGED minSize /\ Fails
     \/ /\ (ceph = "quincy" /\ ~cephVersion) \/ ~MinAllowed("health")
        /\ CephRefuses /\ UNCHANGED minSize
  /\ UNCHANGED <<versions, spec, size, daemons, locals, env>>

-----------------------------------------------------------------------------
(* Mons and mgrs.                                                          *)

DesiredMons(n) == IF n < 3 THEN 1 ELSE 3
DesiredMgrs(n) == IF n < 2 THEN 1 ELSE 2

\* Seeded fault: the bounded replication level stands for the number of hosts.
ReconcileMonCountByLevel ==
  /\ step = "mon" /\ At("mgr", cr, todo)
  /\ \/ mons' = (IF mons < DesiredMons(level) THEN DesiredMons(level) ELSE mons) /\ Works
     \/ UNCHANGED mons /\ Fails
  /\ UNCHANGED <<versions, sizes, mgrs, upkeep, locals, env>>

\* A count is never reduced.
ReconcileMonCount ==
  /\ step = "mon" /\ At("mgr", cr, todo)
  /\ \/ mons' = (IF mons < DesiredMons(count) THEN DesiredMons(count) ELSE mons) /\ Works
     \/ UNCHANGED mons /\ Fails
  /\ UNCHANGED <<versions, sizes, mgrs, upkeep, locals, env>>

ReconcileMgrCount ==
  /\ step = "mgr" /\ At("csi", cr, todo)
  /\ \/ /\ mgrs' = IF rook = "1.9" /\ mgrs < DesiredMgrs(count) THEN DesiredMgrs(count) ELSE mgrs
        /\ Works
     \/ rook = "1.9" /\ UNCHANGED mgrs /\ Fails
  /\ UNCHANGED <<versions, sizes, mons, upkeep, locals, env>>

-----------------------------------------------------------------------------
(* What changes as the cluster grows.                                      *)

\* SetCephCSIResources wants three nodes.
SetCephCSIResources ==
  /\ step = "csi" /\ At("mds", cr, todo)
  /\ \/ csiResources' = (csiResources \/ (rook = "1.9" /\ nodes >= 3)) /\ Works
     \/ rook = "1.9" /\ nodes >= 3 /\ UNCHANGED csiResources /\ Fails
  /\ UNCHANGED <<versions, sizes, counts, mdsSpread, classed, locals, env>>

\* PatchFilesystemMDSPlacementMultinode undoes what kURL did for a single node.
PatchFilesystemMDSPlacement ==
  /\ step = "mds" /\ At("prioritize", cr, todo)
  /\ \/ mdsSpread' = (mdsSpread \/ nodes > 1) /\ Works
     \/ nodes > 1 /\ UNCHANGED mdsSpread /\ Fails
  /\ UNCHANGED <<versions, sizes, counts, csiResources, classed, locals, env>>

\* Seeded fault: the loop ends at an OSD that has its class, too.
NextOsdIfFirst == IF osds \cap classed # {} THEN {{}} ELSE {{o} : o \in osds}

\* prioritizeRookDeployments: one OSD that has no class yet, if there is one.
NextOsd == IF osds \subseteq classed THEN {{}} ELSE {{o} : o \in osds \ classed}

\* PrioritizeRook, of which the OSDs are kept: the labels behind them go the same way,
\* with their own deployment of the tick, and a failure there ends the tick's step.
PrioritizeRook ==
  /\ step = "prioritize" /\ At("end", cr, todo)
  /\ \E o \in NextOsd :
       \/ classed' = classed \cup o /\ Works
       \/ classed' \in {classed, classed \cup o} /\ Fails
  /\ UNCHANGED <<versions, sizes, counts, csiResources, mdsSpread, locals, env>>

NoTick ==
  /\ full' = FALSE /\ nodes' = 0 /\ level' = MinCephPoolReplication /\ count' = 0
  /\ didUpdate' = FALSE /\ cephVersion' = FALSE /\ failed' = FALSE /\ skipped' = FALSE

\* Seeded fault: the counter is not reset.
EndTickNoReset ==
  /\ step = "end" /\ At("wait", "block", << >>)
  /\ i' = IF failed \/ i + 1 = Period THEN i ELSE i + 1
  /\ NoTick
  /\ UNCHANGED <<versions, sizes, daemons, failures, env>>

\* Back in Poll: a tick that failed is not counted.  The locals go out of scope.
EndTick ==
  /\ step = "end" /\ At("wait", "block", << >>)
  /\ i' = IF failed THEN i ELSE (i + 1) % Period
  /\ NoTick
  /\ UNCHANGED <<versions, sizes, daemons, failures, env>>

OperatorStep ==
  \/ Tick \/ CountHosts \/ GetCephVersion \/ PatchResource \/ SetSize \/ SetMinSize
  \/ SetPgNumMin \/ SetDeviceHealthSize \/ SetDeviceHealthMinSize
  \/ ReconcileMonCount \/ ReconcileMgrCount \/ SetCephCSIResources
  \/ PatchFilesystemMDSPlacement \/ PrioritizeRook \/ EndTick

-----------------------------------------------------------------------------
(* The environment.                                                        *)

\* What the comments of the code say of Rook: since 1.4 it applies a resource, and
\* before that only the block pool's size, without its min_size.
RookApplies(r) ==
  /\ \E p \in PoolsOf(r) : size[p] # spec[p]
  /\ Before14 => r = "block"
  /\ IF Before14
       THEN Resize("block", spec["block"])
       ELSE /\ size' = [p \in Pool |-> IF p \in PoolsOf(r) THEN spec[p] ELSE size[p]]
            /\ minSize' = [p \in Pool |-> IF p \in PoolsOf(r) THEN MinOf(spec[p]) ELSE minSize[p]]
  /\ UNCHANGED <<versions, spec, daemons, place, locals, outcome, env>>

\* An OSD comes up on its host, or is purged with it.
OsdChange(o) ==
  /\ osdChanges < MaxOsdChanges /\ osdChanges' = osdChanges + 1
  /\ osds' \in {osds \cup {o}, osds \ {o}} \ {osds}
  /\ classed' = classed \ {o}
  /\ UNCHANGED <<versions, sizes, counts, csiResources, mdsSpread, place, locals, outcome, pod, podLosses>>

\* The pod is replaced: for a while there is none.
PodLost ==
  /\ pod /\ pod' = FALSE
  /\ podLosses < MaxPodLosses /\ podLosses' = podLosses + 1
  /\ UNCHANGED <<versions, sizes, daemons, place, locals, outcome, osds, osdChanges>>

PodReturns ==
  /\ ~pod /\ pod' = TRUE
  /\ UNCHANGED <<versions, sizes, daemons, place, locals, outcome, osds, osdChanges, podLosses>>

Next ==
  \/ OperatorStep
  \/ \E r \in Resource : RookApplies(r)
  \/ \E o \in Osd : OsdChange(o)
  \/ PodLost \/ PodReturns

Spec == Init /\ [][Next]_vars

\* Poll's ticker fires, and Rook's operator and the pod's deployment work.
FairSpec ==
  /\ Spec /\ WF_vars(OperatorStep) /\ WF_vars(PodReturns)
  /\ \A r \in Resource : WF_vars(RookApplies(r))

-----------------------------------------------------------------------------
(* Properties.                                                             *)

Holds(p, n) == size[p] >= n /\ minSize[p] >= MinOf(n)

\* "The min_size remains at 1, which allows I/O in a degraded state and can lead to
\* data loss" (rook_ceph.go:236): a full reconcile that reports no error, and had a pod
\* for its commands, has brought every pool that ekco sets itself to the level of the
\* tick, and the resources of the others, whatever had failed in the ticks before.
FullReconcileRepairs ==
  step = "end" /\ full /\ ~failed /\ ~skipped =>
    /\ \A p \in CrPool : spec[p] >= level
    /\ Before14 => \A p \in pools : Holds(p, level)
    /\ ~Before14 => Holds("health", level)

\* Once the OSDs stay as they are, every pool is replicated over as many hosts as there
\* are, up to the maximum, and stays so: what one tick could not do a later one does.
ReplicationFollows ==
  <>[](\A p \in pools : Holds(p, Factor(Cardinality(Hosts(osds)))))

\* The mons, and since Rook 1.9 the mgrs, follow the hosts as well: a count that could
\* not be raised beside the pools is raised in a later tick.
DaemonsFollow ==
  <>[](/\ mons >= DesiredMons(Cardinality(Hosts(osds)))
       /\ rook = "1.9" => mgrs >= DesiredMgrs(Cardinality(Hosts(osds))))

\* "Change at most 1 deployment per reconcile" (rook_ceph.go:926), and a tick that fails
\* leaves the rest to the next one: in the end every OSD has the priority class, those
\* too that came later, the MDS keep apart where there is more than one node, and the CSI
\* pods have their resources where there are three.
UpkeepFollows ==
  <>[](/\ osds \subseteq classed
       /\ Cardinality(Hosts(osds)) > 1 => mdsSpread
       /\ rook = "1.9" /\ Cardinality(Hosts(osds)) >= 3 => csiResources)
=============================================================================
