------------------------------ MODULE NodePurge ------------------------------
(***************************************************************************)
(* The removal of lost nodes: Operator.reconcileNode for every node of a   *)
(* tick, Controller.PurgeNode and ClearNode, the "ekco purge-node" command *)
(* running the same PurgeNode from a process of its own, and the storage   *)
(* node list of the CephCluster, which both processes rewrite.             *)
(*                                                                         *)
(* Every call to the Kubernetes API, to etcd or to ceph is a step; between *)
(* two steps the other process, the nodes and the cluster may move.  A     *)
(* call may fail, with or without its effect, and the operator may crash.  *)
(***************************************************************************)
EXTENDS Integers, FiniteSets

CONSTANTS
  Masters, Workers,     \* the nodes, by role label
  Osd, HostOf,          \* ceph OSDs and the node each one runs on
  MinReadyMasterNodes, MinReadyWorkerNodes,
  MaintainRookStorageNodes, ClearDeadNodes,  \* configuration flags
  RookStorageNodes,     \* the storage list is the user's, and the operator leaves it alone
  StorageLabelled,      \* nodes with the RookStorageNodesLabel: every one, where none is set
  HasClusterStatus,     \* Kubernetes < 1.22: kubeadm-config has ClusterStatus
  InitStorage,          \* the nodes in the CephCluster storage list at start
  CliTargets,           \* nodes "ekco purge-node" may be asked to remove
  None,
  \* bounds on the environment
  MaxHealthChanges, MaxFailures, MaxCrashes, MaxCliRuns

Node == Masters \cup Workers
Operator == "operator"
Cli == "cli"
Proc == {Operator, Cli}
Health == {"ready", "unready", "dead"}

ASSUME ConstantsAssumption ==
  /\ Masters \cap Workers = {}
  /\ HostOf \in [Osd -> Node]
  /\ InitStorage \subseteq Node
  /\ CliTargets \subseteq Node /\ StorageLabelled \subseteq Node
  /\ None \notin Node \cup Osd
  /\ {MaintainRookStorageNodes, RookStorageNodes, ClearDeadNodes, HasClusterStatus} \subseteq BOOLEAN

ASSUME BoundsAssumption ==
  /\ MinReadyMasterNodes \in Nat /\ MinReadyWorkerNodes \in Nat
  /\ MaxHealthChanges \in Nat /\ MaxFailures \in Nat
  /\ MaxCrashes \in Nat /\ MaxCliRuns \in Nat

VARIABLES
  \* the cluster
  nodes,         \* Node objects in the API server
  health,        \* taints of each Node: none, unreachable, unreachable too long
  terminating,   \* nodes with pods stuck in Terminating
  endpoints,     \* kubeadm-config ClusterStatus.apiEndpoints
  etcd,          \* members of the etcd cluster
  storageNodes,  \* CephCluster.spec.storage.nodes
  deployments,   \* OSD deployments of Rook
  cephOsds,      \* OSDs in the ceph cluster and its crush map
  \* the two processes
  pc, target,
  rookKnown,     \* rookVersion # nil
  found,         \* node # nil: PurgeNode has read the Node object
  cm,            \* the endpoints read from kubeadm-config
  ip,            \* the IP of the target is known
  cephSeen,      \* the storage list read from the CephCluster
  osd,           \* osdID
  listed,        \* the operator's node list of this tick,
  listedHealth,  \*   with the taints it had then
  todo,          \* nodes of the list not reconciled yet
  \* how much of the environment's budget is used
  healthChanges, failures, crashes, cliRuns

registry == <<nodes, health, terminating>>
members  == <<endpoints, etcd>>
ceph     == <<storageNodes, deployments, cephOsds>>
calls    == <<target, rookKnown, found, cm, ip, cephSeen, osd>>
tick     == <<listed, listedHealth, todo>>
budget   == <<healthChanges, failures, crashes, cliRuns>>
vars == <<registry, members, ceph, pc, calls, tick, budget>>

PurgeSteps == {"getNode", "readStorage", "patchStorage", "deleteOsd", "purgeOsd",
               "readEndpoints", "writeEndpoints", "etcdRemove", "deleteNode"}
CephSteps == {"readStorage", "patchStorage", "deleteOsd", "purgeOsd"}
Label == PurgeSteps \cup {"idle", "loop", "clear", "useNodes", "patchUse"}

TypeOK ==
  /\ nodes \subseteq Node /\ health \in [Node -> Health] /\ terminating \subseteq Node
  /\ endpoints \subseteq Masters /\ etcd \subseteq Masters
  /\ storageNodes \subseteq Node
  /\ deployments \subseteq Osd /\ cephOsds \subseteq Osd
  /\ pc \in [Proc -> Label]
  /\ target \in [Proc -> Node \cup {None}]
  /\ rookKnown \in [Proc -> BOOLEAN] /\ found \in [Proc -> BOOLEAN]
  /\ cm \in [Proc -> SUBSET Masters] /\ ip \in [Proc -> BOOLEAN]
  /\ cephSeen \in [Proc -> SUBSET Node] /\ osd \in [Proc -> Osd \cup {None}]
  /\ listed \subseteq Node /\ listedHealth \in [Node -> Health] /\ todo \subseteq Node
  /\ healthChanges \in Nat /\ failures \in Nat /\ crashes \in Nat /\ cliRuns \in Nat

Init ==
  /\ nodes = Node /\ health = [n \in Node |-> "ready"] /\ terminating = {}
  /\ endpoints = (IF HasClusterStatus THEN Masters ELSE {}) /\ etcd = Masters
  /\ storageNodes = InitStorage
  /\ deployments = {o \in Osd : HostOf[o] \in InitStorage}
  /\ cephOsds = {o \in Osd : HostOf[o] \in InitStorage}
  /\ pc = [p \in Proc |-> "idle"]
  /\ target = [p \in Proc |-> None]
  /\ rookKnown = [p \in Proc |-> FALSE]
  /\ found = [p \in Proc |-> FALSE]
  /\ cm = [p \in Proc |-> {}]
  /\ ip = [p \in Proc |-> FALSE]
  /\ cephSeen = [p \in Proc |-> {}]
  /\ osd = [p \in Proc |-> None]
  /\ listed = {} /\ listedHealth = [n \in Node |-> "ready"] /\ todo = {}
  /\ healthChanges = 0 /\ failures = 0 /\ crashes = 0 /\ cliRuns = 0

-----------------------------------------------------------------------------
(* Control: where a process goes when a call succeeds and when it fails.   *)

\* PurgeNode returned nil: the operator goes on to ClearNode, the command exits.
Returned(p) == IF p = Operator THEN "clear" ELSE "idle"
\* PurgeNode returned an error: the operator accumulates it and takes the next node.
Aborted(p) == IF p = Operator THEN "loop" ELSE "idle"

Fails == failures < MaxFailures /\ failures' = failures + 1
Works == UNCHANGED failures

\* A call that had its effect: its answer arrives, or is lost and reported as an error.
Answer(p, next, onError) ==
  /\ \/ Works /\ pc' = [pc EXCEPT ![p] = next]
     \/ Fails /\ pc' = [pc EXCEPT ![p] = onError]
  /\ UNCHANGED <<healthChanges, crashes, cliRuns>>

\* The labels test of PurgeNode: a node that is already gone may have been a master.
MaybeMaster(p) == ~found[p] \/ target[p] \in Masters

AfterCeph(p) == IF MaybeMaster(p) THEN "readEndpoints" ELSE "deleteNode"

\* Seeded fault: an error of removeEtcdPeer is only logged, too.
OnErrorLogsEtcd(p) ==
  CASE pc[p] \in CephSteps    -> AfterCeph(p)
    [] pc[p] = "etcdRemove"   -> "deleteNode"
    [] OTHER                  -> Aborted(p)

\* An error in purgeCephOsd is only logged; every other error ends PurgeNode.
OnError(p) == IF pc[p] \in CephSteps THEN AfterCeph(p) ELSE Aborted(p)

ReadyIn(set, h) == {n \in set : h[n] = "ready"}
EtcdQuorum == 2 * Cardinality(ReadyIn(etcd, health)) > Cardinality(etcd)

-----------------------------------------------------------------------------
(* The operator's tick: Poll lists the nodes, Reconcile goes through them. *)

\* Poll's node list and Reconcile's GetRookVersion, whose errors leave the version nil.
ListNodes ==
  /\ pc[Operator] = "idle"
  /\ listed' = nodes /\ listedHealth' = health /\ todo' = nodes
  /\ \/ rookKnown' = [rookKnown EXCEPT ![Operator] = TRUE] /\ Works
     \/ rookKnown' = [rookKnown EXCEPT ![Operator] = FALSE] /\ Fails
  /\ pc' = [pc EXCEPT ![Operator] = "loop"]
  /\ UNCHANGED <<registry, members, ceph, target, found, cm, ip, cephSeen, osd,
                 healthChanges, crashes, cliRuns>>

\* reconcileNode's test: the ready counts are those of the tick's list.
SkipAutoPurge(n) ==
  \/ n \in Masters /\ Cardinality(ReadyIn(listed \cap Masters, listedHealth)) < MinReadyMasterNodes
  \/ Cardinality(ReadyIn(listed \cap Workers, listedHealth)) < MinReadyWorkerNodes

ReconcileNode ==
  /\ pc[Operator] = "loop"
  /\ \E n \in todo :
       /\ todo' = todo \ {n}
       /\ target' = [target EXCEPT ![Operator] = n]
       /\ pc' = [pc EXCEPT ![Operator] =
                   IF listedHealth[n] = "dead" /\ ~SkipAutoPurge(n) THEN "getNode" ELSE "loop"]
  /\ UNCHANGED <<registry, members, ceph, rookKnown, found, cm, ip, cephSeen, osd,
                 listed, listedHealth, budget>>

\* ClearNode force deletes the pods stuck on the target.
ClearNode ==
  /\ pc[Operator] = "clear"
  /\ \/ terminating' = terminating \ {IF ClearDeadNodes THEN target[Operator] ELSE None}
        /\ Answer(Operator, "loop", "loop")
     \/ terminating' = terminating /\ Fails
        /\ pc' = [pc EXCEPT ![Operator] = "loop"]
        /\ UNCHANGED <<healthChanges, crashes, cliRuns>>
  /\ UNCHANGED <<nodes, health, members, ceph, calls, tick>>

\* ensureAllUsedForStorage: read the CephCluster, unless that fails, and name the listed
\* ready nodes that carry the label.
ReadyListed == ReadyIn(listed, listedHealth) \cap StorageLabelled

EndOfNodes ==
  /\ pc[Operator] = "loop" /\ todo = {}
  /\ \/ /\ MaintainRookStorageNodes /\ rookKnown[Operator] /\ Works
        /\ cephSeen' = [cephSeen EXCEPT ![Operator] = storageNodes]
        /\ pc' = [pc EXCEPT ![Operator] =
              IF RookStorageNodes \/ ReadyListed \subseteq storageNodes THEN "idle" ELSE "patchUse"]
     \/ /\ IF MaintainRookStorageNodes /\ rookKnown[Operator] THEN Fails ELSE Works
        /\ pc' = [pc EXCEPT ![Operator] = "idle"] /\ UNCHANGED cephSeen
  /\ UNCHANGED <<registry, members, ceph, target, rookKnown, found, cm, ip, osd, tick,
                 healthChanges, crashes, cliRuns>>

\* UseNodesForStorage replaces the whole list by the one read plus the new names.
PatchUse ==
  /\ pc[Operator] = "patchUse"
  /\ storageNodes' = cephSeen[Operator] \cup ReadyListed
  /\ Answer(Operator, "idle", "idle")
  /\ UNCHANGED <<registry, members, deployments, cephOsds, calls, tick>>

-----------------------------------------------------------------------------
(* "ekco purge-node n": its own node list, then the same PurgeNode.        *)

CliRefuses(n) ==
  /\ n \in nodes /\ health[n] = "ready"
  /\ \/ n \in Masters
        /\ Cardinality(ReadyIn(nodes \cap Masters, health)) <= MinReadyMasterNodes
     \/ n \in Workers
        /\ Cardinality(ReadyIn(nodes \cap Workers, health)) <= MinReadyWorkerNodes

CliPurge(n) ==
  /\ pc[Cli] = "idle" /\ cliRuns < MaxCliRuns
  /\ ~CliRefuses(n)
  /\ cliRuns' = cliRuns + 1
  /\ target' = [target EXCEPT ![Cli] = n]
  /\ rookKnown' = [rookKnown EXCEPT ![Cli] = MaintainRookStorageNodes]
  /\ pc' = [pc EXCEPT ![Cli] = "getNode"]
  /\ UNCHANGED <<registry, members, ceph, found, cm, ip, cephSeen, osd, tick,
                 healthChanges, failures, crashes>>

-----------------------------------------------------------------------------
(* PurgeNode, run by either process.                                       *)

GetNode(p) ==
  /\ pc[p] = "getNode"
  /\ found' = [found EXCEPT ![p] = target[p] \in nodes]
  /\ ip' = [ip EXCEPT ![p] = target[p] \in nodes]
  /\ osd' = [osd EXCEPT ![p] = None]
  /\ pc' = [pc EXCEPT ![p] =
              IF MaintainRookStorageNodes /\ rookKnown[p] THEN "readStorage"
              ELSE IF target[p] \notin nodes \/ target[p] \in Masters THEN "readEndpoints"
              ELSE "deleteNode"]
  /\ UNCHANGED <<registry, members, ceph, target, rookKnown, cm, cephSeen, tick, budget>>

\* Seeded fault: a target that is not in the list has no OSD to look for.
ReadStorageReturnsEarly(p) ==
  /\ pc[p] = "readStorage"
  /\ cephSeen' = [cephSeen EXCEPT ![p] = storageNodes]
  /\ pc' = [pc EXCEPT ![p] =
              IF target[p] \in storageNodes THEN "patchStorage" ELSE AfterCeph(p)]
  /\ UNCHANGED <<registry, members, ceph, target, rookKnown, found, cm, ip, osd, tick, budget>>

\* removeCephClusterStorageNode reads the list ...
ReadStorage(p) ==
  /\ pc[p] = "readStorage"
  /\ cephSeen' = [cephSeen EXCEPT ![p] = storageNodes]
  /\ pc' = [pc EXCEPT ![p] =
              IF target[p] \in storageNodes THEN "patchStorage" ELSE "deleteOsd"]
  /\ UNCHANGED <<registry, members, ceph, target, rookKnown, found, cm, ip, osd, tick, budget>>

\* ... and replaces the whole list by what it read less the target.
PatchStorage(p) ==
  /\ pc[p] = "patchStorage"
  /\ storageNodes' = cephSeen[p] \ {target[p]}
  /\ Answer(p, "deleteOsd", AfterCeph(p))
  /\ UNCHANGED <<registry, members, deployments, cephOsds, calls, tick>>

\* Seeded fault: ceph is asked to purge the name of the node.
DeleteOsdDeploymentByNode(p) ==
  /\ pc[p] = "deleteOsd"
  /\ \E o \in deployments :
       /\ HostOf[o] = target[p]
       /\ deployments' = deployments \ {o}
       /\ osd' = [osd EXCEPT ![p] = target[p]]
       /\ Answer(p, "purgeOsd", AfterCeph(p))
  /\ UNCHANGED <<registry, members, storageNodes, cephOsds,
                 target, rookKnown, found, cm, ip, cephSeen, tick>>

\* deleteK8sDeploymentOSD deletes the first deployment on the target and
\* returns its id; with none it returns "" and ceph is not asked to purge.
DeleteOsdDeployment(p) ==
  /\ pc[p] = "deleteOsd"
  /\ LET onTarget == {o \in deployments : HostOf[o] = target[p]} IN
     \/ /\ onTarget = {}
        /\ pc' = [pc EXCEPT ![p] = AfterCeph(p)]
        /\ UNCHANGED <<osd, deployments, budget>>
     \/ \E o \in onTarget :
          /\ deployments' = deployments \ {o}
          /\ osd' = [osd EXCEPT ![p] = o]
          /\ Answer(p, "purgeOsd", AfterCeph(p))
  /\ UNCHANGED <<registry, members, storageNodes, cephOsds,
                 target, rookKnown, found, cm, ip, cephSeen, tick>>

\* execCephOSDPurge: without a tools pod it returns nil and has done nothing.
PurgeOsd(p) ==
  /\ pc[p] = "purgeOsd"
  /\ \/ cephOsds' = cephOsds \ {osd[p]} /\ Answer(p, AfterCeph(p), AfterCeph(p))
     \/ cephOsds' = cephOsds /\ Fails
        /\ pc' = [pc EXCEPT ![p] = AfterCeph(p)]
        /\ UNCHANGED <<healthChanges, crashes, cliRuns>>
  /\ UNCHANGED <<registry, members, storageNodes, deployments, calls, tick>>

\* removeKubeadmEndpoint reads the ConfigMap; without the ClusterStatus key,
\* or without the target in it, there is nothing to write.
ReadEndpoints(p) ==
  /\ pc[p] = "readEndpoints"
  /\ cm' = [cm EXCEPT ![p] = endpoints]
  /\ pc' = [pc EXCEPT ![p] =
              IF target[p] \in endpoints THEN "writeEndpoints"
              ELSE IF ip[p] THEN "etcdRemove"
              ELSE IF found[p] THEN "deleteNode" ELSE Returned(p)]
  /\ UNCHANGED <<registry, members, ceph, target, rookKnown, found, ip, cephSeen, osd,
                 tick, budget>>

\* Update carries the resourceVersion read: a ConfigMap written since is a conflict.
WriteEndpoints(p) ==
  /\ pc[p] = "writeEndpoints"
  /\ IF endpoints = cm[p]
       THEN /\ endpoints' = cm[p] \ {target[p]}
            /\ ip' = [ip EXCEPT ![p] = TRUE]
            /\ Answer(p, "etcdRemove", Aborted(p))
       ELSE /\ pc' = [pc EXCEPT ![p] = Aborted(p)]
            /\ UNCHANGED <<endpoints, ip, budget>>
  /\ UNCHANGED <<registry, etcd, ceph, target, rookKnown, found, cm, cephSeen, osd, tick>>

\* Seeded fault: a member that is no longer there is an error.
EtcdRemoveOfMember(p) ==
  /\ pc[p] = "etcdRemove"
  /\ IF EtcdQuorum /\ target[p] \in etcd
       THEN /\ etcd' = etcd \ {target[p]}
            /\ Answer(p, IF found[p] THEN "deleteNode" ELSE Returned(p), Aborted(p))
       ELSE /\ pc' = [pc EXCEPT ![p] = Aborted(p)]
            /\ UNCHANGED <<etcd, budget>>
  /\ UNCHANGED <<registry, endpoints, ceph, calls, tick>>

\* removeEtcdPeer: a cluster without quorum does not answer, a missing member is fine.
EtcdRemove(p) ==
  /\ pc[p] = "etcdRemove"
  /\ IF EtcdQuorum
       THEN /\ etcd' = etcd \ {target[p]}
            /\ Answer(p, IF found[p] THEN "deleteNode" ELSE Returned(p), Aborted(p))
       ELSE /\ pc' = [pc EXCEPT ![p] = Aborted(p)]
            /\ UNCHANGED <<etcd, budget>>
  /\ UNCHANGED <<registry, endpoints, ceph, calls, tick>>

\* deleteK8sNode: NotFound is an error here.
DeleteNode(p) ==
  /\ pc[p] = "deleteNode"
  /\ IF target[p] \in nodes
       THEN nodes' = nodes \ {target[p]} /\ Answer(p, Returned(p), Aborted(p))
       ELSE /\ pc' = [pc EXCEPT ![p] = Aborted(p)]
            /\ UNCHANGED <<nodes, budget>>
  /\ UNCHANGED <<health, terminating, members, ceph, calls, tick>>

\* Any call of PurgeNode, or a patch of the CephCluster, failing without effect.
CallFails(p) ==
  /\ pc[p] \in PurgeSteps \cup {"patchUse"}
  /\ Fails
  /\ pc' = [pc EXCEPT ![p] = IF pc[p] = "patchUse" THEN "idle" ELSE OnError(p)]
  /\ UNCHANGED <<registry, members, ceph, calls, tick, healthChanges, crashes, cliRuns>>

-----------------------------------------------------------------------------
(* The environment.                                                        *)

\* The operator's pod dies; its replacement starts with a new tick.
Crash ==
  /\ crashes < MaxCrashes /\ crashes' = crashes + 1
  /\ pc[Operator] # "idle"
  /\ pc' = [pc EXCEPT ![Operator] = "idle"]
  /\ UNCHANGED <<registry, members, ceph, calls, tick, healthChanges, failures, cliRuns>>

\* A node stops answering, stays so past the toleration, or comes back.
HealthMoves == {<<"ready", "unready">>, <<"unready", "dead">>,
                <<"unready", "ready">>, <<"dead", "ready">>}

NodeHealth(n) ==
  /\ n \in nodes /\ healthChanges < MaxHealthChanges
  /\ healthChanges' = healthChanges + 1
  /\ \E h \in Health :
       /\ <<health[n], h>> \in HealthMoves
       /\ health' = [health EXCEPT ![n] = h]
       /\ terminating' = CASE h = "dead"  -> terminating \cup {n}
                           [] h = "ready" -> terminating \ {n}
                           [] OTHER       -> terminating
  /\ UNCHANGED <<nodes, members, ceph, pc, calls, tick, failures, crashes, cliRuns>>

-----------------------------------------------------------------------------
PurgeStep(p) ==
  \/ GetNode(p) \/ ReadStorage(p) \/ PatchStorage(p) \/ DeleteOsdDeployment(p)
  \/ PurgeOsd(p) \/ ReadEndpoints(p) \/ WriteEndpoints(p) \/ EtcdRemove(p)
  \/ DeleteNode(p)

OperatorStep == ListNodes \/ ReconcileNode \/ ClearNode \/ EndOfNodes \/ PatchUse
                \/ PurgeStep(Operator)

Next ==
  \/ OperatorStep
  \/ PurgeStep(Cli)
  \/ \E n \in CliTargets : CliPurge(n)
  \/ \E p \in Proc : CallFails(p)
  \/ Crash
  \/ \E n \in Node : NodeHealth(n)

Spec == Init /\ [][Next]_vars

\* The operator's loop keeps running: Poll's ticker and its calls return.
FairSpec == Spec /\ WF_vars(OperatorStep) /\ WF_vars(PurgeStep(Cli))
-----------------------------------------------------------------------------
(* Properties.                                                             *)

\* PurgeNode removes a master from kubeadm's endpoints and from etcd before its
\* Node object goes: whatever fails, crashes or runs beside it, no master is left
\* in either without a Node object from which a retry could find it again.
NoOrphanMember ==
  \A m \in Masters : m \notin nodes => m \notin endpoints /\ m \notin etcd

\* With no failed call and no crash, an OSD whose node has been purged is gone from
\* ceph, or the process that deleted its deployment is about to purge it: the other
\* process, which finds no deployment, may have deleted the Node meanwhile.
PurgedOsdGone ==
  failures = 0 /\ crashes = 0 /\ MaintainRookStorageNodes =>
    \A o \in cephOsds : HostOf[o] \notin nodes =>
      \E p \in Proc : pc[p] = "purgeOsd" /\ osd[p] = o

\* purgeCephOsd "safely removes the OSD on a particular node name from the Ceph
\* cluster" (purge_node.go:122): once the node is purged its OSD is not in ceph.
PurgedNodeHasNoOsd ==
  MaintainRookStorageNodes => \A o \in cephOsds : HostOf[o] \in nodes

\* "Filter out not ready nodes since Rook fails to ever start an OSD on a node unless it's
\* ready at the moment it detects the added node in the list" (operator.go:238): a node that
\* enters the storage list was listed ready, and is not the one that a purge beside the tick
\* has taken out of the list since the operator read it.
OnlyReadyNodesAdded == [][storageNodes' \ storageNodes \subseteq ReadyListed]_vars

\* A dead node that may be purged for good is purged: errors are retried on later
\* ticks, whichever step they stopped and whatever had been removed before.
PurgeAllowed(n) ==
  /\ n \in nodes /\ health[n] = "dead" /\ EtcdQuorum
  /\ n \in Masters =>
       Cardinality(ReadyIn(nodes \cap Masters, health)) >= MinReadyMasterNodes
  /\ Cardinality(ReadyIn(nodes \cap Workers, health)) >= MinReadyWorkerNodes

DeadNodePurged == \A n \in Node : []<>~PurgeAllowed(n)
=============================================================================
