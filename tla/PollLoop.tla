------------------------------ MODULE PollLoop ------------------------------
(***************************************************************************)
(* The loop that drives everything else: Poll, its launch hook, the ticks  *)
(* of Reconcile and the two steps of a tick that run a pod on each of a    *)
(* list of nodes and wait for it, the rotation of the certificates and the *)
(* update of the internal load balancer.  Behind them, where the deadline  *)
(* of the tick may have passed, failed envoy pods are restarted, kubelets'  *)
(* certificate requests are approved and the Rook cluster is created.      *)
(* What the other steps do is in the modules of their components; here     *)
(* such a step succeeds or fails.                                          *)
(***************************************************************************)
EXTENDS Integers, FiniteSets

CONSTANTS
  Masters, Workers,
  Fragile,          \* the nodes that may be lost
  Period,           \* a full reconcile every Period ticks: 60 in the code
  PurgeDeadNodes,   \* configured, with thresholds that the other nodes meet
  RotateCertsOn, EnableInternalLoadBalancer,   \* configuration flags
  RookMinimumNodeCount,   \* ready nodes that the Rook cluster wants; 2 or less: no cluster
  Requests,         \* kubelets' certificate requests, 1 .. Requests in the order of their list
  EnvoyPod,
  MaxHealthChanges, MaxFailures, MaxRestarts   \* bounds on the environment

Node == Masters \cup Workers
Health == {"ready", "unready", "dead"}
Request == 1 .. Requests
Steps == {"nodes", "rook", "rotate", "rotatePods", "lb", "lbPods", "scale", "envoy", "csrs",
          "rookCluster", "install", "rookUser", "end"}
Label == Steps \cup {"launch", "launchPods", "wait"}

ASSUME ConstantsAssumption ==
  /\ Masters \cap Workers = {} /\ Fragile \subseteq Node
  /\ Period \in Nat \ {0}
  /\ {PurgeDeadNodes, RotateCertsOn, EnableInternalLoadBalancer} \subseteq BOOLEAN
  /\ RookMinimumNodeCount \in Nat /\ Requests \in Nat
  /\ MaxHealthChanges \in Nat /\ MaxFailures \in Nat /\ MaxRestarts \in Nat

VARIABLES
  nodes, health,    \* Node objects and their taints
  due,              \* the check interval has passed since last-attempted
  lbMap, lbRecorded,   \* the load balancer's ConfigMap exists; the nodes it records
  requests,         \* the requests that wait for approval
  stuckEnvoy,       \* envoy pods not ready, and for long, beside a ready shutdown manager
  release,          \* the Helm release of the CephCluster
  objectStoreUser,  \* the CephObjectStoreUser exists
  step,
  i, full, failed,  \* Poll's counter, doFullReconcile, multiErr # nil
  listed, lost,     \* the tick's node list, and the dead nodes in it
  podTodo,          \* nodes whose pod has not completed yet
  healthChanges, failures, restarts

cluster == <<nodes, health>>
lb == <<lbMap, lbRecorded>>
pending == <<requests, stuckEnvoy>>
rookCluster == <<release, objectStoreUser>>
others == <<pending, rookCluster>>
tick == <<i, full, listed, lost>>
budget == <<healthChanges, failures, restarts>>
vars == <<cluster, due, lb, others, step, tick, failed, podTodo, budget>>

TypeOK ==
  /\ nodes \subseteq Node /\ health \in [Node -> Health]
  /\ due \in BOOLEAN /\ lbMap \in BOOLEAN /\ lbRecorded \subseteq Node
  /\ requests \subseteq Request /\ stuckEnvoy \subseteq EnvoyPod
  /\ release \in {"none", "unfinished", "deployed"} /\ objectStoreUser \in BOOLEAN
  /\ step \in Label
  /\ i \in 0 .. Period - 1 /\ full \in BOOLEAN /\ failed \in BOOLEAN
  /\ listed \subseteq Node /\ lost \subseteq listed /\ podTodo \subseteq Node
  /\ healthChanges \in Nat /\ failures \in Nat /\ restarts \in Nat

Init ==
  /\ nodes = Node /\ health = [n \in Node |-> "ready"]
  /\ due = FALSE /\ lbMap = FALSE /\ lbRecorded = {}
  /\ requests = {} /\ stuckEnvoy = {} /\ release = "none" /\ objectStoreUser = FALSE
  /\ step = "launch" /\ i = 0 /\ full = FALSE /\ failed = FALSE
  /\ listed = {} /\ lost = {} /\ podTodo = {}
  /\ healthChanges = 0 /\ failures = 0 /\ restarts = 0

-----------------------------------------------------------------------------
Fails == failures < MaxFailures /\ failures' = failures + 1 /\ UNCHANGED <<healthChanges, restarts>>
Works == UNCHANGED budget

\* A step of the tick ends, and the next one starts whether or not it failed.
Proceed(next) ==
  /\ step' = next
  /\ \/ Works /\ UNCHANGED failed
     \/ Fails /\ failed' = TRUE

\* A pod created for a node completes only if the node is there and reachable.
CanRun(n) == n \in nodes /\ health[n] = "ready"

\* pollForPodCompleted, for one node after the other; after the last one, or at the
\* first pod that cannot be created or fails, the step is over.
RunPods(next) ==
  \/ /\ podTodo # {} /\ UNCHANGED <<step, failed>> /\ Works
     /\ \E n \in podTodo : CanRun(n) /\ podTodo' = podTodo \ {n}
  \/ podTodo # {} /\ podTodo' = {} /\ step' = next /\ failed' = TRUE /\ Fails
  \/ podTodo = {} /\ UNCHANGED <<podTodo, failed>> /\ step' = next /\ Works

\* onLaunch: RotateCerts is forced, with Poll's own context that has no deadline.
Launch ==
  /\ step = "launch"
  /\ \/ ~RotateCertsOn /\ step' = "wait" /\ UNCHANGED <<due, podTodo>> /\ Works
     \/ RotateCertsOn /\ step' = "wait" /\ UNCHANGED <<due, podTodo>> /\ Fails
     \/ /\ RotateCertsOn /\ step' = "launchPods"
        /\ due' = FALSE /\ podTodo' = nodes \cap Masters /\ Works
  /\ UNCHANGED <<cluster, lb, others, tick, failed>>

LaunchPods ==
  /\ step = "launchPods"
  /\ RunPods("wait")
  /\ UNCHANGED <<cluster, due, lb, others, tick>>

\* Seeded fault: the dead nodes are looked up among those known before.
TickRemembersDead ==
  /\ step = "wait" /\ step' = "nodes" /\ failed' = FALSE
  /\ listed' = nodes /\ lost' = {n \in Node : health[n] = "dead"}
  /\ full' = (i = 0)
  /\ UNCHANGED <<cluster, due, lb, others, i, podTodo, budget>>

\* The ticker fires: list the nodes, or skip the tick.
Tick ==
  /\ step = "wait"
  /\ \/ /\ step' = "nodes" /\ failed' = FALSE
        /\ listed' = nodes /\ lost' = {n \in nodes : health[n] = "dead"}
        /\ full' = (i = 0)
        /\ Works
     \/ Fails /\ UNCHANGED <<step, full, failed, listed, lost>>
  /\ UNCHANGED <<cluster, due, lb, others, i, podTodo>>

\* Seeded fault: dead nodes are purged in full reconciles only.
ReconcileNodesWhenFull ==
  /\ step = "nodes" /\ step' = "rook"
  /\ nodes' = nodes \ (IF PurgeDeadNodes /\ full THEN lost ELSE {})
  /\ UNCHANGED <<health, due, lb, others, tick, failed, podTodo, budget>>

\* reconcileNode for each node of the list: an error on one does not stop the others.
ReconcileNodes ==
  /\ step = "nodes" /\ step' = "rook"
  /\ \/ nodes' = nodes \ (IF PurgeDeadNodes THEN lost ELSE {}) /\ UNCHANGED failed /\ Works
     \/ /\ \E purged \in SUBSET lost : nodes' = nodes \ (IF PurgeDeadNodes THEN purged ELSE {})
        /\ failed' = TRUE /\ Fails
  /\ UNCHANGED <<health, due, lb, others, tick, podTodo>>

ReconcileRook ==
  /\ step = "rook" /\ Proceed("rotate")
  /\ UNCHANGED <<cluster, due, lb, others, tick, podTodo>>

\* CheckRotateCertsDue writes last-attempted before anything is rotated.
RotateCerts ==
  /\ step = "rotate"
  /\ IF RotateCertsOn /\ full
       THEN \/ step' = "lb" /\ failed' = TRUE /\ UNCHANGED <<due, podTodo>> /\ Fails
            \/ ~due /\ step' = "lb" /\ UNCHANGED <<due, podTodo, failed>> /\ Works
            \/ /\ due /\ due' = FALSE /\ podTodo' = nodes \cap Masters
               /\ step' = "rotatePods" /\ UNCHANGED failed /\ Works
       ELSE step' = "lb" /\ UNCHANGED <<due, podTodo, failed>> /\ Works
  /\ UNCHANGED <<cluster, lb, others, tick>>

RotatePods ==
  /\ step = "rotatePods"
  /\ RunPods("lb")
  /\ UNCHANGED <<cluster, due, lb, others, tick>>

\* ReconcileInternalLB compares the tick's list with the recorded one; the first
\* time it only creates the record, empty.
ReconcileInternalLB ==
  /\ step = "lb"
  /\ CASE ~EnableInternalLoadBalancer ->
            step' = "scale" /\ UNCHANGED <<lbMap, podTodo, failed>> /\ Works
       [] EnableInternalLoadBalancer /\ ~lbMap ->
            lbMap' = TRUE /\ Proceed("scale") /\ UNCHANGED podTodo
       [] EnableInternalLoadBalancer /\ lbMap /\ lbRecorded = listed ->
            Proceed("scale") /\ UNCHANGED <<lbMap, podTodo>>
       [] OTHER ->
            step' = "lbPods" /\ podTodo' = listed /\ UNCHANGED <<lbMap, failed>> /\ Works
  /\ UNCHANGED <<cluster, due, lbRecorded, others, tick>>

\* Seeded fault: the new nodes are added to the record.
UpdateInternalLBAppends ==
  /\ step = "lbPods"
  /\ RunPods("scale")
  /\ lbRecorded' = IF podTodo = {} THEN lbRecorded \cup listed ELSE lbRecorded
  /\ UNCHANGED <<cluster, due, lbMap, others, tick>>

\* UpdateInternalLB; the new list is recorded once every node has been updated.
UpdateInternalLB ==
  /\ step = "lbPods"
  /\ RunPods("scale")
  /\ lbRecorded' = IF podTodo = {} THEN listed ELSE lbRecorded
  /\ UNCHANGED <<cluster, due, lbMap, others, tick>>

\* Seeded fault: the load balancer's pods are awaited without a deadline.
DeadlineOfRotation ==
  /\ step = "rotatePods" /\ \E n \in podTodo : ~CanRun(n)
  /\ step' = "end" /\ failed' = TRUE /\ podTodo' = {}
  /\ UNCHANGED <<cluster, due, lb, others, tick, budget>>

\* The tick's deadline: the wait ends, and every later call of the tick fails too.
Deadline ==
  /\ step \in {"rotatePods", "lbPods"} /\ \E n \in podTodo : ~CanRun(n)
  /\ step' = "end" /\ failed' = TRUE /\ podTodo' = {}
  /\ UNCHANGED <<cluster, due, lb, others, tick, budget>>

\* ReconcilePrometheus and reconcileKotsadm, which comes later: only whether they fail
\* matters here, not their place.
ReconcileScales ==
  /\ step = "scale" /\ Proceed("envoy")
  /\ UNCHANGED <<cluster, due, lb, others, tick, podTodo>>

\* A deletion that fails does not keep the other pods from being deleted.
RestartFailedEnvoyPods ==
  /\ step = "envoy" /\ step' = "csrs"
  /\ \/ stuckEnvoy' = {} /\ UNCHANGED failed /\ Works
     \/ stuckEnvoy' \in SUBSET stuckEnvoy /\ failed' = TRUE /\ Fails
  /\ UNCHANGED <<cluster, due, lb, requests, rookCluster, tick, podTodo>>

\* Seeded fault: the function returns behind its first approval.
ApproveFirstRequest ==
  /\ step = "csrs" /\ step' = "rookCluster"
  /\ requests' = {r \in requests : \E q \in requests : q < r}
  /\ UNCHANGED <<cluster, due, lb, stuckEnvoy, rookCluster, tick, failed, podTodo, budget>>

\* reconcileCertificateSigningRequests: the first approval that fails ends it.
ReconcileCertificateSigningRequests ==
  /\ step = "csrs" /\ step' = "rookCluster"
  /\ \/ requests' = {} /\ UNCHANGED failed /\ Works
     \/ /\ \E r \in Request : requests' = {q \in requests : q >= r}
        /\ failed' = TRUE /\ Fails
  /\ UNCHANGED <<cluster, due, lb, stuckEnvoy, rookCluster, tick, podTodo>>

EnoughForRook ==
  Cardinality({n \in nodes : health[n] = "ready"}) >= RookMinimumNodeCount

\* Seeded fault: an installed release ends the reconcile.
InstalledMeansDone ==
  /\ step = "rookCluster"
  /\ \/ /\ RookMinimumNodeCount <= 2 \/ ~EnoughForRook \/ release = "deployed"
        /\ step' = "end" /\ UNCHANGED <<release, failed>>
     \/ /\ EnoughForRook /\ release = "none" /\ release' = "unfinished"
        /\ step' = "install" /\ UNCHANGED failed
  /\ UNCHANGED <<cluster, due, lb, pending, objectStoreUser, tick, podTodo, budget>>

\* reconcileRookCluster up to the chart's installation.  GetRelease lists deployed
\* releases only; Helm refuses the name of an unfinished one.
ReconcileRookCluster ==
  /\ step = "rookCluster"
  /\ \/ /\ RookMinimumNodeCount <= 2 \/ ~EnoughForRook
        /\ step' = "end" /\ UNCHANGED <<release, failed>> /\ Works
     \/ /\ RookMinimumNodeCount > 2
        /\ step' = "end" /\ failed' = TRUE /\ UNCHANGED release /\ Fails
     \/ /\ RookMinimumNodeCount > 2 /\ EnoughForRook /\ Works
        /\ \/ /\ release = "none" /\ release' = "unfinished"
              /\ step' = "install" /\ UNCHANGED failed
           \/ /\ release = "unfinished" /\ UNCHANGED release
              /\ step' = "end" /\ failed' = TRUE
           \/ release = "deployed" /\ step' = "rookUser" /\ UNCHANGED <<release, failed>>
  /\ UNCHANGED <<cluster, due, lb, pending, objectStoreUser, tick, podTodo>>

\* Helm has recorded the release and creates its resources.
InstallChart ==
  /\ step = "install"
  /\ \/ release' = "deployed" /\ step' = "rookUser" /\ UNCHANGED failed /\ Works
     \/ UNCHANGED release /\ step' = "end" /\ failed' = TRUE /\ Fails
  /\ UNCHANGED <<cluster, due, lb, pending, objectStoreUser, tick, podTodo>>

\* EnsureCephCluster's last call; that the user exists already is no error.
CreateObjectStoreUser ==
  /\ step = "rookUser" /\ step' = "end"
  /\ \/ objectStoreUser' = TRUE /\ UNCHANGED failed /\ Works
     \/ UNCHANGED objectStoreUser /\ failed' = TRUE /\ Fails
  /\ UNCHANGED <<cluster, due, lb, pending, release, tick, podTodo>>

NoTick == full' = FALSE /\ failed' = FALSE /\ listed' = {} /\ lost' = {} /\ podTodo' = {}

\* Back in Poll: a tick that failed is not counted.  The tick's locals go out of scope.
EndTick ==
  /\ step = "end" /\ step' = "wait" /\ NoTick
  /\ i' = IF failed THEN i ELSE (i + 1) % Period
  /\ UNCHANGED <<cluster, due, lb, others, budget>>

OperatorStep ==
  \/ Launch \/ LaunchPods \/ Tick \/ ReconcileNodes \/ ReconcileRook \/ RotateCerts
  \/ RotatePods \/ ReconcileInternalLB \/ UpdateInternalLB \/ Deadline
  \/ ReconcileScales \/ RestartFailedEnvoyPods \/ ReconcileCertificateSigningRequests
  \/ ReconcileRookCluster \/ InstallChart \/ CreateObjectStoreUser \/ EndTick
-----------------------------------------------------------------------------
(* The environment.                                                        *)

\* A node is lost or comes back; one that stays lost is dead in the end.
Lose(n) ==
  /\ n \in Fragile /\ health[n] = "ready" /\ healthChanges < MaxHealthChanges
  /\ health' = [health EXCEPT ![n] = "unready"]
  /\ healthChanges' = healthChanges + 1
  /\ UNCHANGED <<nodes, due, lb, others, step, tick, failed, podTodo, failures, restarts>>

Return(n) ==
  /\ health[n] # "ready"
  /\ health' = [health EXCEPT ![n] = "ready"]
  /\ UNCHANGED <<nodes, due, lb, others, step, tick, failed, podTodo, budget>>

Die(n) ==
  /\ health[n] = "unready"
  /\ health' = [health EXCEPT ![n] = "dead"]
  /\ UNCHANGED <<nodes, due, lb, others, step, tick, failed, podTodo, budget>>

CertsDue ==
  /\ due' = TRUE
  /\ UNCHANGED <<cluster, lb, others, step, tick, failed, podTodo, budget>>

\* A kubelet asks for a serving certificate.  The operator reads the requests once in a
\* tick, so that the time between two ticks stands for any.
RequestCert(r) ==
  /\ step = "wait" /\ r \notin requests /\ requests' = requests \cup {r}
  /\ UNCHANGED <<cluster, due, lb, stuckEnvoy, rookCluster, step, tick, failed, podTodo, budget>>

\* An envoy pod does not recover by itself; as above for its time.
EnvoyFails(p) ==
  /\ step = "wait" /\ p \notin stuckEnvoy /\ stuckEnvoy' = stuckEnvoy \cup {p}
  /\ UNCHANGED <<cluster, due, lb, requests, rookCluster, step, tick, failed, podTodo, budget>>

\* The operator's pod is replaced: Poll starts over with its launch hook.
Restart ==
  /\ restarts < MaxRestarts /\ restarts' = restarts + 1
  /\ step' = "launch" /\ i' = 0 /\ NoTick
  /\ UNCHANGED <<cluster, due, lb, others, healthChanges, failures>>

Next ==
  \/ OperatorStep
  \/ \E n \in Node : Lose(n) \/ Return(n) \/ Die(n)
  \/ CertsDue
  \/ \E r \in Request : RequestCert(r)
  \/ \E p \in EnvoyPod : EnvoyFails(p)
  \/ Restart

Spec == Init /\ [][Next]_vars

\* The ticker and the deadline fire, calls return, and a node's absence lasts or ends.
FairSpec == Spec /\ WF_vars(OperatorStep) /\ \A n \in Node : WF_vars(Die(n))
-----------------------------------------------------------------------------
(* Properties.                                                             *)

\* An installation that was interrupted or failed is never finished: every later tick
\* that finds enough nodes fails (helm/manager.go:81).
NeverInstalled == <>[](release = "unfinished")

\* A tick failing is not counted, so that the counter may stop for long: whatever
\* failed, a full reconcile without error comes again, and then one that is not full.
\* Only a release left unfinished can keep the loop from it.
FullReconcileRecurs ==
  \/ NeverInstalled
  \/ /\ []<>(step = "end" /\ full /\ ~failed)
     /\ Period > 1 => []<>(step = "end" /\ ~full /\ ~failed)

\* "How often to check for certs that need to be rotated" (cli/operator.go:126): once
\* the interval has passed the certificates are checked; an unfinished release may end
\* that too, since the counter stops where full reconciles do not come.
DueCertsChecked == RotateCertsOn => NeverInstalled \/ (due ~> ~due)

\* A node that was purged leaves the load balancer: the record follows the node list.
LoadBalancerFollows == EnableInternalLoadBalancer => []<>(lbRecorded = nodes)

\* What comes behind the waits of a tick happens in the end, although ticks run into
\* their deadline and one failure ends a list: a kubelet's request is approved, however
\* many others keep coming, and a failed envoy pod is restarted.
LateStepsReached ==
  /\ \A r \in Request : r \in requests ~> r \notin requests
  /\ \A p \in EnvoyPod : p \in stuckEnvoy ~> p \notin stuckEnvoy

\* Where there are enough ready nodes the Rook cluster is completed, also when a tick
\* failed between the chart's installation and the user's creation.
RookClusterCompleted ==
  RookMinimumNodeCount > 2 /\ <>[]EnoughForRook => NeverInstalled \/ <>objectStoreUser
=============================================================================
