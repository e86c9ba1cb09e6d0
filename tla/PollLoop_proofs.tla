---------------------------- MODULE PollLoop_proofs ----------------------------
(***************************************************************************)
(* Proofs about PollLoop, for any nodes, configuration and bounds.         *)
(***************************************************************************)
EXTENDS PollLoop, TLAPS

(* The parts of the type invariant.                                         *)

NodesType ==
  /\ nodes \subseteq Node /\ health \in [Node -> Health]
  /\ lbRecorded \subseteq Node /\ listed \subseteq Node /\ lost \subseteq listed
  /\ podTodo \subseteq Node
FlagsType ==
  /\ due \in BOOLEAN /\ lbMap \in BOOLEAN /\ objectStoreUser \in BOOLEAN
  /\ full \in BOOLEAN /\ failed \in BOOLEAN
PlaceType == step \in Label /\ i \in 0 .. Period - 1
PendingType ==
  /\ requests \subseteq Request /\ stuckEnvoy \subseteq EnvoyPod
  /\ release \in {"none", "unfinished", "deployed"}
BudgetType == healthChanges \in Nat /\ failures \in Nat /\ restarts \in Nat

\* The nodes, and the lists that the ticks have made of them.
LEMMA NodesStep == ASSUME NodesType, [Next]_vars PROVE NodesType'
<1> USE DEF NodesType, cluster, lb, pending, rookCluster, others, tick, Health
<1>1. CASE Launch \/ LaunchPods \/ Tick
  BY <1>1 DEF Launch, LaunchPods, Tick, RunPods, Node
<1>2. CASE ReconcileNodes
  BY <1>2 DEF ReconcileNodes
<1>3. CASE RotateCerts \/ RotatePods \/ Deadline
  BY <1>3 DEF RotateCerts, RotatePods, Deadline, RunPods
<1>4. CASE ReconcileInternalLB \/ UpdateInternalLB
  BY <1>4 DEF ReconcileInternalLB, UpdateInternalLB, RunPods
<1>5. CASE EndTick \/ Restart
  BY <1>5 DEF EndTick, Restart, NoTick
<1>6. CASE \E n \in Node : Lose(n) \/ Return(n) \/ Die(n)
  BY <1>6 DEF Lose, Return, Die
<1>7. CASE UNCHANGED vars
  BY <1>7 DEF vars
<1>8. QED
  BY <1>1, <1>2, <1>3, <1>4, <1>5, <1>6, <1>7
     DEF Next, OperatorStep, ReconcileRook, ReconcileScales, RestartFailedEnvoyPods,
         ReconcileCertificateSigningRequests, ReconcileRookCluster, InstallChart,
         CreateObjectStoreUser, CertsDue, RequestCert, EnvoyFails

\* The flags of the tick and of the cluster.
LEMMA FlagsStep == ASSUME FlagsType, [Next]_vars PROVE FlagsType'
<1> USE DEF FlagsType, cluster, lb, pending, rookCluster, others, tick, RunPods, Proceed
<1>1. CASE Launch \/ LaunchPods \/ Tick \/ ReconcileNodes \/ ReconcileRook
  BY <1>1 DEF Launch, LaunchPods, Tick, ReconcileNodes, ReconcileRook
<1>2. CASE RotateCerts \/ RotatePods \/ Deadline
  BY <1>2 DEF RotateCerts, RotatePods, Deadline
<1>3. CASE ReconcileInternalLB \/ UpdateInternalLB
  BY <1>3 DEF ReconcileInternalLB, UpdateInternalLB
<1>4. CASE ReconcileScales \/ RestartFailedEnvoyPods \/ ReconcileCertificateSigningRequests
  BY <1>4 DEF ReconcileScales, RestartFailedEnvoyPods, ReconcileCertificateSigningRequests
<1>5. CASE ReconcileRookCluster \/ InstallChart \/ CreateObjectStoreUser
  BY <1>5 DEF ReconcileRookCluster, InstallChart, CreateObjectStoreUser
<1>6. CASE EndTick \/ Restart
  BY <1>6 DEF EndTick, Restart, NoTick
<1>7. CASE CertsDue \/ (\E n \in Node : Lose(n) \/ Return(n) \/ Die(n))
           \/ (\E r \in Request : RequestCert(r)) \/ (\E p \in EnvoyPod : EnvoyFails(p))
  BY <1>7 DEF CertsDue, Lose, Return, Die, RequestCert, EnvoyFails
<1>8. CASE UNCHANGED vars
  BY <1>8 DEF vars
<1>9. QED
  BY <1>1, <1>2, <1>3, <1>4, <1>5, <1>6, <1>7, <1>8 DEF Next, OperatorStep

\* Where the loop is, and its counter.
LEMMA PlaceStep == ASSUME PlaceType, [Next]_vars PROVE PlaceType'
<1> USE DEF PlaceType, cluster, lb, pending, rookCluster, others, tick, RunPods, Proceed
<1>a. /\ Steps \subseteq Label /\ {"launch", "launchPods", "wait"} \subseteq Label
      /\ {"nodes", "rook", "rotate", "rotatePods", "lb", "lbPods", "scale", "envoy", "csrs",
          "rookCluster", "install", "rookUser", "end"} \subseteq Label
  BY DEF Label, Steps
<1>b. 0 \in 0 .. Period - 1 /\ (i + 1) % Period \in 0 .. Period - 1
  BY ConstantsAssumption
<1>1. CASE Launch \/ LaunchPods \/ Tick \/ ReconcileNodes \/ ReconcileRook
  BY <1>a, <1>1 DEF Launch, LaunchPods, Tick, ReconcileNodes, ReconcileRook
<1>2. CASE RotateCerts \/ RotatePods \/ Deadline
  BY <1>a, <1>2 DEF RotateCerts, RotatePods, Deadline
<1>3. CASE ReconcileInternalLB \/ UpdateInternalLB
  BY <1>a, <1>3 DEF ReconcileInternalLB, UpdateInternalLB
<1>4. CASE ReconcileScales \/ RestartFailedEnvoyPods \/ ReconcileCertificateSigningRequests
  BY <1>a, <1>4 DEF ReconcileScales, RestartFailedEnvoyPods, ReconcileCertificateSigningRequests
<1>5. CASE ReconcileRookCluster \/ InstallChart \/ CreateObjectStoreUser
  BY <1>a, <1>5 DEF ReconcileRookCluster, InstallChart, CreateObjectStoreUser
<1>6. CASE EndTick \/ Restart
  BY <1>a, <1>b, <1>6 DEF EndTick, Restart
<1>7. CASE CertsDue \/ (\E n \in Node : Lose(n) \/ Return(n) \/ Die(n))
           \/ (\E r \in Request : RequestCert(r)) \/ (\E p \in EnvoyPod : EnvoyFails(p))
  BY <1>7 DEF CertsDue, Lose, Return, Die, RequestCert, EnvoyFails
<1>8. CASE UNCHANGED vars
  BY <1>8 DEF vars
<1>9. QED
  BY <1>1, <1>2, <1>3, <1>4, <1>5, <1>6, <1>7, <1>8 DEF Next, OperatorStep

\* What waits for the steps behind the pods.
LEMMA PendingStep == ASSUME PendingType, [Next]_vars PROVE PendingType'
<1> USE DEF PendingType, cluster, lb, pending, rookCluster, others, tick
<1>1. CASE RestartFailedEnvoyPods \/ ReconcileCertificateSigningRequests
  BY <1>1 DEF RestartFailedEnvoyPods, ReconcileCertificateSigningRequests
<1>2. CASE ReconcileRookCluster \/ InstallChart \/ CreateObjectStoreUser
  BY <1>2 DEF ReconcileRookCluster, InstallChart, CreateObjectStoreUser
<1>3. CASE (\E r \in Request : RequestCert(r)) \/ (\E p \in EnvoyPod : EnvoyFails(p))
  BY <1>3 DEF RequestCert, EnvoyFails
<1>4. CASE UNCHANGED others
  BY <1>4
<1>5. CASE UNCHANGED vars
  BY <1>5 DEF vars
<1>6. QED
  BY <1>1, <1>2, <1>3, <1>4, <1>5
     DEF Next, OperatorStep, Launch, LaunchPods, Tick, ReconcileNodes, ReconcileRook, RotateCerts,
         RotatePods, ReconcileInternalLB, UpdateInternalLB, Deadline, ReconcileScales, EndTick,
         CertsDue, Lose, Return, Die, Restart

\* The bounds on the environment.
LEMMA BudgetStep == ASSUME BudgetType, [Next]_vars PROVE BudgetType'
<1> USE DEF BudgetType, budget, Proceed, RunPods
<1>a. Fails \/ Works => BudgetType'
  BY DEF Fails, Works
<1>1. CASE OperatorStep
  <2>1. Fails \/ Works
    BY <1>1 DEF OperatorStep, Launch, LaunchPods, Tick, ReconcileNodes, ReconcileRook, RotateCerts,
         RotatePods, ReconcileInternalLB, UpdateInternalLB, Deadline, ReconcileScales,
         RestartFailedEnvoyPods, ReconcileCertificateSigningRequests, ReconcileRookCluster,
         InstallChart, CreateObjectStoreUser, EndTick, Works
  <2>2. QED
    BY <1>a, <2>1
<1>2. CASE Restart
  BY <1>2 DEF Restart
<1>3. CASE \E n \in Node : Lose(n) \/ Return(n) \/ Die(n)
  BY <1>3 DEF Lose, Return, Die
<1>4. CASE CertsDue \/ (\E r \in Request : RequestCert(r)) \/ (\E p \in EnvoyPod : EnvoyFails(p))
  BY <1>4 DEF CertsDue, RequestCert, EnvoyFails
<1>5. CASE UNCHANGED vars
  BY <1>5 DEF vars
<1>6. QED
  BY <1>1, <1>2, <1>3, <1>4, <1>5 DEF Next

\* Type correctness of the loop; that the dead nodes of a tick are of its list, whatever
\* is purged and joins meanwhile, is part of it.
THEOREM TypeCorrect == Spec => []TypeOK
<1> DEFINE Parts == NodesType /\ FlagsType /\ PlaceType /\ PendingType /\ BudgetType
<1>1. Init => Parts
  <2> SUFFICES ASSUME Init PROVE Parts
    OBVIOUS
  <2>1. NodesType
    BY DEF Init, NodesType, Health
  <2>2. FlagsType
    BY DEF Init, FlagsType
  <2>3. 0 \in 0 .. Period - 1 /\ "launch" \in Label
    BY ConstantsAssumption DEF Label
  <2>4. PlaceType
    BY <2>3 DEF Init, PlaceType
  <2>5. PendingType /\ BudgetType
    BY DEF Init, PendingType, BudgetType
  <2>6. QED
    BY <2>1, <2>2, <2>4, <2>5
<1>2. Parts /\ [Next]_vars => Parts'
  BY NodesStep, FlagsStep, PlaceStep, PendingStep, BudgetStep
<1>3. Parts => TypeOK
  BY DEF TypeOK, NodesType, FlagsType, PlaceType, PendingType, BudgetType
<1>4. QED
  BY <1>1, <1>2, <1>3, PTL DEF Spec
=============================================================================
