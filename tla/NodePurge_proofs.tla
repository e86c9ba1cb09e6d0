--------------------------- MODULE NodePurge_proofs ---------------------------
(***************************************************************************)
(* Proofs about NodePurge, for any nodes, OSDs, configuration and bounds.  *)
(***************************************************************************)
EXTENDS NodePurge, TLAPS

\* The program counters that the control operators lead to are labels.
LEMMA ControlType ==
  ASSUME NEW p \in Proc
  PROVE  Returned(p) \in Label /\ Aborted(p) \in Label /\ AfterCeph(p) \in Label
BY DEF Returned, Aborted, AfterCeph, Label, PurgeSteps

\* Type correctness of the cluster, of both processes and of the counters.
THEOREM TypeCorrect == Spec => []TypeOK
<1>1. Init => TypeOK
  BY ConstantsAssumption DEF Init, TypeOK, Node, Health, Label
<1>2. TypeOK /\ [Next]_vars => TypeOK'
  <2> SUFFICES ASSUME TypeOK, [Next]_vars PROVE TypeOK'
    OBVIOUS
  <2> USE ConstantsAssumption, BoundsAssumption
  <2> USE DEF TypeOK, registry, members, ceph, calls, tick, budget
  <2>1. CASE ListNodes
    <3>1. rookKnown' \in [Proc -> BOOLEAN]
      <4>1. CASE rookKnown' = [rookKnown EXCEPT ![Operator] = TRUE]
        BY <4>1, Zenon
      <4>2. CASE rookKnown' = [rookKnown EXCEPT ![Operator] = FALSE]
        BY <4>2, Zenon
      <4>3. QED
        BY <2>1, <4>1, <4>2 DEF ListNodes
    <3>2. pc' \in [Proc -> Label]
      BY <2>1 DEF ListNodes, Label
    <3>3. failures' \in Nat
      BY <2>1 DEF ListNodes, Works, Fails
    <3>4. QED
      BY <2>1, <3>1, <3>2, <3>3 DEF ListNodes
  <2>2. CASE ReconcileNode
    BY <2>2 DEF ReconcileNode, Label, PurgeSteps, Proc, Operator
  <2>3. CASE ClearNode
    BY <2>3 DEF ClearNode, Answer, Works, Fails, Label
  <2>4. CASE EndOfNodes
    <3>1. pc' \in [Proc -> Label] /\ cephSeen' \in [Proc -> SUBSET Node]
      <4>1. CASE cephSeen' = [cephSeen EXCEPT ![Operator] = storageNodes]
        BY <2>4, <4>1 DEF EndOfNodes, Label
      <4>2. CASE cephSeen' = cephSeen
        BY <2>4, <4>2 DEF EndOfNodes, Label
      <4>3. QED
        BY <2>4, <4>1, <4>2 DEF EndOfNodes
    <3>2. failures' \in Nat
      BY <2>4 DEF EndOfNodes, Works, Fails
    <3>3. QED
      BY <2>4, <3>1, <3>2 DEF EndOfNodes
  <2>5. CASE PatchUse
    <3>1. ReadyListed \subseteq Node /\ cephSeen[Operator] \subseteq Node
      BY DEF ReadyListed, ReadyIn, Proc
    <3>2. QED
      BY <2>5, <3>1 DEF PatchUse, Answer, Works, Fails, Label
  <2>6. ASSUME NEW p \in Proc, PurgeStep(p) PROVE TypeOK'
    <3> USE ControlType
    <3>1. CASE GetNode(p)
      BY <3>1 DEF GetNode, Label, PurgeSteps
    <3>2. CASE ReadStorage(p)
      BY <3>2 DEF ReadStorage, Label, PurgeSteps
    <3>3. CASE PatchStorage(p)
      BY <3>3 DEF PatchStorage, Answer, Works, Fails, Label, PurgeSteps
    <3>4. CASE DeleteOsdDeployment(p)
      BY <3>4 DEF DeleteOsdDeployment, Answer, Works, Fails, Label, PurgeSteps
    <3>5. CASE PurgeOsd(p)
      BY <3>5 DEF PurgeOsd, Answer, Works, Fails, Label, PurgeSteps
    <3>6. CASE ReadEndpoints(p)
      BY <3>6 DEF ReadEndpoints, Label, PurgeSteps
    <3>7. CASE WriteEndpoints(p)
      <4>1. CASE endpoints = cm[p]
        <5>1. ip' \in [Proc -> BOOLEAN]
          <6>1. ip' = [ip EXCEPT ![p] = TRUE]
            BY <3>7, <4>1 DEF WriteEndpoints
          <6>2. QED
            BY <6>1, Zenon
        <5>2. QED
          BY <3>7, <4>1, <5>1 DEF WriteEndpoints, Answer, Works, Fails, Label, PurgeSteps
      <4>2. CASE endpoints # cm[p]
        BY <3>7, <4>2 DEF WriteEndpoints
      <4>3. QED
        BY <4>1, <4>2
    <3>8. CASE EtcdRemove(p)
      BY <3>8 DEF EtcdRemove, Answer, Works, Fails, Label, PurgeSteps
    <3>9. CASE DeleteNode(p)
      BY <3>9 DEF DeleteNode, Answer, Works, Fails
    <3>10. QED
      BY <2>6, <3>1, <3>2, <3>3, <3>4, <3>5, <3>6, <3>7, <3>8, <3>9 DEF PurgeStep
  <2>7. ASSUME NEW n \in CliTargets, CliPurge(n) PROVE TypeOK'
    BY <2>7 DEF CliPurge, Label, PurgeSteps, Proc, Cli
  <2>8. ASSUME NEW p \in Proc, CallFails(p) PROVE TypeOK'
    BY <2>8, ControlType DEF CallFails, Fails, OnError, Label
  <2>9. CASE Crash
    <3>1. pc' \in [Proc -> Label]
      BY <2>9 DEF Crash, Label
    <3>2. crashes' \in Nat
      BY <2>9 DEF Crash
    <3>3. QED
      BY <2>9, <3>1, <3>2 DEF Crash
  <2>10. ASSUME NEW n \in Node, NodeHealth(n) PROVE TypeOK'
    <3>1. PICK h \in Health : /\ health' = [health EXCEPT ![n] = h]
                             /\ \/ terminating' = terminating \cup {n}
                                \/ terminating' = terminating \ {n}
                                \/ terminating' = terminating
      <4>1. PICK h \in Health :
              /\ health' = [health EXCEPT ![n] = h]
              /\ terminating' = CASE h = "dead"  -> terminating \cup {n}
                                  [] h = "ready" -> terminating \ {n}
                                  [] OTHER       -> terminating
        BY <2>10 DEF NodeHealth
      <4>2. QED
        BY <4>1 DEF Health
    <3>2. healthChanges' \in Nat
      BY <2>10 DEF NodeHealth
    <3>3. QED
      BY <2>10, <3>1, <3>2 DEF NodeHealth
  <2>11. CASE UNCHANGED vars
    BY <2>11 DEF vars
  <2>12. QED
    BY <2>1, <2>2, <2>3, <2>4, <2>5, <2>6, <2>7, <2>8, <2>9, <2>10, <2>11
       DEF Next, OperatorStep, Proc
<1>3. QED
  BY <1>1, <1>2, PTL DEF Spec

(* A master leaves kubeadm's endpoints, then etcd, then the Node list.     *)

\* What makes NoOrphanMember inductive: a process that has read the Node of its
\* target knows an IP to look its etcd member up with; at the etcd step the target's
\* endpoint is gone, and at the deletion of the Node its member too.
OrphanInv ==
  /\ TypeOK
  /\ NoOrphanMember
  /\ \A p \in Proc :
       /\ found[p] => ip[p]
       /\ pc[p] = "etcdRemove" => target[p] \notin endpoints
       /\ pc[p] = "deleteNode" =>
            found[p] /\ target[p] \notin endpoints /\ target[p] \notin etcd

\* NoOrphanMember for every run: whatever is lost, repeated or interleaved, a master
\* without a Node object is in neither kubeadm's endpoints nor etcd.
THEOREM NoOrphans == Spec => []NoOrphanMember
<1>1. Init => OrphanInv
  <2> SUFFICES ASSUME Init PROVE OrphanInv
    OBVIOUS
  <2>1. TypeOK
    BY ConstantsAssumption DEF Init, TypeOK, Node, Health, Label
  <2>2. NoOrphanMember
    BY DEF Init, NoOrphanMember, Node
  <2>3. QED
    BY <2>1, <2>2 DEF Init, OrphanInv
<1>2. OrphanInv /\ TypeOK' /\ [Next]_vars => OrphanInv'
  <2> SUFFICES ASSUME OrphanInv, TypeOK', [Next]_vars PROVE OrphanInv'
    OBVIOUS
  <2> USE DEF OrphanInv, NoOrphanMember, TypeOK, registry, members, ceph, calls, tick, budget
  <2>1. CASE ListNodes
    BY <2>1 DEF ListNodes, Proc, Operator
  <2>2. CASE ReconcileNode
    BY <2>2 DEF ReconcileNode, Proc, Operator
  <2>3. CASE ClearNode
    BY <2>3 DEF ClearNode, Answer, Proc, Operator
  <2>4. CASE EndOfNodes
    BY <2>4 DEF EndOfNodes, Proc, Operator
  <2>5. CASE PatchUse
    BY <2>5 DEF PatchUse, Answer, Proc, Operator
  <2>6. ASSUME NEW p \in Proc, PurgeStep(p) PROVE OrphanInv'
    <3> USE DEF Returned, Aborted
    <3>1. CASE GetNode(p)
      BY <3>1 DEF GetNode
    <3>2. CASE ReadStorage(p)
      BY <3>2 DEF ReadStorage
    <3>3. CASE PatchStorage(p)
      BY <3>3 DEF PatchStorage, Answer, AfterCeph, MaybeMaster
    <3>4. CASE DeleteOsdDeployment(p)
      BY <3>4 DEF DeleteOsdDeployment, Answer, AfterCeph, MaybeMaster
    <3>5. CASE PurgeOsd(p)
      BY <3>5 DEF PurgeOsd, Answer, AfterCeph, MaybeMaster
    <3>6. CASE ReadEndpoints(p)
      BY <3>6 DEF ReadEndpoints
    <3>7. CASE WriteEndpoints(p)
      BY <3>7 DEF WriteEndpoints, Answer
    <3>8. CASE EtcdRemove(p)
      BY <3>8 DEF EtcdRemove, Answer
    <3>9. CASE DeleteNode(p)
      BY <3>9 DEF DeleteNode, Answer
    <3>10. QED
      BY <2>6, <3>1, <3>2, <3>3, <3>4, <3>5, <3>6, <3>7, <3>8, <3>9 DEF PurgeStep
  <2>7. ASSUME NEW n \in CliTargets, CliPurge(n) PROVE OrphanInv'
    BY <2>7 DEF CliPurge, Proc, Cli
  <2>8. ASSUME NEW p \in Proc, CallFails(p) PROVE OrphanInv'
    BY <2>8 DEF CallFails, OnError, Aborted, AfterCeph, MaybeMaster
  <2>9. CASE Crash
    BY <2>9 DEF Crash, Proc, Operator
  <2>10. ASSUME NEW n \in Node, NodeHealth(n) PROVE OrphanInv'
    BY <2>10 DEF NodeHealth
  <2>11. CASE UNCHANGED vars
    BY <2>11 DEF vars
  <2>12. QED
    BY <2>1, <2>2, <2>3, <2>4, <2>5, <2>6, <2>7, <2>8, <2>9, <2>10, <2>11
       DEF Next, OperatorStep, Proc
<1>3. OrphanInv => NoOrphanMember
  BY DEF OrphanInv
<1>4. QED
  BY <1>1, <1>2, <1>3, TypeCorrect, PTL DEF Spec

(* The OSD of a purged node leaves ceph.                                    *)

\* deleteK8sDeploymentOSD removes one deployment a call, and PurgeNode calls it once.
OneOsdPerNode == \A o, q \in Osd : HostOf[o] = HostOf[q] => o = q

Undisturbed == failures = 0 /\ crashes = 0 /\ MaintainRookStorageNodes

\* A process past deleteK8sDeploymentOSD has left no OSD deployment on its target.
PastDeployment == {"purgeOsd", "readEndpoints", "writeEndpoints", "etcdRemove", "deleteNode"}

\* What makes PurgedOsdGone inductive: an OSD in ceph keeps its deployment until a process
\* takes it to purge the OSD, and its node keeps its Node object as long as the deployment.
OsdParts ==
  /\ \A p \in Proc : pc[p] # "idle" => rookKnown[p]
  /\ \A o \in cephOsds \ deployments : \E p \in Proc : pc[p] = "purgeOsd" /\ osd[p] = o
  /\ \A p \in Proc : pc[p] \in PastDeployment => \A o \in deployments : HostOf[o] # target[p]
  /\ \A o \in deployments : HostOf[o] \in nodes

OsdInv == TypeOK /\ (Undisturbed => OsdParts)

\* A call that fails, before or after its effect, ends the undisturbed part of a run.
LEMMA FailureDisturbs == TypeOK /\ Fails => ~Undisturbed'
  BY DEF TypeOK, Fails, Undisturbed

\* The counters only grow.
LEMMA StaysUndisturbed ==
  ASSUME TypeOK, failures' \in {failures, failures + 1}, crashes' \in {crashes, crashes + 1},
         Undisturbed'
  PROVE  Undisturbed
  BY DEF TypeOK, Undisturbed

\* Where an undisturbed purge goes on: past the Ceph steps, back to the list, or out.
LEMMA PastCeph == ASSUME NEW p \in Proc PROVE AfterCeph(p) \in PastDeployment
  BY DEF AfterCeph, PastDeployment
LEMMA PastPurge ==
  ASSUME NEW p \in Proc
  PROVE  /\ Returned(p) \notin PastDeployment \cup {"purgeOsd"}
         /\ Aborted(p) \notin PastDeployment \cup {"purgeOsd"}
  BY DEF Returned, Aborted, PastDeployment

\* OsdParts after a step of the environment or of the operator's loop, which touches
\* neither the OSDs nor a purge on its way.
LEMMA OsdUntouched ==
  ASSUME OsdParts, UNCHANGED <<nodes, deployments, cephOsds, osd>>,
         \A p \in Proc : pc'[p] # "idle" => rookKnown'[p],
         \A p \in Proc : pc[p] = "purgeOsd" => pc'[p] = "purgeOsd",
         \A p \in Proc : pc'[p] \in PastDeployment => pc[p] \in PastDeployment /\ target'[p] = target[p]
  PROVE  OsdParts'
  BY DEF OsdParts

\* One step of a run that stays undisturbed.
LEMMA OsdStep ==
  ASSUME OneOsdPerNode, OsdInv, [Next]_vars, Undisturbed'
  PROVE  OsdParts'
<1> USE ConstantsAssumption
<1> USE DEF registry, members, ceph, calls, tick, budget
<1>0. TypeOK /\ (Undisturbed => OsdParts)
  BY DEF OsdInv
<1>01. pc \in [Proc -> Label] /\ rookKnown \in [Proc -> BOOLEAN] /\ osd \in [Proc -> Osd \cup {None}]
       /\ target \in [Proc -> Node \cup {None}] /\ failures \in Nat /\ crashes \in Nat
       /\ deployments \subseteq Osd /\ cephOsds \subseteq Osd
  BY <1>0 DEF TypeOK
<1>02. ~Fails
  BY <1>0, FailureDisturbs
<1>1. CASE ListNodes
  <2>1. Undisturbed
    BY <1>0, <1>02, <1>1, StaysUndisturbed DEF ListNodes, Works
  <2>2. QED
    BY <1>0, <1>01, <1>02, <1>1, <2>1, OsdUntouched DEF ListNodes, PastDeployment, OsdParts
<1>2. CASE ReconcileNode
  <2>1. Undisturbed
    BY <1>0, <1>2, StaysUndisturbed DEF ReconcileNode
  <2>2. pc' \in {[pc EXCEPT ![Operator] = "getNode"], [pc EXCEPT ![Operator] = "loop"]}
    BY <1>2 DEF ReconcileNode
  <2>3. /\ pc[Operator] = "loop"
        /\ \E n \in todo : target' = [target EXCEPT ![Operator] = n]
        /\ UNCHANGED <<nodes, deployments, cephOsds, osd, rookKnown>>
    BY <1>2 DEF ReconcileNode
  <2>4. QED
    BY <1>0, <1>01, <2>1, <2>2, <2>3, OsdUntouched DEF PastDeployment, OsdParts
<1>3. CASE ClearNode
  <2>1. Undisturbed
    BY <1>0, <1>02, <1>3, StaysUndisturbed DEF ClearNode, Answer, Works
  <2>2. QED
    BY <1>0, <1>01, <1>02, <1>3, <2>1, OsdUntouched DEF ClearNode, Answer, PastDeployment, OsdParts
<1>4. CASE EndOfNodes
  <2>1. Undisturbed
    BY <1>0, <1>02, <1>4, StaysUndisturbed DEF EndOfNodes, Works
  <2>2. pc' \in {[pc EXCEPT ![Operator] = "idle"], [pc EXCEPT ![Operator] = "patchUse"]}
    BY <1>4 DEF EndOfNodes
  <2>3. pc[Operator] = "loop" /\ UNCHANGED <<nodes, deployments, cephOsds, osd, rookKnown, target>>
    BY <1>4 DEF EndOfNodes
  <2>4. QED
    BY <1>0, <1>01, <2>1, <2>2, <2>3, OsdUntouched DEF PastDeployment, OsdParts
<1>5. CASE PatchUse
  <2>1. Undisturbed
    BY <1>0, <1>02, <1>5, StaysUndisturbed DEF PatchUse, Answer, Works
  <2>2. QED
    BY <1>0, <1>01, <1>02, <1>5, <2>1, OsdUntouched DEF PatchUse, Answer, PastDeployment, OsdParts
<1>6. ASSUME NEW p \in Proc, PurgeStep(p) PROVE OsdParts'
  <2>1. CASE GetNode(p)
    <3>1. Undisturbed /\ MaintainRookStorageNodes
      BY <1>0, <2>1, StaysUndisturbed DEF GetNode, Undisturbed
    <3>2. rookKnown[p]
      BY <1>0, <2>1, <3>1 DEF GetNode, OsdParts
    <3>3. pc' = [pc EXCEPT ![p] = "readStorage"] /\ pc[p] = "getNode"
      BY <2>1, <3>1, <3>2 DEF GetNode
    <3>4. UNCHANGED <<nodes, deployments, cephOsds, target, rookKnown>>
          /\ osd' = [osd EXCEPT ![p] = None]
      BY <2>1 DEF GetNode
    <3>5. QED
      BY <1>0, <1>01, <3>1, <3>3, <3>4 DEF OsdParts, PastDeployment
  <2>2. CASE ReadStorage(p)
    <3>1. Undisturbed
      BY <1>0, <2>2, StaysUndisturbed DEF ReadStorage
    <3>2. QED
      BY <1>0, <1>01, <2>2, <3>1, OsdUntouched DEF ReadStorage, PastDeployment, OsdParts
  <2>3. CASE PatchStorage(p)
    <3>1. Undisturbed
      BY <1>0, <1>02, <2>3, StaysUndisturbed DEF PatchStorage, Answer, Works
    <3>2. QED
      BY <1>0, <1>01, <1>02, <2>3, <3>1, OsdUntouched DEF PatchStorage, Answer, PastDeployment, OsdParts
  <2>4. CASE DeleteOsdDeployment(p)
    <3>1. pc[p] = "deleteOsd" /\ UNCHANGED <<nodes, cephOsds, target, rookKnown>>
      BY <2>4 DEF DeleteOsdDeployment
    <3>2. Undisturbed
      BY <1>0, <1>02, <2>4, StaysUndisturbed DEF DeleteOsdDeployment, Answer, Works
    <3>3. CASE /\ {o \in deployments : HostOf[o] = target[p]} = {}
               /\ pc' = [pc EXCEPT ![p] = AfterCeph(p)] /\ UNCHANGED <<osd, deployments>>
      <4>1. \A o \in deployments : HostOf[o] # target[p]
        BY <3>3
      <4>2. AfterCeph(p) # "purgeOsd" /\ AfterCeph(p) # "idle"
        BY DEF AfterCeph
      <4>3. QED
        BY <1>0, <1>01, <3>1, <3>2, <3>3, <4>1, <4>2 DEF OsdParts
    <3>4. ASSUME NEW o \in deployments, HostOf[o] = target[p], deployments' = deployments \ {o},
                 osd' = [osd EXCEPT ![p] = o], pc' = [pc EXCEPT ![p] = "purgeOsd"]
          PROVE  OsdParts'
      <4>1. \A q \in deployments' : HostOf[q] # target[p]
        BY <1>01, <3>4 DEF OneOsdPerNode
      <4>2. \A q \in cephOsds' \ deployments' : \E r \in Proc : pc'[r] = "purgeOsd" /\ osd'[r] = q
        <5>1. SUFFICES ASSUME NEW q \in cephOsds, q \notin deployments \/ q = o
                       PROVE  \E r \in Proc : pc'[r] = "purgeOsd" /\ osd'[r] = q
          BY <3>1, <3>4
        <5>2. CASE q = o
          BY <1>01, <3>4, <5>2
        <5>3. CASE q # o
          <6>1. PICK r \in Proc : pc[r] = "purgeOsd" /\ osd[r] = q
            BY <1>0, <3>2, <5>1, <5>3 DEF OsdParts
          <6>2. r # p
            BY <3>1, <6>1
          <6>3. QED
            BY <1>01, <3>4, <6>1, <6>2
        <5>4. QED
          BY <5>2, <5>3
      <4>3. QED
        BY <1>0, <1>01, <3>1, <3>2, <3>4, <4>1, <4>2 DEF OsdParts
    <3>5. QED
      BY <1>02, <2>4, <3>3, <3>4 DEF DeleteOsdDeployment, Answer
  <2>5. CASE PurgeOsd(p)
    <3>1. /\ pc[p] = "purgeOsd" /\ cephOsds' = cephOsds \ {osd[p]}
          /\ pc' = [pc EXCEPT ![p] = AfterCeph(p)]
          /\ UNCHANGED <<nodes, deployments, osd, target, rookKnown>>
      BY <1>02, <2>5 DEF PurgeOsd, Answer
    <3>2. Undisturbed
      BY <1>0, <1>02, <2>5, StaysUndisturbed DEF PurgeOsd, Answer, Works
    <3>3. AfterCeph(p) # "idle"
      BY DEF AfterCeph
    <3>4. \A o \in deployments : HostOf[o] # target[p]
      BY <1>0, <3>1, <3>2 DEF OsdParts, PastDeployment
    <3>5. QED
      BY <1>0, <1>01, <3>1, <3>2, <3>3, <3>4 DEF OsdParts
  <2>6. CASE ReadEndpoints(p)
    <3>1. Undisturbed
      BY <1>0, <2>6, StaysUndisturbed DEF ReadEndpoints
    <3>2. PICK l \in Label : pc' = [pc EXCEPT ![p] = l]
      BY <2>6, ControlType DEF ReadEndpoints, Label, PurgeSteps
    <3>3. pc[p] = "readEndpoints" /\ UNCHANGED <<nodes, deployments, cephOsds, osd, target, rookKnown>>
      BY <2>6 DEF ReadEndpoints
    <3>4. QED
      BY <1>0, <1>01, <3>1, <3>2, <3>3, OsdUntouched DEF PastDeployment, OsdParts
  <2>7. CASE WriteEndpoints(p)
    <3>1. Undisturbed
      BY <1>0, <1>02, <2>7, StaysUndisturbed DEF WriteEndpoints, Answer, Works
    <3>2. PICK l \in Label : pc' = [pc EXCEPT ![p] = l]
      BY <1>02, <2>7, ControlType DEF WriteEndpoints, Answer, Label, PurgeSteps
    <3>3. pc[p] = "writeEndpoints" /\ UNCHANGED <<nodes, deployments, cephOsds, osd, target, rookKnown>>
      BY <2>7 DEF WriteEndpoints
    <3>4. QED
      BY <1>0, <1>01, <3>1, <3>2, <3>3, OsdUntouched DEF PastDeployment, OsdParts
  <2>8. CASE EtcdRemove(p)
    <3>1. Undisturbed
      BY <1>0, <1>02, <2>8, StaysUndisturbed DEF EtcdRemove, Answer, Works
    <3>2. PICK l \in Label : pc' = [pc EXCEPT ![p] = l]
      BY <1>02, <2>8, ControlType DEF EtcdRemove, Answer, Label, PurgeSteps
    <3>3. pc[p] = "etcdRemove" /\ UNCHANGED <<nodes, deployments, cephOsds, osd, target, rookKnown>>
      BY <2>8 DEF EtcdRemove
    <3>4. QED
      BY <1>0, <1>01, <3>1, <3>2, <3>3, OsdUntouched DEF PastDeployment, OsdParts
  <2>9. CASE DeleteNode(p)
    <3>1. Undisturbed
      BY <1>0, <1>02, <2>9, StaysUndisturbed DEF DeleteNode, Answer, Works
    <3>2. /\ pc[p] = "deleteNode" /\ UNCHANGED <<deployments, cephOsds, osd, target, rookKnown>>
          /\ nodes' \in {nodes, nodes \ {target[p]}}
          /\ pc' \in {[pc EXCEPT ![p] = Returned(p)], [pc EXCEPT ![p] = Aborted(p)]}
      BY <1>02, <2>9 DEF DeleteNode, Answer
    <3>3. \A o \in deployments : HostOf[o] # target[p]
      BY <1>0, <3>1, <3>2 DEF OsdParts, PastDeployment
    <3>4. QED
      BY <1>0, <1>01, <3>1, <3>2, <3>3, PastPurge DEF OsdParts
  <2>10. QED
    BY <1>6, <2>1, <2>2, <2>3, <2>4, <2>5, <2>6, <2>7, <2>8, <2>9 DEF PurgeStep
<1>7. ASSUME NEW n \in CliTargets, CliPurge(n) PROVE OsdParts'
  <2>1. Undisturbed /\ MaintainRookStorageNodes
    BY <1>0, <1>7, StaysUndisturbed DEF CliPurge, Undisturbed
  <2>2. /\ pc[Cli] = "idle" /\ pc' = [pc EXCEPT ![Cli] = "getNode"]
        /\ rookKnown' = [rookKnown EXCEPT ![Cli] = TRUE]
        /\ target' = [target EXCEPT ![Cli] = n]
        /\ UNCHANGED <<nodes, deployments, cephOsds, osd>>
    BY <1>7, <2>1 DEF CliPurge
  <2>3. QED
    BY <1>0, <1>01, <2>1, <2>2, OsdUntouched DEF PastDeployment, OsdParts
<1>8. ASSUME NEW p \in Proc, CallFails(p) PROVE OsdParts'
  BY <1>02, <1>8 DEF CallFails
<1>9. CASE Crash
  BY <1>01, <1>9 DEF Crash, Undisturbed
<1>10. ASSUME NEW n \in Node, NodeHealth(n) PROVE OsdParts'
  <2>1. Undisturbed
    BY <1>0, <1>10, StaysUndisturbed DEF NodeHealth
  <2>2. QED
    BY <1>0, <1>10, <2>1, OsdUntouched DEF NodeHealth, OsdParts
<1>11. CASE UNCHANGED vars
  <2>1. Undisturbed
    BY <1>0, <1>11, StaysUndisturbed DEF vars
  <2>2. QED
    BY <1>0, <1>11, <2>1, OsdUntouched DEF vars, OsdParts
<1>12. QED
  BY <1>1, <1>2, <1>3, <1>4, <1>5, <1>6, <1>7, <1>8, <1>9, <1>10, <1>11
     DEF Next, OperatorStep, Proc

\* PurgedOsdGone for any nodes and OSDs, one on a node, any masters and workers and any
\* commands beside the operator: no interleaving of two purges leaves an OSD in ceph.
THEOREM OsdsPurged == OneOsdPerNode /\ Spec => []PurgedOsdGone
<1> SUFFICES ASSUME OneOsdPerNode PROVE Spec => []PurgedOsdGone
  OBVIOUS
<1>1. Init => OsdInv
  <2> SUFFICES ASSUME Init PROVE OsdInv
    OBVIOUS
  <2>1. TypeOK
    BY ConstantsAssumption DEF Init, TypeOK, Node, Health, Label
  <2>2. \A o \in deployments : HostOf[o] \in nodes
    BY ConstantsAssumption DEF Init
  <2>3. QED
    BY <2>1, <2>2 DEF Init, OsdInv, OsdParts, PastDeployment
<1>2. OsdInv /\ TypeOK' /\ [Next]_vars => OsdInv'
  BY OsdStep DEF OsdInv
<1>3. OsdInv => PurgedOsdGone
  BY DEF OsdInv, OsdParts, PurgedOsdGone, Undisturbed
<1>4. QED
  BY <1>1, <1>2, <1>3, TypeCorrect, PTL DEF Spec
=============================================================================
