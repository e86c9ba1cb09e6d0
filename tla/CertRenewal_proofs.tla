-------------------------- MODULE CertRenewal_proofs --------------------------
(***************************************************************************)
(* Proofs about CertRenewal, for any primaries, files, validity and time   *)
(* to live.                                                                *)
(***************************************************************************)
EXTENDS CertRenewal, TLAPS

\* The ages that the actions assign: a new one, and one an interval older.
LEMMA AgeType == New \in Age /\ \A age \in Age : Older(age) \in Age
  BY ConstantsAssumption DEF New, Age, Older

\* One file of one host gets another age.
LEMMA NestedUpdate ==
  ASSUME NEW g \in [Host -> [File -> Age]], NEW h \in Host, NEW f \in File, NEW age \in Age
  PROVE  [g EXCEPT ![h][f] = age] \in [Host -> [File -> Age]]
<1>1. [g[h] EXCEPT ![f] = age] \in [File -> Age]
  OBVIOUS
<1>2. QED
  BY <1>1

\* Every user of a renewed file is one of the three components that can be restarted.
LEMMA UserType == \A f : UserOf(f) \subseteq Static
<1>1. /\ 1 \in 1 .. 3 /\ Component[1] = "kube-controller-manager"
      /\ 2 \in 1 .. 3 /\ Component[2] = "kube-scheduler"
      /\ 3 \in 1 .. 3 /\ Component[3] = "kube-apiserver"
  BY DEF Component
<1>2. QED
  BY <1>1 DEF UserOf, Static

\* One of the two pods goes on.
LEMMA SlotUpdate ==
  ASSUME NEW S, NEW g \in [Slot -> S], NEW p \in Slot, NEW v \in S
  PROVE  [g EXCEPT ![p] = v] \in [Slot -> S]
  OBVIOUS

\* The types of the variables of the pods, as the proofs below cite them.
PodType ==
  /\ podOn \in [Slot -> Host \cup {None}] /\ podFile \in [Slot -> 1 .. Len(Files) + 1]
  /\ podRestart \in [Slot -> SUBSET Static] /\ podMoving \in [Slot -> SUBSET Static]
  /\ podResult \in {"none", "succeeded", "failed"}

BudgetType == failures \in Nat /\ crashes \in Nat /\ interruptions \in Nat

\* The operator waits for the pod of one of the primaries, or has its result; without it
\* the place in the node list could run past the list's end.
AwaitsPrimary ==
  /\ pc = "waitPod" => hostAt <= Len(Primaries)
  /\ pc = "waitPod" /\ podResult = "none" => podOn["now"] = Primaries[hostAt]
  /\ podResult # "none" => pc = "waitPod" /\ podOn["now"] = None
  /\ pc = "createPod" => podOn["now"] = None
  /\ \A p \in Slot : podOn[p] = None => podFile[p] = 1

\* What a step leaves of the pods' types when a pod completes.
LEMMA CompletesType ==
  ASSUME TypeOK, AwaitsPrimary, NEW p \in Slot, Running(p), NEW result \in {"succeeded", "failed"},
         Completes(p, result), UNCHANGED operator
  PROVE  PodType' /\ AwaitsPrimary'
<1> USE ConstantsAssumption DEF TypeOK, Slot, operator
<1>1. 1 \in 1 .. Len(Files) + 1 /\ {} \in SUBSET Static /\ None \in Host \cup {None}
  OBVIOUS
<1>2. /\ podOn' = [podOn EXCEPT ![p] = None] /\ podFile' = [podFile EXCEPT ![p] = 1]
      /\ podRestart' = [podRestart EXCEPT ![p] = {}] /\ podMoving' = [podMoving EXCEPT ![p] = {}]
      /\ podResult' = IF p = "now" /\ pc = "waitPod" THEN result ELSE podResult
  BY DEF Completes
<1>3. PodType'
  BY <1>1, <1>2 DEF PodType
<1>4. AwaitsPrimary'
  BY <1>2 DEF AwaitsPrimary, Running
<1>5. QED
  BY <1>3, <1>4

\* What deletePods leaves of the pods' types, whether it succeeds or not.
LEMMA DeletedType ==
  ASSUME TypeOK, AwaitsPrimary, pc # "waitPod",
         DeleteCollection \/ (LeaveRunning /\ Fails) \/ (UNCHANGED pod /\ Fails)
  PROVE  /\ PodType' /\ BudgetType' /\ podResult' = "none"
         /\ \A p \in Slot : podOn'[p] = None => podFile'[p] = 1
<1> USE ConstantsAssumption DEF TypeOK, Slot, PodType, BudgetType, AwaitsPrimary
<1>1. CASE DeleteCollection
  BY <1>1 DEF DeleteCollection, Works, budget
<1>2. CASE LeaveRunning /\ Fails
  <2>1. /\ podOn'["left"] = podOn["now"] /\ podFile'["left"] = podFile["now"]
        /\ podRestart'["left"] = podRestart["now"] /\ podMoving'["left"] = podMoving["now"]
        /\ podOn'["now"] = None /\ podFile'["now"] = 1
        /\ podRestart'["now"] = {} /\ podMoving'["now"] = {}
    BY <1>2 DEF LeaveRunning
  <2>2. /\ podOn' = [p \in Slot |-> podOn'[p]] /\ podFile' = [p \in Slot |-> podFile'[p]]
        /\ podRestart' = [p \in Slot |-> podRestart'[p]]
        /\ podMoving' = [p \in Slot |-> podMoving'[p]] /\ podResult' = podResult
    BY <1>2 DEF LeaveRunning
  <2>3. PodType'
    <3>1. 1 \in 1 .. Len(Files) + 1
      OBVIOUS
    <3>2. podOn' \in [Slot -> Host \cup {None}]
      BY <2>1, <2>2
    <3>3. podFile' \in [Slot -> 1 .. Len(Files) + 1]
      BY <2>1, <2>2, <3>1
    <3>4. podRestart' \in [Slot -> SUBSET Static] /\ podMoving' \in [Slot -> SUBSET Static]
      BY <2>1, <2>2
    <3>5. QED
      BY <2>2, <3>2, <3>3, <3>4
  <2>4. QED
    BY <1>2, <2>1, <2>2, <2>3 DEF Fails
<1>3. CASE UNCHANGED pod /\ Fails
  BY <1>3 DEF pod, Fails
<1>4. QED
  BY <1>1, <1>2, <1>3

\* Type correctness, with what it takes to keep the place in the node list within it.
LEMMA Typing == Spec => [](TypeOK /\ AwaitsPrimary)
<1>1. Init => TypeOK /\ AwaitsPrimary
  <2> SUFFICES ASSUME Init PROVE TypeOK /\ AwaitsPrimary
    OBVIOUS
  <2>1. PICK age \in {0, Life - TTL - 1} :
          /\ secret = [s \in Secret |-> age] /\ inUse = [d \in Deployed |-> age]
          /\ \E later \in {0, age} :
               file = [h \in Host |-> [f \in File |-> IF h = Primaries[1] THEN age ELSE later]]
    BY DEF Init
  <2>2. age \in Age /\ 0 \in Age
    BY ConstantsAssumption DEF Age
  <2>3. secret \in [Secret -> Age] /\ inUse \in [Deployed -> Age]
    BY <2>1, <2>2
  <2>4. file \in [Host -> [File -> Age]]
    BY <2>1, <2>2
  <2>5. sameCA \in BOOLEAN /\ custom \in BOOLEAN /\ hasDeadline \in BOOLEAN /\ attempted \in BOOLEAN
    BY DEF Init
  <2>6. 1 \in 1 .. Len(Primaries) + 1 /\ 1 \in 1 .. Len(Files) + 1
    BY ConstantsAssumption
  <2>7. /\ PodType /\ BudgetType /\ aside \in [Host -> SUBSET Static]
        /\ pc \in OperatorLabel /\ host \in Host /\ hostAt = 1 /\ loaded = file
    BY <2>6 DEF Init, PodType, BudgetType, OperatorLabel
  <2>8. TypeOK
    BY <2>3, <2>4, <2>5, <2>6, <2>7 DEF TypeOK, PodType, BudgetType
  <2>9. AwaitsPrimary
    BY DEF Init, AwaitsPrimary
  <2>10. QED
    BY <2>8, <2>9
<1>2. TypeOK /\ AwaitsPrimary /\ [Next]_vars => (TypeOK /\ AwaitsPrimary)'
  <2> SUFFICES ASSUME TypeOK, AwaitsPrimary, [Next]_vars PROVE TypeOK' /\ AwaitsPrimary'
    OBVIOUS
  <2> USE ConstantsAssumption, AgeType
      DEF certs, hosts, operator, budget, Works, Fails, Goto, Return, Saved, OperatorLabel
  <2>b. 1 \in 1 .. Len(Primaries) + 1
    OBVIOUS
  \* The steps of the operator that leave the pods alone.
  <2>a. ASSUME UNCHANGED pod, pc' \in OperatorLabel \ {"waitPod", "createPod"},
               pc = "waitPod" => podResult = "none"
        PROVE  AwaitsPrimary'
    BY <2>a DEF AwaitsPrimary, pod
  <2>1. CASE OperatorStep
    <3>1. CASE Launch
      <4>1. pc' \in OperatorLabel \ {"waitPod", "createPod"} /\ BudgetType'
        BY <3>1 DEF Launch, TypeOK, BudgetType
      <4>2. attempted' \in BOOLEAN /\ hasDeadline' \in BOOLEAN
        BY <3>1 DEF Launch, TypeOK
      <4>3. UNCHANGED <<certs, hosts, hostAt, host, pod>> /\ pc # "waitPod"
        BY <3>1 DEF Launch
      <4>4. QED
        BY <2>a, <4>1, <4>2, <4>3 DEF TypeOK, BudgetType, pod
    <3>2. CASE CheckRotateCertsDue
      <4>1. pc' \in OperatorLabel \ {"waitPod", "createPod"} /\ BudgetType'
        BY <3>2 DEF CheckRotateCertsDue, TypeOK, BudgetType
      <4>2. attempted' \in BOOLEAN /\ hasDeadline' \in BOOLEAN
        BY <3>2 DEF CheckRotateCertsDue, TypeOK
      <4>3. UNCHANGED <<certs, hosts, hostAt, host, pod>> /\ pc # "waitPod"
        BY <3>2 DEF CheckRotateCertsDue
      <4>4. QED
        BY <2>a, <4>1, <4>2, <4>3 DEF TypeOK, BudgetType, pod
    <3>3. CASE UpdateContourSecret
      BY <2>a, <3>3 DEF UpdateContourSecret, TypeOK, pod
    <3>4. CASE UpdateEnvoySecret
      BY <2>a, <3>4 DEF UpdateEnvoySecret, TypeOK, pod
    <3>5. CASE RestartEnvoy
      BY <2>a, <3>5 DEF RestartEnvoy, Secret, TypeOK, pod
    <3>6. CASE RotateRegistryCert
      BY <2>a, <3>6 DEF RotateRegistryCert, TypeOK, pod
    <3>7. CASE RestartRegistry
      BY <2>a, <3>7 DEF RestartRegistry, Secret, TypeOK, pod
    <3>8. CASE RotateKurlProxyCert
      BY <2>a, <3>8 DEF RotateKurlProxyCert, TypeOK, pod
    <3>9. CASE UpdateKubeletClientCertSecret
      <4>1. file[host]["apiserver-kubelet-client"] \in Age
        BY DEF TypeOK
      <4>2. secret' \in [Secret -> Age]
        BY <3>9, <4>1 DEF UpdateKubeletClientCertSecret, TypeOK
      <4>3. QED
        BY <2>a, <3>9, <4>2 DEF UpdateKubeletClientCertSecret, TypeOK, pod
    <3>10. CASE DeletePods
      <4>1. /\ PodType' /\ BudgetType' /\ podResult' = "none"
            /\ \A p \in Slot : podOn'[p] = None => podFile'[p] = 1
        BY <3>10, DeletedType DEF DeletePods
      <4>2. podOn'["now"] = None
        BY <3>10 DEF DeletePods, DeleteCollection, LeaveRunning, Running, Slot, TypeOK, pod
      <4>3. /\ pc' = "createPod" /\ hostAt' = 1
            /\ UNCHANGED <<certs, hosts, host, hasDeadline, attempted>>
        BY <3>10 DEF DeletePods
      <4>4. AwaitsPrimary'
        BY <4>1, <4>2, <4>3 DEF AwaitsPrimary
      <4>5. QED
        BY <4>1, <4>3, <4>4 DEF TypeOK, PodType, BudgetType
    <3>11. CASE CreatePod
      <4>1. hostAt \in 1 .. Len(Primaries) /\ Primaries[hostAt] \in Host /\ "now" \in Slot
        BY <3>11 DEF CreatePod, TypeOK, Slot
      <4>2. podOn' = [podOn EXCEPT !["now"] = Primaries[hostAt]] /\ pc' = "waitPod"
        BY <3>11 DEF CreatePod
      <4>3. /\ UNCHANGED <<certs, hosts, hostAt, host, hasDeadline, attempted, podFile, podRestart,
                           podMoving, podResult, budget>>
            /\ pc = "createPod"
        BY <3>11 DEF CreatePod
      <4>4. AwaitsPrimary'
        BY <4>1, <4>2, <4>3 DEF AwaitsPrimary, TypeOK
      <4>5. podOn' \in [Slot -> Host \cup {None}]
        BY <4>1, <4>2 DEF TypeOK
      <4>6. QED
        BY <4>2, <4>3, <4>4, <4>5 DEF TypeOK
    <3>12. CASE DeletePodsAtEnd
      <4>1. /\ PodType' /\ BudgetType' /\ podResult' = "none"
            /\ \A p \in Slot : podOn'[p] = None => podFile'[p] = 1
        BY <3>12, DeletedType DEF DeletePodsAtEnd
      <4>2. /\ pc' = "idle" /\ hostAt' = 1 /\ hasDeadline' = FALSE
            /\ UNCHANGED <<certs, hosts, host, attempted>>
        BY <3>12 DEF DeletePodsAtEnd
      <4>3. AwaitsPrimary'
        BY <4>1, <4>2 DEF AwaitsPrimary
      <4>4. QED
        BY <2>b, <4>1, <4>2, <4>3 DEF TypeOK, PodType, BudgetType
    <3>13. CASE PodCompleted
      <4>1. /\ pc = "waitPod" /\ podResult # "none" /\ podResult' = "none"
            /\ UNCHANGED <<certs, hosts, host, attempted, podOn, podFile, podRestart, podMoving,
                           budget>>
        BY <3>13 DEF PodCompleted
      <4>2. /\ pc' \in {"idle", "createPod"} /\ hasDeadline' \in BOOLEAN
            /\ hostAt' \in {1, hostAt + 1}
        BY <3>13 DEF PodCompleted, TypeOK
      <4>3. hostAt \in 1 .. Len(Primaries)
        BY <4>1 DEF AwaitsPrimary, TypeOK
      <4>4. AwaitsPrimary'
        BY <4>1, <4>2 DEF AwaitsPrimary
      <4>5. QED
        BY <4>1, <4>2, <4>3, <4>4 DEF TypeOK
    <3>14. QED
      BY <2>1, <3>1, <3>2, <3>3, <3>4, <3>5, <3>6, <3>7, <3>8, <3>9, <3>10, <3>11, <3>12, <3>13
         DEF OperatorStep
  <2>2. CASE CallFails
    <3>1. After(pc) \in OperatorLabel \ {"waitPod", "createPod"}
      BY DEF After
    <3>2. /\ pc' = After(pc) /\ hostAt' \in {1, hostAt} /\ hasDeadline' \in BOOLEAN
          /\ UNCHANGED <<certs, hosts, host, attempted, pod>> /\ BudgetType' /\ pc # "waitPod"
      <4>1. UNCHANGED <<certs, hosts, pod>> /\ BudgetType' /\ pc # "waitPod"
        BY <2>2 DEF CallFails, TypeOK, BudgetType
      <4>2. CASE After(pc) = "idle"
        BY <2>2, <4>1, <4>2 DEF CallFails
      <4>3. CASE After(pc) # "idle"
        BY <2>2, <4>1, <4>3 DEF CallFails, TypeOK
      <4>4. QED
        BY <4>2, <4>3
    <3>3. hostAt' \in 1 .. Len(Primaries) + 1
      BY <2>b, <3>2 DEF TypeOK
    <3>4. QED
      BY <2>a, <3>1, <3>2, <3>3 DEF TypeOK, BudgetType, pod
  <2>3. CASE Deadline
    <3>1. /\ pc' = "idle" /\ hostAt' = 1 /\ hasDeadline' = FALSE /\ podResult = "none"
          /\ UNCHANGED <<certs, hosts, host, attempted, pod>> /\ BudgetType'
      BY <2>3 DEF Deadline, TypeOK, BudgetType
    <3>2. QED
      BY <2>a, <2>b, <3>1 DEF TypeOK, BudgetType, pod
  <2>4. ASSUME NEW p \in Slot, RotateFile(p) PROVE TypeOK' /\ AwaitsPrimary'
    <3> DEFINE f == Files[podFile[p]]
               h == podOn[p]
    <3>1. h \in Host /\ podFile[p] \in 1 .. Len(Files) /\ podFile[p] + 1 \in 1 .. Len(Files) + 1
      BY <2>4 DEF RotateFile, Running, TypeOK
    <3>2. f \in File
      BY <3>1 DEF File
    <3>3. /\ file' \in {file, [file EXCEPT ![h][f] = New]}
          /\ loaded' \in {loaded, [loaded EXCEPT ![h][f] = New]}
          /\ UNCHANGED <<certs, operator, aside>> /\ BudgetType'
      BY <2>4 DEF RotateFile, TypeOK, BudgetType
    <3>4. \/ \E result \in {"succeeded", "failed"} : Completes(p, result)
          \/ /\ podFile' = [podFile EXCEPT ![p] = @ + 1]
             /\ podRestart' \in {podRestart, [podRestart EXCEPT ![p] = @ \cup UserOf(f)]}
             /\ UNCHANGED <<podOn, podMoving, podResult>>
      BY <2>4 DEF RotateFile
    <3> HIDE DEF f, h
    <3>5. PodType' /\ AwaitsPrimary'
      <4>1. CASE \E result \in {"succeeded", "failed"} : Completes(p, result)
        BY <2>4, <3>3, <4>1, CompletesType DEF RotateFile
      <4>2. CASE /\ podFile' = [podFile EXCEPT ![p] = @ + 1]
                 /\ podRestart' \in {podRestart, [podRestart EXCEPT ![p] = @ \cup UserOf(f)]}
                 /\ UNCHANGED <<podOn, podMoving, podResult>>
        <5>1. podRestart[p] \cup UserOf(f) \in SUBSET Static
          BY UserType DEF TypeOK
        <5>2. podRestart' \in [Slot -> SUBSET Static]
          BY <4>2, <5>1 DEF TypeOK
        <5>3. podFile' \in [Slot -> 1 .. Len(Files) + 1]
          BY <3>1, <4>2 DEF TypeOK
        <5>4. podOn[p] # None
          BY <2>4 DEF RotateFile, Running
        <5>5. AwaitsPrimary'
          BY <3>3, <4>2, <5>4 DEF AwaitsPrimary, TypeOK
        <5>6. QED
          BY <4>2, <5>2, <5>3, <5>5 DEF TypeOK, PodType
      <4>3. QED
        BY <3>4, <4>1, <4>2
    <3>6. file' \in [Host -> [File -> Age]] /\ loaded' \in [Host -> [File -> Age]]
      <4>1. /\ New \in Age
            /\ file \in [Host -> [File -> Age]] /\ loaded \in [Host -> [File -> Age]]
        BY DEF TypeOK
      <4>2. [file EXCEPT ![h][f] = New] \in [Host -> [File -> Age]]
        BY ONLY <3>1, <3>2, <4>1, NestedUpdate
      <4>3. [loaded EXCEPT ![h][f] = New] \in [Host -> [File -> Age]]
        BY ONLY <3>1, <3>2, <4>1, NestedUpdate
      <4>4. QED
        BY <3>3, <4>1, <4>2, <4>3
    <3>7. QED
      BY <3>3, <3>5, <3>6 DEF TypeOK, PodType, BudgetType
  <2>5. ASSUME NEW p \in Slot, MoveAside(p) PROVE TypeOK' /\ AwaitsPrimary'
    <3>1. PICK c \in NextRestart(p) :
            \/ /\ aside' = [aside EXCEPT ![podOn[p]] = @ \cup {c}]
               /\ podMoving' = [podMoving EXCEPT ![p] = {c}]
               /\ UNCHANGED <<podOn, podFile, podRestart, podResult>>
            \/ UNCHANGED aside /\ Completes(p, "failed")
      BY <2>5 DEF MoveAside
    <3>2. /\ UNCHANGED <<certs, file, loaded, operator>> /\ BudgetType'
          /\ Running(p) /\ podOn[p] \in Host
      BY <2>5 DEF MoveAside, TypeOK, BudgetType, Running
    <3>3. c \in Static
      BY <3>1 DEF NextRestart, Static
    <3>4. aside' \in [Host -> SUBSET Static]
      <4>1. aside[podOn[p]] \cup {c} \in SUBSET Static
        BY <3>2, <3>3 DEF TypeOK
      <4>2. QED
        BY <3>1, <4>1 DEF TypeOK
    <3>5. PodType' /\ AwaitsPrimary'
      <4>1. CASE Completes(p, "failed")
        BY <3>2, <4>1, CompletesType
      <4>2. CASE /\ podMoving' = [podMoving EXCEPT ![p] = {c}]
                 /\ UNCHANGED <<podOn, podFile, podRestart, podResult>>
        BY <3>2, <3>3, <4>2 DEF TypeOK, PodType, AwaitsPrimary
      <4>3. QED
        BY <3>1, <4>1, <4>2
    <3>6. QED
      BY <3>2, <3>4, <3>5 DEF TypeOK, PodType, BudgetType
  <2>6. ASSUME NEW p \in Slot, MoveBack(p) PROVE TypeOK' /\ AwaitsPrimary'
    <3>1. PICK c \in podMoving[p] :
            /\ aside' = [aside EXCEPT ![podOn[p]] = @ \ {c}]
            /\ loaded' = [loaded EXCEPT ![podOn[p]] =
                 [f \in File |-> IF c \in UserOf(f) THEN file[podOn[p]][f] ELSE @[f]]]
            /\ podRestart' = [podRestart EXCEPT ![p] = @ \ {c}]
            /\ podMoving' = [podMoving EXCEPT ![p] = {}]
      BY <2>6 DEF MoveBack
    <3>2. /\ UNCHANGED <<certs, file, operator, podOn, podFile, podResult, budget>>
          /\ podOn[p] \in Host
      BY <2>6 DEF MoveBack, TypeOK, Running
    <3>3. loaded' \in [Host -> [File -> Age]]
      <4> DEFINE new == [f \in File |-> IF c \in UserOf(f) THEN file[podOn[p]][f]
                                                          ELSE loaded[podOn[p]][f]]
      <4>1. new \in [File -> Age]
        BY <3>2 DEF TypeOK
      <4>2. loaded' = [loaded EXCEPT ![podOn[p]] = new]
        BY <3>1
      <4> HIDE DEF new
      <4>3. QED
        BY <4>1, <4>2 DEF TypeOK
    <3>4. aside' \in [Host -> SUBSET Static]
      BY <3>1, <3>2 DEF TypeOK
    <3>5. /\ podRestart' \in [Slot -> SUBSET Static] /\ podMoving' \in [Slot -> SUBSET Static]
      BY <3>1 DEF TypeOK
    <3>6. AwaitsPrimary'
      BY <3>2 DEF AwaitsPrimary
    <3>7. QED
      BY <3>2, <3>3, <3>4, <3>5, <3>6 DEF TypeOK
  <2>7. ASSUME NEW p \in Slot, RestartsDone(p) \/ Interrupt(p) PROVE TypeOK' /\ AwaitsPrimary'
    <3>1. PodType' /\ AwaitsPrimary'
      BY <2>7, CompletesType DEF RestartsDone, Interrupt
    <3>2. UNCHANGED <<certs, hosts, operator>> /\ BudgetType'
      BY <2>7 DEF RestartsDone, Interrupt, TypeOK, BudgetType
    <3>3. QED
      BY <3>1, <3>2 DEF TypeOK, PodType, BudgetType
  <2>8. CASE IntervalPasses
    <3>1. /\ secret' \in [Secret -> Age] /\ inUse' \in [Deployed -> Age]
          /\ file' \in [Host -> [File -> Age]] /\ loaded' \in [Host -> [File -> Age]]
      BY <2>8 DEF IntervalPasses, TypeOK
    <3>2. /\ UNCHANGED <<sameCA, custom, aside, pc, hostAt, host, hasDeadline, pod, budget>>
          /\ attempted' = FALSE /\ pc = "idle"
      BY <2>8 DEF IntervalPasses
    <3>3. QED
      BY <2>a, <3>1, <3>2 DEF TypeOK, pod
  <2>9. CASE RotateKotsadmCerts
    BY <2>9 DEF RotateKotsadmCerts, TypeOK, AwaitsPrimary, pod
  <2>10. CASE Crash
    <3>1. /\ pc' = "launch" /\ hostAt' = 1 /\ host' \in Host /\ hasDeadline' = FALSE
          /\ podResult' = "none" /\ BudgetType'
          /\ UNCHANGED <<certs, hosts, attempted, podOn, podFile, podRestart, podMoving>>
      BY <2>10 DEF Crash, TypeOK, BudgetType
    <3>2. QED
      BY <2>b, <3>1 DEF TypeOK, BudgetType, AwaitsPrimary
  <2>11. CASE UNCHANGED vars
    BY <2>11 DEF vars, TypeOK, AwaitsPrimary, pod
  <2>12. QED
    BY <2>1, <2>2, <2>3, <2>4, <2>5, <2>6, <2>7, <2>8, <2>9, <2>10, <2>11 DEF Next, PodStep
<1>3. QED
  BY <1>1, <1>2, PTL DEF Spec

\* Type correctness of the certificates, the operator and the rotate-certs pods.
THEOREM TypeCorrect == Spec => []TypeOK
  BY Typing, PTL

(* Secrets of contour and envoy from different authorities.                 *)

\* What makes MismatchIsDue inductive: with one authority the two certificates have
\* the same age, so that one which is due has the other due as well; and it is always
\* envoy's, written second, that is left behind.
AuthorityInv ==
  /\ sameCA => secret["contour"] = secret["envoy"]
  /\ ~sameCA => Due(secret["envoy"])
  /\ pc = "envoySecret" => secret["contour"] = New

\* AuthorityInv holds throughout.
LEMMA AuthorityInvariant == Spec => []AuthorityInv
<1>1. Init => AuthorityInv
  BY DEF Init, AuthorityInv, Secret
<1>2. TypeOK /\ AuthorityInv /\ [Next]_vars => AuthorityInv'
  <2> SUFFICES ASSUME TypeOK, AuthorityInv, [Next]_vars PROVE AuthorityInv'
    OBVIOUS
  <2>0. secret \in [Secret -> Age] /\ {"contour", "envoy", "registry", "proxy", "kubelet"} = Secret
    BY DEF TypeOK, Secret
  <2> USE <2>0, ConstantsAssumption DEF AuthorityInv, Due, New, Age, certs, hosts, operator, pod, Goto, Saved
  <2>1. CASE OperatorStep
    <3>1. CASE Launch
      BY <3>1 DEF Launch
    <3>2. CASE CheckRotateCertsDue
      BY <3>2 DEF CheckRotateCertsDue
    <3>3. CASE UpdateContourSecret
      BY <3>3 DEF UpdateContourSecret, ContourDue
    <3>4. CASE UpdateEnvoySecret
      BY <3>4 DEF UpdateEnvoySecret
    <3>5. CASE RestartEnvoy
      BY <3>5 DEF RestartEnvoy
    <3>6. CASE RotateRegistryCert
      BY <3>6 DEF RotateRegistryCert
    <3>7. CASE RestartRegistry
      BY <3>7 DEF RestartRegistry
    <3>8. CASE RotateKurlProxyCert
      BY <3>8 DEF RotateKurlProxyCert
    <3>9. CASE UpdateKubeletClientCertSecret
      BY <3>9 DEF UpdateKubeletClientCertSecret
    <3>10. CASE DeletePods \/ CreatePod \/ DeletePodsAtEnd \/ PodCompleted
      BY <3>10 DEF DeletePods, CreatePod, DeletePodsAtEnd, PodCompleted, Return
    <3>11. QED
      BY <2>1, <3>1, <3>2, <3>3, <3>4, <3>5, <3>6, <3>7, <3>8, <3>9, <3>10 DEF OperatorStep
  <2>2. CASE CallFails
    BY <2>2 DEF CallFails, After, Return
  <2>3. CASE Deadline
    BY <2>3 DEF Deadline, Return
  <2>4. CASE PodStep
    BY <2>4 DEF PodStep, RotateFile, MoveAside, MoveBack, RestartsDone
  <2>5. CASE \E p \in Slot : Interrupt(p)
    BY <2>5 DEF Interrupt
  <2>6. CASE IntervalPasses
    BY <2>6 DEF IntervalPasses, Older
  <2>7. CASE RotateKotsadmCerts
    BY <2>7 DEF RotateKotsadmCerts
  <2>8. CASE Crash
    BY <2>8 DEF Crash
  <2>9. CASE UNCHANGED vars
    BY <2>9 DEF vars
  <2>10. QED
    BY <2>1, <2>2, <2>3, <2>4, <2>5, <2>6, <2>7, <2>8, <2>9 DEF Next
<1>3. QED
  BY <1>1, <1>2, TypeCorrect, PTL DEF Spec

\* MismatchIsDue for every validity and time to live, and whatever fails or is
\* interrupted between the two secrets.
THEOREM MismatchRepaired == Spec => []MismatchIsDue
<1>1. AuthorityInv => MismatchIsDue
  BY DEF AuthorityInv, MismatchIsDue, ContourDue
<1>2. QED
  BY <1>1, AuthorityInvariant, PTL

(* The age of what is stored.                                               *)

\* The secrets' turns in a rotation: whose is still to come at which place.
ToCome(s) ==
  {"launch", "contour"}
    \cup (IF s # "contour" THEN {"envoySecret"} ELSE {})
    \cup (IF s \in {"registry", "proxy", "kubelet"} THEN {"restartEnvoy", "registry"} ELSE {})
    \cup (IF s \in {"proxy", "kubelet"} THEN {"restartRegistry", "proxy"} ELSE {})
    \cup (IF s = "kubelet" THEN {"kubelet"} ELSE {})

\* The next rotation has not begun, and is due to.
Unattempted == pc = "idle" /\ ~attempted

\* A certificate comes to be due, and each failure may cost it an interval.
Limit == Life - TTL + failures

\* kotsadm's copy may be as old as its original was before it was renewed.
Delay(s) == IF s = "kubelet" THEN 1 ELSE 0

\* An interval may still pass over a certificate whose turn has come or been missed.
SecretAges ==
  \A s \in Secret : (s = "proxy" /\ custom) \/
    /\ secret[s] <= Limit + Delay(s)
    /\ pc \in ToCome(s) \/ Unattempted \/ secret[s] <= Limit + Delay(s) - 1

\* The rotation has been to the file, or has failed, which ends it.
Rotated(h, f) ==
  \/ pc = "idle" /\ attempted
  \/ pc = "waitPod" /\ podResult = "failed"
  \/ pc \in {"createPod", "waitPod"} /\ \E k \in 1 .. hostAt - 1 : h = Primaries[k]
  \/ /\ pc = "waitPod" /\ h = Primaries[hostAt]
     /\ podResult = "succeeded" \/ \E k \in 1 .. podFile["now"] - 1 : f = Files[k]

\* A pod that could not be deleted, and may be in the way of the next one, has already been
\* counted as a failure.
FileAges ==
  \A h \in Host, f \in File :
    /\ file[h][f] <= Limit
    /\ Rotated(h, f) \/ Running("left") => file[h][f] <= Limit - 1

\* A manifest is aside only between the renames of a pod that goes on.
MovingInv ==
  /\ \A p \in Slot : podMoving[p] # {} => podFile[p] = Len(Files) + 1 /\ podOn[p] # None
  /\ \A p \in Slot : \A c, d \in podMoving[p] : c = d
  /\ \A p \in Slot : podMoving[p] \subseteq podRestart[p]
  /\ \A h \in Host : \A c \in aside[h] : \E p \in Slot : podOn[p] = h /\ c \in podMoving[p]

AgeInv == SecretAges /\ FileAges /\ MovingInv /\ failures <= MaxFailures

\* A step keeps the secrets within their limits.
LEMMA SecretAgesStep ==
  ASSUME TypeOK, AwaitsPrimary, AgeInv, [Next]_vars
  PROVE  SecretAges'
<1>a. UNCHANGED custom
  BY DEF Next, OperatorStep, PodStep, Launch, CheckRotateCertsDue, UpdateContourSecret,
     UpdateEnvoySecret, RestartEnvoy, RotateRegistryCert, RestartRegistry,
     RotateKurlProxyCert, UpdateKubeletClientCertSecret, DeletePods, CreatePod,
     DeletePodsAtEnd, PodCompleted, CallFails, Deadline, RotateFile, MoveAside, MoveBack,
     RestartsDone, Interrupt, IntervalPasses, RotateKotsadmCerts, Crash, certs, vars
<1> SUFFICES ASSUME NEW s \in Secret, ~(s = "proxy" /\ custom)
             PROVE  /\ secret'[s] <= Limit' + Delay(s)
                    /\ pc' \in ToCome(s) \/ Unattempted' \/ secret'[s] <= Limit' + Delay(s) - 1
  BY <1>a DEF SecretAges
<1>b. /\ secret \in [Secret -> Age] /\ failures \in Nat /\ Delay(s) \in {0, 1}
      /\ secret[s] <= Limit + Delay(s)
      /\ pc \in ToCome(s) \/ Unattempted \/ secret[s] <= Limit + Delay(s) - 1
      /\ s \in {"contour", "envoy", "registry", "proxy", "kubelet"}
  BY DEF TypeOK, AgeInv, SecretAges, Delay, Secret
<1> USE <1>b, ConstantsAssumption
    DEF Limit, ToCome, Unattempted, Due, New, Age, certs, hosts, operator, budget,
        Goto, Saved, Works, Fails
<1>1. CASE OperatorStep
  <2>1. CASE Launch
    BY <2>1 DEF Launch
  <2>2. CASE CheckRotateCertsDue
    BY <2>2 DEF CheckRotateCertsDue
  <2>3. CASE UpdateContourSecret
    BY <2>3 DEF UpdateContourSecret, ContourDue
  <2>4. CASE UpdateEnvoySecret
    BY <2>4 DEF UpdateEnvoySecret
  <2>5. CASE RestartEnvoy
    BY <2>5 DEF RestartEnvoy
  <2>6. CASE RotateRegistryCert
    BY <2>6 DEF RotateRegistryCert, RegistryDue
  <2>7. CASE RestartRegistry
    BY <2>7 DEF RestartRegistry
  <2>8. CASE RotateKurlProxyCert
    BY <2>8 DEF RotateKurlProxyCert
  <2>9. CASE UpdateKubeletClientCertSecret
    BY <2>9 DEF UpdateKubeletClientCertSecret, FileAges, Delay, AgeInv, TypeOK
  <2>10. CASE DeletePods
    <3>1. failures' \in {failures, failures + 1} /\ UNCHANGED certs /\ pc = "hosts"
      BY <2>10 DEF DeletePods, DeleteCollection
    <3>2. QED
      BY <3>1
  <2>11. CASE CreatePod
    BY <2>11 DEF CreatePod
  <2>12. CASE DeletePodsAtEnd
    <3>1. UNCHANGED failures /\ UNCHANGED certs /\ pc = "createPod"
      BY <2>12 DEF DeletePodsAtEnd, DeleteCollection
    <3>2. QED
      BY <3>1
  <2>13. CASE PodCompleted
    BY <2>13 DEF PodCompleted
  <2>14. QED
    BY <1>1, <2>1, <2>2, <2>3, <2>4, <2>5, <2>6,
       <2>7, <2>8, <2>9, <2>10, <2>11, <2>12, <2>13 DEF OperatorStep
<1>2. CASE CallFails
  <2>1. failures' = failures + 1 /\ UNCHANGED certs
    BY <1>2 DEF CallFails
  <2>2. QED
    BY <2>1
<1>3. CASE Deadline
  BY <1>3 DEF Deadline
<1>4. CASE PodStep \/ \E p \in Slot : Interrupt(p)
  <2>1. failures' \in {failures, failures + 1}
    BY <1>4 DEF PodStep, RotateFile, MoveAside, MoveBack, RestartsDone, Interrupt
  <2>2. UNCHANGED <<certs, operator>>
    BY <1>4 DEF PodStep, RotateFile, MoveAside, MoveBack, RestartsDone, Interrupt
  <2>3. QED
    BY <2>1, <2>2
<1>5. CASE IntervalPasses
  BY <1>5 DEF IntervalPasses, Older
<1>6. CASE RotateKotsadmCerts
  BY <1>6 DEF RotateKotsadmCerts
<1>7. CASE Crash
  BY <1>7 DEF Crash
<1>8. CASE UNCHANGED vars
  BY <1>8 DEF vars
<1>9. QED
  BY <1>1, <1>2, <1>3, <1>4, <1>5, <1>6, <1>7, <1>8 DEF Next

\* A file's age as far as FileAges speaks of it.
Kept(h, f) ==
  /\ file[h][f] <= Limit
  /\ Rotated(h, f) \/ Running("left") => file[h][f] <= Limit - 1

\* A file is within its limits after a step that costs a failure.
LEMMA FailureCounts ==
  ASSUME TypeOK, AgeInv, NEW h \in Host, NEW f \in File, UNCHANGED file,
         failures' = failures + 1
  PROVE  Kept(h, f)'
<1>1. file[h][f] <= Limit /\ file[h][f] \in Nat /\ failures \in Nat
  BY DEF AgeInv, FileAges, TypeOK, Age
<1>2. file'[h][f] <= Limit' - 1 /\ file'[h][f] <= Limit'
  BY <1>1, ConstantsAssumption DEF Limit
<1>3. QED
  BY <1>2 DEF Kept

\* A file is within its limits after a step that brings the rotation no nearer to it, and
\* leaves no pod running.
LEMMA NothingRotated ==
  ASSUME AgeInv, NEW h \in Host, NEW f \in File, UNCHANGED <<file, failures>>,
         Rotated(h, f)' => Rotated(h, f), Running("left")' => Running("left")
  PROVE  Kept(h, f)'
BY DEF AgeInv, FileAges, Kept, Limit, Running

\* The pod being waited for has been through its files.
LEMMA PodSucceeds ==
  ASSUME TypeOK, AwaitsPrimary, NEW h \in Host, NEW f \in File, NEW p \in Slot, Running(p),
         podFile[p] = Len(Files) + 1, Completes(p, "succeeded"), UNCHANGED operator
  PROVE  Rotated(h, f)' => Rotated(h, f)
<1> USE DEF operator
<1>1. PICK k \in 1 .. Len(Files) : f = Files[k]
  BY DEF File
<1>2. CASE p = "now" /\ pc = "waitPod"
  <2>1. k \in 1 .. podFile["now"] - 1
    BY <1>2, ConstantsAssumption
  <2>2. podResult = "none"
    BY <1>2 DEF AwaitsPrimary, Running
  <2>3. podResult' = "succeeded" /\ podFile'["now"] = 1
    BY <1>2 DEF Completes, TypeOK
  <2>4. h = Primaries[hostAt] => Rotated(h, f)
    BY <1>1, <1>2, <2>1 DEF Rotated
  <2>5. QED
    BY <1>2, <2>3, <2>4 DEF Rotated
<1>3. CASE ~(p = "now" /\ pc = "waitPod")
  <2>1. podResult' = podResult /\ (pc = "waitPod" => podFile'["now"] = podFile["now"])
    BY <1>3 DEF Completes, TypeOK, Slot
  <2>2. QED
    BY <2>1 DEF Rotated
<1>4. QED
  BY <1>2, <1>3

\* A rotation of a file keeps the files within their limits.
LEMMA RotateFileKeeps ==
  ASSUME ExternalCA = {}, TypeOK, AwaitsPrimary, AgeInv, NEW p \in Slot, RotateFile(p),
         NEW h \in Host, NEW f \in File
  PROVE  Kept(h, f)'
<1> DEFINE g == Files[podFile[p]]
           on == podOn[p]
<1>1. /\ file \in [Host -> [File -> Age]] /\ failures \in Nat /\ hostAt \in Nat
      /\ file[h][f] <= Limit /\ (Rotated(h, f) \/ Running("left") => file[h][f] <= Limit - 1)
  BY DEF TypeOK, AgeInv, FileAges
<1>2. podFile[p] \in 1 .. Len(Files) /\ on \in Host /\ UNCHANGED operator /\ podOn[p] # None
  BY DEF RotateFile, TypeOK, Running
<1>3. g \in File
  BY <1>2 DEF File
<1>4. Limit \in Int /\ Life \in Nat /\ TTL \in Nat /\ Life - TTL >= 1
  BY <1>1, ConstantsAssumption DEF Limit
\* The rotation comes past this one file, and no further.
<1>5. ASSUME podFile' = [podFile EXCEPT ![p] = @ + 1], UNCHANGED <<podOn, podResult>>,
             ~(h = on /\ f = g)
      PROVE  /\ Rotated(h, f)' => Rotated(h, f)
             /\ Running("left")' => Running("left")
  <2>1. CASE p = "now"
    <3>1. podFile'["now"] = podFile["now"] + 1
      BY <1>5, <2>1 DEF TypeOK, Slot
    <3>2. pc = "waitPod" => podOn["now"] = Primaries[hostAt]
      BY <1>2, <2>1 DEF AwaitsPrimary
    <3>3. \A k \in 1 .. podFile'["now"] - 1 : k \in 1 .. podFile["now"] - 1 \/ k = podFile["now"]
      BY <1>2, <2>1, <3>1
    <3>4. pc = "waitPod" /\ h = Primaries[hostAt] =>
            \A k \in 1 .. podFile'["now"] - 1 : f = Files[k] => k \in 1 .. podFile["now"] - 1
      BY <1>5, <2>1, <3>2, <3>3
    <3>5. QED
      BY <1>2, <1>5, <3>4 DEF Rotated, operator, Running
  <2>2. CASE p # "now"
    <3>1. podFile'["now"] = podFile["now"]
      BY <1>5, <2>2 DEF TypeOK, Slot
    <3>2. QED
      BY <1>2, <1>5, <3>1 DEF Rotated, operator, Running
  <2>3. QED
    BY <2>1, <2>2
<1>6. \/ file' = [file EXCEPT ![on][g] = New] /\ Works
         /\ podFile' = [podFile EXCEPT ![p] = @ + 1] /\ UNCHANGED <<podOn, podResult>>
      \/ ~Due(file[on][g]) /\ UNCHANGED file /\ Works
         /\ podFile' = [podFile EXCEPT ![p] = @ + 1] /\ UNCHANGED <<podOn, podResult>>
      \/ UNCHANGED file /\ Fails
  BY DEF RotateFile
<1> HIDE DEF g, on
<1>7. CASE file' = [file EXCEPT ![on][g] = New] /\ Works
           /\ podFile' = [podFile EXCEPT ![p] = @ + 1] /\ UNCHANGED <<podOn, podResult>>
  <2>1. UNCHANGED failures
    BY <1>7 DEF Works, budget
  <2>2. CASE h = on /\ f = g
    <3>1. file'[h][f] = 0
      BY <1>1, <1>2, <1>3, <1>7, <2>2 DEF New
    <3>2. Limit' = Limit /\ 0 <= Limit - 1
      BY <1>1, <2>1, ConstantsAssumption DEF Limit
    <3>3. QED
      BY <1>4, <3>1, <3>2 DEF Kept
  <2>3. CASE ~(h = on /\ f = g)
    <3>1. file'[h][f] = file[h][f]
      BY <1>1, <1>2, <1>3, <1>7, <2>3
    <3>2. QED
      BY <1>1, <1>5, <1>7, <2>1, <2>3, <3>1 DEF Kept, Limit
  <2>4. QED
    BY <2>2, <2>3
<1>8. CASE ~Due(file[on][g]) /\ UNCHANGED file /\ Works
           /\ podFile' = [podFile EXCEPT ![p] = @ + 1] /\ UNCHANGED <<podOn, podResult>>
  <2>1. UNCHANGED failures
    BY <1>8 DEF Works, budget
  <2>2. CASE h = on /\ f = g
    <3>1. ~(Life - file[h][f] <= TTL) /\ file[h][f] \in Nat
      BY <1>1, <1>8, <2>2 DEF Due, Age
    <3>2. file[h][f] <= Limit - 1
      BY <1>1, <3>1, ConstantsAssumption DEF Limit
    <3>3. QED
      BY <1>1, <1>8, <2>1, <3>2 DEF Kept, Limit
  <2>3. CASE ~(h = on /\ f = g)
    BY <1>5, <1>8, <2>1, <2>3, NothingRotated
  <2>4. QED
    BY <2>2, <2>3
<1>9. CASE UNCHANGED file /\ Fails
  BY <1>9, FailureCounts DEF Fails
<1>10. QED
  BY <1>6, <1>7, <1>8, <1>9

\* A restart keeps the files within their limits: what is in the way of the first rename
\* is a pod that could not be deleted.
LEMMA MoveAsideKeeps ==
  ASSUME TypeOK, AwaitsPrimary, AgeInv, NEW p \in Slot, MoveAside(p),
         NEW h \in Host, NEW f \in File
  PROVE  Kept(h, f)'
<1>1. PICK c \in NextRestart(p) :
        \/ /\ podMoving' = [podMoving EXCEPT ![p] = {c}] /\ Works
           /\ UNCHANGED <<podOn, podFile, podRestart, podResult>>
        \/ c \in aside[podOn[p]] /\ Completes(p, "failed") /\ Works
        \/ Completes(p, "failed") /\ Fails
  BY DEF MoveAside
<1>2. UNCHANGED <<file, operator>> /\ podOn[p] \in Host /\ podMoving[p] = {} /\ podOn[p] # None
  BY DEF MoveAside, Running, TypeOK
<1>3. CASE UNCHANGED <<podOn, podFile, podResult>> /\ Works
  BY <1>2, <1>3, NothingRotated DEF Rotated, Running, operator, Works, budget
<1>4. CASE c \in aside[podOn[p]] /\ Completes(p, "failed") /\ Works
  <2>1. PICK q \in Slot : podOn[q] = podOn[p] /\ c \in podMoving[q]
    BY <1>2, <1>4 DEF AgeInv, MovingInv
  <2>2. q # p /\ podOn[q] # None
    BY <1>2, <2>1
  <2>3. CASE p = "left"
    <3>1. /\ podOn'["left"] = None /\ podFile'["now"] = podFile["now"]
          /\ podResult' = podResult
      BY <1>4, <2>3 DEF Completes, TypeOK, Slot
    <3>2. QED
      BY <1>2, <1>4, <3>1, NothingRotated DEF Rotated, Running, operator, Works, budget
  <2>4. CASE p = "now"
    <3>1. q = "left"
      BY <2>2, <2>4 DEF Slot
    <3>2. file[h][f] <= Limit - 1
      BY <2>2, <3>1 DEF AgeInv, FileAges, Running
    <3>3. file[h][f] \in Nat /\ Limit \in Int /\ Limit' = Limit
      BY <1>4, ConstantsAssumption DEF TypeOK, Age, Limit, Works, budget
    <3>4. QED
      BY <1>2, <3>2, <3>3 DEF Kept
  <2>5. QED
    BY <2>3, <2>4 DEF Slot
<1>5. CASE Fails
  BY <1>2, <1>5, FailureCounts DEF Fails
<1>6. QED
  BY <1>1, <1>3, <1>4, <1>5

\* A step keeps the files within their limits.
LEMMA FileAgesStep ==
  ASSUME ExternalCA = {}, MaxInterruptions = 0, TypeOK, AwaitsPrimary, AgeInv, [Next]_vars
  PROVE  FileAges'
<1> SUFFICES ASSUME NEW h \in Host, NEW f \in File PROVE Kept(h, f)'
  BY DEF FileAges, Kept
<1>a. /\ file \in [Host -> [File -> Age]] /\ failures \in Nat /\ hostAt \in Nat
      /\ pc \in OperatorLabel
  BY DEF TypeOK
<1> USE DEF Goto, Return, Works, Fails, budget, hosts, operator
\* The operator has not come to the hosts yet, and the pods stay.
<1>b. ASSUME pc' \in OperatorLabel \ {"idle", "createPod", "waitPod"},
             UNCHANGED <<file, failures, podOn>>
      PROVE  Kept(h, f)'
  BY <1>b, NothingRotated DEF Rotated, Running
<1>1. CASE OperatorStep
  <2>1. CASE Launch
    <3>1. CASE Fails
      BY <2>1, <3>1, FailureCounts DEF Launch
    <3>2. CASE pc' = "contour" /\ Works
      BY <1>b, <2>1, <3>2 DEF Launch, pod, OperatorLabel
    <3>3. QED
      BY <2>1, <3>1, <3>2 DEF Launch
  <2>2. CASE CheckRotateCertsDue
    <3>1. CASE Fails
      BY <2>2, <3>1, FailureCounts DEF CheckRotateCertsDue
    <3>2. CASE pc' = "contour" /\ Works
      BY <1>b, <2>2, <3>2 DEF CheckRotateCertsDue, pod, OperatorLabel
    <3>3. QED
      BY <2>2, <3>1, <3>2 DEF CheckRotateCertsDue
  <2>3. CASE \/ UpdateContourSecret \/ UpdateEnvoySecret \/ RestartEnvoy \/ RotateRegistryCert
             \/ RestartRegistry \/ RotateKurlProxyCert \/ UpdateKubeletClientCertSecret
    <3>1. pc' \in OperatorLabel \ {"idle", "createPod", "waitPod"}
      BY <2>3 DEF UpdateContourSecret, UpdateEnvoySecret, RestartEnvoy, RotateRegistryCert,
         RestartRegistry, RotateKurlProxyCert, UpdateKubeletClientCertSecret, OperatorLabel
    <3>2. UNCHANGED <<file, failures, podOn>>
      BY <2>3 DEF UpdateContourSecret, UpdateEnvoySecret, RestartEnvoy, RotateRegistryCert,
         RestartRegistry, RotateKurlProxyCert, UpdateKubeletClientCertSecret, pod
    <3>3. QED
      BY <1>b, <3>1, <3>2
  <2>4. CASE DeletePods
    <3>1. CASE Fails
      BY <2>4, <3>1, FailureCounts DEF DeletePods
    <3>2. CASE DeleteCollection
      <4>1. podOn'["left"] = None
        BY <3>2 DEF DeleteCollection, Slot
      <4>2. UNCHANGED <<file, failures>> /\ pc' = "createPod" /\ hostAt' = 1
        BY <2>4, <3>2 DEF DeletePods, DeleteCollection
      <4>3. QED
        BY <4>1, <4>2, NothingRotated DEF Rotated, Running
    <3>3. QED
      BY <2>4, <3>1, <3>2 DEF DeletePods
  <2>5. CASE CreatePod
    <3>1. /\ pc = "createPod" /\ pc' = "waitPod" /\ podResult' = podResult
          /\ podOn' = [podOn EXCEPT !["now"] = Primaries[hostAt]]
          /\ UNCHANGED <<hostAt, podFile, file, failures>>
      BY <2>5 DEF CreatePod
    <3>2. podResult = "none" /\ podFile["now"] = 1 /\ podOn'["left"] = podOn["left"]
      BY <3>1 DEF AwaitsPrimary, TypeOK, Slot
    <3>3. QED
      BY <1>a, <3>1, <3>2, NothingRotated DEF Rotated, Running
  <2>6. CASE DeletePodsAtEnd
    <3>1. podOn'["left"] = None /\ UNCHANGED <<file, failures>>
          /\ pc = "createPod" /\ hostAt > Len(Primaries)
      BY <2>6 DEF DeletePodsAtEnd, DeleteCollection, Slot
    <3>2. PICK k \in 1 .. Len(Primaries) : h = Primaries[k]
      BY DEF Host
    <3>3. k \in 1 .. hostAt - 1
      BY <1>a, <3>1, ConstantsAssumption
    <3>4. QED
      BY <3>1, <3>2, <3>3, NothingRotated DEF Rotated, Running
  <2>7. CASE PodCompleted
    <3>1. /\ pc = "waitPod" /\ podResult \in {"succeeded", "failed"} /\ podResult' = "none"
          /\ UNCHANGED <<file, failures, podOn, podFile>>
      BY <2>7 DEF PodCompleted, TypeOK
    <3>2. CASE podResult = "failed"
      BY <3>1, <3>2, NothingRotated DEF Rotated, Running
    <3>3. CASE podResult = "succeeded"
      <4>1. pc' = "createPod" /\ hostAt' = hostAt + 1
        BY <2>7, <3>3 DEF PodCompleted
      <4>2. ASSUME NEW m \in 1 .. hostAt' - 1, h = Primaries[m]
            PROVE  Rotated(h, f)
        <5>1. CASE m = hostAt
          BY <3>1, <3>3, <4>2, <5>1 DEF Rotated
        <5>2. CASE m # hostAt
          <6>1. m \in 1 .. hostAt - 1
            BY <1>a, <4>1, <5>2
          <6>2. QED
            BY <3>1, <4>2, <6>1 DEF Rotated
        <5>3. QED
          BY <5>1, <5>2
      <4>3. Rotated(h, f)' => Rotated(h, f)
        BY <4>1, <4>2 DEF Rotated
      <4>4. QED
        BY <3>1, <4>3, NothingRotated DEF Running
    <3>4. QED
      BY <3>1, <3>2, <3>3
  <2>8. QED
    BY <1>1, <2>1, <2>2, <2>3, <2>4, <2>5, <2>6, <2>7 DEF OperatorStep
<1>2. CASE CallFails
  BY <1>2, FailureCounts DEF CallFails
<1>3. CASE Deadline
  BY <1>3, FailureCounts DEF Deadline
<1>4. CASE PodStep
  <2>1. ASSUME NEW p \in Slot, MoveBack(p) PROVE Kept(h, f)'
    BY <2>1, NothingRotated DEF MoveBack, Rotated, Running
  <2>2. ASSUME NEW p \in Slot, RestartsDone(p) PROVE Kept(h, f)'
    <3>1. Rotated(h, f)' => Rotated(h, f)
      BY <2>2, PodSucceeds DEF RestartsDone
    <3>2. Running("left")' => Running("left")
      BY <2>2 DEF RestartsDone, Completes, Running, TypeOK, Slot
    <3>3. QED
      BY <2>2, <3>1, <3>2, NothingRotated DEF RestartsDone
  <2>3. QED
    BY <1>4, <2>1, <2>2, RotateFileKeeps, MoveAsideKeeps DEF PodStep
<1>5. CASE \E p \in Slot : Interrupt(p)
  BY <1>5 DEF Interrupt, TypeOK
<1>6. CASE IntervalPasses
  <2>1. /\ pc = "idle" /\ pc' = "idle" /\ attempted /\ attempted' = FALSE
        /\ UNCHANGED <<podOn, failures>> /\ podOn["left"] = None
    BY <1>6 DEF IntervalPasses, Running, pod, Slot
  <2>2. file'[h][f] = Older(file[h][f])
    BY <1>6 DEF IntervalPasses
  <2>3. file[h][f] <= Limit - 1 /\ file[h][f] \in Nat /\ Limit \in Int /\ Limit' = Limit
    BY <1>a, <2>1, ConstantsAssumption DEF AgeInv, FileAges, Rotated, Age, Limit
  <2>4. file'[h][f] <= Limit
    BY <2>2, <2>3, ConstantsAssumption DEF Older
  <2>5. QED
    BY <2>1, <2>3, <2>4 DEF Kept, Rotated, Running
<1>7. CASE RotateKotsadmCerts
  BY <1>7, NothingRotated DEF RotateKotsadmCerts, Rotated, Running, pod
<1>8. CASE Crash
  BY <1>8, <1>b DEF Crash, OperatorLabel
<1>9. CASE UNCHANGED vars
  BY <1>9, NothingRotated DEF vars, Rotated, Running, pod
<1>10. QED
  BY <1>1, <1>2, <1>3, <1>4, <1>5, <1>6, <1>7, <1>8, <1>9 DEF Next

\* A pod that ends, or cannot be deleted, leaves no manifest behind.
LEMMA MovingStep ==
  ASSUME MaxInterruptions = 0, TypeOK, AwaitsPrimary, AgeInv, [Next]_vars
  PROVE  MovingInv'
<1>a. MovingInv /\ interruptions \in Nat
  BY DEF AgeInv, TypeOK
<1>b. ASSUME UNCHANGED <<aside, podOn, podFile, podRestart, podMoving>> PROVE MovingInv'
  BY <1>a, <1>b DEF MovingInv
<1>c. ASSUME NEW p \in Slot, podMoving[p] = {}, UNCHANGED aside,
             \E result \in {"succeeded", "failed"} : Completes(p, result)
      PROVE  MovingInv'
  <2>1. /\ podOn' = [podOn EXCEPT ![p] = None] /\ podFile' = [podFile EXCEPT ![p] = 1]
        /\ podRestart' = [podRestart EXCEPT ![p] = {}] /\ podMoving' = [podMoving EXCEPT ![p] = {}]
    BY <1>c DEF Completes
  <2>2. \A q \in Slot : q # p => /\ podOn'[q] = podOn[q] /\ podFile'[q] = podFile[q]
                                 /\ podRestart'[q] = podRestart[q] /\ podMoving'[q] = podMoving[q]
    BY <2>1 DEF TypeOK
  <2>3. podMoving'[p] = {}
    BY <2>1 DEF TypeOK
  <2>4. QED
    BY <1>a, <1>c, <2>2, <2>3 DEF MovingInv
<1>d. ASSUME DeleteCollection, UNCHANGED aside PROVE MovingInv'
  <2>1. \A p \in Slot : podMoving[p] = {} /\ podMoving'[p] = {}
    BY <1>a, <1>d DEF DeleteCollection
  <2>2. QED
    BY <1>a, <1>d, <2>1 DEF MovingInv
<1>1. CASE OperatorStep
  <2>1. CASE DeletePods
    <3>1. UNCHANGED aside
      BY <2>1 DEF DeletePods, hosts
    <3>2. CASE DeleteCollection
      BY <1>d, <3>1, <3>2
    <3>3. CASE UNCHANGED pod
      BY <1>b, <3>1, <3>3 DEF pod
    <3>4. CASE LeaveRunning
      <4>1. /\ podOn'["left"] = podOn["now"] /\ podFile'["left"] = podFile["now"]
            /\ podRestart'["left"] = podRestart["now"] /\ podMoving'["left"] = podMoving["now"]
            /\ podOn'["now"] = None /\ podMoving'["now"] = {} /\ podOn["left"] = None
        BY <3>4 DEF LeaveRunning, Running, TypeOK, Slot
      <4>2. QED
        BY <1>a, <3>1, <4>1 DEF MovingInv, Slot
    <3>5. QED
      BY <2>1, <3>2, <3>3, <3>4 DEF DeletePods
  <2>2. CASE CreatePod
    <3>1. /\ podOn["now"] = None /\ podOn' = [podOn EXCEPT !["now"] = Primaries[hostAt]]
          /\ UNCHANGED <<aside, podFile, podRestart, podMoving>>
      BY <2>2 DEF CreatePod, AwaitsPrimary, hosts
    <3>2. podMoving["now"] = {} /\ \A p \in Slot : p # "now" => podOn'[p] = podOn[p]
      BY <1>a, <3>1 DEF MovingInv, TypeOK, Slot
    <3>3. QED
      BY <1>a, <3>1, <3>2 DEF MovingInv
  <2>3. CASE DeletePodsAtEnd
    BY <1>d, <2>3 DEF DeletePodsAtEnd, hosts
  <2>4. CASE PodCompleted
    BY <1>b, <2>4 DEF PodCompleted, hosts
  <2>5. CASE \/ Launch \/ CheckRotateCertsDue \/ UpdateContourSecret \/ UpdateEnvoySecret
             \/ RestartEnvoy \/ RotateRegistryCert \/ RestartRegistry \/ RotateKurlProxyCert
             \/ UpdateKubeletClientCertSecret
    BY <1>b, <2>5 DEF Launch, CheckRotateCertsDue, UpdateContourSecret, UpdateEnvoySecret,
       RestartEnvoy, RotateRegistryCert, RestartRegistry, RotateKurlProxyCert,
       UpdateKubeletClientCertSecret, hosts, pod
  <2>6. QED
    BY <1>1, <2>1, <2>2, <2>3, <2>4, <2>5 DEF OperatorStep
<1>2. CASE CallFails
  BY <1>b, <1>2 DEF CallFails, hosts, pod
<1>3. CASE Deadline
  BY <1>b, <1>3 DEF Deadline, hosts, pod
<1>4. CASE PodStep
  <2>1. ASSUME NEW p \in Slot, RotateFile(p) PROVE MovingInv'
    <3>1. /\ podMoving[p] = {} /\ UNCHANGED aside
      <4>1. podFile[p] <= Len(Files) /\ Len(Files) \in Nat /\ UNCHANGED aside
        BY <2>1, ConstantsAssumption DEF RotateFile
      <4>2. podFile[p] # Len(Files) + 1
        BY <4>1 DEF TypeOK
      <4>3. QED
        BY <1>a, <4>1, <4>2 DEF MovingInv
    <3>2. CASE \E result \in {"succeeded", "failed"} : Completes(p, result)
      BY <1>c, <3>1, <3>2
    <3>3. CASE ~\E result \in {"succeeded", "failed"} : Completes(p, result)
      <4>1. /\ UNCHANGED <<podOn, podMoving>> /\ podFile' = [podFile EXCEPT ![p] = @ + 1]
            /\ \A q \in Slot : q # p => podRestart'[q] = podRestart[q]
        BY <2>1, <3>3 DEF RotateFile, TypeOK
      <4>2. \A q \in Slot : q # p => podFile'[q] = podFile[q]
        BY <4>1 DEF TypeOK
      <4>3. QED
        BY <1>a, <3>1, <4>1, <4>2 DEF MovingInv
    <3>4. QED
      BY <3>2, <3>3
  <2>2. ASSUME NEW p \in Slot, MoveAside(p) PROVE MovingInv'
    <3>1. podMoving[p] = {} /\ podFile[p] = Len(Files) + 1 /\ podOn[p] # None
      BY <2>2 DEF MoveAside, Running
    <3>2. PICK c \in NextRestart(p) :
            \/ /\ aside' = [aside EXCEPT ![podOn[p]] = @ \cup {c}]
               /\ podMoving' = [podMoving EXCEPT ![p] = {c}]
               /\ UNCHANGED <<podOn, podFile, podRestart>>
            \/ UNCHANGED aside /\ Completes(p, "failed")
      BY <2>2 DEF MoveAside
    <3>3. CASE Completes(p, "failed") /\ UNCHANGED aside
      BY <1>c, <3>1, <3>3
    <3>4. CASE /\ aside' = [aside EXCEPT ![podOn[p]] = @ \cup {c}]
               /\ podMoving' = [podMoving EXCEPT ![p] = {c}]
               /\ UNCHANGED <<podOn, podFile, podRestart>>
      <4>1. c \in podRestart[p]
        BY DEF NextRestart
      <4>2. podMoving'[p] = {c} /\ \A q \in Slot : q # p => podMoving'[q] = podMoving[q]
        BY <3>4 DEF TypeOK
      <4>3. \A h \in Host : \A d \in aside'[h] : d \in aside[h] \/ (h = podOn[p] /\ d = c)
        BY <3>4 DEF TypeOK
      <4>4. QED
        BY <1>a, <3>1, <3>4, <4>1, <4>2, <4>3 DEF MovingInv
    <3>5. QED
      BY <3>2, <3>3, <3>4
  <2>3. ASSUME NEW p \in Slot, MoveBack(p) PROVE MovingInv'
    <3>1. PICK c \in podMoving[p] :
            /\ aside' = [aside EXCEPT ![podOn[p]] = @ \ {c}]
            /\ podRestart' = [podRestart EXCEPT ![p] = @ \ {c}]
            /\ podMoving' = [podMoving EXCEPT ![p] = {}]
            /\ UNCHANGED <<podOn, podFile>>
      BY <2>3 DEF MoveBack
    <3>2. podMoving[p] = {c}
      BY <1>a, <3>1 DEF MovingInv
    <3>3. /\ podMoving'[p] = {}
          /\ \A q \in Slot : q # p => podMoving'[q] = podMoving[q] /\ podRestart'[q] = podRestart[q]
      BY <3>1 DEF TypeOK
    <3>4. \A h \in Host : \A d \in aside'[h] : d \in aside[h] /\ (h = podOn[p] => d # c)
      BY <3>1 DEF TypeOK
    <3>5. ASSUME NEW h \in Host, NEW d \in aside'[h]
          PROVE  \E q \in Slot : podOn'[q] = h /\ d \in podMoving'[q]
      <4>1. PICK q \in Slot : podOn[q] = h /\ d \in podMoving[q]
        BY <1>a, <3>4, <3>5 DEF MovingInv
      <4>2. q # p
        BY <3>2, <3>4, <3>5, <4>1
      <4>3. QED
        BY <3>1, <3>3, <4>1, <4>2
    <3>6. QED
      BY <1>a, <3>1, <3>3, <3>5 DEF MovingInv
  <2>4. ASSUME NEW p \in Slot, RestartsDone(p) PROVE MovingInv'
    <3>1. podMoving[p] = {} /\ UNCHANGED aside
      BY <1>a, <2>4 DEF RestartsDone, MovingInv, hosts
    <3>2. QED
      BY <1>c, <2>4, <3>1 DEF RestartsDone
  <2>5. QED
    BY <1>4, <2>1, <2>2, <2>3, <2>4 DEF PodStep
<1>5. CASE \E p \in Slot : Interrupt(p)
  BY <1>a, <1>5 DEF Interrupt
<1>6. CASE IntervalPasses
  BY <1>b, <1>6 DEF IntervalPasses, pod
<1>7. CASE RotateKotsadmCerts
  BY <1>b, <1>7 DEF RotateKotsadmCerts, hosts, pod
<1>8. CASE Crash
  BY <1>b, <1>8 DEF Crash, hosts
<1>9. CASE UNCHANGED vars
  BY <1>b, <1>9 DEF vars, hosts, pod
<1>10. QED
  BY <1>1, <1>2, <1>3, <1>4, <1>5, <1>6, <1>7, <1>8, <1>9 DEF Next

\* Each failure is counted.
LEMMA FailuresStep ==
  ASSUME TypeOK, failures <= MaxFailures, [Next]_vars
  PROVE  (failures <= MaxFailures)'
<1>1. failures' = failures \/ (failures < MaxFailures /\ failures' = failures + 1)
  BY DEF Next, OperatorStep, PodStep, Launch, CheckRotateCertsDue, UpdateContourSecret,
     UpdateEnvoySecret, RestartEnvoy, RotateRegistryCert, RestartRegistry,
     RotateKurlProxyCert, UpdateKubeletClientCertSecret, DeletePods, CreatePod,
     DeletePodsAtEnd, PodCompleted, CallFails, Deadline, RotateFile, MoveAside, MoveBack,
     RestartsDone, Interrupt, IntervalPasses, RotateKotsadmCerts, Crash, DeleteCollection,
     Works, Fails, budget, vars
<1>2. QED
  BY <1>1, ConstantsAssumption DEF TypeOK

\* AgeInv holds in every run in which ekco can sign each certificate itself, and no pod ends
\* between the two renames of a restart.
LEMMA AgeInvariant == ExternalCA = {} /\ MaxInterruptions = 0 /\ Spec => []AgeInv
<1> SUFFICES ASSUME ExternalCA = {}, MaxInterruptions = 0 PROVE Spec => []AgeInv
  OBVIOUS
<1>1. Init => AgeInv
  <2> SUFFICES ASSUME Init PROVE AgeInv
    OBVIOUS
  <2>1. PICK age \in {0, Life - TTL - 1} :
          /\ secret = [s \in Secret |-> age]
          /\ \E later \in {0, age} :
               file = [h \in Host |-> [f \in File |-> IF h = Primaries[1] THEN age ELSE later]]
    BY DEF Init
  <2>2. age \in Nat /\ age <= Life - TTL - 1 /\ 0 <= Life - TTL - 1
        /\ Life - TTL \in Nat /\ Limit = Life - TTL
    BY <2>1, ConstantsAssumption DEF Limit, Init
  <2>3. SecretAges
    BY <2>1, <2>2 DEF SecretAges, Delay
  <2>4. \A h \in Host, f \in File : file[h][f] \in {0, age}
    BY <2>1
  <2>5. FileAges
    BY <2>2, <2>4 DEF FileAges
  <2>6. MovingInv /\ failures <= MaxFailures
    BY ConstantsAssumption DEF Init, MovingInv
  <2>7. QED
    BY <2>3, <2>5, <2>6 DEF AgeInv
<1>2. (TypeOK /\ AwaitsPrimary) /\ AgeInv /\ [Next]_vars => AgeInv'
  <2> SUFFICES ASSUME TypeOK, AwaitsPrimary, AgeInv, [Next]_vars PROVE AgeInv'
    OBVIOUS
  <2>1. SecretAges'
    BY SecretAgesStep
  <2>2. FileAges'
    BY FileAgesStep
  <2>3. MovingInv'
    BY MovingStep
  <2>4. (failures <= MaxFailures)'
    BY FailuresStep DEF AgeInv
  <2>5. QED
    BY <2>1, <2>2, <2>3, <2>4 DEF AgeInv
<1>3. QED
  BY <1>1, <1>2, Typing, PTL DEF Spec

\* NoCertExpires for any hosts, files, validity and time to live, as long as ekco can
\* sign every certificate, no pod ends between the two renames of a restart, and the
\* failures are fewer than the intervals that a due certificate has left, less the one
\* that kotsadm's copy lags behind.  No restart of the operator, at whatever step, adds to
\* them, nor does a pod that runs on beside the next one because it could not be deleted.
THEOREM CertsRenewed ==
  ExternalCA = {} /\ MaxInterruptions = 0 /\ MaxFailures + 1 < TTL /\ Spec => []NoCertExpires
<1> SUFFICES ASSUME ExternalCA = {}, MaxInterruptions = 0, MaxFailures + 1 < TTL
             PROVE  Spec => []NoCertExpires
  OBVIOUS
<1>1. TypeOK /\ AgeInv => NoCertExpires
  <2> SUFFICES ASSUME TypeOK, AgeInv PROVE NoCertExpires
    OBVIOUS
  <2>1. Limit + 1 < Life /\ Limit \in Int /\ Life \in Nat
    BY ConstantsAssumption DEF AgeInv, TypeOK, Limit
  <2>2. /\ \A s \in Secret : secret[s] \in Nat
        /\ \A h \in Host, f \in File : file[h][f] \in Nat
    BY <2>1 DEF TypeOK, Age
  <2>3. \A s \in Secret : (s = "proxy" /\ custom) \/ secret[s] < Life
    BY <2>1, <2>2 DEF AgeInv, SecretAges, Delay
  <2>4. \A h \in Host, f \in File : file[h][f] < Life
    BY <2>1, <2>2 DEF AgeInv, FileAges
  <2>5. QED
    BY <2>3, <2>4 DEF NoCertExpires
<1>2. QED
  BY <1>1, AgeInvariant, TypeCorrect, PTL
=============================================================================
