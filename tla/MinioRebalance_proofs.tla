------------------------- MODULE MinioRebalance_proofs -------------------------
(***************************************************************************)
(* Proofs about MinioRebalance, for any servers, nodes, quorums and bounds *)
(* on outages and failures.                                                *)
(***************************************************************************)
EXTENDS MinioRebalance, FiniteSetTheorems, WellFoundedInduction, TLAPS

(* The choices of the scheduler and of the rebalancing.                     *)

\* The least of some numbers is one of them.
LEMMA MinIsMember ==
  ASSUME NEW S \in SUBSET Nat, IsFiniteSet(S), S # {}
  PROVE  Min(S) \in S /\ \A y \in S : Min(S) <= y
<1> DEFINE Below(x) == {y \in S : y <= x}
<1> DEFINE T == {Below(x) : x \in S}
<1>1. IsWellFoundedOn(StrictSubsetOrdering(S), FiniteSubsetsOf(S))
  BY FS_StrictSubsetOrderingWellFounded
<1>2. FiniteSubsetsOf(S) = SUBSET S
  BY FS_FiniteSubsetsOfFinite
<1>3. T \subseteq FiniteSubsetsOf(S) /\ T # {}
  <2>1. \A x \in S : Below(x) \in SUBSET S
    OBVIOUS
  <2>2. PICK x \in S : TRUE
    OBVIOUS
  <2>3. Below(x) \in T
    OBVIOUS
  <2>4. QED
    <3> HIDE DEF Below
    <3>1. QED
      BY <1>2, <2>1, <2>3
<1>4. \E b \in T : \A c \in T : ~(<<c, b>> \in StrictSubsetOrdering(S))
  <2> HIDE DEF T
  <2>1. QED
    BY <1>1, <1>3, WFMin
<1>5. PICK x \in S : \A y \in S : ~(<<Below(y), Below(x)>> \in StrictSubsetOrdering(S))
  BY <1>4
<1>6. ASSUME NEW y \in S, ~(x <= y)
      PROVE  FALSE
  <2>1. S \subseteq Nat /\ x \in Nat /\ y \in Nat
    OBVIOUS
  <2>2. x <= x /\ y < x
    BY <1>6, <2>1
  <2>3. \A z \in S : z <= y => z <= x
    <3>1. TAKE z \in S
    <3>2. z \in Nat
      OBVIOUS
    <3>3. QED
      BY <2>1, <2>2, <3>2
  <2>4. Below(y) \subseteq Below(x)
    BY <2>3
  <2>5. x \in Below(x) /\ x \notin Below(y)
    BY <1>6, <2>2
  <2>6. <<Below(y), Below(x)>> \in StrictSubsetOrdering(S)
    BY <2>4, <2>5 DEF StrictSubsetOrdering
  <2>7. QED
    BY <1>5, <2>6
<1>7. QED
  BY <1>6 DEF Min

\* A server is taken from those that a host has, in the order of the list.
LEMMA FirstOf ==
  ASSUME NEW S \in SUBSET Pod, S # {}
  PROVE  Min(S) \in S
<1>1. IsFiniteSet(S) /\ S \in SUBSET Nat
  BY FS_Subset, ConstantsAssumption
<1>2. QED
  BY <1>1, MinIsMember

\* Where a node is ready, the scheduler finds one with the fewest servers.
LEMMA TargetReady == Ready # {} => Target \in Ready
<1> SUFFICES ASSUME Ready # {} PROVE Target \in Ready
  OBVIOUS
<1> DEFINE Loads == {Load(n) : n \in Ready}
<1> DEFINE Least == {n \in Ready : \A m \in Ready : Load(n) <= Load(m)}
<1>1. \A n : Load(n) \in 0 .. Cardinality(Pod)
  <2>1. TAKE n
  <2>2. {p \in Pod : volume[p] = n} \in SUBSET Pod
    OBVIOUS
  <2>3. /\ IsFiniteSet({p \in Pod : volume[p] = n})
        /\ Cardinality({p \in Pod : volume[p] = n}) <= Cardinality(Pod)
    BY <2>2, FS_Subset, ConstantsAssumption
  <2>4. Cardinality({p \in Pod : volume[p] = n}) \in Nat /\ Cardinality(Pod) \in Nat
    BY <2>3, FS_CardinalityType, ConstantsAssumption
  <2>5. QED
    BY <2>3, <2>4 DEF Load
<1>2. Cardinality(Pod) \in Nat
  BY FS_CardinalityType, ConstantsAssumption
<1>3. Loads \subseteq 0 .. Cardinality(Pod)
  <2> HIDE DEF Load
  <2> QED
    BY <1>1
<1>4. IsFiniteSet(Loads)
  <2>1. 0 \in Int /\ Cardinality(Pod) \in Int
    BY <1>2
  <2>2. IsFiniteSet(0 .. Cardinality(Pod))
    BY <2>1, FS_Interval
  <2> HIDE DEF Loads
  <2>3. Loads \in SUBSET (0 .. Cardinality(Pod))
    BY <1>3
  <2>4. QED
    BY <2>2, <2>3, FS_Subset
<1>5. Loads \in SUBSET Nat /\ Loads # {}
  <2>1. \A i \in 0 .. Cardinality(Pod) : i \in Nat
    BY <1>2
  <2>2. Loads # {}
    OBVIOUS
  <2> HIDE DEF Loads
  <2>3. QED
    BY <1>3, <2>1, <2>2
<1>6. Min(Loads) \in Loads /\ \A l \in Loads : Min(Loads) <= l
  <2> HIDE DEF Loads
  <2> QED
    BY <1>4, <1>5, MinIsMember
<1>7. PICK n \in Ready : Load(n) = Min(Loads)
  BY <1>6
<1>8. \A m \in Ready : Load(n) <= Load(m)
  <2>1. TAKE m \in Ready
  <2>2. Load(m) \in Loads
    OBVIOUS
  <2>3. QED
    BY <1>6, <1>7, <2>2
<1>9. n \in Least
  BY <1>8
<1>10. Least \in SUBSET Nat /\ IsFiniteSet(Least)
  <2>1. Least \in SUBSET Node
    BY DEF Ready
  <2>2. IsFiniteSet(Node) /\ Node \subseteq Nat
    BY ConstantsAssumption
  <2> HIDE DEF Least
  <2>3. QED
    BY <2>1, <2>2, FS_Subset
<1>11. Min(Least) \in Least
  <2> HIDE DEF Least
  <2> QED
    BY <1>9, <1>10, MinIsMember
<1>12. QED
  BY <1>11 DEF Target

\* The three loops take a server of the list, and one that MinIO lets go.
LEMMA VictimsSafe ==
  ASSUME NEW max, NEW min, NEW p \in Victims(max, min)
  PROVE  p \in Pod /\ Safe(p)
<1>1. /\ Crowded(max) \subseteq NodeMinioPods
      /\ AtMax(max, min) \subseteq NodeMinioPods
      /\ Duplicates \subseteq NodeMinioPods
  BY DEF Crowded, AtMax, Duplicates
<1>2. ASSUME NEW hs \in SUBSET NodeMinioPods, p \in SafeOf(hs)
      PROVE  p \in Pod /\ Safe(p)
  <2>1. PICK h \in hs : p = Min(On(h))
    BY <1>2 DEF SafeOf
  <2>2. On(h) \in SUBSET Pod /\ On(h) # {}
    BY <2>1 DEF On, NodeMinioPods
  <2>3. p \in On(h)
    BY <2>1, <2>2, FirstOf
  <2>4. Safe(p)
    BY <1>2 DEF SafeOf
  <2>5. QED
    BY <2>2, <2>3, <2>4
<1>3. QED
  BY <1>1, <1>2 DEF Victims

(* Type correctness.                                                        *)

NodesType == node \in [Node -> {"ready", "unready", "lost", "purged"}]

PodsType ==
  /\ phase \in [Pod -> Phase] /\ volume \in [Pod -> Node \cup {None}]
  /\ \A p \in Pod : phase[p] = "running" => volume[p] # None
  /\ full \subseteq Pod /\ deleted \subseteq {p \in Pod : phase[p] = "running"}

OperatorType ==
  /\ pc \in {"idle", "health", "list", "choose", "claim", "pod"}
  /\ seen \in [Pod -> Node \cup {None}] /\ victim \in Pod \cup {None}
  /\ pc \in {"claim", "pod"} <=> victim # None

CounterType == losses \in Nat /\ outages \in Nat /\ failures \in Nat

\* The parts of the type invariant, one for each actor.
LEMMA TypeParts == TypeOK <=> NodesType /\ PodsType /\ OperatorType /\ CounterType
  BY DEF TypeOK, NodesType, PodsType, OperatorType, CounterType

\* Ending a rebalancing, wherever it is.
LEMMA DoneType == Done => OperatorType'
  BY DEF Done, OperatorType, NoHosts

\* Going on with the same locals.
LEMMA GotoType ==
  ASSUME OperatorType, NEW s \in {"health", "list"}, victim = None, Goto(s)
  PROVE  OperatorType'
  BY DEF Goto, OperatorType, locals

\* The counters of a call that works or fails.
LEMMA CountsType ==
  ASSUME CounterType, Works \/ Fails, UNCHANGED faults
  PROVE  CounterType'
  BY DEF CounterType, Works, Fails, faults

\* Deleting the claim of the victim, whether its pod runs or not.
LEMMA ClaimGoesType ==
  ASSUME PodsType, victim \in Pod, ClaimGoes, UNCHANGED phase
  PROVE  PodsType'
<1>1. CASE phase[victim] = "running"
  BY <1>1 DEF ClaimGoes, PodsType
<1>2. CASE phase[victim] # "running"
  BY <1>2 DEF ClaimGoes, PodsType
<1>3. QED
  BY <1>1, <1>2

\* Deleting a pod, whether its claim is deleted or not.
LEMMA ReplaceType ==
  ASSUME PodsType, NEW p \in Pod, Replace(p)
  PROVE  PodsType'
<1>1. CASE p \in deleted
  BY <1>1 DEF Replace, PodsType, Phase
<1>2. CASE p \notin deleted
  BY <1>2 DEF Replace, PodsType, Phase
<1>3. QED
  BY <1>1, <1>2

\* Type correctness of the nodes, the servers, their volumes and the rebalancing.
THEOREM TypeCorrect == Spec => []TypeOK
<1>1. Init => TypeOK
  <2> SUFFICES ASSUME Init PROVE TypeOK
    OBVIOUS
  <2>1. NodesType
    BY DEF Init, NodesType
  <2>2. PodsType
    BY DEF Init, PodsType, NoHosts, Phase
  <2>4. OperatorType
    BY DEF Init, OperatorType, NoHosts
  <2>5. CounterType
    BY DEF Init, CounterType
  <2>6. QED
    BY <2>1, <2>2, <2>4, <2>5, TypeParts
<1>2. TypeOK /\ [Next]_vars => TypeOK'
  <2> SUFFICES ASSUME TypeOK, [Next]_vars PROVE NodesType' /\ PodsType' /\ OperatorType' /\ CounterType'
    BY TypeParts, Zenon DEF TypeOK, NodesType, PodsType, OperatorType, CounterType
  <2> DEFINE Goal == NodesType' /\ PodsType' /\ OperatorType' /\ CounterType'
  <2>0. NodesType /\ PodsType /\ OperatorType /\ CounterType
    BY TypeParts
  <2>01. UNCHANGED node => NodesType'
    BY <2>0 DEF NodesType
  <2>02. UNCHANGED pods => PodsType'
    BY <2>0 DEF PodsType, pods
  <2>03. UNCHANGED <<pc, locals>> => OperatorType'
    BY <2>0 DEF OperatorType, locals
  <2>04. victim = None <=> pc \notin {"claim", "pod"}
    BY <2>0 DEF OperatorType
  <2>05. victim \in Pod \cup {None}
    BY <2>0 DEF OperatorType
  <2>1. CASE ReconcileMinio
    <3>1. CounterType'
      BY <2>0, <2>05, <2>1, CountsType DEF ReconcileMinio
    <3>2. OperatorType'
      BY <2>0, <2>03, <2>04, <2>1, GotoType DEF ReconcileMinio
    <3>3. PodsType'
      <4>1. phase' = phase \/ (~Scaled /\ phase' = [p \in Pod |-> "pending"])
        BY <2>1 DEF ReconcileMinio
      <4>2. UNCHANGED <<volume, full, deleted>>
        BY <2>1 DEF ReconcileMinio
      <4>3. QED
        BY <2>0, <4>1, <4>2 DEF PodsType, Phase, Scaled
    <3>4. QED
      BY <2>01, <2>1, <3>1, <3>2, <3>3 DEF ReconcileMinio
  <2>2. CASE CheckHealth
    <3>1. CounterType'
      BY <2>0, <2>05, <2>2, CountsType DEF CheckHealth
    <3>2. OperatorType'
      BY <2>0, <2>04, <2>2, GotoType, DoneType DEF CheckHealth
    <3>3. QED
      BY <2>01, <2>02, <2>2, <3>1, <3>2 DEF CheckHealth
  <2>3. CASE ListPods
    <3> DEFINE stuck == {p \in Pod : phase[p] = "stuck"}
    <3>1. CounterType'
      BY <2>0, <2>05, <2>3, CountsType DEF ListPods
    <3>2. ASSUME stuck # {}, pc' = "claim", victim' = Min(stuck), UNCHANGED seen
          PROVE  OperatorType'
      <4>1. victim' \in Pod
        BY <3>2, FirstOf
      <4>2. seen' \in [Pod -> Node \cup {None}]
        BY <2>0, <3>2, Zenon DEF OperatorType
      <4>3. victim' # None
        BY <4>1, ConstantsAssumption
      <4>4. QED
        BY <3>2, <4>1, <4>2, <4>3 DEF OperatorType
    <3>3. ASSUME pc' = "choose", UNCHANGED victim,
                 seen' = [p \in Pod |-> IF phase[p] = "running" THEN volume[p] ELSE None]
          PROVE  OperatorType'
      <4>1. pc = "list"
        BY <2>3 DEF ListPods
      <4>2. seen' \in [Pod -> Node \cup {None}]
        BY <2>0, <3>3 DEF PodsType
      <4>3. victim' \in Pod \cup {None}
        BY <2>0, <3>3, Zenon DEF OperatorType
      <4>4. victim' = None
        BY <2>04, <3>3, <4>1
      <4>5. QED
        BY <3>3, <4>2, <4>3, <4>4 DEF OperatorType
    <3>4. OperatorType'
      BY <2>3, <3>2, <3>3, DoneType DEF ListPods
    <3>5. QED
      BY <2>01, <2>02, <2>3, <3>1, <3>4 DEF ListPods
  <2>4. CASE ChoosePod
    <3>1. CounterType'
      BY <2>0, <2>05, <2>4, CountsType DEF ChoosePod
    <3>2. ASSUME NEW b \in Bounds, NEW p \in Victims(b[1], b[2]),
                 pc' = "claim", victim' = p, seen' = NoHosts
          PROVE  OperatorType'
      <4>1. p \in Pod
        BY VictimsSafe
      <4>2. QED
        BY <3>2, <4>1, ConstantsAssumption DEF OperatorType, NoHosts
    <3>3. OperatorType'
      BY <2>4, <3>2, DoneType DEF ChoosePod
    <3>4. QED
      BY <2>01, <2>02, <2>4, <3>1, <3>3 DEF ChoosePod
  <2>5. CASE DeletePVC
    <3>1. victim \in Pod /\ victim # None /\ pc = "claim"
      BY <2>04, <2>05, <2>5 DEF DeletePVC
    <3>2. PodsType'
      BY <2>0, <2>02, <2>5, <3>1, ClaimGoesType DEF DeletePVC, pods
    <3>3. CounterType'
      BY <2>0, <2>05, <2>5, <3>1, CountsType DEF DeletePVC
    <3>4. Goto("pod") => OperatorType'
      BY <2>0, <3>1 DEF Goto, OperatorType, locals
    <3>5. OperatorType'
      BY <2>5, <3>4, DoneType DEF DeletePVC
    <3>6. QED
      BY <2>01, <2>5, <3>2, <3>3, <3>5 DEF DeletePVC
  <2>6. CASE DeletePod
    <3>1. victim \in Pod
      BY <2>04, <2>05, <2>6 DEF DeletePod
    <3>2. PodsType'
      BY <2>0, <2>02, <2>6, <3>1, ReplaceType DEF DeletePod
    <3>3. CounterType'
      BY <2>0, <2>05, <2>6, <3>1, CountsType DEF DeletePod
    <3>4. QED
      BY <2>01, <2>6, <3>2, <3>3, DoneType DEF DeletePod
  <2>7. CASE Restart
    <3>1. CounterType'
      BY <2>0, <2>7, CountsType DEF Restart
    <3>2. QED
      BY <2>01, <2>02, <2>7, <3>1, DoneType DEF Restart
  <2>8. ASSUME NEW p \in Pod, PodStep(p) PROVE Goal
    <3>1. UNCHANGED <<node, deleted, pc, locals, faults, failures>>
      BY <2>8 DEF PodStep, Schedule, Unschedulable, Heal
    <3>2. CounterType'
      BY <2>0, <3>1 DEF CounterType, faults
    <3>3. ASSUME Schedule(p) PROVE PodsType'
      <4>1. /\ phase' = [phase EXCEPT ![p] = "running"] /\ UNCHANGED full
            /\ \/ volume[p] \in Ready /\ UNCHANGED volume
               \/ Ready # {} /\ volume' = [volume EXCEPT ![p] = Target]
        BY <3>3 DEF Schedule, PodStatus
      <4>2. Ready \subseteq Node /\ None \notin Ready
        BY ConstantsAssumption DEF Ready
      <4>3. volume' \in [Pod -> Node \cup {None}] /\ volume'[p] # None
            /\ \A q \in Pod : q # p => volume'[q] = volume[q]
        BY <2>0, <4>1, <4>2, TargetReady DEF PodsType
      <4>4. phase' \in [Pod -> Phase] /\ phase'[p] = "running"
            /\ \A q \in Pod : q # p => phase'[q] = phase[q]
        BY <2>0, <4>1 DEF PodsType, Phase
      <4>5. full' = full /\ deleted' = deleted
        BY <3>1, <4>1
      <4>6. QED
        BY <2>0, <4>3, <4>4, <4>5 DEF PodsType
    <3>4. ASSUME Unschedulable(p) PROVE PodsType'
      <4>1. /\ phase[p] = "pending" /\ phase' = [phase EXCEPT ![p] = "stuck"]
            /\ volume' = volume /\ full' = full /\ deleted' = deleted
        BY <3>4 DEF Unschedulable, PodStatus
      <4>2. QED
        BY <2>0, <4>1 DEF PodsType, Phase
    <3>5. ASSUME Heal(p) PROVE PodsType'
      <4>1. phase' = phase /\ volume' = volume /\ full' = full \cup {p} /\ deleted' = deleted
        BY <3>5 DEF Heal
      <4>2. QED
        BY <2>0, <4>1 DEF PodsType
    <3>6. QED
      BY <2>01, <2>03, <2>8, <3>1, <3>2, <3>3, <3>4, <3>5 DEF PodStep
  <2>9. ASSUME NEW p \in Pod, PodReplaced(p) PROVE Goal
    BY <2>0, <2>01, <2>03, <2>9, ReplaceType DEF PodReplaced, CounterType, faults
  <2>10. ASSUME NEW n \in Node, NodeReady(n) PROVE Goal
    BY <2>0, <2>02, <2>03, <2>10 DEF NodeReady, NodeIs, NodesType, CounterType, faults
  <2>11. ASSUME NEW n \in Node, Evict(n) PROVE Goal
    BY <2>0, <2>01, <2>03, <2>11, ReplaceType DEF Evict, CounterType, faults
  <2>12. ASSUME NEW n \in Node, Purge(n) PROVE Goal
    <3>1. NodesType'
      BY <2>0, <2>12 DEF Purge, NodeIs, NodesType
    <3>2. PodsType'
      BY <2>0, <2>12 DEF Purge, PodsType
    <3>3. QED
      BY <2>0, <2>03, <2>12, <3>1, <3>2 DEF Purge, CounterType, faults
  <2>13. ASSUME NEW set, NodesUnready(set) PROVE Goal
    BY <2>0, <2>02, <2>03, <2>13 DEF NodesUnready, NodesType, CounterType
  <2>14. ASSUME NEW n \in Node, NodeLost(n) PROVE Goal
    BY <2>0, <2>02, <2>03, <2>14 DEF NodeLost, NodeIs, NodesType, CounterType
  <2>15. CASE UNCHANGED vars
    BY <2>0, <2>01, <2>02, <2>03, <2>15 DEF vars, CounterType, faults
  <2>16. QED
    <3> HIDE DEF Goal
    <3>1. Goal
      BY <2>1, <2>2, <2>3, <2>4, <2>5, <2>6, <2>7, <2>8, <2>9, <2>10, <2>11, <2>12, <2>13, <2>14, <2>15
         DEF Next, OperatorStep, Goal
    <3>2. QED
      BY <3>1 DEF Goal
<1>3. QED
  BY <1>1, <1>2, PTL DEF Spec

(* The write quorum.                                                        *)

\* No node is lost or purged, so that no pod is evicted and no volume goes with its node.
NoneLost == \A n \in Node : node[n] \in {"ready", "unready"}

\* The claims deleted without their pod: each was left by a call that failed, or by a restart.
LeftDeleted == deleted \ {victim}

\* Before the first rebalancing every volume is whole.
Untouched == full = Pod /\ deleted = {} /\ pc \in {"idle", "health"}

\* Servers that run on whole volumes which neither the rebalancing under way nor a deleted
\* claim can take.
Kept(W) ==
  /\ \A p \in W : phase[p] = "running"
  /\ W \subseteq full \ deleted /\ victim \notin W
  /\ Cardinality(W) >= WriteQuorum - failures

QuorumInv ==
  losses = 0 =>
    /\ NoneLost /\ Cardinality(LeftDeleted) <= failures
    /\ Untouched \/ \E W \in SUBSET Pod : Kept(W)

\* The sizes of sets of servers.
LEMMA PodSets ==
  ASSUME NEW S \in SUBSET Pod
  PROVE  /\ IsFiniteSet(S) /\ Cardinality(S) \in Nat
         /\ \A T \in SUBSET S : Cardinality(T) <= Cardinality(S)
         /\ \A p : Cardinality(S) <= Cardinality(S \ {p}) + 1
<1>1. IsFiniteSet(S)
  BY FS_Subset, ConstantsAssumption
<1>2. Cardinality(S) \in Nat
  BY <1>1, FS_CardinalityType
<1>3. \A T \in SUBSET S : Cardinality(T) <= Cardinality(S)
  BY <1>1, FS_Subset
<1>4. ASSUME NEW p PROVE Cardinality(S) <= Cardinality(S \ {p}) + 1
  <2>1. CASE p \in S
    <3>1. Cardinality(S \ {p}) = Cardinality(S) - 1
      BY <1>1, <2>1, FS_RemoveElement
    <3>2. QED
      BY <1>2, <3>1
  <2>2. CASE p \notin S
    <3>1. S \ {p} = S
      BY <2>2
    <3>2. QED
      BY <1>2, <3>1
  <2>3. QED
    BY <2>1, <2>2
<1>5. QED
  BY <1>1, <1>2, <1>3, <1>4

\* A set without the members of another.
LEMMA Without ==
  ASSUME NEW S \in SUBSET Pod, NEW T \in SUBSET Pod
  PROVE  Cardinality(S \ T) >= Cardinality(S) - Cardinality(T)
<1>1. IsFiniteSet(S) /\ IsFiniteSet(T) /\ Cardinality(S) \in Nat /\ Cardinality(T) \in Nat
  BY PodSets
<1>2. /\ IsFiniteSet(S \ T)
      /\ Cardinality(S \ T) = Cardinality(S) - Cardinality(S \cap T)
  BY <1>1, FS_Difference
<1>3. Cardinality(S \cap T) <= Cardinality(T) /\ Cardinality(S \cap T) \in Nat
  <2>1. S \cap T \in SUBSET T /\ S \cap T \in SUBSET Pod
    OBVIOUS
  <2>2. QED
    BY <2>1, PodSets
<1>4. QED
  BY <1>1, <1>2, <1>3

\* The servers kept outlive a step that takes no pod and no volume of theirs.
LEMMA KeptStays ==
  ASSUME NEW W \in SUBSET Pod, Kept(W), failures \in Nat,
         failures' = failures \/ failures' = failures + 1,
         \A p \in W : phase'[p] = "running",
         \A p \in W : p \in full' /\ p \notin deleted',
         victim' \notin W
  PROVE  Kept(W)'
<1>1. Cardinality(W) \in Nat /\ WriteQuorum \in Nat
  BY PodSets, ConstantsAssumption
<1>2. QED
  BY <1>1 DEF Kept

\* A server that MinIO lets go leaves a quorum of others, less the claims left deleted.
LEMMA ChosenKept ==
  ASSUME TypeOK, NEW p \in Pod, Safe(p), victim = None, victim' = p,
         Cardinality(LeftDeleted) <= failures, UNCHANGED <<pods, failures>>
  PROVE  \E W \in SUBSET Pod : Kept(W)'
<1> DEFINE V == Serving \ {p}
<1> DEFINE W == V \ deleted
<1>1. V \in SUBSET Pod /\ W \in SUBSET Pod /\ deleted \in SUBSET Pod
  BY DEF Serving, TypeOK
<1>2. LeftDeleted = deleted
  BY <1>1, ConstantsAssumption DEF LeftDeleted
<1>3. Cardinality(V) >= WriteQuorum
  BY DEF Safe
<1>4. Cardinality(W) >= Cardinality(V) - Cardinality(deleted)
  <2> HIDE DEF V
  <2>1. QED
    BY <1>1, Without
<1>5. Cardinality(W) >= WriteQuorum - failures
  <2> HIDE DEF V
  <2>1. Cardinality(V) \in Nat /\ Cardinality(deleted) \in Nat /\ Cardinality(W) \in Nat
    BY <1>1, PodSets
  <2>2. WriteQuorum \in Nat /\ failures \in Nat
    BY ConstantsAssumption DEF TypeOK
  <2> HIDE DEF W
  <2>3. QED
    BY <1>2, <1>3, <1>4, <2>1, <2>2
<1>6. /\ \A q \in W : phase[q] = "running"
      /\ W \subseteq full \ deleted /\ p \notin W
  BY DEF Safe, Serving
<1>7. PICK K \in SUBSET Pod : K = W
  BY <1>1
<1>8. Kept(K)'
  <2> HIDE DEF W
  <2>1. QED
    BY <1>5, <1>6, <1>7 DEF Kept, pods
<1>9. QED
  BY <1>8

\* QuorumKept for any servers, quorums and bounds: without a lost node, a write quorum of
\* servers keeps its data but for one server for each failed call or restart.
THEOREM QuorumSurvives == Spec => []QuorumKept
<1>1. TypeOK /\ QuorumInv => QuorumKept
  <2> SUFFICES ASSUME TypeOK, QuorumInv, losses = 0
               PROVE  Cardinality(full) >= WriteQuorum - failures
    BY DEF QuorumKept
  <2>1. full \in SUBSET Pod /\ failures \in Nat /\ WriteQuorum \in Nat
    BY ConstantsAssumption DEF TypeOK
  <2>2. Cardinality(full) \in Nat
    BY <2>1, PodSets
  <2>3. CASE Untouched
    BY <2>1, <2>2, <2>3, ConstantsAssumption DEF Untouched
  <2>4. ASSUME NEW W \in SUBSET Pod, Kept(W)
        PROVE  Cardinality(full) >= WriteQuorum - failures
    <3>1. Cardinality(W) <= Cardinality(full) /\ Cardinality(W) \in Nat
      BY <2>1, <2>4, PodSets DEF Kept
    <3>2. QED
      BY <2>1, <2>2, <2>4, <3>1 DEF Kept
  <2>5. QED
    BY <2>3, <2>4 DEF QuorumInv
<1>2. Init => QuorumInv
  <2> SUFFICES ASSUME Init PROVE QuorumInv
    OBVIOUS
  <2>1. NoneLost /\ Untouched
    BY DEF Init, NoneLost, Untouched
  <2>2. LeftDeleted = {} /\ failures = 0
    BY DEF Init, LeftDeleted
  <2>3. Cardinality(LeftDeleted) = 0
    BY <2>2, FS_EmptySet
  <2>4. QED
    BY <2>1, <2>2, <2>3 DEF QuorumInv
<1>3. TypeOK /\ TypeOK' /\ QuorumInv /\ [Next]_vars => QuorumInv'
  <2> SUFFICES ASSUME TypeOK, TypeOK', QuorumInv, [Next]_vars, losses' = 0
               PROVE  /\ NoneLost' /\ Cardinality(LeftDeleted') <= failures'
                      /\ Untouched' \/ \E W \in SUBSET Pod : Kept(W)'
    BY DEF QuorumInv
  <2> DEFINE Left == Cardinality(LeftDeleted') <= failures'
  <2> DEFINE Whole == Untouched' \/ \E W \in SUBSET Pod : Kept(W)'
  <2> DEFINE Goal == NoneLost' /\ Left /\ Whole
  <2>0. /\ failures \in Nat /\ failures' \in Nat /\ losses \in Nat /\ WriteQuorum \in Nat
        /\ deleted \in SUBSET Pod /\ deleted' \in SUBSET Pod /\ victim \in Pod \cup {None}
        /\ pc \in {"claim", "pod"} <=> victim # None
    BY ConstantsAssumption DEF TypeOK
  <2>01. LeftDeleted \in SUBSET Pod /\ LeftDeleted' \in SUBSET Pod
    BY <2>0 DEF LeftDeleted
  <2>02. /\ Cardinality(LeftDeleted) \in Nat /\ Cardinality(LeftDeleted') \in Nat
         /\ Cardinality(deleted) \in Nat /\ Cardinality(deleted') \in Nat
    BY <2>0, <2>01, PodSets
  <2>03. losses = 0
    <3>1. losses' = losses \/ losses' = losses + 1
      BY DEF Next, OperatorStep, ReconcileMinio, CheckHealth, ListPods, ChoosePod, DeletePVC,
             DeletePod, Restart, PodStep, Schedule, Unschedulable, Heal, PodReplaced, NodeReady,
             NodeLost, Evict, Purge, NodesUnready, faults, vars
    <3>2. QED
      BY <2>0, <3>1
  <2>04. /\ NoneLost /\ Cardinality(LeftDeleted) <= failures
         /\ Untouched \/ \E W \in SUBSET Pod : Kept(W)
    BY <2>03 DEF QuorumInv
  <2>05. UNCHANGED node => NoneLost'
    BY <2>04 DEF NoneLost
  <2>06. Works \/ Fails => failures' = failures \/ failures' = failures + 1
    BY DEF Works, Fails
  <2>07. ASSUME LeftDeleted' \in SUBSET LeftDeleted, failures' = failures \/ failures' = failures + 1
         PROVE  Left
    <3>1. Cardinality(LeftDeleted') <= Cardinality(LeftDeleted)
      BY <2>01, <2>07, PodSets
    <3>2. QED
      BY <2>0, <2>02, <2>04, <2>07, <3>1
  \* A rebalancing that ends by a failure deletes no claim but its victim's.
  <2>08. ASSUME LeftDeleted' \subseteq deleted \cup {victim}, Fails
         PROVE  Left
    <3>1. LeftDeleted' \ {victim} \in SUBSET LeftDeleted
      BY <2>08 DEF LeftDeleted
    <3>2. Cardinality(LeftDeleted' \ {victim}) <= Cardinality(LeftDeleted)
      BY <2>01, <3>1, PodSets
    <3>3. Cardinality(LeftDeleted') <= Cardinality(LeftDeleted' \ {victim}) + 1
      BY <2>01, PodSets
    <3>4. Cardinality(LeftDeleted' \ {victim}) \in Nat
      BY <2>01, <3>1, PodSets
    <3>5. QED
      BY <2>0, <2>02, <2>04, <2>08, <3>2, <3>3, <3>4 DEF Fails
  <2>09. ASSUME NEW W \in SUBSET Pod, Kept(W), failures' = failures \/ failures' = failures + 1,
                \A p \in W : phase'[p] = "running",
                \A p \in W : p \in full' /\ p \notin deleted',
                victim' \notin W
         PROVE  Whole
    BY <2>0, <2>09, KeptStays
  \* The pods as they are: an untouched server stays so, and a kept one is not the new victim.
  <2>010. ASSUME UNCHANGED pods, failures' = failures \/ failures' = failures + 1,
                 pc \in {"idle", "health"} => pc' \in {"idle", "health"},
                 victim' \in Pod => victim' = victim \/ phase[victim'] # "running"
          PROVE  Whole
    <3>1. CASE Untouched
      BY <2>010, <3>1 DEF Untouched, pods
    <3>2. ASSUME NEW W \in SUBSET Pod, Kept(W)
          PROVE  Whole
      <4>1. /\ \A p \in W : phase'[p] = "running"
            /\ \A p \in W : p \in full' /\ p \notin deleted'
            /\ victim' \notin W
        BY <2>010, <3>2 DEF Kept, pods
      <4>2. QED
        BY <2>010, <3>2, <4>1, <2>09
    <3>3. QED
      BY <2>04, <3>1, <3>2
  <2>1. CASE ReconcileMinio
    <3>1. /\ pc = "idle" /\ victim = None /\ UNCHANGED <<node, volume, full, deleted, victim>>
          /\ pc' \in {"idle", "health"}
          /\ failures' = failures \/ failures' = failures + 1
          /\ phase' = phase \/ ~Scaled
      <4>1. victim = None
        BY <2>0, <2>1 DEF ReconcileMinio
      <4>2. QED
        BY <2>1, <2>06, <4>1 DEF ReconcileMinio, Goto, locals
    <3>2. Left
      BY <2>07, <3>1 DEF LeftDeleted
    <3>3. ASSUME Untouched PROVE Whole
      BY <3>1, <3>3 DEF Untouched
    <3>4. ASSUME NEW W \in SUBSET Pod, Kept(W)
          PROVE  Whole
      <4>1. \A p \in W : phase'[p] = "running"
        BY <3>1, <3>4 DEF Kept, Scaled
      <4>2. \A p \in W : p \in full' /\ p \notin deleted'
        BY <3>1, <3>4 DEF Kept
      <4>3. QED
        BY <2>09, <3>1, <3>4, <4>1, <4>2 DEF Kept
    <3>5. QED
      BY <2>04, <2>05, <3>1, <3>2, <3>3, <3>4
  <2>2. CASE CheckHealth
    <3>1. /\ pc = "health" /\ victim = None /\ UNCHANGED <<node, pods>> /\ victim' = None
          /\ failures' = failures \/ failures' = failures + 1
      <4>1. victim = None
        BY <2>0, <2>2 DEF CheckHealth
      <4>2. QED
        BY <2>2, <2>06, <4>1 DEF CheckHealth, Goto, Done, locals
    <3>2. Left
      BY <2>07, <3>1 DEF LeftDeleted, pods
    <3>3. ASSUME NEW W \in SUBSET Pod, Kept(W)
          PROVE  Whole
      <4>1. /\ \A p \in W : phase'[p] = "running"
            /\ \A p \in W : p \in full' /\ p \notin deleted'
            /\ victim' \notin W
        BY <3>1, <3>3 DEF Kept, pods
      <4>2. QED
        BY <2>09, <3>1, <3>3, <4>1
    <3>4. ASSUME Untouched, Healthy, UNCHANGED failures
          PROVE  Whole
      <4>1. Serving \in SUBSET Pod /\ None \notin Serving
        BY ConstantsAssumption DEF Serving
      <4>2. Cardinality(Serving) >= WriteQuorum /\ Cardinality(Serving) \in Nat
        BY <3>4, <4>1, PodSets DEF Healthy
      <4>3. Kept(Serving)
        <5>1. \A p \in Serving : phase[p] = "running"
          BY DEF Serving
        <5>2. Cardinality(Serving) >= WriteQuorum - failures
          BY <2>0, <4>2
        <5>3. QED
          BY <3>1, <3>4, <4>1, <5>1, <5>2 DEF Kept, Untouched
      <4>4. QED
        BY <3>3, <4>1, <4>3
    <3>5. ASSUME Untouched, Done
          PROVE  Whole
      BY <3>1, <3>5 DEF Untouched, Done, pods
    <3>6. Whole
      BY <2>2, <2>04, <3>3, <3>4, <3>5 DEF CheckHealth, Works
    <3>7. QED
      BY <2>05, <3>1, <3>2, <3>6
  <2>3. CASE ListPods
    <3> DEFINE stuck == {p \in Pod : phase[p] = "stuck"}
    <3>1. /\ pc = "list" /\ victim = None /\ UNCHANGED <<node, pods>>
          /\ failures' = failures \/ failures' = failures + 1
          /\ victim' = None \/ victim' \in stuck
      <4>1. pc = "list" /\ victim = None
        BY <2>0, <2>3 DEF ListPods
      <4>2. stuck # {} => Min(stuck) \in stuck
        BY FirstOf
      <4>3. QED
        BY <2>3, <2>06, <4>1, <4>2 DEF ListPods, Done
    <3>2. None \notin Pod
      BY ConstantsAssumption
    <3>3. LeftDeleted' \in SUBSET LeftDeleted
      BY <2>0, <3>1, <3>2 DEF LeftDeleted, pods
    <3>4. Left
      BY <2>07, <3>1, <3>3
    <3>5. Whole
      BY <2>010, <3>1, <3>2
    <3>6. QED
      BY <2>05, <3>1, <3>4, <3>5
  <2>4. CASE ChoosePod
    <3>1. pc = "choose" /\ victim = None /\ UNCHANGED <<node, pods>>
          /\ (failures' = failures \/ failures' = failures + 1) /\ None \notin Pod
      <4>1. pc = "choose" /\ victim = None
        BY <2>0, <2>4 DEF ChoosePod
      <4>2. QED
        BY <2>4, <2>06, <4>1, ConstantsAssumption DEF ChoosePod
    <3>2. LeftDeleted' \in SUBSET LeftDeleted
      BY <2>0, <3>1 DEF LeftDeleted, pods
    <3>3. Left
      BY <2>07, <3>1, <3>2
    <3>4. Done => Whole
      BY <2>010, <3>1 DEF Done
    <3>5. ASSUME NEW b \in Bounds, NEW p \in Victims(b[1], b[2]), victim' = p, Works
          PROVE  Whole
      BY <2>04, <3>1, <3>5, VictimsSafe, ChosenKept DEF Works
    <3>6. Whole
      BY <2>4, <3>4, <3>5 DEF ChoosePod
    <3>7. QED
      BY <2>05, <3>1, <3>3, <3>6
  <2>5. CASE DeletePVC
    <3>1. /\ pc = "claim" /\ victim \in Pod /\ None \notin Pod /\ UNCHANGED <<node, phase>>
          /\ failures' = failures \/ failures' = failures + 1
      <4>1. pc = "claim" /\ victim \in Pod /\ None \notin Pod
        BY <2>0, <2>5, ConstantsAssumption DEF DeletePVC
      <4>2. QED
        BY <2>5, <2>06, <4>1 DEF DeletePVC
    <3>2. /\ deleted \subseteq deleted' /\ deleted' \subseteq deleted \cup {victim}
          /\ full \ {victim} \subseteq full' /\ victim' \in {victim, None}
      BY <2>5 DEF DeletePVC, ClaimGoes, Goto, Done, locals
    <3>3. Left
      <4>1. CASE Fails
        BY <2>08, <3>2, <4>1 DEF LeftDeleted
      <4>2. CASE Goto("pod") /\ Works
        BY <2>07, <3>2, <4>2 DEF LeftDeleted, Goto, locals, Works
      <4>3. CASE volume[victim] = None /\ UNCHANGED deleted /\ Works
        <5>1. victim \notin deleted
          BY <4>3 DEF TypeOK
        <5>2. QED
          BY <2>07, <4>3, <5>1 DEF LeftDeleted, Works
      <4>4. QED
        BY <2>5, <4>1, <4>2, <4>3 DEF DeletePVC
    <3>4. PICK W \in SUBSET Pod : Kept(W)
      BY <2>04, <3>1 DEF Untouched
    <3>5. /\ \A p \in W : phase'[p] = "running"
          /\ \A p \in W : p \in full' /\ p \notin deleted'
          /\ victim' \notin W
      BY <3>1, <3>2, <3>4 DEF Kept
    <3>6. Whole
      BY <2>09, <3>1, <3>4, <3>5
    <3>7. QED
      BY <2>05, <3>1, <3>3, <3>6
  <2>6. CASE DeletePod
    <3>1. /\ pc = "pod" /\ victim \in Pod /\ None \notin Pod /\ UNCHANGED node /\ victim' = None
          /\ failures' = failures \/ failures' = failures + 1
      <4>1. pc = "pod" /\ victim \in Pod /\ None \notin Pod
        BY <2>0, <2>6, ConstantsAssumption DEF DeletePod
      <4>2. QED
        BY <2>6, <2>06, <4>1 DEF DeletePod, Done
    <3>2. /\ deleted' \subseteq deleted /\ full \ {victim} \subseteq full'
          /\ \A p \in Pod : p # victim => phase'[p] = phase[p]
      BY <2>6, <3>1 DEF DeletePod, Replace, TypeOK, pods
    <3>3. Left
      <4>1. CASE Fails
        BY <2>08, <3>2, <4>1 DEF LeftDeleted
      <4>2. CASE Replace(victim) /\ Works
        <5>1. deleted' = deleted \ {victim}
          BY <4>2 DEF Replace
        <5>2. QED
          BY <2>07, <4>2, <5>1 DEF LeftDeleted, Works
      <4>3. QED
        BY <2>6, <4>1, <4>2 DEF DeletePod
    <3>4. PICK W \in SUBSET Pod : Kept(W)
      BY <2>04, <3>1 DEF Untouched
    <3>5. /\ \A p \in W : phase'[p] = "running"
          /\ \A p \in W : p \in full' /\ p \notin deleted'
          /\ victim' \notin W
      BY <3>1, <3>2, <3>4 DEF Kept
    <3>6. Whole
      BY <2>09, <3>1, <3>4, <3>5
    <3>7. QED
      BY <2>05, <3>1, <3>3, <3>6
  <2>7. CASE Restart
    <3>1. /\ UNCHANGED <<node, pods>> /\ victim' = None /\ pc' = "idle" /\ Fails
          /\ failures' = failures + 1 /\ None \notin Pod
      BY <2>7, ConstantsAssumption DEF Restart, Done, Fails
    <3>2. Left
      BY <2>08, <3>1 DEF LeftDeleted, pods
    <3>3. Whole
      BY <2>010, <3>1
    <3>4. QED
      BY <2>05, <3>1, <3>2, <3>3
  <2>8. ASSUME NEW p \in Pod, PodStep(p) PROVE Goal
    <3>1. UNCHANGED <<node, deleted, pc, victim, failures>>
      BY <2>8 DEF PodStep, Schedule, Unschedulable, Heal, locals
    <3>2. full \subseteq full' /\ full' \subseteq full \cup {p}
      BY <2>8 DEF PodStep, Schedule, Unschedulable, Heal
    <3>3. \A q \in Pod : phase[q] = "running" => phase'[q] = "running"
      BY <2>8 DEF PodStep, Schedule, Unschedulable, Heal, PodStatus, TypeOK
    <3>4. Left
      BY <2>07, <3>1 DEF LeftDeleted
    <3>5. CASE Untouched
      BY <3>1, <3>2, <3>5 DEF Untouched
    <3>6. ASSUME NEW W \in SUBSET Pod, Kept(W)
          PROVE  Whole
      <4>1. /\ \A q \in W : phase'[q] = "running"
            /\ \A q \in W : q \in full' /\ q \notin deleted'
            /\ victim' \notin W
        BY <3>1, <3>2, <3>3, <3>6 DEF Kept
      <4>2. QED
        BY <2>09, <3>1, <3>6, <4>1
    <3>7. QED
      BY <2>04, <2>05, <3>1, <3>4, <3>5, <3>6
  <2>9. ASSUME NEW p \in Pod, PodReplaced(p) PROVE Goal
    <3>1. /\ p \in deleted /\ UNCHANGED <<node, victim, failures>>
          /\ deleted' = deleted \ {p} /\ full' = full \ {p}
      BY <2>9 DEF PodReplaced, Replace, locals
    <3>2. \A q \in Pod : q # p => phase'[q] = phase[q]
      BY <2>9 DEF PodReplaced, Replace, TypeOK
    <3>3. Left
      BY <2>07, <3>1 DEF LeftDeleted
    <3>4. PICK W \in SUBSET Pod : Kept(W)
      BY <2>04, <3>1 DEF Untouched
    <3>5. /\ \A q \in W : phase'[q] = "running"
          /\ \A q \in W : q \in full' /\ q \notin deleted'
          /\ victim' \notin W
      BY <3>1, <3>2, <3>4 DEF Kept
    <3>6. Whole
      BY <2>09, <3>1, <3>4, <3>5
    <3>7. QED
      BY <2>05, <3>1, <3>3, <3>6
  \* The nodes change and the pods do not.
  <2>10. ASSUME UNCHANGED <<pods, pc, locals, failures>> PROVE Left /\ Whole
    <3>1. Left
      BY <2>07, <2>10 DEF LeftDeleted, pods, locals
    <3>2. Whole
      BY <2>010, <2>10 DEF locals
    <3>3. QED
      BY <3>1, <3>2
  <2>11. ASSUME NEW n \in Node, NodeReady(n) PROVE Goal
    BY <2>04, <2>10, <2>11 DEF NodeReady, NodeIs, NoneLost, TypeOK
  <2>12. ASSUME NEW n \in Node, Evict(n) \/ Purge(n) PROVE FALSE
    BY <2>04, <2>12 DEF Evict, Purge, NoneLost
  <2>13. ASSUME NEW set, NodesUnready(set) PROVE Goal
    BY <2>04, <2>10, <2>13 DEF NodesUnready, NoneLost, TypeOK
  <2>14. ASSUME NEW n \in Node, NodeLost(n) PROVE FALSE
    BY <2>0, <2>03, <2>14 DEF NodeLost
  <2>15. CASE UNCHANGED vars
    BY <2>05, <2>10, <2>15 DEF vars
  <2>16. QED
    <3> HIDE DEF Goal
    <3>1. Goal
      BY <2>1, <2>2, <2>3, <2>4, <2>5, <2>6, <2>7, <2>8, <2>9, <2>11, <2>12, <2>13, <2>14, <2>15
         DEF Next, OperatorStep, Goal
    <3>2. QED
      BY <3>1 DEF Goal
<1>4. QED
  BY <1>1, <1>2, <1>3, TypeCorrect, PTL DEF Spec
=============================================================================
