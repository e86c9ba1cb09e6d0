--------------------------- MODULE InternalLB_proofs ---------------------------
(***************************************************************************)
(* Proofs about InternalLB, for any nodes and primaries and any bound on   *)
(* the disturbances.                                                       *)
(***************************************************************************)
EXTENDS InternalLB, FiniteSetTheorems, WellFoundedInduction, TLAPS

(* The operators of the model.                                              *)

\* The least of some numbers is one of them.
LEMMA MinIsMember ==
  ASSUME NEW S \in SUBSET Nat, IsFiniteSet(S), S # {}
  PROVE  Min(S) \in S /\ \A y \in S : Min(S) <= y
<1> DEFINE Below(x) == {y \in S : y <= x}
<1> DEFINE T == {Below(x) : x \in S}
<1>1. IsWellFoundedOn(StrictSubsetOrdering(S), FiniteSubsetsOf(S))
  BY FS_StrictSubsetOrderingWellFounded
<1>2. FiniteSubsetsOf(S) = SUBSET S
  BY FS_FiniteSubsetsOfFinite
<1>3. T \subseteq FiniteSubsetsOf(S) /\ T # {}
  <2>1. \A x \in S : Below(x) \in SUBSET S
    OBVIOUS
  <2>2. PICK x \in S : TRUE
    OBVIOUS
  <2>3. Below(x) \in T
    OBVIOUS
  <2>4. QED
    <3> HIDE DEF Below
    <3>1. QED
      BY <1>2, <2>1, <2>3
<1>4. \E b \in T : \A c \in T : ~(<<c, b>> \in StrictSubsetOrdering(S))
  <2> HIDE DEF T
  <2>1. QED
    BY <1>1, <1>3, WFMin
<1>5. PICK x \in S : \A y \in S : ~(<<Below(y), Below(x)>> \in StrictSubsetOrdering(S))
  BY <1>4
<1>6. ASSUME NEW y \in S, ~(x <= y)
      PROVE  FALSE
  <2>1. S \subseteq Nat /\ x \in Nat /\ y \in Nat
    OBVIOUS
  <2>2. x <= x /\ y < x
    BY <1>6, <2>1
  <2>3. \A z \in S : z <= y => z <= x
    <3>1. TAKE z \in S
    <3>2. z \in Nat
      OBVIOUS
    <3>3. QED
      BY <2>1, <2>2, <3>2
  <2>4. Below(y) \subseteq Below(x)
    BY <2>3
  <2>5. x \in Below(x) /\ x \notin Below(y)
    BY <1>6, <2>2
  <2>6. <<Below(y), Below(x)>> \in StrictSubsetOrdering(S)
    BY <2>4, <2>5 DEF StrictSubsetOrdering
  <2>7. QED
    BY <1>5, <2>6
<1>7. QED
  BY <1>6 DEF Min

\* The node that an updater comes to next.
LEMMA NextNode ==
  ASSUME NEW S \in SUBSET Node, S # {}
  PROVE  Min(S) \in S
  BY MinIsMember, FS_Subset, ConstantsAssumption

\* The names and the primary hosts of a node list, and those of the nodes there are.
LEMMA ListNames ==
  /\ \A l \in SUBSET Props : Hosts(l) \subseteq Names(l) /\ Names(l) \subseteq Node
  /\ Names({}) = {} /\ Hosts({}) = {}
<1>1. ASSUME NEW l \in SUBSET Props, NEW p \in l
      PROVE  p[1] \in Node
  BY DEF Props
<1>2. QED
  BY <1>1 DEF Names, Hosts

\* What the node list of the cluster says.
LEMMA ListedNodes ==
  ASSUME labelled \subseteq cluster, cluster \subseteq Node
  PROVE  NodeList \subseteq Props /\ Names(NodeList) = cluster /\ Hosts(NodeList) = labelled
<1>1. NodeList \subseteq Props
  <2>1. \A b : b \in BOOLEAN => \A n \in Node : <<n, b>> \in Node \X BOOLEAN
    OBVIOUS
  <2>2. \A n : (n \in labelled) \in BOOLEAN
    OBVIOUS
  <2>3. \A n \in cluster : <<n, n \in labelled>> \in Node \X BOOLEAN
    BY <2>1, <2>2, Zenon
  <2>4. QED
    BY <2>3, Zenon DEF NodeList, Props
<1>2. \A n : <<n, n \in labelled>>[1] = n /\ <<n, n \in labelled>>[2] = (n \in labelled)
  OBVIOUS
<1>3. Names(NodeList) = cluster
  <2>1. \A n \in cluster : <<n, n \in labelled>> \in NodeList
    BY DEF NodeList
  <2>2. ASSUME NEW n \in cluster
        PROVE  n \in Names(NodeList)
    BY <1>2, <2>1 DEF Names
  <2>3. ASSUME NEW n \in Names(NodeList)
        PROVE  n \in cluster
    <3>1. PICK q \in NodeList : n = q[1]
      BY DEF Names
    <3>2. PICK m \in cluster : q = <<m, m \in labelled>>
      BY DEF NodeList
    <3>3. QED
      BY <1>2, <3>1, <3>2
  <2>4. QED
    BY <2>2, <2>3
<1>4. Hosts(NodeList) = labelled
  <2>1. \A n \in cluster : <<n, n \in labelled>> \in NodeList
    BY DEF NodeList
  <2>2. ASSUME NEW n \in labelled
        PROVE  n \in Hosts(NodeList)
    BY <1>2, <2>1 DEF Hosts
  <2>3. ASSUME NEW n \in Hosts(NodeList)
        PROVE  n \in labelled
    <3>1. PICK q \in NodeList : q[2] /\ n = q[1]
      BY DEF Hosts
    <3>2. PICK m \in cluster : q = <<m, m \in labelled>>
      BY DEF NodeList
    <3>3. QED
      BY <1>2, <3>1, <3>2
  <2>4. QED
    BY <2>2, <2>3
<1>5. QED
  BY <1>1, <1>3, <1>4

(* The parts of the inductive invariant.                                    *)

\* Where an updater has a list with primaries to write, and where it has written it.
Writing == {"pods", "wait"}
Updating == {"pods", "wait", "sighup", "record"}

\* Every pod has primaries to write, and an updater has one pod at most, which is the
\* one it waits for and writes the primaries of its list.
PodsInv ==
  /\ \A p \in pods : p.hosts # {} /\ p.hosts \subseteq Primaries
  /\ \A p, q \in pods : p.by = q.by /\ p.by \in Updater => p = q
  /\ \A p \in pods : p.by \in Updater =>
       /\ pc[p.by] = "wait" /\ p.hosts = Hosts(list[p.by])
  /\ \A p \in pods : p.phase = "succeeded" => p.node \in manifest
  /\ \A a \in Updater : pc[a] \in Writing => Hosts(list[a]) # {}

\* A node of a list is there, or its name is not used again.
ListsInv ==
  /\ \A a \in Updater : /\ Names(list[a]) \subseteq cluster \cup gone
                        /\ Hosts(list[a]) \subseteq Primaries
                        /\ todo[a] \subseteq Names(list[a])
                        /\ pc[a] = "idle" => todo[a] = {}
  /\ Names(record) \subseteq cluster \cup gone

\* What the command has written, and then pointed to.
PointedInv ==
  LET mine == list["command"] IN
    /\ pc["command"] \notin {"kubeconfig", "ended"} => pointed = {}
    /\ pointed \subseteq Names(mine)
    /\ pc["command"] \in Writing => (Names(mine) \ todo["command"]) \cap cluster \subseteq manifest
    /\ Hosts(mine) # {} /\ (pc["command"] \in {"sighup", "kubeconfig"} \/ pointed # {}) =>
         Names(mine) \cap cluster \subseteq manifest

(* The operator's update beside the command and the pods left behind.       *)

Alone == spoilt \cap {"leftover", "command"} = {}
Has(n, primaries) == n \in manifest /\ config[n] = primaries
Agrees(n) == loaded[n] \in {{}, config[n]}

\* The history tells of an update of the command, of one of the operator's own that is
\* not recorded yet, and, where it tells of no pods of others, there are none.
HistoryInv ==
  /\ pc["command"] \in {"start", "pods", "wait"} => "command" \in spoilt
  /\ pc["operator"] \in Updating => "halfway" \in spoilt
  /\ Alone => \A p \in pods :
       \/ p.by = "operator"
       \/ pc["operator"] \notin Updating /\ "halfway" \in spoilt

\* What an update has written by itself, and what is recorded of it.
WrittenInv ==
  LET mine == list["operator"] IN
    /\ pc["operator"] = "sighup" => Hosts(mine) # {}
    /\ pc["operator"] \in {"sighup", "record"} /\ Hosts(mine) # {} => todo["operator"] = {}
    /\ Alone /\ pc["operator"] \in Updating /\ Hosts(mine) # {} =>
         /\ \A n \in (Names(mine) \ todo["operator"]) \cap cluster : Has(n, Hosts(mine))
         /\ \A p \in pods : /\ p.node \in todo["operator"]
                            /\ p.phase = "succeeded" => config[p.node] = Hosts(mine)
    /\ Alone /\ pc["operator"] = "record" /\ Hosts(mine) # {} /\ "sighup" \notin spoilt =>
         \A n \in Names(mine) \cap cluster : Agrees(n)
    /\ Alone /\ "halfway" \notin spoilt /\ Hosts(record) # {} =>
         /\ \A n \in Names(record) \cap cluster : Has(n, Hosts(record))
         /\ "sighup" \notin spoilt => \A n \in Names(record) \cap cluster : Agrees(n)

(* The parts of the type invariant.                                         *)

Place == {"idle", "compare", "start", "pods", "wait", "sighup", "record", "kubeconfig", "ended"}

MembersType ==
  /\ labelled \subseteq cluster \cap Primaries /\ cluster \subseteq Node \ gone
  /\ up \subseteq Node /\ gone \subseteq Node
UpdatersType ==
  /\ pc \in [Updater -> Place]
  /\ list \in [Updater -> SUBSET Props] /\ todo \in [Updater -> SUBSET Node]
  /\ record \subseteq Props
HostsType ==
  /\ config \in [Node -> SUBSET Primaries] /\ loaded \in [Node -> SUBSET Primaries]
  /\ manifest \subseteq Node
PodsType == pods \subseteq PodType
OthersType ==
  /\ recordMap \in BOOLEAN /\ pointed \subseteq Node
  /\ spoilt \subseteq {"halfway", "leftover", "command", "sighup"} /\ disturbances \in Nat

\* What the helpers of the updaters assign.
LEMMA GotoPlace ==
  ASSUME UpdatersType, NEW a \in Updater, NEW x \in Place, Goto(a, x)
  PROVE  /\ pc' \in [Updater -> Place] /\ pc'[a] = x
         /\ \A b \in Updater : b # a => pc'[b] = pc[b]
  BY DEF UpdatersType, Goto

\* The operator is back in Poll, and the command is left alone.
LEMMA IdleIs ==
  ASSUME UpdatersType, Idle
  PROVE  /\ pc' \in [Updater -> Place] /\ pc'["operator"] = "idle" /\ pc'["command"] = pc["command"]
         /\ list' \in [Updater -> SUBSET Props] /\ list'["operator"] = {}
         /\ list'["command"] = list["command"]
         /\ todo' \in [Updater -> SUBSET Node] /\ todo'["operator"] = {}
         /\ todo'["command"] = todo["command"]
<1>1. "operator" \in Updater /\ "command" \in Updater /\ "idle" \in Place
  BY DEF Updater, Place
<1>2. QED
  BY <1>1, GotoPlace DEF UpdatersType, Idle

\* An update that ends in an error ends the tick, or the command.
LEMMA ReturnIs ==
  ASSUME UpdatersType, NEW a \in Updater, Return(a)
  PROVE  /\ pc' \in [Updater -> Place] /\ pc'[a] \in {"idle", "ended"}
         /\ a = "operator" => pc'[a] = "idle"
         /\ a = "command" => pc'[a] = "ended" /\ list' = list
         /\ list' \in [Updater -> SUBSET Props] /\ list'[a] \in {{}, list[a]}
         /\ todo' \in [Updater -> SUBSET Node] /\ todo'[a] = {}
         /\ \A b \in Updater : b # a => pc'[b] = pc[b] /\ list'[b] = list[b] /\ todo'[b] = todo[b]
<1>1. Updater = {"operator", "command"} /\ "ended" \in Place
  BY DEF Updater, Place
<1>2. CASE a = "operator"
  BY <1>1, <1>2, IdleIs DEF Return
<1>3. CASE a = "command"
  BY <1>1, <1>3, GotoPlace DEF Return, UpdatersType
<1>4. QED
  BY <1>1, <1>2, <1>3

\* An update that ends well goes on with the record, or with the kubeconfigs.
LEMMA SuccessIs ==
  ASSUME UpdatersType, NEW a \in Updater, Success(a), list' = list
  PROVE  /\ pc' \in [Updater -> Place]
         /\ a = "operator" => pc'[a] = "record" /\ todo' = todo
         /\ a = "command" => pc'[a] = "kubeconfig" /\ todo'[a] = Names(list[a]) \ Exclude
         /\ todo' \in [Updater -> SUBSET Node]
         /\ \A b \in Updater : b # a => pc'[b] = pc[b] /\ todo'[b] = todo[b]
<1>1. /\ Updater = {"operator", "command"} /\ {"record", "kubeconfig"} \subseteq Place
      /\ "operator" \in Updater /\ "command" \in Updater
  BY DEF Updater, Place
<1>2. Names(list[a]) \subseteq Node
  BY ListNames DEF UpdatersType
<1>3. CASE a = "operator"
  BY <1>1, <1>3, GotoPlace DEF Success, UpdatersType
<1>4. CASE a = "command"
  BY <1>1, <1>2, <1>4, GotoPlace DEF Success, UpdatersType
<1>5. QED
  BY <1>1, <1>3, <1>4

\* The updaters stay at their places, with lists of nodes.
LEMMA UpdatersStep == ASSUME MembersType, UpdatersType, [Next]_vars PROVE UpdatersType'
<1> USE DEF membership, recorded, hosts, updaters
<1>a. /\ "operator" \in Updater /\ "command" \in Updater
      /\ {"idle", "compare", "start", "pods", "wait", "sighup", "record", "kubeconfig", "ended"}
           \subseteq Place
  BY DEF Updater, Place
<1>b. NodeList \subseteq Props
  BY ListedNodes DEF MembersType
<1>1. CASE Tick
  BY <1>1, <1>a, <1>b, GotoPlace DEF Tick, UpdatersType
<1>2. CASE ReconcileInternalLB
  BY <1>2, <1>a, GotoPlace, IdleIs DEF ReconcileInternalLB, UpdatersType
<1>3. CASE \E a \in Updater : UpdateInternalLB(a)
  <2>1. PICK a \in Updater : UpdateInternalLB(a)
    BY <1>3
  <2>2. CASE StartUpdate(a)
    <3>1. list' = list /\ record' = record
      BY <2>2 DEF StartUpdate
    <3>2. CASE Success(a)
      BY <3>1, <3>2, SuccessIs DEF UpdatersType
    <3>3. CASE Goto(a, "pods") /\ todo' = [todo EXCEPT ![a] = Names(list[a])]
      <4>1. Names(list[a]) \subseteq Node
        BY ListNames DEF UpdatersType
      <4>2. QED
        BY <1>a, <3>1, <3>3, <4>1, GotoPlace DEF UpdatersType
    <3>4. QED
      BY <2>2, <3>2, <3>3 DEF StartUpdate
  <2>3. CASE CreatePod(a)
    BY <1>a, <2>3, GotoPlace, ReturnIs DEF CreatePod, UpdatersType
  <2>4. CASE PodCompleted(a)
    <3>1. record' = record
      BY <2>4 DEF PodCompleted
    <3>2. \/ Goto(a, "pods") /\ list' = list /\ \E p \in pods : todo' = [todo EXCEPT ![a] = @ \ {p.node}]
          \/ Return(a)
      BY <2>4 DEF PodCompleted, Awaited
    <3>3. QED
      BY <1>a, <3>1, <3>2, GotoPlace, ReturnIs DEF UpdatersType
  <2>5. CASE FinishPods(a)
    BY <1>a, <2>5, GotoPlace DEF FinishPods, UpdatersType
  <2>6. CASE SighupPods(a)
    BY <2>6, SuccessIs DEF SighupPods, UpdatersType
  <2>7. QED
    BY <2>1, <2>2, <2>3, <2>4, <2>5, <2>6 DEF UpdateInternalLB
<1>4. CASE Deadline
  BY <1>4, IdleIs DEF Deadline, UpdatersType
<1>5. CASE RecordList
  BY <1>5, <1>a, IdleIs DEF RecordList, UpdatersType
<1>6. CASE SetKubeconfigServer
  <2>1. record' = record
    BY <1>6 DEF SetKubeconfigServer
  <2>2. \/ /\ UNCHANGED <<pc, list>>
           /\ todo' = [todo EXCEPT !["command"] = todo["command"] \ {Min(todo["command"])}]
        \/ Return("command")
    BY <1>6 DEF SetKubeconfigServer
  <2>3. QED
    BY <1>a, <2>1, <2>2, ReturnIs DEF UpdatersType
<1>7. CASE ChangeLoadBalancer
  BY <1>7, <1>a, <1>b, GotoPlace DEF ChangeLoadBalancer, UpdatersType
<1>8. CASE Restart
  BY <1>8, IdleIs DEF Restart, UpdatersType
<1>9. CASE UNCHANGED vars
  BY <1>9 DEF vars, UpdatersType
<1>10. QED
  BY <1>1, <1>2, <1>3, <1>4, <1>5, <1>6, <1>7, <1>8, <1>9, <1>a
     DEF Next, OperatorStep, CommandStep, HostStep, RunUpdatePod, StartHAProxy, Join, Label, Leave,
         Lose, ComeBack, UpdatersType

\* A pod that is left behind, or that runs, is still a pod.
LEMMA AbandonedPods ==
  ASSUME PodsType, NEW a \in Updater
  PROVE  /\ Abandoned(a) \subseteq PodType
         /\ \A p \in Abandoned(a) :
              \/ p \in pods /\ p.by # a
              \/ /\ p.by = "nobody" /\ p.phase = "pending"
                 /\ \E q \in pods : q.by = a /\ p.node = q.node /\ p.hosts = q.hosts
<1>1. \A q \in pods : [q EXCEPT !.by = "nobody"] \in PodType
  BY DEF PodsType, PodType
<1>2. \A q \in pods : LET p == [q EXCEPT !.by = "nobody"] IN
        p.by = "nobody" /\ p.phase = q.phase /\ p.node = q.node /\ p.hosts = q.hosts
  BY DEF PodsType, PodType
<1>3. QED
  BY <1>1, <1>2 DEF Abandoned, Awaited, PodsType

\* A pod that has run is the one it was, and one nobody waits for is gone.
LEMMA AdvancedPods ==
  ASSUME PodsType, NEW p \in pods, NEW phase \in {"pending", "succeeded", "failed"},
         Advance(p, phase)
  PROVE  /\ pods' \subseteq PodType
         /\ \A x \in pods' :
              \/ x \in pods /\ x # p
              \/ /\ x.by = p.by /\ p.by # "nobody" /\ x.phase = phase
                 /\ x.node = p.node /\ x.hosts = p.hosts
<1> DEFINE x == [p EXCEPT !.phase = phase]
<1>1. p \in PodType
  BY DEF PodsType
<1>2. x \in PodType /\ x.by = p.by /\ x.phase = phase /\ x.node = p.node /\ x.hosts = p.hosts
  BY <1>1 DEF PodType
<1>3. pods' \subseteq (pods \ {p}) \cup {x} /\ (p.by = "nobody" => pods' = pods \ {p})
  BY DEF Advance
<1>4. QED
  BY <1>2, <1>3 DEF PodsType

\* The pod that an updater creates.
LEMMA CreatedPod ==
  ASSUME MembersType, UpdatersType, NEW a \in Updater, todo[a] # {}
  PROVE  LET p == UpdatePod(a, Min(todo[a])) IN
           /\ p \in PodType /\ p.by = a /\ p.node \in todo[a] /\ p.hosts = Hosts(list[a])
           /\ p.phase = "pending"
<1>1. Min(todo[a]) \in todo[a] /\ Min(todo[a]) \in Node
  BY NextNode DEF UpdatersType
<1>2. Hosts(list[a]) \subseteq Node
  BY ListNames DEF UpdatersType
<1>3. QED
  BY <1>1, <1>2 DEF UpdatePod, PodType

\* Nodes come, are labelled, and go.
LEMMA MembersStep == ASSUME MembersType, [Next]_vars PROVE MembersType'
<1> USE DEF MembersType, membership, recorded, hosts, updaters
<1>1. CASE \E n \in Node : Join(n) \/ Label(n) \/ Leave(n) \/ Lose(n) \/ ComeBack(n)
  BY <1>1 DEF Join, Label, Leave, Lose, ComeBack
<1>2. CASE UNCHANGED vars
  BY <1>2 DEF vars
<1>3. QED
  BY <1>1, <1>2
     DEF Next, OperatorStep, CommandStep, UpdateInternalLB, Tick, ReconcileInternalLB, StartUpdate,
         CreatePod, PodCompleted, FinishPods, SighupPods, Deadline, RecordList, SetKubeconfigServer,
         ChangeLoadBalancer, Restart, HostStep, RunUpdatePod, StartHAProxy

\* A pod is made and runs as one.
LEMMA PodsStep == ASSUME MembersType, UpdatersType, PodsType, [Next]_vars PROVE PodsType'
<1> USE DEF membership, recorded, hosts, updaters
<1>1. CASE \E a \in Updater : CreatePod(a)
  <2>1. PICK a \in Updater : CreatePod(a)
    BY <1>1
  <2>2. QED
    BY <2>1, CreatedPod DEF CreatePod, PodsType
<1>2. CASE Deadline \/ Restart
  BY <1>2, AbandonedPods DEF Deadline, Restart, Updater, PodsType
<1>3. CASE \E n \in Node : RunUpdatePod(n)
  <2>1. PICK n \in Node : RunUpdatePod(n)
    BY <1>3
  <2>2. \E p \in pods : Advance(p, "succeeded") \/ Advance(p, "failed")
    BY <2>1 DEF RunUpdatePod
  <2>3. QED
    BY <2>2, AdvancedPods DEF PodsType
<1>4. CASE \E n \in Node : Leave(n)
  BY <1>4 DEF Leave, PodsType
<1>5. CASE \E a \in Updater : PodCompleted(a) \/ StartUpdate(a) \/ FinishPods(a)
  BY <1>5 DEF PodCompleted, StartUpdate, FinishPods, PodsType
<1>6. CASE UNCHANGED vars
  BY <1>6 DEF vars, PodsType
<1>7. QED
  BY <1>1, <1>2, <1>3, <1>4, <1>5, <1>6
     DEF Next, OperatorStep, CommandStep, UpdateInternalLB, Tick, ReconcileInternalLB, SighupPods,
         RecordList, SetKubeconfigServer, ChangeLoadBalancer, HostStep, StartHAProxy, Join, Label,
         Lose, ComeBack, PodsType, Updater

\* What the pods and the signals do to the hosts.
LEMMA HostsStep ==
  ASSUME MembersType, PodsType, PodsInv, HostsType, [Next]_vars
  PROVE  HostsType'
<1> USE DEF HostsType, membership, recorded, hosts, updaters
<1>1. CASE \E n \in Node : RunUpdatePod(n)
  <2>1. PICK n \in Node, p \in pods :
          /\ p.node = n /\ loaded' = loaded
          /\ \/ config' = [config EXCEPT ![n] = p.hosts] /\ manifest' = manifest \cup {n}
             \/ /\ config' \in {config, [config EXCEPT ![n] = {}], [config EXCEPT ![n] = p.hosts]}
                /\ UNCHANGED manifest
    BY <1>1 DEF RunUpdatePod
  <2>2. p.hosts # {} /\ p.hosts \subseteq Primaries
    BY DEF PodsInv
  <2>3. QED
    BY <2>1, <2>2
<1>2. CASE \E n \in Node : StartHAProxy(n)
  BY <1>2 DEF StartHAProxy
<1>3. CASE \E n \in Node : Leave(n)
  <2>1. PICK n \in Node : Leave(n)
    BY <1>3
  <2>2. /\ config' = [config EXCEPT ![n] = {}] /\ loaded' = [loaded EXCEPT ![n] = {}]
        /\ manifest' = manifest \ {n}
    BY <2>1 DEF Leave
  <2>3. QED
    BY <2>2
<1>4. CASE \E a \in Updater : SighupPods(a)
  <2>1. /\ UNCHANGED <<config, manifest>>
        /\ \E done : loaded' = Reloaded(done)
    BY <1>4 DEF SighupPods
  <2>2. QED
    BY <2>1 DEF Reloaded
<1>5. CASE UNCHANGED vars
  BY <1>5 DEF vars
<1>6. QED
  BY <1>1, <1>2, <1>3, <1>4, <1>5
     DEF Next, OperatorStep, CommandStep, UpdateInternalLB, Tick, ReconcileInternalLB, StartUpdate,
         CreatePod, PodCompleted, FinishPods, Deadline, RecordList, SetKubeconfigServer,
         ChangeLoadBalancer, Restart, HostStep, Join, Label, Lose, ComeBack, Updater

\* The record's map, the kubeconfigs, the history and the bound.
LEMMA OthersStep == ASSUME UpdatersType, OthersType, [Next]_vars PROVE OthersType'
<1> USE DEF OthersType, membership, recorded, hosts, updaters
<1>a. disturbances' = disturbances \/ Disturbs
  BY DEF Works, Next, OperatorStep, CommandStep, UpdateInternalLB, Tick, ReconcileInternalLB, StartUpdate,
         CreatePod, PodCompleted, FinishPods, SighupPods, Deadline, RecordList, SetKubeconfigServer,
         ChangeLoadBalancer, Restart, HostStep, RunUpdatePod, StartHAProxy, Join, Label, Leave,
         Lose, ComeBack, vars
<1>1. disturbances' \in Nat
  BY <1>a DEF Disturbs
<1>2. recordMap' \in BOOLEAN
  BY DEF Next, OperatorStep, CommandStep, UpdateInternalLB, Tick, ReconcileInternalLB, StartUpdate,
         CreatePod, PodCompleted, FinishPods, SighupPods, Deadline, RecordList, SetKubeconfigServer,
         ChangeLoadBalancer, Restart, HostStep, RunUpdatePod, StartHAProxy, Join, Label, Leave,
         Lose, ComeBack, vars
<1>3. pointed' \subseteq Node
  <2>1. CASE SetKubeconfigServer
    <3>1. pointed' = pointed \/ \E n \in todo["command"] : pointed' = pointed \cup {n}
      BY <2>1, NextNode DEF SetKubeconfigServer, UpdatersType, Updater
    <3>2. QED
      BY <3>1 DEF UpdatersType, Updater
  <2>2. CASE \E n \in Node : Leave(n)
    BY <2>2 DEF Leave
  <2>3. CASE UNCHANGED pointed
    BY <2>3
  <2>4. QED
    BY <2>1, <2>2, <2>3
       DEF Next, OperatorStep, CommandStep, UpdateInternalLB, Tick, ReconcileInternalLB, StartUpdate,
         CreatePod, PodCompleted, FinishPods, SighupPods, Deadline, RecordList,
         ChangeLoadBalancer, Restart, HostStep, RunUpdatePod, StartHAProxy, Join, Label,
         Lose, ComeBack, vars
<1>4. spoilt' \subseteq {"halfway", "leftover", "command", "sighup"}
  BY DEF Next, OperatorStep, CommandStep, UpdateInternalLB, Tick, ReconcileInternalLB, StartUpdate,
         CreatePod, PodCompleted, FinishPods, SighupPods, Deadline, RecordList, SetKubeconfigServer,
         ChangeLoadBalancer, Restart, HostStep, RunUpdatePod, StartHAProxy, Join, Label, Leave,
         Lose, ComeBack, vars, Doubts
<1>5. QED
  BY <1>1, <1>2, <1>3, <1>4

\* An updater keeps to its list, and the nodes that are left of it are of the list.
LEMMA ListsStep ==
  ASSUME MembersType, UpdatersType, ListsInv, [Next]_vars
  PROVE  ListsInv'
<1> DEFINE Ok(a) == /\ Names(list[a]) \subseteq cluster \cup gone
                    /\ Hosts(list[a]) \subseteq Primaries
                    /\ todo[a] \subseteq Names(list[a])
                    /\ pc[a] = "idle" => todo[a] = {}
           Known == cluster \cup gone
<1> USE DEF membership, recorded, hosts, updaters
<1>a. /\ \A a \in Updater : Ok(a)
      /\ Names(record) \subseteq Known
      /\ "operator" \in Updater /\ "command" \in Updater /\ Updater = {"operator", "command"}
  BY DEF ListsInv, Updater
<1>b. Known \subseteq Known'
  <2>1. CASE \E n \in Node : Join(n) \/ Label(n) \/ Leave(n) \/ Lose(n) \/ ComeBack(n)
    BY <2>1 DEF Join, Label, Leave, Lose, ComeBack
  <2>2. CASE UNCHANGED vars
    BY <2>2 DEF vars
  <2>3. QED
    BY <2>1, <2>2
       DEF Next, OperatorStep, CommandStep, UpdateInternalLB, Tick, ReconcileInternalLB, StartUpdate,
           CreatePod, PodCompleted, FinishPods, SighupPods, Deadline, RecordList, SetKubeconfigServer,
           ChangeLoadBalancer, Restart, HostStep, RunUpdatePod, StartHAProxy
<1>c. \A l : (Names(l))' = Names(l') /\ (Hosts(l))' = Hosts(l')
  BY DEF Names, Hosts
<1>d. ASSUME NEW a \in Updater, list'[a] = list[a], todo'[a] \subseteq todo[a],
             pc'[a] = "idle" => pc[a] = "idle"
      PROVE  Ok(a)'
  BY <1>a, <1>b, <1>d
<1>e. NodeList \subseteq Props /\ Names(NodeList) \subseteq Known /\ Hosts(NodeList) \subseteq Primaries
  BY ListedNodes DEF MembersType
<1>f. Idle => Ok("operator")' /\ Ok("command")'
  <2>1. SUFFICES ASSUME Idle PROVE Ok("operator")' /\ Ok("command")'
    OBVIOUS
  <2>2. Ok("operator")'
    BY <2>1, IdleIs, ListNames
  <2>3. Ok("command")'
    BY <1>a, <1>b, <2>1, IdleIs
  <2>4. QED
    BY <2>2, <2>3
<1> HIDE DEF Known
<1>1. \A a \in Updater : Ok(a)'
  <2>1. CASE Tick
    <3>1. /\ list'["operator"] = NodeList /\ todo'["operator"] = {} /\ pc'["operator"] # "idle"
          /\ list'["command"] = list["command"] /\ todo' = todo /\ pc'["command"] = pc["command"]
      BY <1>a, <2>1, GotoPlace DEF Tick, UpdatersType, Place
    <3>2. Ok("command")'
      BY <1>a, <1>d, <3>1
    <3>3. Ok("operator")'
      BY <1>b, <1>e, <3>1 DEF Known
    <3>4. QED
      BY <1>a, <3>2, <3>3
  <2>2. CASE ReconcileInternalLB
    <3>1. Idle \/ (UNCHANGED <<list, todo>> /\ Goto("operator", "start"))
      BY <2>2 DEF ReconcileInternalLB
    <3>2. CASE UNCHANGED <<list, todo>> /\ Goto("operator", "start")
      BY <1>a, <1>d, <3>2, GotoPlace DEF Place
    <3>3. QED
      BY <1>a, <1>f, <3>1, <3>2
  <2>3. CASE \E a \in Updater : UpdateInternalLB(a)
    <3>1. PICK a \in Updater : UpdateInternalLB(a)
      BY <2>3
    <3>a. ASSUME Return(a)
          PROVE  \A b \in Updater : Ok(b)'
      <4>1. \A b \in Updater : b # a => Ok(b)'
        BY <1>d, <3>a, ReturnIs
      <4>2. Ok(a)'
        <5>1. list'[a] \in {{}, list[a]} /\ todo'[a] = {}
          BY <3>a, ReturnIs
        <5>2. CASE list'[a] = {}
          BY <5>1, <5>2, ListNames
        <5>3. CASE list'[a] = list[a]
          BY <1>a, <1>b, <5>1, <5>3 DEF Known
        <5>4. QED
          BY <5>1, <5>2, <5>3
      <4>3. QED
        BY <4>1, <4>2
    <3>b. ASSUME Success(a), list' = list
          PROVE  \A b \in Updater : Ok(b)'
      <4>1. \A b \in Updater : b # a => Ok(b)'
        BY <1>d, <3>b, SuccessIs
      <4>2. CASE a = "operator"
        BY <1>a, <1>d, <3>b, <4>1, <4>2, SuccessIs
      <4>3. CASE a = "command"
        BY <1>a, <1>b, <3>b, <4>1, <4>3, SuccessIs DEF Known
      <4>4. QED
        BY <1>a, <4>2, <4>3
    <3>c. ASSUME NEW x \in Place \ {"idle"}, Goto(a, x), list' = list,
                 \A b \in Updater : todo'[b] \subseteq todo[b]
          PROVE  \A b \in Updater : Ok(b)'
      BY <1>d, <3>c, GotoPlace
    <3>2. CASE StartUpdate(a)
      <4>1. CASE Success(a)
        BY <3>2, <3>b, <4>1 DEF StartUpdate
      <4>2. CASE Goto(a, "pods") /\ todo' = [todo EXCEPT ![a] = Names(list[a])]
        <5>1. list' = list /\ pc'[a] = "pods" /\ todo'[a] = Names(list[a])
          BY <3>2, <4>2, GotoPlace DEF StartUpdate, UpdatersType, Place
        <5>2. \A b \in Updater : b # a => Ok(b)'
          BY <1>d, <3>2, <4>2, <5>1, GotoPlace DEF UpdatersType, Place
        <5>3. Ok(a)'
          BY <1>a, <1>b, <5>1 DEF Known
        <5>4. QED
          BY <5>2, <5>3
      <4>3. QED
        BY <3>2, <4>1, <4>2 DEF StartUpdate
    <3>3. CASE CreatePod(a)
      BY <3>3, <3>a, <3>c DEF CreatePod, Place
    <3>4. CASE PodCompleted(a)
      <4>1. \/ Goto(a, "pods") /\ list' = list /\ \E p \in pods : todo' = [todo EXCEPT ![a] = @ \ {p.node}]
            \/ Return(a)
        BY <3>4 DEF PodCompleted, Awaited
      <4>2. CASE Goto(a, "pods") /\ list' = list /\ \E p \in pods : todo' = [todo EXCEPT ![a] = @ \ {p.node}]
        <5>1. \A b \in Updater : todo'[b] \subseteq todo[b]
          BY <4>2 DEF UpdatersType
        <5>2. QED
          BY <3>c, <4>2, <5>1 DEF Place
      <4>3. QED
        BY <3>a, <4>1, <4>2
    <3>5. CASE FinishPods(a)
      BY <3>5, <3>c DEF FinishPods, Place
    <3>6. CASE SighupPods(a)
      BY <3>6, <3>b DEF SighupPods
    <3>7. QED
      BY <3>1, <3>2, <3>3, <3>4, <3>5, <3>6 DEF UpdateInternalLB
  <2>4. CASE Deadline \/ RecordList \/ Restart
    BY <1>a, <1>f, <2>4 DEF Deadline, RecordList, Restart
  <2>5. CASE SetKubeconfigServer
    <3>1. \/ /\ UNCHANGED <<pc, list>>
             /\ todo' = [todo EXCEPT !["command"] = todo["command"] \ {Min(todo["command"])}]
          \/ Return("command")
      BY <2>5 DEF SetKubeconfigServer
    <3>2. \A a \in Updater : /\ list'[a] = list[a] /\ todo'[a] \subseteq todo[a]
                             /\ (pc'[a] = "idle" => pc[a] = "idle")
      BY <1>a, <3>1, ReturnIs DEF UpdatersType
    <3>3. QED
      BY <1>d, <3>2
  <2>6. CASE ChangeLoadBalancer
    <3>1. /\ list'["operator"] = list["operator"] /\ todo' = todo /\ pc'["operator"] = pc["operator"]
          /\ list'["command"] \in {NodeList, list["command"]} /\ pc'["command"] # "idle"
          /\ pc["command"] = "idle"
      BY <1>a, <2>6, GotoPlace DEF ChangeLoadBalancer, UpdatersType, Place
    <3>2. Ok("operator")'
      BY <1>a, <1>d, <3>1
    <3>3. Ok("command")'
      BY <1>a, <1>b, <1>e, <3>1 DEF Known
    <3>4. QED
      BY <1>a, <3>2, <3>3
  <2>7. CASE UNCHANGED <<pc, list, todo>>
    BY <1>d, <2>7
  <2>8. QED
    BY <1>a, <2>1, <2>2, <2>3, <2>4, <2>5, <2>6, <2>7
       DEF Next, OperatorStep, CommandStep, HostStep, RunUpdatePod, StartHAProxy, Join, Label, Leave,
           Lose, ComeBack, vars
<1>2. Names(record)' \subseteq Known'
  <2>1. record' = record \/ record' = list["operator"]
    <3>1. CASE RecordList
      BY <3>1 DEF RecordList
    <3>2. QED
      BY <3>1
         DEF Next, OperatorStep, CommandStep, UpdateInternalLB, Tick, ReconcileInternalLB, StartUpdate,
             CreatePod, PodCompleted, FinishPods, SighupPods, Deadline, SetKubeconfigServer,
             ChangeLoadBalancer, Restart, HostStep, RunUpdatePod, StartHAProxy, Join, Label, Leave,
             Lose, ComeBack, vars
  <2>2. QED
    BY <1>a, <1>b, <2>1 DEF Known
<1>3. QED
  BY <1>1, <1>2 DEF ListsInv, Known

\* An updater that changes neither its place beyond its pod nor its list keeps its pod.
LEMMA PodsStay ==
  ASSUME PodsInv, pods' \subseteq pods, UNCHANGED manifest,
         \A a \in Updater :
           /\ (pc'[a] \in Writing => Hosts(list'[a]) # {})
           /\ \/ \A p \in pods' : p.by # a
              \/ list'[a] = list[a] /\ (pc[a] = "wait" => pc'[a] = "wait")
  PROVE  PodsInv'
<1>1. \A l : (Hosts(l))' = Hosts(l')
  BY DEF Hosts
<1>2. \A p \in pods' : p.by \in Updater => pc'[p.by] = "wait" /\ p.hosts = Hosts(list'[p.by])
  BY DEF PodsInv
<1>3. QED
  BY <1>2 DEF PodsInv, Writing

\* The pods of updates have something to write, one updater has one of them, and one that
\* has succeeded has written its host's manifest.
LEMMA PodsInvStep ==
  ASSUME MembersType, UpdatersType, HostsType, PodsType, ListsInv, PodsInv, [Next]_vars
  PROVE  PodsInv'
<1> USE DEF membership, recorded, hosts, updaters
<1>a. /\ "operator" \in Updater /\ "command" \in Updater /\ Updater = {"operator", "command"}
      /\ "nobody" \notin Updater
  BY DEF Updater
<1>b. \A a \in Updater : pc[a] \in Writing => Hosts(list[a]) # {}
  BY DEF PodsInv
<1>c. \A a \in Updater : pc[a] # "wait" => \A p \in pods : p.by # a
  BY DEF PodsInv
<1>1. CASE Tick
  <2>1. /\ pc'["operator"] = "compare" /\ pc["operator"] = "idle" /\ pc'["command"] = pc["command"]
        /\ list'["command"] = list["command"] /\ pods' = pods /\ manifest' = manifest
    BY <1>1, <1>a, GotoPlace DEF Tick, UpdatersType, Place
  <2>2. QED
    BY <1>a, <1>b, <1>c, <2>1, PodsStay DEF Writing
<1>2. CASE ReconcileInternalLB
  <2>1. /\ pc'["operator"] \in {"start", "idle"} /\ pc["operator"] = "compare"
        /\ pc'["command"] = pc["command"]
        /\ list'["command"] = list["command"] /\ pods' = pods /\ manifest' = manifest
    BY <1>2, <1>a, GotoPlace, IdleIs DEF ReconcileInternalLB, UpdatersType, Place
  <2>2. QED
    BY <1>a, <1>b, <1>c, <2>1, PodsStay DEF Writing
<1>3. CASE \E a \in Updater : UpdateInternalLB(a)
  <2>1. PICK a \in Updater : UpdateInternalLB(a)
    BY <1>3
  <2>2. CASE StartUpdate(a)
    <3>1. /\ pc[a] = "start" /\ list' = list /\ pods' \subseteq pods /\ manifest' = manifest
          /\ pc'[a] \in Writing => Hosts(list[a]) # {}
          /\ \A b \in Updater : b # a => pc'[b] = pc[b]
      <4>1. CASE Hosts(list[a]) = {} /\ Success(a)
        BY <2>2, <4>1, <1>a, SuccessIs DEF StartUpdate, Writing
      <4>2. CASE Hosts(list[a]) # {} /\ Goto(a, "pods")
        BY <2>2, <4>2, GotoPlace DEF StartUpdate, Place
      <4>3. QED
        BY <2>2, <4>1, <4>2 DEF StartUpdate
    <3>2. QED
      BY <1>a, <1>b, <1>c, <3>1, PodsStay
  <2>3. CASE CreatePod(a)
    <3>1. pc[a] = "pods" /\ todo[a] # {} /\ manifest' = manifest
      BY <2>3 DEF CreatePod
    <3>2. CASE Return(a) /\ UNCHANGED pods
      <4>1. /\ pc'[a] \in {"idle", "ended"}
            /\ \A b \in Updater : b # a => pc'[b] = pc[b] /\ list'[b] = list[b]
        BY <3>2, ReturnIs
      <4>2. QED
        BY <1>a, <1>b, <1>c, <3>1, <3>2, <4>1, PodsStay DEF Writing
    <3>3. CASE Goto(a, "wait") /\ pods' = pods \cup {UpdatePod(a, Min(todo[a]))} /\ list' = list
      <4> DEFINE new == UpdatePod(a, Min(todo[a]))
      <4>1. new.by = a /\ new.hosts = Hosts(list[a]) /\ new.phase = "pending"
        BY <3>1, CreatedPod
      <4>2. Hosts(list[a]) # {} /\ Hosts(list[a]) \subseteq Primaries
        BY <1>b, <3>1 DEF Writing, ListsInv
      <4>3. \A p \in pods : p.by # a
        BY <1>c, <3>1
      <4>4. pc'[a] = "wait" /\ \A b \in Updater : b # a => pc'[b] = pc[b]
        BY <3>3, GotoPlace DEF Place
      <4>5. \A l : (Hosts(l))' = Hosts(l')
        BY DEF Hosts
      <4> HIDE DEF new
      <4>6. pods' = pods \cup {new}
        BY <3>3 DEF new
      <4>7. QED
        BY <1>a, <3>1, <3>3, <4>1, <4>2, <4>3, <4>4, <4>5, <4>6 DEF PodsInv, Writing
    <3>4. QED
      BY <2>3, <3>2, <3>3 DEF CreatePod
  <2>4. CASE PodCompleted(a)
    <3>1. /\ pc[a] = "wait" /\ pods' = pods \ Awaited(a) /\ manifest' = manifest
          /\ \/ Goto(a, "pods") /\ list' = list
             \/ Return(a)
      BY <2>4 DEF PodCompleted
    <3>2. /\ pc'[a] \in {"pods", "idle", "ended"} /\ (pc'[a] = "pods" => list'[a] = list[a])
          /\ \A b \in Updater : b # a => pc'[b] = pc[b] /\ list'[b] = list[b]
      BY <3>1, GotoPlace, ReturnIs DEF Place
    <3>3. QED
      BY <1>a, <1>b, <3>1, <3>2, PodsStay DEF Writing, Awaited
  <2>5. CASE FinishPods(a)
    <3>1. /\ pc[a] = "pods" /\ pc'[a] = "sighup" /\ list' = list /\ pods' \subseteq pods
          /\ manifest' = manifest /\ \A b \in Updater : b # a => pc'[b] = pc[b]
      BY <2>5, GotoPlace DEF FinishPods, Place
    <3>2. QED
      BY <1>a, <1>b, <1>c, <3>1, PodsStay DEF Writing
  <2>6. CASE SighupPods(a)
    <3>1. /\ pc[a] = "sighup" /\ pc'[a] \in {"record", "kubeconfig"} /\ list' = list
          /\ pods' = pods /\ manifest' = manifest
          /\ \A b \in Updater : b # a => pc'[b] = pc[b]
      BY <1>a, <2>6, SuccessIs DEF SighupPods
    <3>2. QED
      BY <1>a, <1>b, <1>c, <3>1, PodsStay DEF Writing
  <2>7. QED
    BY <2>1, <2>2, <2>3, <2>4, <2>5, <2>6 DEF UpdateInternalLB
<1>4. CASE Deadline \/ Restart
  <2>1. /\ pods' = Abandoned("operator") /\ Idle /\ manifest' = manifest
    BY <1>4 DEF Deadline, Restart
  <2>2. /\ pc'["operator"] = "idle" /\ pc'["command"] = pc["command"]
        /\ list'["command"] = list["command"]
    BY <2>1, IdleIs
  <2>3. \A p \in pods' :
          \/ p \in pods /\ p.by # "operator"
          \/ /\ p.by = "nobody" /\ p.phase = "pending"
             /\ \E q \in pods : p.node = q.node /\ p.hosts = q.hosts
    BY <1>a, <2>1, AbandonedPods
  <2>4. \A l : (Hosts(l))' = Hosts(l')
    BY DEF Hosts
  <2>5. QED
    BY <1>a, <1>b, <2>1, <2>2, <2>3, <2>4 DEF PodsInv, Writing
<1>5. CASE RecordList
  <2>1. /\ pc["operator"] = "record" /\ pc'["operator"] = "idle" /\ pc'["command"] = pc["command"]
        /\ list'["command"] = list["command"] /\ pods' = pods /\ manifest' = manifest
    BY <1>5, IdleIs DEF RecordList
  <2>2. QED
    BY <1>a, <1>b, <1>c, <2>1, PodsStay DEF Writing
<1>6. CASE SetKubeconfigServer
  <2>1. /\ pc["command"] = "kubeconfig" /\ pods' = pods /\ manifest' = manifest
        /\ UNCHANGED <<pc, list>> \/ Return("command")
    BY <1>6 DEF SetKubeconfigServer
  <2>2. /\ list' = list /\ pc'["command"] \in {"kubeconfig", "ended"}
        /\ pc'["operator"] = pc["operator"]
    BY <1>a, <2>1, ReturnIs
  <2>3. QED
    BY <1>a, <1>b, <1>c, <2>1, <2>2, PodsStay DEF Writing
<1>7. CASE ChangeLoadBalancer
  <2>1. /\ pc["command"] = "idle" /\ pc'["command"] \in {"start", "ended"}
        /\ pc'["operator"] = pc["operator"] /\ list'["operator"] = list["operator"]
        /\ pods' = pods /\ manifest' = manifest
    BY <1>7, <1>a, GotoPlace DEF ChangeLoadBalancer, UpdatersType, Place
  <2>2. QED
    BY <1>a, <1>b, <1>c, <2>1, PodsStay DEF Writing
<1>8. CASE \E n \in Node : RunUpdatePod(n)
  <2>1. PICK n \in Node : RunUpdatePod(n)
    BY <1>8
  <2>2. UNCHANGED <<pc, list>>
    BY <2>1 DEF RunUpdatePod
  <2>3. PICK p \in pods :
          /\ p.node = n
          /\ \/ manifest' = manifest \cup {n} /\ Advance(p, "succeeded")
             \/ manifest' = manifest /\ Advance(p, "failed")
    BY <2>1 DEF RunUpdatePod
  <2>4. PICK phase \in {"succeeded", "failed"} :
          /\ Advance(p, phase) /\ manifest \subseteq manifest'
          /\ phase = "succeeded" => n \in manifest'
    BY <2>3
  <2>5. \A x \in pods' :
          \/ x \in pods /\ x # p
          \/ /\ x.by = p.by /\ p.by # "nobody" /\ x.phase = phase
             /\ x.node = p.node /\ x.hosts = p.hosts
    BY <2>4, AdvancedPods
  <2>6. \A l : (Hosts(l))' = Hosts(l')
    BY DEF Hosts
  <2>7. \A x, y \in pods' : x.by = y.by /\ x.by \in Updater => x = y
    <3>1. p.by = "nobody" => pods' \subseteq pods
      BY <2>4 DEF Advance
    <3>2. p.by # "nobody" => pods' = (pods \ {p}) \cup {[p EXCEPT !.phase = phase]}
      BY <2>4 DEF Advance
    <3>3. [p EXCEPT !.phase = phase].by = p.by
      BY DEF PodsType, PodType
    <3>4. CASE p.by = "nobody"
      BY <3>1, <3>4 DEF PodsInv
    <3>5. CASE p.by # "nobody"
      <4> DEFINE new == [p EXCEPT !.phase = phase]
      <4> HIDE DEF new
      <4>1. pods' = (pods \ {p}) \cup {new} /\ new.by = p.by
        BY <3>2, <3>3, <3>5 DEF new
      <4>2. QED
        BY <4>1 DEF PodsInv
    <3>6. QED
      BY <3>4, <3>5
  <2>8. QED
    BY <1>b, <2>2, <2>3, <2>4, <2>5, <2>6, <2>7 DEF PodsInv
<1>9. CASE \E n \in Node : Leave(n)
  <2>1. PICK n \in Node : Leave(n)
    BY <1>9
  <2>2. /\ pods' = {p \in pods : p.node # n} /\ manifest' = manifest \ {n} /\ UNCHANGED <<pc, list>>
    BY <2>1 DEF Leave
  <2>3. \A l : (Hosts(l))' = Hosts(l')
    BY DEF Hosts
  <2>4. QED
    BY <2>2, <2>3 DEF PodsInv
<1>10. CASE UNCHANGED <<pods, manifest, pc, list>>
  BY <1>b, <1>10, PodsStay
<1>11. QED
  BY <1>1, <1>2, <1>3, <1>4, <1>5, <1>6, <1>7, <1>8, <1>9, <1>10, <1>a
     DEF Next, OperatorStep, CommandStep, HostStep, StartHAProxy, Join, Label, Lose, ComeBack, vars

\* What a start holds of all this.
LEMMA Starts ==
  ASSUME Init
  PROVE  /\ MembersType /\ UpdatersType /\ HostsType /\ PodsType /\ OthersType
         /\ PodsInv /\ ListsInv
<1>1. "idle" \in Place /\ "idle" \notin Writing
  BY DEF Place, Writing
<1>2. MembersType /\ PodsType /\ OthersType
  BY ConstantsAssumption DEF Init, MembersType, PodsType, OthersType
<1>3. UpdatersType
  BY <1>1 DEF Init, UpdatersType
<1>4. HostsType
  BY DEF Init, HostsType
<1>5. PodsInv
  BY <1>1 DEF Init, PodsInv
<1>6. ListsInv
  BY ListNames DEF Init, ListsInv
<1>7. QED
  BY <1>2, <1>3, <1>4, <1>5, <1>6

Types == MembersType /\ UpdatersType /\ HostsType /\ PodsType /\ OthersType

\* The types, the pods and the lists together are inductive.
LEMMA Basics == Spec => [](Types /\ PodsInv /\ ListsInv)
<1>1. Init => Types /\ PodsInv /\ ListsInv
  BY Starts DEF Types
<1>2. Types /\ PodsInv /\ ListsInv /\ [Next]_vars => (Types /\ PodsInv /\ ListsInv)'
  BY MembersStep, UpdatersStep, HostsStep, PodsStep, OthersStep, PodsInvStep, ListsStep DEF Types
<1>3. QED
  BY <1>1, <1>2, PTL DEF Spec

\* Type correctness; that an updater has one pod at most is part of it.
THEOREM TypeCorrect == Spec => []TypeOK
<1>1. Types /\ PodsInv => TypeOK
  <2> SUFFICES ASSUME Types, PodsInv PROVE TypeOK
    OBVIOUS
  <2>1. ASSUME NEW a \in Updater
        PROVE  Cardinality({p \in pods : p.by = a}) <= 1
    <3>1. CASE \A p \in pods : p.by # a
      <4>1. {p \in pods : p.by = a} = {}
        BY <3>1
      <4>2. QED
        BY <4>1, FS_EmptySet
    <3>2. CASE \E p \in pods : p.by = a
      <4>1. PICK p \in pods : p.by = a
        BY <3>2
      <4>2. {q \in pods : q.by = a} = {p}
        BY <4>1 DEF PodsInv
      <4>3. QED
        BY <4>2, FS_Singleton
    <3>3. QED
      BY <3>1, <3>2
  <2>2. QED
    BY <2>1 DEF Types, TypeOK, MembersType, UpdatersType, HostsType, PodsType, OthersType, Place
<1>2. QED
  BY <1>1, Basics, PTL

(* The command: kubeconfigs are pointed behind the balancers.               *)

\* What does not touch the command nor take a manifest from a node that stays.
LEMMA PointedStays ==
  ASSUME PointedInv, pc'["command"] = pc["command"], list'["command"] = list["command"],
         todo'["command"] = todo["command"], pointed' \subseteq pointed,
         \A n \in Names(list["command"]) \cap cluster' :
           n \in cluster /\ (n \in manifest => n \in manifest')
  PROVE  PointedInv'
<1>1. \A l : (Names(l))' = Names(l') /\ (Hosts(l))' = Hosts(l')
  BY DEF Names, Hosts
<1>2. QED
  BY <1>1 DEF PointedInv, Writing

\* The nodes of a list that are there in the next state are there, and, but for those
\* that leave, keep their manifest.
LEMMA ListedStay ==
  ASSUME MembersType, ListsInv, [Next]_vars, NEW a \in Updater, NEW n \in Names(list[a]) \cap cluster'
  PROVE  n \in cluster /\ (n \in manifest => n \in manifest')
<1> USE DEF membership, recorded, hosts, updaters
<1>1. n \in cluster \cup gone
  BY DEF ListsInv
<1>2. CASE \E m \in Node : Join(m) \/ Leave(m) \/ Label(m) \/ Lose(m) \/ ComeBack(m)
  BY <1>1, <1>2 DEF Join, Leave, Label, Lose, ComeBack, MembersType
<1>3. CASE \E m \in Node : HostStep(m)
  BY <1>3 DEF HostStep, RunUpdatePod, StartHAProxy
<1>4. CASE UNCHANGED vars
  BY <1>4 DEF vars
<1>5. QED
  BY <1>2, <1>3, <1>4
     DEF Next, OperatorStep, CommandStep, UpdateInternalLB, Tick, ReconcileInternalLB, StartUpdate,
         CreatePod, PodCompleted, FinishPods, SighupPods, Deadline, RecordList, SetKubeconfigServer,
         ChangeLoadBalancer, Restart

\* The command points to what it has written.
LEMMA PointedStep ==
  ASSUME Types, ListsInv, PodsInv, PointedInv, [Next]_vars
  PROVE  PointedInv'
<1> USE DEF membership, recorded, hosts, updaters
<1> DEFINE mine == list["command"]
<1>a. "operator" \in Updater /\ "command" \in Updater /\ Updater = {"operator", "command"}
  BY DEF Updater
<1>b. MembersType /\ UpdatersType /\ PodsType
  BY DEF Types
<1>c. \A n \in Names(mine) \cap cluster' : n \in cluster /\ (n \in manifest => n \in manifest')
  BY <1>a, <1>b, ListedStay
<1>d. \A l : (Names(l))' = Names(l') /\ (Hosts(l))' = Hosts(l')
  BY DEF Names, Hosts
<1>e. todo["command"] \subseteq Names(mine)
  BY <1>a DEF ListsInv
<1>f. ASSUME Return("command"), pointed' = pointed
      PROVE  PointedInv'
  <2>1. pc'["command"] = "ended" /\ list' = list
    BY <1>a, <1>b, <1>f, ReturnIs
  <2>2. Hosts(mine) # {} /\ pointed # {} => Names(mine) \cap cluster \subseteq manifest
    BY DEF PointedInv
  <2>3. pointed \subseteq Names(mine)
    BY DEF PointedInv
  <2>4. QED
    BY <1>c, <1>d, <1>f, <2>1, <2>2, <2>3 DEF PointedInv, Writing
<1>1. CASE UpdateInternalLB("command")
  <2>1. CASE StartUpdate("command")
    <3>1. pc["command"] = "start" /\ list' = list /\ pointed' = pointed /\ pointed = {}
      BY <2>1 DEF StartUpdate, PointedInv
    <3>2. CASE Hosts(mine) = {} /\ Success("command")
      BY <1>a, <1>b, <1>d, <3>1, <3>2, SuccessIs DEF PointedInv, Writing
    <3>3. CASE Goto("command", "pods") /\ todo' = [todo EXCEPT !["command"] = Names(mine)]
      <4>1. pc'["command"] = "pods" /\ todo'["command"] = Names(mine)
        BY <1>a, <1>b, <3>3, GotoPlace DEF UpdatersType, Place
      <4>2. QED
        BY <1>d, <3>1, <4>1 DEF PointedInv, Writing
    <3>4. QED
      BY <2>1, <3>2, <3>3 DEF StartUpdate
  <2>2. CASE CreatePod("command")
    <3>1. CASE Return("command")
      BY <1>f, <2>2, <3>1 DEF CreatePod
    <3>2. CASE Goto("command", "wait") /\ UNCHANGED <<list, todo>>
      <4>1. pc'["command"] = "wait" /\ pc["command"] = "pods" /\ pointed' = pointed
        BY <1>a, <1>b, <2>2, <3>2, GotoPlace DEF CreatePod, Place
      <4>2. QED
        BY <1>c, <1>d, <3>2, <4>1 DEF PointedInv, Writing
    <3>3. QED
      BY <2>2, <3>1, <3>2 DEF CreatePod
  <2>3. CASE PodCompleted("command")
    <3>1. PICK p \in pods :
            /\ p.by = "command" /\ pc["command"] = "wait" /\ pointed' = pointed
            /\ \/ /\ p.phase = "succeeded" /\ Goto("command", "pods") /\ list' = list
                  /\ todo' = [todo EXCEPT !["command"] = @ \ {p.node}]
               \/ Return("command")
      BY <2>3 DEF PodCompleted, Awaited
    <3>2. CASE p.phase = "succeeded" /\ Goto("command", "pods") /\ list' = list
               /\ todo' = [todo EXCEPT !["command"] = @ \ {p.node}]
      <4>1. pc'["command"] = "pods" /\ todo'["command"] = todo["command"] \ {p.node}
        BY <1>a, <1>b, <3>2, GotoPlace DEF UpdatersType, Place
      <4>2. p.node \in manifest
        BY <3>2 DEF PodsInv
      <4>3. (Names(mine) \ todo["command"]) \cap cluster \subseteq manifest
        BY <3>1 DEF PointedInv, Writing
      <4>4. QED
        BY <1>c, <1>d, <3>1, <3>2, <4>1, <4>2, <4>3 DEF PointedInv, Writing
    <3>3. QED
      BY <1>f, <3>1, <3>2
  <2>4. CASE FinishPods("command")
    <3>1. /\ pc["command"] = "pods" /\ todo["command"] = {} /\ list' = list /\ pointed' = pointed
          /\ pc'["command"] = "sighup" /\ todo' = todo
      BY <1>a, <1>b, <2>4, GotoPlace DEF FinishPods, Place
    <3>2. QED
      BY <1>c, <1>d, <3>1 DEF PointedInv, Writing
  <2>5. CASE SighupPods("command")
    <3>1. /\ pc["command"] = "sighup" /\ list' = list /\ pointed' = pointed
          /\ pc'["command"] = "kubeconfig"
      BY <1>a, <1>b, <2>5, SuccessIs DEF SighupPods
    <3>2. QED
      BY <1>c, <1>d, <3>1 DEF PointedInv, Writing
  <2>6. QED
    BY <1>1, <2>1, <2>2, <2>3, <2>4, <2>5 DEF UpdateInternalLB
<1>2. CASE SetKubeconfigServer
  <2>1. CASE Return("command") /\ pointed' = pointed
    BY <1>f, <2>1
  <2>2. CASE todo["command"] # {} /\ pointed' = pointed \cup {Min(todo["command"])}
             /\ UNCHANGED <<pc, list>>
    <3>1. Min(todo["command"]) \in Names(mine)
      BY <1>a, <1>b, <1>e, <2>2, NextNode DEF UpdatersType
    <3>2. pc["command"] = "kubeconfig"
      BY <1>2 DEF SetKubeconfigServer
    <3>3. QED
      BY <1>c, <1>d, <2>2, <3>1, <3>2 DEF PointedInv, Writing
  <2>3. QED
    BY <1>2, <2>1, <2>2 DEF SetKubeconfigServer
<1>3. CASE ChangeLoadBalancer
  <2>1. /\ pc["command"] = "idle" /\ pc'["command"] \in {"start", "ended"} /\ pointed' = pointed
    BY <1>3, <1>a, <1>b, GotoPlace DEF ChangeLoadBalancer, Place
  <2>2. pointed = {}
    BY <2>1 DEF PointedInv
  <2>3. QED
    BY <1>d, <2>1, <2>2 DEF PointedInv, Writing
<1>4. CASE /\ pc'["command"] = pc["command"] /\ list'["command"] = list["command"]
           /\ todo'["command"] = todo["command"] /\ pointed' \subseteq pointed
  BY <1>4, <1>c, PointedStays
<1>5. CASE UpdateInternalLB("operator")
  <2>1. pointed' = pointed
    BY <1>5 DEF UpdateInternalLB, StartUpdate, CreatePod, PodCompleted, FinishPods, SighupPods
  <2>2. \/ \E x \in Place : Goto("operator", x) /\ list' = list
             /\ (todo' = todo \/ \E S : todo' = [todo EXCEPT !["operator"] = S])
        \/ Return("operator")
        \/ Success("operator") /\ list' = list
    BY <1>5 DEF UpdateInternalLB, StartUpdate, CreatePod, PodCompleted, FinishPods, SighupPods, Place
  <2>3. QED
    BY <1>4, <1>a, <1>b, <2>1, <2>2, GotoPlace, ReturnIs, SuccessIs DEF UpdatersType
<1>6. CASE Tick \/ ReconcileInternalLB \/ Deadline \/ RecordList \/ Restart
  <2>1. pointed' = pointed
    BY <1>6 DEF Tick, ReconcileInternalLB, Deadline, RecordList, Restart
  <2>2. \/ Idle
        \/ Goto("operator", "compare") /\ list' = [list EXCEPT !["operator"] = NodeList] /\ todo' = todo
        \/ Goto("operator", "start") /\ UNCHANGED <<list, todo>>
    BY <1>6 DEF Tick, ReconcileInternalLB, Deadline, RecordList, Restart
  <2>3. QED
    BY <1>4, <1>a, <1>b, <2>1, <2>2, GotoPlace, IdleIs DEF UpdatersType, Place
<1>7. CASE (\E n \in Node : HostStep(n) \/ Join(n) \/ Label(n) \/ Leave(n) \/ Lose(n) \/ ComeBack(n))
           \/ UNCHANGED vars
  BY <1>4, <1>7 DEF HostStep, RunUpdatePod, StartHAProxy, Join, Label, Leave, Lose, ComeBack, vars
<1>8. QED
  BY <1>1, <1>2, <1>3, <1>5, <1>6, <1>7 DEF Next, OperatorStep, CommandStep

\* Whatever fails, whoever deletes the pods and whichever nodes come and go: the command
\* never points a kubeconfig to a balancer that its host does not have.
THEOREM PointedBehindBalancer == Spec => []PointedHasBalancer
<1>1. Init => PointedInv
  <2>1. "command" \in Updater
    BY DEF Updater
  <2>2. QED
    BY <2>1, ListNames DEF Init, PointedInv, Writing
<1>2. PointedInv => PointedHasBalancer
  BY DEF PointedInv, PointedHasBalancer
<1>3. QED
  BY <1>1, <1>2, Basics, PointedStep, PTL DEF Spec

(* The record: what it says of the hosts.                                   *)

\* A signal that reaches every balancer leaves each with its configuration, and one that
\* does not is told of by the history.
LEMMA SignalAgrees ==
  ASSUME Types, NEW a \in Updater, SighupPods(a)
  PROVE  /\ UNCHANGED <<cluster, gone, labelled, record, config, manifest, pods, list>>
         /\ spoilt' \ {"sighup"} = spoilt \ {"sighup"}
         /\ "sighup" \notin spoilt' =>
              \A n \in cluster : config[n] # {} => loaded'[n] \in {{}, config[n]}
<1> USE DEF membership, recorded
<1>1. /\ UNCHANGED <<cluster, gone, labelled, record, config, manifest, pods, list>>
      /\ spoilt' \ {"sighup"} = spoilt \ {"sighup"}
  BY DEF SighupPods
<1>2. ASSUME "sighup" \notin spoilt', NEW n \in cluster, config[n] # {}
      PROVE  loaded'[n] \in {{}, config[n]}
  <2>1. loaded' = Reloaded(Running \cap up) /\ Running \subseteq up
    BY <1>2 DEF SighupPods
  <2>2. n \in Node
    BY DEF Types, MembersType
  <2>3. loaded'[n] = IF n \in Running THEN config[n] ELSE loaded[n]
    BY <1>2, <2>1, <2>2 DEF Reloaded
  <2>4. QED
    BY <2>3 DEF Running
<1>3. QED
  BY <1>1, <1>2

\* What the history tells is kept up by both updaters.
LEMMA HistoryStep ==
  ASSUME Types, PodsInv, HistoryInv, [Next]_vars
  PROVE  HistoryInv'
<1> USE DEF membership, recorded, hosts, updaters, Updating, Alone
<1>a. "operator" \in Updater /\ "command" \in Updater /\ Updater = {"operator", "command"}
  BY DEF Updater
<1>b. UpdatersType /\ PodsType
  BY DEF Types
<1>c. \A p \in pods : p.by = "operator" => pc["operator"] = "wait"
  BY <1>a DEF PodsInv
<1>d. ASSUME spoilt' \ {"sighup"} = spoilt \ {"sighup"}, \A x \in pods' : \E p \in pods : x.by = p.by,
             pc'["operator"] \in Updating => pc["operator"] \in Updating,
             pc'["command"] \in {"start", "pods", "wait"} => pc["command"] \in {"start", "pods", "wait"}
      PROVE  HistoryInv'
  <2>1. "halfway" \in spoilt' <=> "halfway" \in spoilt
    BY <1>d
  <2>2. "command" \in spoilt' <=> "command" \in spoilt
    BY <1>d
  <2>3. "leftover" \in spoilt' <=> "leftover" \in spoilt
    BY <1>d
  <2>4. QED
    BY <1>d, <2>1, <2>2, <2>3 DEF HistoryInv
<1>1. CASE UpdateInternalLB("operator")
  <2>1. CASE StartUpdate("operator")
    <3>1. /\ pc'["operator"] \in {"pods", "record"} /\ pc'["command"] = pc["command"]
      BY <1>a, <1>b, <2>1, GotoPlace, SuccessIs DEF StartUpdate, Place
    <3>2. \/ pods' = {} /\ spoilt' = Doubts("operator", TRUE)
          \/ pods' = pods /\ spoilt' = Doubts("operator", pods = {})
      BY <2>1 DEF StartUpdate
    <3>3. "halfway" \in spoilt'
      BY <3>2 DEF Doubts
    <3>4. pc["command"] \in {"start", "pods", "wait"} => "command" \in spoilt'
      BY <3>2 DEF Doubts
    <3>5. "leftover" \in spoilt' \/ pods' = {}
      BY <3>2 DEF Doubts
    <3>6. QED
      BY <3>1, <3>3, <3>4, <3>5 DEF HistoryInv
  <2>2. CASE CreatePod("operator")
    <3>1. pc["operator"] = "pods" /\ spoilt' = spoilt /\ todo["operator"] # {}
      BY <2>2 DEF CreatePod
    <3>2. CASE Return("operator") /\ UNCHANGED pods
      BY <1>a, <1>b, <1>d, <3>1, <3>2, ReturnIs
    <3>3. CASE Goto("operator", "wait") /\ pods' = pods \cup {UpdatePod("operator", Min(todo["operator"]))}
      <4>1. pc'["operator"] = "wait" /\ pc'["command"] = pc["command"]
        BY <1>a, <1>b, <3>3, GotoPlace DEF Place
      <4>2. UpdatePod("operator", Min(todo["operator"])).by = "operator"
        BY DEF UpdatePod
      <4>3. QED
        BY <3>1, <3>3, <4>1, <4>2 DEF HistoryInv
    <3>4. QED
      BY <2>2, <3>2, <3>3 DEF CreatePod
  <2>3. CASE PodCompleted("operator")
    <3>1. /\ pc["operator"] = "wait" /\ spoilt' = spoilt /\ pods' \subseteq pods
          /\ Goto("operator", "pods") \/ Return("operator")
      BY <2>3 DEF PodCompleted
    <3>2. QED
      BY <1>a, <1>b, <1>d, <3>1, GotoPlace, ReturnIs DEF Place
  <2>4. CASE FinishPods("operator")
    <3>1. /\ pc["operator"] = "pods" /\ spoilt' = spoilt /\ pods' \subseteq pods
          /\ Goto("operator", "sighup")
      BY <2>4 DEF FinishPods
    <3>2. QED
      BY <1>a, <1>b, <1>d, <3>1, GotoPlace DEF Place
  <2>5. CASE SighupPods("operator")
    <3>1. pc["operator"] = "sighup" /\ pc'["command"] = pc["command"]
      BY <1>a, <1>b, <2>5, SuccessIs DEF SighupPods
    <3>2. QED
      BY <1>a, <1>d, <2>5, <3>1, SignalAgrees
  <2>6. QED
    BY <1>1, <2>1, <2>2, <2>3, <2>4, <2>5 DEF UpdateInternalLB
<1>2. CASE UpdateInternalLB("command")
  <2>1. pc'["operator"] = pc["operator"]
    <3>1. (\E x \in Place : Goto("command", x)) \/ Return("command") \/ (Success("command") /\ list' = list)
      BY <1>2 DEF UpdateInternalLB, StartUpdate, CreatePod, PodCompleted, FinishPods, SighupPods, Place
    <3>2. QED
      BY <1>a, <1>b, <3>1, GotoPlace, ReturnIs, SuccessIs
  <2>2. CASE pc["command"] \in {"start", "pods", "wait"}
    <3>1. "command" \in spoilt
      BY <2>2 DEF HistoryInv
    <3>2. spoilt' = spoilt
      BY <1>2, <2>2
         DEF UpdateInternalLB, StartUpdate, CreatePod, PodCompleted, FinishPods, SighupPods, Doubts
    <3>3. QED
      BY <2>1, <3>1, <3>2 DEF HistoryInv
  <2>3. CASE SighupPods("command")
    <3>1. pc'["command"] = "kubeconfig"
      BY <1>a, <1>b, <2>3, SuccessIs DEF SighupPods
    <3>2. QED
      BY <1>a, <1>d, <2>1, <2>3, <3>1, SignalAgrees
  <2>4. QED
    BY <1>2, <2>2, <2>3 DEF UpdateInternalLB, StartUpdate, CreatePod, PodCompleted, FinishPods
<1>3. CASE Tick \/ ReconcileInternalLB
  <2>1. spoilt' = spoilt /\ pods' = pods
    BY <1>3 DEF Tick, ReconcileInternalLB
  <2>2. pc'["command"] = pc["command"] /\ pc'["operator"] \notin Updating
    BY <1>3, <1>a, <1>b, GotoPlace, IdleIs DEF Tick, ReconcileInternalLB, Place
  <2>3. QED
    BY <1>d, <2>1, <2>2
<1>4. CASE Deadline \/ Restart
  <2>1. pods' = Abandoned("operator") /\ spoilt' = spoilt
    BY <1>4 DEF Deadline, Restart
  <2>2. pc'["operator"] = "idle" /\ pc'["command"] = pc["command"]
    BY <1>4, <1>b, IdleIs DEF Deadline, Restart
  <2>3. \A p \in pods' : \/ p \in pods /\ p.by # "operator"
                       \/ \E q \in pods : q.by = "operator"
    BY <1>a, <1>b, <2>1, AbandonedPods
  <2>4. QED
    BY <1>c, <2>1, <2>2, <2>3 DEF HistoryInv
<1>5. CASE RecordList
  <2>1. /\ pc["operator"] = "record" /\ pods' = pods
        /\ spoilt' = spoilt \/ spoilt' = spoilt \ {"halfway"}
    BY <1>5 DEF RecordList
  <2>2. pc'["operator"] = "idle" /\ pc'["command"] = pc["command"]
    BY <1>5, <1>b, IdleIs DEF RecordList
  <2>3. Alone => pods = {}
    BY <1>c, <2>1 DEF HistoryInv
  <2>4. QED
    BY <2>1, <2>2, <2>3 DEF HistoryInv
<1>6. CASE SetKubeconfigServer
  <2>1. /\ spoilt' = spoilt /\ pods' = pods /\ pc["command"] = "kubeconfig"
        /\ pc' = pc \/ Return("command")
    BY <1>6 DEF SetKubeconfigServer
  <2>2. pc'["operator"] = pc["operator"] /\ pc'["command"] \in {"kubeconfig", "ended"}
    BY <1>a, <1>b, <2>1, ReturnIs
  <2>3. QED
    BY <1>d, <2>1, <2>2
<1>7. CASE ChangeLoadBalancer
  <2>1. /\ pods' = pods /\ pc'["operator"] = pc["operator"]
        /\ \/ pc'["command"] = "start" /\ spoilt' = spoilt \cup {"command"}
           \/ pc'["command"] = "ended" /\ spoilt' = spoilt
    BY <1>7, <1>a, <1>b, GotoPlace DEF ChangeLoadBalancer, Place
  <2>2. QED
    BY <2>1 DEF HistoryInv
<1>8. CASE \E n \in Node : RunUpdatePod(n)
  <2>1. pc' = pc /\ spoilt' = spoilt /\ \E p \in pods : Advance(p, "succeeded") \/ Advance(p, "failed")
    BY <1>8 DEF RunUpdatePod
  <2>2. \A x \in pods' : \E p \in pods : x.by = p.by
    BY <1>b, <2>1, AdvancedPods
  <2>3. QED
    BY <1>d, <2>1, <2>2
<1>9. CASE pc' = pc /\ spoilt' = spoilt /\ pods' \subseteq pods
  BY <1>9, <1>d
<1>10. QED
  BY <1>1, <1>2, <1>3, <1>4, <1>5, <1>6, <1>7, <1>8, <1>9
     DEF Next, OperatorStep, CommandStep, HostStep, StartHAProxy, Join, Label, Leave, Lose, ComeBack, vars

\* What changes neither the operator's place and list nor, on the nodes of the lists, what
\* is written there.
LEMMA WrittenStays ==
  ASSUME WrittenInv, record' = record,
         spoilt' \cap {"leftover", "command"} = spoilt \cap {"leftover", "command"},
         "halfway" \in spoilt' <=> "halfway" \in spoilt, "sighup" \in spoilt' <=> "sighup" \in spoilt,
         pc'["operator"] = pc["operator"] \/ pc'["operator"] \notin Updating,
         pc'["operator"] = pc["operator"] =>
           pc["operator"] \notin Updating \/
             (list'["operator"] = list["operator"] /\ todo'["operator"] = todo["operator"]),
         \A n \in (Names(list["operator"]) \cup Names(record)) \cap cluster' :
           /\ n \in cluster /\ config'[n] = config[n] /\ loaded'[n] \in {loaded[n], config[n]}
           /\ n \in manifest => n \in manifest',
         \A p \in pods' : p \in pods /\ config'[p.node] = config[p.node]
  PROVE  WrittenInv'
<1>1. \A l : (Names(l))' = Names(l') /\ (Hosts(l))' = Hosts(l')
  BY DEF Names, Hosts
<1>2. Alone' <=> Alone
  BY DEF Alone
<1>3. QED
  BY <1>1, <1>2 DEF WrittenInv, Updating, Has, Agrees

\* The operator's update, by itself, writes what it records.
LEMMA WrittenStep ==
  ASSUME Types, PodsInv, ListsInv, HistoryInv, WrittenInv, [Next]_vars
  PROVE  WrittenInv'
<1> USE DEF membership, recorded, hosts, updaters
<1> DEFINE mine == list["operator"]
<1>a. "operator" \in Updater /\ "command" \in Updater /\ Updater = {"operator", "command"}
  BY DEF Updater
<1>b. UpdatersType /\ PodsType /\ MembersType /\ HostsType
  BY DEF Types
<1>c. \A p \in pods : p.by = "operator" => pc["operator"] = "wait" /\ p.hosts = Hosts(mine)
  BY <1>a DEF PodsInv
<1>d. \A l : (Names(l))' = Names(l') /\ (Hosts(l))' = Hosts(l')
  BY DEF Names, Hosts
<1>e. pc["operator"] \in Updating => "halfway" \in spoilt
  BY DEF HistoryInv
<1>f. pc["operator"] \in Writing => Hosts(mine) # {}
  BY <1>a DEF PodsInv
\* An update that ends in an error, or is stopped, is told of by the history.
<1>g. ASSUME pc'["operator"] = "idle", spoilt' = spoilt,
             UNCHANGED <<record, cluster, config, manifest, loaded>>
      PROVE  WrittenInv'
  BY <1>d, <1>g DEF WrittenInv, Updating, Alone, Has, Agrees
<1>1. CASE UpdateInternalLB("operator")
  <2>1. CASE StartUpdate("operator")
    <3>1. /\ UNCHANGED <<list, record, cluster, config, manifest, loaded>>
          /\ \/ pods' = {} /\ spoilt' = Doubts("operator", TRUE)
             \/ pods' = pods /\ spoilt' = Doubts("operator", pods = {})
      BY <2>1 DEF StartUpdate
    <3>2. "halfway" \in spoilt' /\ (Alone' => pods' = {})
      BY <3>1 DEF Doubts, Alone
    <3>3. CASE Hosts(mine) = {} /\ Success("operator")
      <4>1. pc'["operator"] = "record"
        BY <1>a, <1>b, <3>1, <3>3, SuccessIs
      <4>2. QED
        BY <1>d, <3>1, <3>2, <3>3, <4>1 DEF WrittenInv
    <3>4. CASE Goto("operator", "pods") /\ todo' = [todo EXCEPT !["operator"] = Names(mine)]
      <4>1. pc'["operator"] = "pods" /\ todo'["operator"] = Names(mine)
        BY <1>a, <1>b, <3>4, GotoPlace DEF UpdatersType, Place
      <4>2. QED
        BY <1>d, <3>1, <3>2, <4>1 DEF WrittenInv
    <3>5. QED
      BY <2>1, <3>3, <3>4 DEF StartUpdate
  <2>2. CASE CreatePod("operator")
    <3>1. /\ pc["operator"] = "pods" /\ spoilt' = spoilt /\ todo["operator"] # {}
          /\ UNCHANGED <<record, cluster, config, manifest, loaded>>
      BY <2>2 DEF CreatePod
    <3>2. CASE Return("operator")
      BY <1>a, <1>b, <1>g, <3>1, <3>2, ReturnIs
    <3>3. CASE /\ Goto("operator", "wait") /\ UNCHANGED <<list, todo>>
               /\ pods' = pods \cup {UpdatePod("operator", Min(todo["operator"]))}
      <4>1. pc'["operator"] = "wait"
        BY <1>a, <1>b, <3>3, GotoPlace DEF Place
      <4>2. LET p == UpdatePod("operator", Min(todo["operator"])) IN
              p.phase = "pending" /\ p.node \in todo["operator"]
        BY <1>a, <1>b, <3>1, CreatedPod
      <4>3. \A p \in pods' : p \in pods \/ (p.phase = "pending" /\ p.node \in todo["operator"])
        BY <3>3, <4>2
      <4>4. QED
        BY <1>d, <1>e, <3>1, <3>3, <4>1, <4>3 DEF WrittenInv, Updating, Alone, Has
    <3>4. QED
      BY <2>2, <3>2, <3>3 DEF CreatePod
  <2>3. CASE PodCompleted("operator")
    <3>1. PICK p \in pods :
            /\ p.by = "operator" /\ pc["operator"] = "wait" /\ spoilt' = spoilt
            /\ pods' = {x \in pods : x.by # "operator"}
            /\ UNCHANGED <<record, cluster, config, manifest, loaded>>
            /\ \/ /\ p.phase = "succeeded" /\ Goto("operator", "pods") /\ list' = list
                  /\ todo' = [todo EXCEPT !["operator"] = @ \ {p.node}]
               \/ Return("operator")
      BY <2>3 DEF PodCompleted, Awaited
    <3>2. CASE Return("operator")
      BY <1>a, <1>b, <1>g, <3>1, <3>2, ReturnIs
    <3>3. CASE /\ p.phase = "succeeded" /\ Goto("operator", "pods") /\ list' = list
               /\ todo' = [todo EXCEPT !["operator"] = @ \ {p.node}]
      <4>1. pc'["operator"] = "pods" /\ todo'["operator"] = todo["operator"] \ {p.node}
        BY <1>a, <1>b, <3>3, GotoPlace DEF UpdatersType, Place
      <4>2. p.node \in manifest
        BY <3>3 DEF PodsInv
      <4>3. Alone' => Alone /\ pods' = {}
        BY <1>e, <3>1 DEF Alone, HistoryInv, Updating
      <4>4. QED
        BY <1>d, <1>e, <1>f, <3>1, <3>3, <4>1, <4>2, <4>3 DEF WrittenInv, Updating, Writing, Has
    <3>4. QED
      BY <3>1, <3>2, <3>3
  <2>4. CASE FinishPods("operator")
    <3>1. /\ pc["operator"] = "pods" /\ spoilt' = spoilt /\ pods' \subseteq pods
          /\ todo["operator"] = {} /\ UNCHANGED <<list, todo, record, cluster, config, manifest, loaded>>
          /\ pc'["operator"] = "sighup"
      BY <1>a, <1>b, <2>4, GotoPlace DEF FinishPods, Place
    <3>2. Hosts(mine) # {}
      BY <1>f, <3>1 DEF Writing
    <3>3. QED
      BY <1>d, <1>e, <3>1, <3>2 DEF WrittenInv, Updating, Alone, Has
  <2>5. CASE SighupPods("operator")
    <3>1. pc["operator"] = "sighup" /\ pc'["operator"] = "record" /\ todo' = todo /\ list' = list
      BY <1>a, <1>b, <2>5, SuccessIs DEF SighupPods
    <3>2. /\ UNCHANGED <<cluster, record, config, manifest, pods>>
          /\ spoilt' \ {"sighup"} = spoilt \ {"sighup"}
          /\ "sighup" \notin spoilt' =>
               \A n \in cluster : config[n] # {} => loaded'[n] \in {{}, config[n]}
      BY <1>a, <2>5, SignalAgrees
    <3>3. "halfway" \in spoilt' /\ (Alone' => Alone)
      BY <1>e, <3>1, <3>2 DEF Updating, Alone
    <3>4. QED
      BY <1>d, <3>1, <3>2, <3>3 DEF WrittenInv, Updating, Has, Agrees
  <2>6. QED
    BY <1>1, <2>1, <2>2, <2>3, <2>4, <2>5 DEF UpdateInternalLB
<1>2. CASE UpdateInternalLB("command")
  <2>1. /\ pc'["operator"] = pc["operator"] /\ list'["operator"] = list["operator"]
        /\ todo'["operator"] = todo["operator"]
    <3>1. \/ \E x \in Place : Goto("command", x) /\ list' = list
               /\ (todo' = todo \/ \E S : todo' = [todo EXCEPT !["command"] = S])
          \/ Return("command")
          \/ Success("command") /\ list' = list
      BY <1>2 DEF UpdateInternalLB, StartUpdate, CreatePod, PodCompleted, FinishPods, SighupPods, Place
    <3>2. QED
      BY <1>a, <1>b, <3>1, GotoPlace, ReturnIs, SuccessIs DEF UpdatersType
  <2>2. CASE pc["command"] \in {"start", "pods", "wait"}
    <3>1. "command" \in spoilt
      BY <2>2 DEF HistoryInv
    <3>2. spoilt' = spoilt
      BY <1>2, <2>2
         DEF UpdateInternalLB, StartUpdate, CreatePod, PodCompleted, FinishPods, SighupPods, Doubts
    <3>3. QED
      BY <1>d, <2>1, <3>1, <3>2 DEF WrittenInv, Alone
  <2>3. CASE SighupPods("command")
    <3>1. /\ UNCHANGED <<cluster, record, config, manifest, pods>>
          /\ spoilt' \ {"sighup"} = spoilt \ {"sighup"}
          /\ "sighup" \notin spoilt' =>
               \A n \in cluster : config[n] # {} => loaded'[n] \in {{}, config[n]}
      BY <1>a, <2>3, SignalAgrees
    <3>2. ("halfway" \in spoilt' <=> "halfway" \in spoilt) /\ (Alone' => Alone)
      BY <3>1 DEF Alone
    <3>3. QED
      BY <1>d, <2>1, <3>1, <3>2 DEF WrittenInv, Updating, Has, Agrees
  <2>4. QED
    BY <1>2, <2>2, <2>3 DEF UpdateInternalLB, StartUpdate, CreatePod, PodCompleted, FinishPods
<1>3. CASE Tick \/ ReconcileInternalLB
  <2>1. UNCHANGED <<spoilt, pods, record, cluster, config, manifest, loaded>>
    BY <1>3 DEF Tick, ReconcileInternalLB
  <2>2. pc'["operator"] \in {"compare", "start", "idle"}
    BY <1>3, <1>a, <1>b, GotoPlace, IdleIs DEF Tick, ReconcileInternalLB, Place
  <2>3. QED
    BY <1>d, <2>1, <2>2 DEF WrittenInv, Updating, Alone, Has, Agrees
<1>4. CASE Deadline \/ Restart
  BY <1>4, <1>b, <1>g, IdleIs DEF Deadline, Restart
<1>5. CASE RecordList
  <2>1. /\ pc["operator"] = "record" /\ UNCHANGED <<cluster, config, manifest, loaded>>
        /\ pc'["operator"] = "idle"
    BY <1>5, <1>b, IdleIs DEF RecordList
  <2>2. CASE record' = mine /\ spoilt' = spoilt \ {"halfway"}
    <3>1. Alone' <=> Alone
      BY <2>2 DEF Alone
    <3>2. "sighup" \in spoilt' <=> "sighup" \in spoilt
      BY <2>2
    <3>3. QED
      BY <1>d, <2>1, <2>2, <3>1, <3>2 DEF WrittenInv, Updating, Has, Agrees
  <2>3. CASE UNCHANGED <<record, spoilt>>
    BY <1>g, <2>1, <2>3
  <2>4. QED
    BY <1>5, <2>2, <2>3 DEF RecordList
<1>6. CASE SetKubeconfigServer
  <2>1. /\ UNCHANGED <<spoilt, pods, record, cluster, config, manifest, loaded>>
        /\ \/ /\ UNCHANGED <<pc, list>>
              /\ todo' = [todo EXCEPT !["command"] = todo["command"] \ {Min(todo["command"])}]
           \/ Return("command")
    BY <1>6 DEF SetKubeconfigServer
  <2>2. /\ pc'["operator"] = pc["operator"] /\ list'["operator"] = list["operator"]
        /\ todo'["operator"] = todo["operator"]
    BY <1>a, <1>b, <2>1, ReturnIs DEF UpdatersType
  <2>3. QED
    BY <2>1, <2>2, WrittenStays
<1>7. CASE ChangeLoadBalancer
  <2>1. /\ UNCHANGED <<pods, record, cluster, config, manifest, loaded, todo>>
        /\ pc'["operator"] = pc["operator"] /\ list'["operator"] = list["operator"]
        /\ spoilt' \in {spoilt, spoilt \cup {"command"}}
    BY <1>7, <1>a, <1>b, GotoPlace DEF ChangeLoadBalancer, Place, UpdatersType
  <2>2. CASE spoilt' = spoilt
    BY <2>1, <2>2, WrittenStays
  <2>3. CASE spoilt' = spoilt \cup {"command"}
    BY <1>d, <2>1, <2>3 DEF WrittenInv, Alone
  <2>4. QED
    BY <2>1, <2>2, <2>3
<1>8. CASE \E n \in Node : RunUpdatePod(n)
  <2>1. PICK n \in Node : RunUpdatePod(n)
    BY <1>8
  <2>2. UNCHANGED <<pc, list, todo, spoilt, record, cluster, loaded>>
    BY <2>1 DEF RunUpdatePod
  <2>3. PICK p \in pods :
          /\ p.node = n
          /\ \/ /\ config' = [config EXCEPT ![n] = p.hosts] /\ manifest' = manifest \cup {n}
                /\ Advance(p, "succeeded")
             \/ /\ config' \in {config, [config EXCEPT ![n] = {}], [config EXCEPT ![n] = p.hosts]}
                /\ manifest' = manifest /\ Advance(p, "failed")
    BY <2>1 DEF RunUpdatePod
  <2>4. Alone => p.by = "operator" \/ (pc["operator"] \notin Updating /\ "halfway" \in spoilt)
    BY DEF HistoryInv
  <2>5. CASE Alone /\ pc["operator"] = "wait"
    <3>1. p.hosts = Hosts(mine) /\ Hosts(mine) # {}
      BY <1>c, <1>f, <2>4, <2>5 DEF Updating, Writing
    <3>2. \A m \in Node : m # p.node => config'[m] = config[m]
      BY <1>b, <2>3 DEF HostsType
    <3>3. \A x \in pods' : x.node = p.node /\ (x.phase = "succeeded" => config'[x.node] = Hosts(mine))
      <4>1. \A x \in pods : x = p
        BY <1>a, <2>4, <2>5 DEF PodsInv, HistoryInv, Updating
      <4>2. CASE Advance(p, "failed")
        BY <1>b, <4>1, <4>2, AdvancedPods
      <4>3. CASE config' = [config EXCEPT ![n] = p.hosts] /\ Advance(p, "succeeded")
        <5>1. config'[p.node] = Hosts(mine)
          BY <1>b, <2>3, <3>1, <4>3 DEF HostsType
        <5>2. QED
          BY <1>b, <4>1, <4>3, <5>1, AdvancedPods
      <4>4. QED
        BY <2>3, <4>2, <4>3
    <3>4. \A x \in pods : x.node \in Node
      BY <1>b DEF PodsType, PodType
    <3>5. \A m \in Names(mine) : m \in Node
      BY <1>a, <1>b, ListNames DEF UpdatersType
    <3>6. Alone' /\ pc'["operator"] = "wait" /\ "halfway" \in spoilt'
      BY <1>e, <2>2, <2>5 DEF Alone, Updating
    <3>7. \A m : m \in manifest => m \in manifest'
      BY <2>3
    <3>8. QED
      BY <1>d, <2>2, <2>5, <3>1, <3>2, <3>3, <3>4, <3>5, <3>6, <3>7 DEF WrittenInv, Updating, Has
  <2>6. CASE Alone /\ pc["operator"] # "wait"
    <3>1. pc["operator"] \notin Updating /\ "halfway" \in spoilt
      BY <1>c, <2>4, <2>6
    <3>2. QED
      BY <1>d, <2>2, <3>1 DEF WrittenInv, Updating
  <2>7. CASE ~Alone
    <3>1. ~Alone'
      BY <2>2, <2>7 DEF Alone
    <3>2. QED
      BY <1>d, <2>2, <3>1 DEF WrittenInv
  <2>8. QED
    BY <2>5, <2>6, <2>7
<1>9. CASE \E n \in Node : StartHAProxy(n)
  <2>1. PICK n \in Node : StartHAProxy(n)
    BY <1>9
  <2>2. /\ UNCHANGED <<pc, list, todo, spoilt, record, cluster, config, manifest, pods>>
        /\ loaded' = [loaded EXCEPT ![n] = config[n]]
    BY <2>1 DEF StartHAProxy
  <2>3. \A m \in Node : loaded'[m] \in {loaded[m], config[m]}
    BY <1>b, <2>2 DEF HostsType
  <2>4. cluster \subseteq Node
    BY <1>b DEF MembersType
  <2>5. QED
    BY <2>2, <2>3, <2>4, WrittenStays
<1>10. CASE \E n \in Node : Join(n) \/ Leave(n)
  <2>1. PICK n \in Node : Join(n) \/ Leave(n)
    BY <1>10
  <2>2. UNCHANGED <<pc, list, todo, spoilt, record>>
    BY <2>1 DEF Join, Leave
  <2>3. Names(mine) \cup Names(record) \subseteq cluster \cup gone
    BY <1>a DEF ListsInv
  <2>4. CASE Join(n)
    BY <2>2, <2>3, <2>4, WrittenStays DEF Join
  <2>5. CASE Leave(n)
    <3>1. /\ config' = [config EXCEPT ![n] = {}] /\ loaded' = [loaded EXCEPT ![n] = {}]
          /\ manifest' = manifest \ {n} /\ cluster' = cluster \ {n}
          /\ pods' = {p \in pods : p.node # n}
      BY <2>5 DEF Leave
    <3>2. \A m : m # n => config'[m] = config[m] /\ loaded'[m] = loaded[m]
      BY <1>b, <3>1 DEF HostsType
    <3>3. QED
      BY <2>2, <3>1, <3>2, WrittenStays
  <2>6. QED
    BY <2>1, <2>4, <2>5
<1>11. CASE UNCHANGED <<pc, list, todo, spoilt, record, cluster, config, manifest, loaded, pods>>
  BY <1>11, WrittenStays
<1>12. QED
  BY <1>1, <1>2, <1>3, <1>4, <1>5, <1>6, <1>7, <1>8, <1>9, <1>10, <1>11
     DEF Next, OperatorStep, CommandStep, HostStep, Label, Lose, ComeBack, vars

\* Unless the history tells of one of the four things, what is recorded is on the hosts,
\* and the balancers run with it.
THEOREM RecordWritten == Spec => []RecordedIsWritten
<1>1. Init => HistoryInv /\ WrittenInv
  <2>1. ASSUME Init
        PROVE  pc["operator"] = "idle" /\ pc["command"] = "idle" /\ pods = {} /\ Hosts(record) = {}
    BY <2>1, ListNames DEF Init, Updater
  <2>2. QED
    BY <2>1 DEF HistoryInv, WrittenInv, Updating
<1>2. HistoryInv /\ WrittenInv => RecordedIsWritten
  BY DEF WrittenInv, RecordedIsWritten, Alone, Has, Agrees
<1>3. QED
  BY <1>1, <1>2, Basics, HistoryStep, WrittenStep, PTL DEF Spec
==============================================================================
