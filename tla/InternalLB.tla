------------------------------ MODULE InternalLB ------------------------------
(***************************************************************************)
(* The internal load balancer, an haproxy on every node.  The operator     *)
(* updates its configuration when the node list differs from the one       *)
(* recorded in a ConfigMap; the command change-load-balancer makes the     *)
(* same update, unrecorded, and then points the kubeconfigs of the nodes   *)
(* to it.  An update runs one pod after the other and waits for each; both *)
(* updaters delete the pods of an update by one label.                     *)
(***************************************************************************)
EXTENDS Integers, FiniteSetsExt

CONSTANTS
  Node, Primaries, InitNodes,   \* nodes, in the order of a node list; those there at first
  Exclude,                      \* the command's --exclude: a set of at most one node
  MaxDisturbances               \* a bound on failures, losses, restarts and commands

ASSUME ConstantsAssumption ==
  /\ Node \subseteq Nat /\ IsFiniteSet(Node)
  /\ Primaries \subseteq Node /\ InitNodes \subseteq Node /\ Exclude \subseteq Node
  /\ MaxDisturbances \in Nat

Updater == {"operator", "command"}
Props == Node \X BOOLEAN   \* a node of a list, and whether it is labelled a primary
PodType == [by: Updater \cup {"nobody"}, node: Node, hosts: SUBSET Node,
            phase: {"pending", "succeeded", "failed"}]

VARIABLES
  cluster, labelled, up, gone,   \* Node objects; of them primaries, and reachable; removed ones
  recordMap, record,             \* the ConfigMap exists; the node list it records
  config, manifest, loaded,      \* hosts: haproxy.cfg, haproxy.yaml, what haproxy runs with
  pods,                          \* the pods of updates; "nobody" waits for those left behind
  pc, list, todo,                \* each updater: where it is, its node list, nodes to come
  pointed,                       \* the nodes whose kubeconfig has the command's server
  spoilt,                        \* history: what made the record doubtful since it was written
  disturbances

membership == <<cluster, labelled, gone>>
recorded == <<recordMap, record>>
hosts == <<config, manifest, loaded>>
updaters == <<pc, list, todo>>
vars == <<membership, up, recorded, hosts, pods, updaters, pointed, spoilt, disturbances>>

Names(l) == {p[1] : p \in l}
\* primaryHosts
Hosts(l) == {p[1] : p \in {q \in l : q[2]}}
NodeList == {<<n, n \in labelled>> : n \in cluster}
Running == {n \in cluster : loaded[n] # {}}

TypeOK ==
  /\ labelled \subseteq cluster \cap Primaries /\ cluster \subseteq Node \ gone
  /\ up \subseteq Node /\ gone \subseteq Node
  /\ recordMap \in BOOLEAN /\ record \subseteq Props
  /\ config \in [Node -> SUBSET Primaries] /\ loaded \in [Node -> SUBSET Primaries]
  /\ manifest \subseteq Node
  /\ pods \subseteq PodType
  /\ \A a \in Updater : Cardinality({p \in pods : p.by = a}) <= 1
  /\ pc \in [Updater -> {"idle", "compare", "start", "pods", "wait", "sighup",
                         "record", "kubeconfig", "ended"}]
  /\ list \in [Updater -> SUBSET Props] /\ todo \in [Updater -> SUBSET Node]
  /\ pointed \subseteq Node
  /\ spoilt \subseteq {"halfway", "leftover", "command", "sighup"}
  /\ disturbances \in Nat

Init ==
  /\ cluster = InitNodes /\ labelled = InitNodes \cap Primaries /\ up = Node /\ gone = {}
  /\ recordMap = FALSE /\ record = {}
  /\ config = [n \in Node |-> {}] /\ manifest = {} /\ loaded = [n \in Node |-> {}]
  /\ pods = {} /\ pointed = {} /\ spoilt = {}
  /\ pc = [a \in Updater |-> "idle"]
  /\ list = [a \in Updater |-> {}] /\ todo = [a \in Updater |-> {}]
  /\ disturbances = 0

-----------------------------------------------------------------------------
Works == UNCHANGED disturbances
Disturbs == disturbances < MaxDisturbances /\ disturbances' = disturbances + 1

Goto(a, s) == pc' = [pc EXCEPT ![a] = s]

\* The operator is back in Poll, and the locals of its tick are gone.
Idle ==
  /\ Goto("operator", "idle")
  /\ list' = [list EXCEPT !["operator"] = {}] /\ todo' = [todo EXCEPT !["operator"] = {}]

\* What follows UpdateInternalLB when it returns nil, and when it returns an error.
Success(a) ==
  IF a = "operator" THEN Goto(a, "record") /\ UNCHANGED todo
  ELSE Goto(a, "kubeconfig") /\ todo' = [todo EXCEPT ![a] = Names(list[a]) \ Exclude]
Return(a) ==
  IF a = "operator" THEN Idle
  ELSE Goto(a, "ended") /\ todo' = [todo EXCEPT ![a] = {}] /\ UNCHANGED list

\* Seeded fault: the next update takes the pods of one that was given up for its own.
AbandonedStillAwaited(a) == pods

Awaited(a) == {p \in pods : p.by = a}
\* An updater no longer waits for its pod, which may still run.
Abandoned(a) == (pods \ Awaited(a)) \cup
                {[p EXCEPT !.by = "nobody"] : p \in {q \in Awaited(a) : q.phase = "pending"}}

\* Poll lists the nodes and comes to ReconcileInternalLB; the other steps of the tick
\* are left out.
Tick ==
  /\ pc["operator"] = "idle" /\ Goto("operator", "compare")
  /\ list' = [list EXCEPT !["operator"] = NodeList]
  /\ UNCHANGED <<membership, up, recorded, hosts, pods, todo, pointed, spoilt, disturbances>>

\* Seeded fault: the labels of the nodes are not compared.
ReconcileInternalLBByName ==
  /\ pc["operator"] = "compare"
  /\ recordMap' = TRUE
  /\ IF recordMap /\ Names(record) # Names(list["operator"])
       THEN Goto("operator", "start") /\ UNCHANGED <<list, todo>>
       ELSE Idle
  /\ UNCHANGED <<membership, up, record, hosts, pods, pointed, spoilt, disturbances>>

\* ReconcileInternalLB: the first time the record is created empty, for a later tick.
ReconcileInternalLB ==
  /\ pc["operator"] = "compare"
  /\ \/ recordMap' = TRUE /\ Works
        /\ IF recordMap /\ record # list["operator"]
             THEN Goto("operator", "start") /\ UNCHANGED <<list, todo>>
             ELSE Idle
     \/ UNCHANGED recordMap /\ Idle /\ Disturbs
  /\ UNCHANGED <<membership, up, record, hosts, pods, pointed, spoilt>>

\* The command starts, beside the operator, and lists the nodes.
ChangeLoadBalancer ==
  /\ pc["command"] = "idle" /\ Disturbs
  /\ \/ /\ Goto("command", "start") /\ list' = [list EXCEPT !["command"] = NodeList]
        /\ spoilt' = spoilt \cup {"command"}
     \/ Goto("command", "ended") /\ UNCHANGED <<list, spoilt>>
  /\ UNCHANGED <<membership, up, recorded, hosts, pods, todo, pointed>>

-----------------------------------------------------------------------------
(* UpdateInternalLB.                                                       *)

\* The history: a new update of the operator has the record in doubt until it is
\* written, and no longer has it so for what happened before.
Doubts(a, deleted) ==
  IF a = "command" THEN spoilt
  ELSE {"halfway"} \cup (IF deleted THEN {} ELSE {"leftover"})
       \cup (IF pc["command"] \in {"start", "pods", "wait"} THEN {"command"} ELSE {})
       \cup (spoilt \cap {"sighup"})

\* The first deletePods, whose error is only logged, and the list of primary hosts.
StartUpdate(a) ==
  /\ pc[a] = "start"
  /\ \/ pods' = {} /\ spoilt' = Doubts(a, TRUE) /\ Works
     \/ pods' = pods /\ spoilt' = Doubts(a, pods = {}) /\ Disturbs
  /\ IF Hosts(list[a]) = {}
       THEN Success(a)
       ELSE Goto(a, "pods") /\ todo' = [todo EXCEPT ![a] = Names(list[a])]
  /\ UNCHANGED <<membership, up, recorded, hosts, list, pointed>>

UpdatePod(a, n) == [by |-> a, node |-> n, hosts |-> Hosts(list[a]), phase |-> "pending"]

\* The next node of the list gets its pod.
CreatePod(a) ==
  /\ pc[a] = "pods" /\ todo[a] # {}
  /\ \/ /\ Goto(a, "wait")
        /\ pods' = pods \cup {UpdatePod(a, Min(todo[a]))}
        /\ UNCHANGED <<list, todo>> /\ Works
     \/ Return(a) /\ UNCHANGED pods /\ Disturbs
  /\ UNCHANGED <<membership, up, recorded, hosts, pointed, spoilt>>

\* Seeded fault: the update goes on after a pod that failed.
PodCompletedOrFailed(a) ==
  /\ pc[a] = "wait" /\ pods' = pods \ Awaited(a)
  /\ \E p \in Awaited(a) :
       /\ p.phase # "pending" /\ Goto(a, "pods") /\ UNCHANGED list
       /\ todo' = [todo EXCEPT ![a] = @ \ {p.node}]
  /\ UNCHANGED <<membership, up, recorded, hosts, pointed, spoilt, disturbances>>

\* pollForPodCompleted: an error to get the pod, that it is gone included, is retried.
PodCompleted(a) ==
  /\ pc[a] = "wait" /\ pods' = pods \ Awaited(a)
  /\ \E p \in Awaited(a) :
       \/ /\ p.phase = "succeeded" /\ Goto(a, "pods")
          /\ todo' = [todo EXCEPT ![a] = @ \ {p.node}] /\ UNCHANGED list
       \/ p.phase = "failed" /\ Return(a)
  /\ UNCHANGED <<membership, up, recorded, hosts, pointed, spoilt, disturbances>>

\* The tick's deadline ends the operator's wait, the command's context has none.
Deadline ==
  /\ pc["operator"] = "wait" /\ Idle
  /\ pods' = Abandoned("operator")
  /\ \/ (\A p \in Awaited("operator") : p.node \notin cluster \cap up) /\ Works
     \/ Disturbs
  /\ UNCHANGED <<membership, up, recorded, hosts, pointed, spoilt>>

\* The second deletePods, logged too.
FinishPods(a) ==
  /\ pc[a] = "pods" /\ todo[a] = {} /\ Goto(a, "sighup")
  /\ \/ pods' = {} /\ Works
     \/ UNCHANGED pods /\ Disturbs
  /\ UNCHANGED <<membership, up, recorded, hosts, list, todo, pointed, spoilt>>

\* An haproxy that cannot read its new configuration goes on with the one it has.
Reloaded(nodes) == [n \in Node |-> IF n \in nodes /\ config[n] # {} THEN config[n] ELSE loaded[n]]

\* Seeded fault: only one container is signalled.
SighupOnePod(a) ==
  /\ pc[a] = "sighup" /\ Success(a) /\ Works
  /\ \E done \in SUBSET (Running \cap up) : Cardinality(done) <= 1 /\ loaded' = Reloaded(done)
  /\ spoilt' = IF Running \subseteq up THEN spoilt \ {"sighup"} ELSE spoilt \cup {"sighup"}
  /\ UNCHANGED <<membership, up, recorded, config, manifest, pods, list, pointed>>

\* sighupPods signals every haproxy at once; its error is only logged.
SighupPods(a) ==
  /\ pc[a] = "sighup" /\ Success(a)
  /\ \/ loaded' = Reloaded(Running \cap up) /\ Works
        /\ spoilt' = IF Running \subseteq up THEN spoilt \ {"sighup"} ELSE spoilt \cup {"sighup"}
     \/ /\ \E done \in SUBSET (Running \cap up) : loaded' = Reloaded(done)
        /\ spoilt' = spoilt \cup {"sighup"} /\ Disturbs
  /\ UNCHANGED <<membership, up, recorded, config, manifest, pods, list, pointed>>

\* Back in ReconcileInternalLB: the list is recorded.
RecordList ==
  /\ pc["operator"] = "record" /\ Idle
  /\ \/ record' = list["operator"] /\ spoilt' = spoilt \ {"halfway"} /\ Works
     \/ UNCHANGED <<record, spoilt>> /\ Disturbs
  /\ UNCHANGED <<membership, up, recordMap, hosts, pods, pointed>>

\* Back in the command: SetKubeconfigServer for one node after the other, with pods
\* of its own that nobody else deletes; it waits for each without a deadline.
SetKubeconfigServer ==
  /\ pc["command"] = "kubeconfig"
  /\ LET left == todo["command"] IN
       \/ /\ left # {} /\ Min(left) \in cluster \cap up
          /\ pointed' = pointed \cup {Min(left)}
          /\ todo' = [todo EXCEPT !["command"] = left \ {Min(left)}]
          /\ UNCHANGED <<pc, list>> /\ Works
       \/ left = {} /\ Return("command") /\ UNCHANGED pointed /\ Works
       \/ left # {} /\ Return("command") /\ UNCHANGED pointed /\ Disturbs
  /\ UNCHANGED <<membership, up, recorded, hosts, pods, spoilt>>

UpdateInternalLB(a) ==
  \/ StartUpdate(a) \/ CreatePod(a) \/ PodCompleted(a) \/ FinishPods(a) \/ SighupPods(a)

OperatorStep ==
  \/ Tick \/ ReconcileInternalLB \/ UpdateInternalLB("operator") \/ Deadline \/ RecordList

CommandStep == UpdateInternalLB("command") \/ SetKubeconfigServer
-----------------------------------------------------------------------------
(* Hosts.                                                                  *)

Advance(p, phase) ==
  pods' = (pods \ {p}) \cup (IF p.by = "nobody" THEN {} ELSE {[p EXCEPT !.phase = phase]})

\* A pod of an update: the config container writes haproxy.cfg, the manifest container
\* haproxy.yaml where there is none.  The shell truncates haproxy.cfg before ekco generates
\* it, so that a config container that fails may leave it empty.
RunUpdatePod(n) ==
  /\ n \in cluster \cap up
  /\ \E p \in {q \in pods : q.node = n /\ q.phase = "pending"} :
       \/ /\ config' = [config EXCEPT ![n] = p.hosts] /\ manifest' = manifest \cup {n}
          /\ Advance(p, "succeeded") /\ Works
       \/ /\ config' \in {config, [config EXCEPT ![n] = {}], [config EXCEPT ![n] = p.hosts]}
          /\ UNCHANGED manifest
          /\ Advance(p, "failed") /\ Disturbs
  /\ UNCHANGED <<membership, up, recorded, loaded, updaters, pointed, spoilt>>

\* The kubelet starts the static pod.
StartHAProxy(n) ==
  /\ n \in cluster \cap manifest \cap up /\ loaded[n] = {} /\ config[n] # {}
  /\ loaded' = [loaded EXCEPT ![n] = config[n]]
  /\ UNCHANGED <<membership, up, recorded, config, manifest, pods, updaters, pointed, spoilt, disturbances>>
-----------------------------------------------------------------------------
(* The environment.                                                        *)

\* kubeadm labels a joining primary after its node is registered.
Join(n) ==
  /\ n \notin cluster \cup gone /\ cluster' = cluster \cup {n}
  /\ UNCHANGED <<labelled, gone, up, recorded, hosts, pods, updaters, pointed, spoilt, disturbances>>

Label(n) ==
  /\ n \in (cluster \cap Primaries) \ labelled /\ labelled' = labelled \cup {n}
  /\ UNCHANGED <<cluster, gone, up, recorded, hosts, pods, updaters, pointed, spoilt, disturbances>>

\* A node is purged, and its pods with it; its host is reset and its name not used again.
Leave(n) ==
  /\ n \in cluster /\ cluster # {n}
  /\ cluster' = cluster \ {n} /\ labelled' = labelled \ {n} /\ gone' = gone \cup {n}
  /\ pods' = {p \in pods : p.node # n}
  /\ config' = [config EXCEPT ![n] = {}] /\ loaded' = [loaded EXCEPT ![n] = {}]
  /\ manifest' = manifest \ {n} /\ pointed' = pointed \ {n} /\ up' = up \cup {n}
  /\ UNCHANGED <<recorded, updaters, spoilt, disturbances>>

Lose(n) ==
  /\ n \in cluster \cap up /\ up' = up \ {n} /\ Disturbs
  /\ UNCHANGED <<membership, recorded, hosts, pods, updaters, pointed, spoilt>>

ComeBack(n) ==
  /\ n \notin up /\ up' = up \cup {n}
  /\ UNCHANGED <<membership, recorded, hosts, pods, updaters, pointed, spoilt, disturbances>>

\* The operator's pod is replaced.
Restart ==
  /\ pc["operator"] # "idle" /\ Idle /\ Disturbs
  /\ pods' = Abandoned("operator")
  /\ UNCHANGED <<membership, up, recorded, hosts, pointed, spoilt>>

HostStep(n) == RunUpdatePod(n) \/ StartHAProxy(n)

Next ==
  \/ OperatorStep \/ CommandStep \/ ChangeLoadBalancer \/ Restart
  \/ \E n \in Node :
       HostStep(n) \/ Join(n) \/ Label(n) \/ Leave(n) \/ Lose(n) \/ ComeBack(n)

Spec == Init /\ [][Next]_vars

\* The ticker and the deadline fire, calls return, a pod on a reachable host runs and a
\* lost node comes back or, here or in the node list, is purged.
FairSpec ==
  /\ Spec /\ WF_vars(OperatorStep) /\ WF_vars(CommandStep)
  /\ \A n \in Node : WF_vars(HostStep(n)) /\ WF_vars(ComeBack(n))

-----------------------------------------------------------------------------
(* Properties.                                                             *)

\* What a recorded list says of the hosts: each of its nodes has the list's primaries in
\* its configuration, and its haproxy runs with them, unless one of four things has happened
\* since the last update of the operator began: it stopped halfway, pods that could not be
\* deleted were left behind, the command made an update beside it, or a signal failed.
RecordedIsWritten ==
  Hosts(record) # {} =>
    \A n \in Names(record) \cap cluster :
      /\ spoilt \subseteq {"sighup"} => n \in manifest /\ config[n] = Hosts(record)
      /\ spoilt = {} => loaded[n] \in {{}, config[n]}

\* The record follows the node list, whatever the command deletes and whenever the
\* operator is stopped.
RecordFollows == <>[](recordMap /\ record = NodeList)

\* A kubeconfig is pointed to the balancer of its host only when the host has one: a node
\* whose update pod failed, or was deleted by the other updater, is not.  It says nothing of
\* a list without primary hosts: UpdateInternalLB then returns nil without an update
\* (internallb.go:80-83), and the command points the kubeconfigs all the same.
PointedHasBalancer ==
  Hosts(list["command"]) # {} => pointed \cap cluster \subseteq manifest

\* "Output must end with "Result:" for parsing in scripts" (change-load-balancer.go:25): a
\* command that has begun ends.
CommandEnds == pc["command"] # "idle" ~> pc["command"] = "ended"
=============================================================================
