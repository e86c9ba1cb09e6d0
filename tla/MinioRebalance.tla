---------------------------- MODULE MinioRebalance ----------------------------
(***************************************************************************)
(* The servers of ha-minio: scaled up once there are three ready nodes,    *)
(* and then spread over the nodes, a server at a time, by deleting a       *)
(* server's claim and its pod.  The server comes back with an empty volume *)
(* on another node and MinIO heals it from the others.                     *)
(*                                                                         *)
(* Kubernetes and MinIO are modelled as far as the code relies on them: a  *)
(* volume stays on its node, a deleted claim stays until its pod goes, the *)
(* scheduler takes a ready node with the fewest servers, and the health    *)
(* endpoints answer for a write quorum of servers that run.                *)
(***************************************************************************)
EXTENDS Integers, FiniteSetsExt

CONSTANTS
  Pod,                       \* the servers, named by their order in a list of pods
  Node,
  WriteQuorum, ReadQuorum,   \* servers that MinIO needs to write, volumes to restore the data
  None,
  MaxOutages, MaxFailures    \* bounds

ASSUME ConstantsAssumption ==
  /\ Pod \subseteq Nat /\ IsFiniteSet(Pod) /\ Node \subseteq Nat /\ IsFiniteSet(Node)
  /\ None \notin Node \cup Pod
  /\ ReadQuorum \in Nat /\ WriteQuorum \in Nat
  /\ ReadQuorum <= WriteQuorum /\ WriteQuorum <= Cardinality(Pod)
  /\ MaxOutages \in Nat /\ MaxFailures \in Nat

VARIABLES
  node,             \* "ready", "unready" (its pods run), "lost" or "purged"
  phase,            \* "none", "pending", "running" or "stuck": unschedulable for five minutes
  volume,           \* the node of the volume of a pod's claim
  full,             \* the pods whose volume has all of its data
  deleted,          \* claims that are deleted and kept by their pod
  pc, seen, victim, \* where reconcileMinio is, the list of pods it read, the pod it reschedules
  losses, outages,  \* counted: nodes lost, and times that nodes stopped reporting
  failures

pods == <<phase, volume, full, deleted>>
locals == <<seen, victim>>
faults == <<losses, outages>>
vars == <<node, pods, pc, locals, faults, failures>>

Phase == {"none", "pending", "running", "stuck"}

TypeOK ==
  /\ node \in [Node -> {"ready", "unready", "lost", "purged"}]
  /\ phase \in [Pod -> Phase] /\ volume \in [Pod -> Node \cup {None}]
  /\ \A p \in Pod : phase[p] = "running" => volume[p] # None
  /\ full \subseteq Pod /\ deleted \subseteq {p \in Pod : phase[p] = "running"}
  /\ pc \in {"idle", "health", "list", "choose", "claim", "pod"}
  /\ seen \in [Pod -> Node \cup {None}] /\ victim \in Pod \cup {None}
  /\ pc \in {"claim", "pod"} <=> victim # None
  /\ losses \in Nat /\ outages \in Nat /\ failures \in Nat

NoHosts == [p \in Pod |-> None]

Init ==
  /\ node = [n \in Node |-> "ready"]
  /\ phase = [p \in Pod |-> "none"] /\ volume = NoHosts /\ full = Pod /\ deleted = {}
  /\ pc = "idle" /\ seen = NoHosts /\ victim = None
  /\ losses = 0 /\ outages = 0 /\ failures = 0

-----------------------------------------------------------------------------
(* What the code asks of MinIO and of Kubernetes.                          *)

Ready == {n \in Node : node[n] = "ready"}
Serving == {p \in Pod : phase[p] = "running" /\ node[volume[p]] \in {"ready", "unready"}}

\* /minio/health/cluster counts the servers that run, those being healed too; with
\* maintenance=true it leaves out the one asked, and refuses while any is being healed.
Healthy == Cardinality(Serving) >= WriteQuorum
Safe(p) == p \in Serving /\ Serving \subseteq full /\ Cardinality(Serving \ {p}) >= WriteQuorum

Works == UNCHANGED failures
Fails == failures < MaxFailures /\ failures' = failures + 1

Goto(s) == pc' = s /\ UNCHANGED locals
Done == pc' = "idle" /\ seen' = NoHosts /\ victim' = None

-----------------------------------------------------------------------------
(* reconcileMinio; the migration beside it is in ObjectStoreMigration.     *)

Scaled == \E p \in Pod : phase[p] # "none"

ReconcileMinio ==
  /\ pc = "idle"
  /\ \/ Cardinality(Ready) < 3 /\ Goto("health") /\ UNCHANGED phase /\ Works
     \/ /\ Cardinality(Ready) >= 3 /\ Goto("health") /\ Works
        /\ phase' = IF Scaled THEN phase ELSE [p \in Pod |-> "pending"]
     \/ UNCHANGED <<phase, pc, locals>> /\ Fails
  /\ UNCHANGED <<node, volume, full, deleted, faults>>

\* The scale and the health; whatever is wrong with either, it returns nil.
CheckHealth ==
  /\ pc = "health"
  /\ \/ Scaled /\ Healthy /\ Goto("list") /\ Works
     \/ ~(Scaled /\ Healthy) /\ Done /\ Works
     \/ Done /\ Fails
  /\ UNCHANGED <<node, pods, faults>>

\* The pods: one that is unschedulable for five minutes is rescheduled as it is, and
\* otherwise their hosts are noted, which a pending pod has none of.
ListPods ==
  LET stuck == {p \in Pod : phase[p] = "stuck"} IN
  /\ pc = "list"
  /\ \/ /\ stuck # {} /\ pc' = "claim" /\ victim' = Min(stuck)
        /\ UNCHANGED seen /\ Works
     \/ /\ stuck = {} /\ pc' = "choose" /\ UNCHANGED victim /\ Works
        /\ seen' = [p \in Pod |-> IF phase[p] = "running" THEN volume[p] ELSE None]
     \/ Done /\ Fails
  /\ UNCHANGED <<node, pods, faults>>

-----------------------------------------------------------------------------
(* The choice of a server.                                                 *)

On(h) == {p \in Pod : seen[p] = h}
NodeMinioPods == {h \in Node \cup {None} : On(h) # {}}
Count(h) == Cardinality(On(h))

\* ceil and floor of the pods per ready node.  Without one they are infinite, and what
\* the conversion to an integer makes of that depends on the platform: the least integer
\* or the greatest.
Bounds ==
  LET n == Cardinality(Pod)  r == Cardinality(Ready) IN
  IF r > 0 THEN {<<(n + r - 1) \div r, n \div r>>} ELSE {<<-1, -1>>, <<n + 1, n + 1>>}

\* Seeded fault: a node without a pod is expected among the nodes of the pods.
DuplicatesIfListed ==
  IF \E h \in NodeMinioPods : Count(h) = 0 THEN {h \in NodeMinioPods : Count(h) > 1} ELSE {}

\* The hosts that each of the three loops would take a pod from.
Crowded(max) == {h \in NodeMinioPods : Count(h) > max}
AtMax(max, min) ==
  IF \E h \in NodeMinioPods : Count(h) < min THEN {h \in NodeMinioPods : Count(h) = max} ELSE {}
Duplicates ==
  IF Cardinality(NodeMinioPods) < Cardinality(Ready)
    THEN {h \in NodeMinioPods : Count(h) > 1} ELSE {}

\* Seeded fault: whether the pod may go is not asked.
AnyOf(hs) == {Min(On(h)) : h \in hs}

\* nodePods[0] of the hosts, in the order of a map, that may be taken away.
SafeOf(hs) == {p \in {Min(On(h)) : h \in hs} : Safe(p)}

Victims(max, min) ==
  IF SafeOf(Crowded(max)) # {} THEN SafeOf(Crowded(max))
  ELSE IF SafeOf(AtMax(max, min)) # {} THEN SafeOf(AtMax(max, min))
  ELSE SafeOf(Duplicates)

\* Seeded fault: that no pod may go is not noticed.
ChoosePodAlways ==
  /\ pc = "choose" /\ pc' = "claim" /\ seen' = NoHosts /\ Works
  /\ \E b \in Bounds : victim' \in Victims(b[1], b[2]) \cup {None}
  /\ UNCHANGED <<node, pods, faults>>

ChoosePod ==
  /\ pc = "choose"
  /\ \/ \E b \in Bounds :
          \/ \E p \in Victims(b[1], b[2]) :
               pc' = "claim" /\ victim' = p /\ seen' = NoHosts
          \/ Victims(b[1], b[2]) = {} /\ Done
        /\ Works
     \/ Done /\ Fails
  /\ UNCHANGED <<node, pods, faults>>

-----------------------------------------------------------------------------
(* rescheduleOnePod.                                                       *)

\* A claim stays while its pod runs.  That of a pod that does not run goes at once, and the
\* StatefulSet makes another: until then there is none to delete.
ClaimGoes ==
  IF phase[victim] = "running"
    THEN deleted' = deleted \cup {victim} /\ UNCHANGED <<volume, full>>
    ELSE /\ volume' = [volume EXCEPT ![victim] = None] /\ full' = full \ {victim}
         /\ UNCHANGED deleted

\* A delete that reports an error may have been made.
DeletePVC ==
  /\ pc = "claim"
  /\ \/ ClaimGoes /\ Goto("pod") /\ Works
     \/ volume[victim] = None /\ UNCHANGED <<volume, full, deleted>> /\ Done /\ Works
     \/ UNCHANGED <<volume, full, deleted>> /\ Done /\ Fails
     \/ ClaimGoes /\ Done /\ Fails
  /\ UNCHANGED <<node, phase, faults>>

\* A pod is deleted and the StatefulSet makes it anew; a deleted claim goes with the old one.
Replace(p) ==
  /\ phase' = [phase EXCEPT ![p] = "pending"]
  /\ IF p \in deleted
       THEN /\ volume' = [volume EXCEPT ![p] = None] /\ full' = full \ {p}
            /\ deleted' = deleted \ {p}
       ELSE UNCHANGED <<volume, full, deleted>>

DeletePod ==
  /\ pc = "pod" /\ Done
  /\ \/ Replace(victim) /\ Works
     \/ UNCHANGED pods /\ Fails
  /\ UNCHANGED <<node, faults>>

OperatorStep ==
  \/ ReconcileMinio \/ CheckHealth \/ ListPods \/ ChoosePod
  \/ DeletePVC \/ DeletePod

-----------------------------------------------------------------------------
(* The environment.                                                        *)

\* The operator's pod is replaced.
Restart ==
  /\ pc # "idle" /\ Done /\ Fails
  /\ UNCHANGED <<node, pods, faults>>

PodStatus(p, s) == phase' = [phase EXCEPT ![p] = s]
Load(n) == Cardinality({p \in Pod : volume[p] = n})

\* The scheduler's choice for a new volume: the first of the ready nodes with the fewest.
Target == Min({n \in Ready : \A m \in Ready : Load(n) <= Load(m)})

\* A pod gets a volume, or has one on a ready node.
Schedule(p) ==
  /\ phase[p] \in {"pending", "stuck"} /\ PodStatus(p, "running")
  /\ \/ volume[p] \in Ready /\ UNCHANGED volume
     \/ volume[p] = None /\ Ready # {} /\ volume' = [volume EXCEPT ![p] = Target]
  /\ UNCHANGED <<node, full, deleted, pc, locals, faults, failures>>

\* For five minutes no node, or not that of its volume, has been ready.
Unschedulable(p) ==
  /\ phase[p] = "pending" /\ PodStatus(p, "stuck")
  /\ ~\E n \in Ready : volume[p] \in {None, n}
  /\ UNCHANGED <<node, volume, full, deleted, pc, locals, faults, failures>>

Heal(p) ==
  /\ p \in Serving \ full /\ Cardinality(Serving \cap full) >= ReadQuorum
  /\ full' = full \cup {p}
  /\ UNCHANGED <<node, phase, volume, deleted, pc, locals, faults, failures>>

\* A pod whose claim is deleted is replaced for some other reason.
PodReplaced(p) ==
  /\ p \in deleted /\ Replace(p)
  /\ UNCHANGED <<node, pc, locals, faults, failures>>

NodeIs(n, s) == node' = [node EXCEPT ![n] = s]

\* A node is back.
NodeReady(n) ==
  /\ node[n] \in {"unready", "lost"} /\ NodeIs(n, "ready")
  /\ UNCHANGED <<pods, pc, locals, faults, failures>>

\* Some node, or every node, stops reporting; its pods go on.
NodesUnready(set) ==
  /\ set # {} /\ node' = [n \in Node |-> IF n \in set THEN "unready" ELSE node[n]]
  /\ losses + outages < MaxOutages /\ outages' = outages + 1
  /\ UNCHANGED <<pods, pc, locals, losses, failures>>

NodeLost(n) ==
  /\ node[n] = "ready" /\ NodeIs(n, "lost")
  /\ losses + outages < MaxOutages /\ losses' = losses + 1
  /\ UNCHANGED <<pods, pc, locals, outages, failures>>

\* The pods of a lost node are evicted.
Evict(n) ==
  /\ node[n] = "lost"
  /\ \E p \in Pod :
       /\ phase[p] = "running" /\ volume[p] = n /\ Replace(p)
  /\ UNCHANGED <<node, pc, locals, faults, failures>>

\* A lost node is purged, with its volumes.
Purge(n) ==
  /\ node[n] = "lost" /\ NodeIs(n, "purged")
  /\ \A p \in Pod : volume[p] = n => phase[p] # "running"
  /\ full' = {p \in full : volume[p] # n}
  /\ UNCHANGED <<phase, volume, deleted, pc, locals, faults, failures>>

PodStep(p) == Schedule(p) \/ Unschedulable(p) \/ Heal(p)

Next ==
  \/ OperatorStep \/ Restart
  \/ \E p \in Pod : PodStep(p) \/ PodReplaced(p)
  \/ \E n \in Node : NodeReady(n) \/ NodeLost(n) \/ Evict(n) \/ Purge(n)
  \/ \E set \in {Ready} \cup {{n} : n \in Ready} : NodesUnready(set)

Spec == Init /\ [][Next]_vars

\* Ticks go on, pods are scheduled and MinIO heals.
FairSpec == Spec /\ WF_vars(OperatorStep) /\ \A p \in Pod : WF_vars(PodStep(p))

-----------------------------------------------------------------------------
(* Properties.                                                             *)

\* While no node is lost, rebalancing gives up one server's data at a time and waits for it
\* to be healed, so that a write quorum holds the data through every sequence of rebalancings
\* and outages, at whatever step these come.  A failed call or a restart may leave a deleted
\* claim to go at a time nobody chose: each costs one server's data, and no more.
QuorumKept == losses = 0 => Cardinality(full) >= WriteQuorum - failures

\* "maximize the number of nodes that can be lost before losing data" (minio.go:155): once
\* the nodes stay as they are and MinIO is healthy, every ready node has its share.
ServersSpread ==
  <>[](Healthy /\ \A n \in Node : node[n] \in {"ready", "purged"})
    => <>[](\A n, m \in Ready : Load(n) <= Load(m) + 1)
=============================================================================
