---------------------------- MODULE CertRenewal ----------------------------
(***************************************************************************)
(* RotateCerts: the renewal of the certificates of contour and envoy, of   *)
(* the registry, of the kurl proxy, of the kubelet client certificate that *)
(* kotsadm uses, and of the files under /etc/kubernetes on every primary,  *)
(* with the restarts that put the new certificates to use.                 *)
(*                                                                         *)
(* The files are renewed by a pod on each primary in turn, which goes on   *)
(* when the operator stops waiting for it, and beside the next one when it *)
(* cannot be deleted.  Time passes in check intervals: a certificate is    *)
(* represented by its age, Life when it has expired.                       *)
(***************************************************************************)
EXTENDS Integers, Sequences

CONSTANTS
  Primaries,       \* the primaries in the order of the node list
  Files,           \* the certificates of a primary in the order of rm.Certificates()
  ExternalCA,      \* those whose CA's key is not on the host
  Life, TTL, CliTTL,   \* validity, rotate_certs_ttl and --ttl of rotate-kotsadm-certs
  None,
  MaxFailures, MaxCrashes, MaxInterruptions   \* bounds

Host == {Primaries[k] : k \in 1 .. Len(Primaries)}
File == {Files[k] : k \in 1 .. Len(Files)}
Age == 0 .. Life
Secret == {"contour", "envoy", "registry", "proxy", "kubelet"}
Deployed == {"envoy", "registry"}
Component == <<"kube-controller-manager", "kube-scheduler", "kube-apiserver">>
Static == {Component[k] : k \in 1 .. 3}
Slot == {"now", "left"}    \* bound: of the pods of earlier rotations, one still runs
OperatorLabel == {"launch", "idle", "contour", "envoySecret", "restartEnvoy", "registry",
                  "restartRegistry", "proxy", "kubelet", "hosts", "createPod", "waitPod"}

ASSUME ConstantsAssumption ==
  /\ Primaries \in Seq(Host) /\ Primaries # <<>> /\ None \notin Host
  /\ Files \in Seq(File) /\ "apiserver-kubelet-client" \in File /\ ExternalCA \subseteq File
  /\ TTL \in Nat /\ Life \in Nat /\ CliTTL \in Nat /\ TTL < Life
  /\ MaxFailures \in Nat /\ MaxCrashes \in Nat /\ MaxInterruptions \in Nat

VARIABLES
  secret,          \* the ages of the certificates in the secrets
  sameCA,          \* the secrets of contour and envoy come from one authority
  custom,          \* the kurl proxy's certificate was uploaded by the user
  inUse,           \* what the pods of envoy and of the registry have loaded
  file, loaded,    \* the files of each host, and what their users have loaded
  aside,           \* static pods whose manifest is in /etc/kubernetes, out of manifests
  pc, hostAt, host,    \* the operator, its place in the node list, its own host
  hasDeadline,     \* its context is that of a tick, not that of the launch hook
  attempted,       \* last-attempted is within the interval
  podOn, podFile, podRestart, podMoving,   \* the rotate-certs pods that run
  podResult,       \* what the poll finds of the pod it waits for, when that has ended
  failures, crashes, interruptions

certs    == <<secret, sameCA, custom, inUse>>
hosts    == <<file, loaded, aside>>
operator == <<pc, hostAt, host, hasDeadline, attempted>>
pod      == <<podOn, podFile, podRestart, podMoving, podResult>>
budget   == <<failures, crashes, interruptions>>
vars == <<certs, hosts, operator, pod, budget>>

TypeOK ==
  /\ secret \in [Secret -> Age] /\ inUse \in [Deployed -> Age]
  /\ sameCA \in BOOLEAN /\ custom \in BOOLEAN
  /\ file \in [Host -> [File -> Age]] /\ loaded \in [Host -> [File -> Age]]
  /\ aside \in [Host -> SUBSET Static]
  /\ pc \in OperatorLabel /\ hostAt \in 1 .. Len(Primaries) + 1 /\ host \in Host
  /\ hasDeadline \in BOOLEAN /\ attempted \in BOOLEAN
  /\ podOn \in [Slot -> Host \cup {None}] /\ podFile \in [Slot -> 1 .. Len(Files) + 1]
  /\ podRestart \in [Slot -> SUBSET Static] /\ podMoving \in [Slot -> SUBSET Static]
  /\ podResult \in {"none", "succeeded", "failed"}
  /\ failures \in Nat /\ crashes \in Nat /\ interruptions \in Nat

\* kURL's installation made all certificates but those of primaries joined later.
Init ==
  /\ \E age \in {0, Life - TTL - 1} :
       /\ secret = [s \in Secret |-> age] /\ inUse = [d \in Deployed |-> age]
       /\ \E later \in {0, age} :
            file = [h \in Host |-> [f \in File |-> IF h = Primaries[1] THEN age ELSE later]]
  /\ loaded = file /\ aside = [h \in Host |-> {}] /\ sameCA = TRUE /\ custom \in BOOLEAN
  /\ pc = "launch" /\ hostAt = 1 /\ host \in Host /\ hasDeadline = FALSE /\ attempted = FALSE
  /\ podOn = [p \in Slot |-> None] /\ podFile = [p \in Slot |-> 1]
  /\ podRestart = [p \in Slot |-> {}] /\ podMoving = [p \in Slot |-> {}]
  /\ podResult = "none"
  /\ failures = 0 /\ crashes = 0 /\ interruptions = 0

-----------------------------------------------------------------------------
Fails ==
  /\ failures < MaxFailures /\ failures' = failures + 1
  /\ UNCHANGED <<crashes, interruptions>>
Works == UNCHANGED budget

Due(age) == Life - age <= TTL

\* A certificate signed now is valid for a whole period from now on.
New == 0
Saved(s) == [secret EXCEPT ![s] = New]

\* The ca.crt that shouldRotateContourCerts also looks at is made, and expires, with them.
ContourDue == Due(secret["contour"]) \/ Due(secret["envoy"])
RegistryDue == Due(secret["registry"])

Goto(label) == pc' = label /\ UNCHANGED <<hostAt, host, hasDeadline, attempted>>

\* RotateCerts returns.
Return == pc' = "idle" /\ hostAt' = 1 /\ hasDeadline' = FALSE /\ UNCHANGED <<host, attempted>>

-----------------------------------------------------------------------------
(* RotateCerts of the operator.                                            *)

\* onLaunch forces a rotation; its error is logged and the loop begins.
Launch ==
  /\ pc = "launch"
  /\ \/ pc' = "contour" /\ attempted' = TRUE /\ Works
     \/ pc' = "idle" /\ UNCHANGED attempted /\ Fails
  /\ hasDeadline' = FALSE
  /\ UNCHANGED <<certs, hosts, hostAt, host, pod>>

\* CheckRotateCertsDue in a full reconcile; the attempt is recorded at its start.
CheckRotateCertsDue ==
  /\ pc = "idle" /\ ~attempted
  /\ \/ pc' = "contour" /\ attempted' = TRUE /\ hasDeadline' = TRUE /\ Works
     \/ UNCHANGED <<pc, attempted, hasDeadline>> /\ Fails
  /\ UNCHANGED <<certs, hosts, hostAt, host, pod>>

\* Seeded fault: contour's secret alone decides.
ReadContourOnly ==
  /\ pc = "contour"
  /\ IF Due(secret["contour"])
       THEN /\ secret' = Saved("contour")
            /\ sameCA' = FALSE /\ Goto("envoySecret")
       ELSE UNCHANGED <<secret, sameCA>> /\ Goto("registry")
  /\ UNCHANGED <<custom, inUse, hosts, pod, budget>>

\* RotateContourCerts: one certificate that is due has both secrets renewed, with a
\* new authority; contour's is written first.
UpdateContourSecret ==
  /\ pc = "contour"
  /\ IF ContourDue
       THEN /\ secret' = Saved("contour")
            /\ sameCA' = FALSE /\ Goto("envoySecret")
       ELSE UNCHANGED <<secret, sameCA>> /\ Goto("registry")
  /\ UNCHANGED <<custom, inUse, hosts, pod, budget>>

\* Seeded fault: the certificates are generated once for each secret.
UpdateEnvoySecretOwnCA ==
  /\ pc = "envoySecret"
  /\ secret' = Saved("envoy")
  /\ Goto("restartEnvoy")
  /\ UNCHANGED <<sameCA, custom, inUse, hosts, pod, budget>>

UpdateEnvoySecret ==
  /\ pc = "envoySecret"
  /\ secret' = Saved("envoy") /\ sameCA' = TRUE
  /\ Goto("restartEnvoy")
  /\ UNCHANGED <<custom, inUse, hosts, pod, budget>>

RestartEnvoy ==
  /\ pc = "restartEnvoy"
  /\ inUse' = [inUse EXCEPT !["envoy"] = secret["envoy"]]
  /\ Goto("registry")
  /\ UNCHANGED <<secret, sameCA, custom, hosts, pod, budget>>

RotateRegistryCert ==
  /\ pc = "registry"
  /\ IF RegistryDue
       THEN secret' = Saved("registry") /\ Goto("restartRegistry")
       ELSE UNCHANGED secret /\ Goto("proxy")
  /\ UNCHANGED <<sameCA, custom, inUse, hosts, pod, budget>>

\* Seeded fault: the registry's pods are left running.
RestartRegistryForgotten ==
  /\ pc = "restartRegistry"
  /\ Goto("proxy")
  /\ UNCHANGED <<certs, hosts, pod, budget>>

RestartRegistry ==
  /\ pc = "restartRegistry"
  /\ inUse' = [inUse EXCEPT !["registry"] = secret["registry"]]
  /\ Goto("proxy")
  /\ UNCHANGED <<secret, sameCA, custom, hosts, pod, budget>>

RotateKurlProxyCert ==
  /\ pc = "proxy"
  /\ IF Due(secret["proxy"]) /\ ~custom
       THEN secret' = Saved("proxy") ELSE UNCHANGED secret
  /\ Goto("kubelet")
  /\ UNCHANGED <<sameCA, custom, inUse, hosts, pod, budget>>

\* The file of the operator's own host, as it is before that host's turn comes.
UpdateKubeletClientCertSecret ==
  /\ pc = "kubelet"
  /\ secret' = [secret EXCEPT !["kubelet"] = file[host]["apiserver-kubelet-client"]]
  /\ Goto("hosts")
  /\ UNCHANGED <<sameCA, custom, inUse, hosts, pod, budget>>

\* A call fails: of the five rotations, the next one is tried all the same.
After(label) ==
  CASE label \in {"contour", "envoySecret", "restartEnvoy"} -> "registry"
    [] label \in {"registry", "restartRegistry"} -> "proxy"
    [] label = "proxy"   -> "kubelet"
    [] label = "kubelet" -> "hosts"
    [] OTHER             -> "idle"

CallFails ==
  /\ pc \notin {"launch", "idle", "waitPod"}
  /\ IF After(pc) = "idle" THEN Return ELSE Goto(After(pc))
  /\ Fails
  /\ UNCHANGED <<certs, hosts, pod>>

-----------------------------------------------------------------------------
(* RotateAllCerts, and the pod it runs on each primary.                    *)

Running(p) == podOn[p] # None

\* deletePods ends what runs, between two renames as well.
DeleteCollection ==
  /\ podOn' = [p \in Slot |-> None] /\ podFile' = [p \in Slot |-> 1]
  /\ podRestart' = [p \in Slot |-> {}] /\ podMoving' = [p \in Slot |-> {}]
  /\ IF \A p \in Slot : podMoving[p] = {}
       THEN Works
       ELSE /\ interruptions < MaxInterruptions /\ interruptions' = interruptions + 1
            /\ UNCHANGED <<failures, crashes>>
  /\ UNCHANGED podResult

\* A pod that was still running runs on, in the other slot.
LeaveRunning ==
  /\ ~Running("left")
  /\ podOn' = [podOn EXCEPT !["left"] = podOn["now"], !["now"] = None]
  /\ podFile' = [podFile EXCEPT !["left"] = podFile["now"], !["now"] = 1]
  /\ podRestart' = [podRestart EXCEPT !["left"] = podRestart["now"], !["now"] = {}]
  /\ podMoving' = [podMoving EXCEPT !["left"] = podMoving["now"], !["now"] = {}]
  /\ UNCHANGED podResult

\* Its failure is logged, and the rotation goes on beside what still runs.
DeletePods ==
  /\ pc = "hosts"
  /\ pc' = "createPod" /\ hostAt' = 1
  /\ \/ DeleteCollection
     \/ LeaveRunning /\ Fails
     \/ ~Running("now") /\ UNCHANGED pod /\ Fails
  /\ UNCHANGED <<certs, hosts, host, hasDeadline, attempted>>

CreatePod ==
  /\ pc = "createPod" /\ hostAt <= Len(Primaries)
  /\ podOn' = [podOn EXCEPT !["now"] = Primaries[hostAt]]
  /\ Goto("waitPod")
  /\ UNCHANGED <<certs, hosts, podFile, podRestart, podMoving, podResult, budget>>

\* Here too a failure is only logged (CallFails).
DeletePodsAtEnd ==
  /\ pc = "createPod" /\ hostAt > Len(Primaries)
  /\ DeleteCollection /\ Return
  /\ UNCHANGED <<certs, hosts>>

\* pollForPodCompleted: a pod that fails ends the rotation, on the other hosts too.
PodCompleted ==
  /\ pc = "waitPod" /\ podResult # "none"
  /\ podResult' = "none"
  /\ IF podResult = "succeeded"
       THEN /\ pc' = "createPod" /\ hostAt' = hostAt + 1
            /\ UNCHANGED <<host, hasDeadline, attempted>>
       ELSE Return
  /\ UNCHANGED <<certs, hosts, podOn, podFile, podRestart, podMoving, budget>>

\* The tick ends before the pod does; the pod goes on.
Deadline ==
  /\ pc = "waitPod" /\ podResult = "none" /\ hasDeadline
  /\ Return /\ Fails
  /\ UNCHANGED <<certs, hosts, pod>>

OperatorStep ==
  \/ Launch \/ CheckRotateCertsDue \/ UpdateContourSecret \/ UpdateEnvoySecret
  \/ RestartEnvoy \/ RotateRegistryCert \/ RestartRegistry \/ RotateKurlProxyCert
  \/ UpdateKubeletClientCertSecret \/ DeletePods \/ CreatePod \/ DeletePodsAtEnd
  \/ PodCompleted

\* Who has to be restarted to use a new file: "API server reloads only server certs".
UserOf(f) ==
  CASE f = "controller-manager.conf" -> {"kube-controller-manager"}
    [] f = "scheduler.conf"          -> {"kube-scheduler"}
    [] f \in {"apiserver-etcd-client", "apiserver-kubelet-client", "front-proxy-client"}
                                     -> {"kube-apiserver"}
    [] OTHER                         -> {}

\* The pod ends; what it ends with is looked at by the operator that waits for it, if any.
Completes(p, result) ==
  /\ podOn' = [podOn EXCEPT ![p] = None] /\ podFile' = [podFile EXCEPT ![p] = 1]
  /\ podRestart' = [podRestart EXCEPT ![p] = {}] /\ podMoving' = [podMoving EXCEPT ![p] = {}]
  /\ podResult' = IF p = "now" /\ pc = "waitPod" THEN result ELSE podResult

\* Seeded fault: one file too many.
RotateFileOffByOne(p) ==
  /\ Running(p) /\ podFile[p] <= Len(Files) + 1
  /\ podFile' = [podFile EXCEPT ![p] = @ + 1]
  /\ UNCHANGED <<certs, hosts, operator, podOn, podRestart, podMoving, podResult, budget>>

\* One certificate of the host.  errors.Wrapf(nil, ...) is nil: an external CA ends
\* the rotation of the host as a success.
RotateFile(p) ==
  /\ Running(p) /\ podFile[p] <= Len(Files)
  /\ LET f == Files[podFile[p]]
         h == podOn[p]
     IN \/ /\ Due(file[h][f]) /\ f \notin ExternalCA
           /\ file' = [file EXCEPT ![h][f] = New]
           /\ loaded' = IF UserOf(f) = {} THEN [loaded EXCEPT ![h][f] = New] ELSE loaded
           /\ podRestart' = [podRestart EXCEPT ![p] = @ \cup UserOf(f)]
           /\ podFile' = [podFile EXCEPT ![p] = @ + 1]
           /\ UNCHANGED <<podOn, podMoving, podResult>> /\ Works
        \/ /\ Due(file[h][f]) /\ f \in ExternalCA
           /\ Completes(p, "succeeded") /\ UNCHANGED <<file, loaded>> /\ Works
        \/ /\ ~Due(file[h][f])
           /\ podFile' = [podFile EXCEPT ![p] = @ + 1]
           /\ UNCHANGED <<file, loaded, podOn, podRestart, podMoving, podResult>> /\ Works
        \/ Completes(p, "failed") /\ UNCHANGED <<file, loaded>> /\ Fails
  /\ UNCHANGED <<certs, operator, aside>>

\* The components that use a renewed file, in a fixed order.
NextRestart(p) ==
  {Component[k] : k \in {m \in 1 .. 3 : /\ Component[m] \in podRestart[p]
                                        /\ \A n \in 1 .. m - 1 : Component[n] \notin podRestart[p]}}

\* restartStaticPod's first rename, which stops the static pod.  It finds no file when an
\* earlier restart has left the manifest aside.
MoveAside(p) ==
  /\ Running(p) /\ podFile[p] = Len(Files) + 1 /\ podMoving[p] = {}
  /\ \E c \in NextRestart(p) :
       \/ /\ c \notin aside[podOn[p]]
          /\ aside' = [aside EXCEPT ![podOn[p]] = @ \cup {c}]
          /\ podMoving' = [podMoving EXCEPT ![p] = {c}]
          /\ UNCHANGED <<podOn, podFile, podRestart, podResult>> /\ Works
       \/ c \in aside[podOn[p]] /\ Completes(p, "failed") /\ UNCHANGED aside /\ Works
       \/ Completes(p, "failed") /\ UNCHANGED aside /\ Fails
  /\ UNCHANGED <<certs, file, loaded, operator>>

\* Its second rename: the static pod starts with the files there are.
MoveBack(p) ==
  /\ Running(p)
  /\ \E c \in podMoving[p] :
       /\ aside' = [aside EXCEPT ![podOn[p]] = @ \ {c}]
       /\ loaded' = [loaded EXCEPT ![podOn[p]] =
            [f \in File |-> IF c \in UserOf(f) THEN file[podOn[p]][f] ELSE @[f]]]
       /\ podRestart' = [podRestart EXCEPT ![p] = @ \ {c}]
       /\ podMoving' = [podMoving EXCEPT ![p] = {}]
  /\ UNCHANGED <<certs, file, operator, podOn, podFile, podResult, budget>>

\* The pod ends between the two, or the second fails: the manifest stays where it is.
Interrupt(p) ==
  /\ Running(p) /\ podMoving[p] # {}
  /\ interruptions < MaxInterruptions /\ interruptions' = interruptions + 1
  /\ Completes(p, "failed")
  /\ UNCHANGED <<certs, hosts, operator, failures, crashes>>

RestartsDone(p) ==
  /\ Running(p) /\ podFile[p] = Len(Files) + 1 /\ podRestart[p] = {}
  /\ Completes(p, "succeeded") /\ Works
  /\ UNCHANGED <<certs, hosts, operator>>

PodStep == \E p \in Slot : RotateFile(p) \/ MoveAside(p) \/ MoveBack(p) \/ RestartsDone(p)

-----------------------------------------------------------------------------
(* The environment.                                                        *)

Older(age) == IF age < Life THEN age + 1 ELSE Life

\* A check interval passes; a rotation is over long before that.
IntervalPasses ==
  /\ pc = "idle" /\ attempted /\ \A p \in Slot : ~Running(p)
  /\ secret' = [s \in Secret |-> Older(secret[s])]
  /\ inUse'  = [d \in Deployed |-> Older(inUse[d])]
  /\ file'   = [h \in Host |-> [f \in File |-> Older(file[h][f])]]
  /\ loaded' = [h \in Host |-> [f \in File |-> Older(loaded[h][f])]]
  /\ attempted' = FALSE
  /\ UNCHANGED <<sameCA, custom, aside, pc, hostAt, host, hasDeadline, pod, budget>>

\* ekco rotate-kotsadm-certs.
RotateKotsadmCerts ==
  /\ Life - secret["proxy"] <= CliTTL /\ ~custom
  /\ secret' = Saved("proxy")
  /\ UNCHANGED <<sameCA, custom, inUse, hosts, operator, pod, budget>>

\* The operator's pod is replaced, on any primary; the rotate-certs pod is not.
Crash ==
  /\ crashes < MaxCrashes /\ crashes' = crashes + 1
  /\ pc' = "launch" /\ hostAt' = 1 /\ host' \in Host /\ hasDeadline' = FALSE
  /\ podResult' = "none"
  /\ UNCHANGED <<certs, hosts, attempted, podOn, podFile, podRestart, podMoving, failures,
                 interruptions>>

Next ==
  \/ OperatorStep \/ CallFails \/ Deadline \/ PodStep \/ (\E p \in Slot : Interrupt(p))
  \/ IntervalPasses \/ RotateKotsadmCerts \/ Crash

Spec == Init /\ [][Next]_vars

\* Ticks come, calls return, a pod that runs completes, and time passes.
FairSpec == Spec /\ WF_vars(OperatorStep) /\ WF_vars(PodStep) /\ WF_vars(IntervalPasses)

-----------------------------------------------------------------------------
(* Properties.                                                             *)

\* "Rotate any certificates expiring within this timeframe" (cli/operator.go:127): no
\* certificate that ekco manages expires where it is stored, although an attempt that
\* fails is repeated only after the interval, a host that fails stops the hosts behind
\* it, and kotsadm's copy is made before its original is renewed.
NoCertExpires ==
  /\ \A s \in Secret : (s = "proxy" /\ custom) \/ secret[s] < Life
  /\ \A h \in Host, f \in File : f \in ExternalCA \/ file[h][f] < Life

\* Secrets of contour and envoy from different authorities are due: whatever stopped
\* the update between the two (contour_certs.go:149), the next check repairs it.
MismatchIsDue == ~sameCA => ContourDue

\* A manifest that no pod is about to move back, which is for ever.
LeftAside(h) == \E c \in aside[h] : \A p \in Slot : podOn[p] = h => c \notin podMoving[p]

\* A restart that failed or was interrupted is not repeated by the next rotation, which
\* finds the certificate renewed; it is made up for when the certificate is renewed again.
\* That fails only on a host whose rotate-certs pod ended between the two renames of
\* rotate.go:108-114: nothing moves the manifest back, and every later restart of that
\* static pod ends the rotation there.  The hosts behind it in the list do catch up.
RestartsCatchUp ==
  []<>(/\ \A d \in Deployed : inUse[d] = secret[d]
       /\ \A h \in Host : LeftAside(h) \/ \A f \in File : loaded[h][f] = file[h][f])

\* What is in use does not expire either.
InUseNeverExpires ==
  /\ \A d \in Deployed : inUse[d] < Life
  /\ \A h \in Host, f \in File : loaded[h][f] < Life
=============================================================================
