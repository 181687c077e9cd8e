------------------------------ MODULE Cluster ------------------------------
(***************************************************************************)
(* The Pods that execute DockerContainers, with the kubelet and the others *)
(* that end them.  The Pod of an object is named after the object's name   *)
(* and UID (PodName), so there is one Pod slot per UID; the truncated hash *)
(* ContainerID(uid) in that name is taken to be injective.                 *)
(***************************************************************************)
EXTENDS Objects

CONSTANT NoPod

VARIABLE pod   \* pod[u]: the Pod named after the DockerContainer with UID u

clusterVars == <<cr, fresh, pod>>

\* A Pod: the config-hash annotation, whether it carries the owner reference,
\* the phase, and a deletionTimestamp (still running out its grace period).
Pods == [hash : Configs, owned : BOOLEAN, phase : PodPhases, dying : BOOLEAN]

ASSUME NoPodNotPod == NoPod \notin Pods

ClusterTypeOK ==
  /\ ObjectsTypeOK
  /\ pod \in [UIDs -> Pods \cup {NoPod}]

ClusterInit ==
  /\ ObjectsInit
  /\ pod = [u \in UIDs |-> NoPod]

HasPod(u) == pod[u] # NoPod

----------------------------------------------------------------------------
(* Calls on Pods.                                                          *)

\* Mutant of PodFor: no owner reference.
PodForFree(c) == [hash |-> c, owned |-> FALSE, phase |-> "Pending", dying |-> FALSE]

\* The Pod carries the hash of the spec it was built from and refers to the
\* object by UID.
PodFor(c) == [hash |-> c, owned |-> TRUE, phase |-> "Pending", dying |-> FALSE]

\* A Delete with the default grace period.  A Pod that has finished, or was
\* never bound to a node, goes at once; any other keeps its name until the
\* kubelet has stopped it.
GracefulDelete(u) ==
  \/ /\ pod[u].phase \in Terminal \cup {"Pending"}
     /\ pod' = [pod EXCEPT ![u] = NoPod]
  \/ /\ pod[u].phase \in {"Pending", "Running"}
     /\ pod' = [pod EXCEPT ![u].dying = TRUE]

ForceDelete(u) == pod' = [pod EXCEPT ![u] = NoPod]

----------------------------------------------------------------------------
(* The kubelet, and everything else that ends a Pod.                       *)

PodStarts(u) ==
  /\ HasPod(u) /\ pod[u].phase = "Pending" /\ ~pod[u].dying
  /\ pod' = [pod EXCEPT ![u].phase = "Running"]
  /\ UNCHANGED <<cr, fresh>>

PodExits(u) ==
  /\ HasPod(u) /\ pod[u].phase \notin Terminal
  /\ \E ph \in Terminal :
       /\ pod[u].phase = "Pending" => ph = "Failed"
       /\ pod' = [pod EXCEPT ![u].phase = ph]
  /\ UNCHANGED <<cr, fresh>>

PodStopped(u) ==
  /\ HasPod(u) /\ pod[u].dying
  /\ pod' = [pod EXCEPT ![u] = NoPod]
  /\ UNCHANGED <<cr, fresh>>

\* Drain, eviction, kubectl delete, collection of finished Pods.
PodRemovedByOthers(u) ==
  /\ HasPod(u) /\ ~pod[u].dying
  /\ GracefulDelete(u)
  /\ UNCHANGED <<cr, fresh>>

\* The garbage collector follows the owner reference PodFor sets.
OwnerGone(u) ==
  /\ HasPod(u) /\ ~pod[u].dying /\ pod[u].owned /\ cr[u] = Gone
  /\ GracefulDelete(u)
  /\ UNCHANGED <<cr, fresh>>

Kubelet(u) == PodStarts(u) \/ PodExits(u) \/ PodStopped(u)
=============================================================================
