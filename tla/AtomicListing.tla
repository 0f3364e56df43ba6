---------------------------- MODULE AtomicListing ----------------------------
(***************************************************************************)
(* What listImagesInCluster promises to a reconciliation, which takes it   *)
(* for one step (ListImages of ClusterImageExportReconciler): it returns   *)
(* once, with all containers of the cluster or with an error, and what it  *)
(* has returned nobody writes any more.                                    *)
(***************************************************************************)
EXTENDS Naturals, Sequences

CONSTANTS
  Workload,   \* the workloads of the cluster
  Contents,   \* what the cluster may hold: the image names of each workload
  Valid       \* the image names that can be parsed

VARIABLES
  images,     \* the image names of each workload
  result,     \* "pending", "ok" or "error"
  list        \* the list returned: a workload and an image name per container

listingVars == <<images, result, list>>

Names(s) == {s[n] : n \in 1 .. Len(s)}

Init ==
  /\ images \in Contents
  /\ result = "pending"
  /\ list = {}

Succeed ==
  /\ result = "pending"
  /\ \A i \in Workload : Names(images[i]) \subseteq Valid
  /\ result' = "ok"
  /\ list' = UNION {{i} \X Names(images[i]) : i \in Workload}
  /\ UNCHANGED images

\* Also without a cause of its own: the API server or the context may fail.
Fail ==
  /\ result = "pending"
  /\ result' = "error"
  /\ UNCHANGED <<images, list>>

Spec == Init /\ [][Succeed \/ Fail]_listingVars
=============================================================================
