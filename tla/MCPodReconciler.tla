--------------------------- MODULE MCPodReconciler ---------------------------
(***************************************************************************)
(* Clusters of two nodes, and pods of one or two images.                   *)
(***************************************************************************)
EXTENDS PodReconciler, TLC

MCNodeLabels == [n \in {"intel", "arm"} |->
  IF n = "intel" THEN [arch |-> "amd64", os |-> "linux"] ELSE [arch |-> "arm64", os |-> "linux"]]

MCOneNode == [n \in {"arm"} |-> MCNodeLabels[n]]

P(arch, os) == [arch |-> arch, os |-> os]

Intel == {P("amd64", "linux")}
Arm   == {P("arm64", "linux")}

Symmetric == Permutations(Name)

MCPlatformSets  == {Intel, Intel \cup Arm}
MCPushSets      == {Intel, Arm}
MCNoOSSets      == {{P("arm64", "")}}

Template(stateful, selects, images) ==
  [stateful |-> stateful, selects |-> selects, images |-> images]

One  == <<"app">>
Two  == <<"app", "sidecar">>
Same == <<"app", "app">>

MCDeploymentPods  == {Template(FALSE, FALSE, One)}
MCStatefulPods    == {Template(TRUE, FALSE, One)}
MCDeploymentTwo   == {Template(FALSE, FALSE, Two)}
MCTwicePods       == {Template(FALSE, FALSE, Same), Template(FALSE, FALSE, One)}
MCCountedPods     == {Template(FALSE, FALSE, Same), Template(TRUE, TRUE, One)}
=============================================================================
