--------------------------- MODULE MCPodLifecycle ---------------------------
(***************************************************************************)
(* A pod of two images in a cluster of two nodes.                          *)
(***************************************************************************)
EXTENDS PodLifecycle

MCKeys   == {"metadata.name", "kubernetes.io/arch", "beta.kubernetes.io/arch", "kubernetes.io/os"}
MCValues == {"", "intel", "arm", "amd64", "arm64", "linux"}

MCNode(name, arch) ==
  [k \in MCKeys \ {"beta.kubernetes.io/arch"} |->
     CASE k = "metadata.name" -> name
       [] k = "kubernetes.io/arch" -> arch
       [] k = "kubernetes.io/os" -> "linux"]

MCNodes  == {MCNode("intel", "amd64"), MCNode("arm", "arm64")}
MCImages == {"app", "sidecar", ""}

P(arch)   == [arch |-> arch, os |-> "linux"]
MCAnswers == {{P("amd64")}, {P("amd64"), P("arm64")}}

MCSubmission ==
  [kind |-> "Pod", op |-> "CREATE", decodes |-> TRUE, hooked |-> FALSE, labels |-> <<>>,
   spec |-> [images |-> <<"app", "sidecar">>, terms |-> <<>>,
             nodeName |-> "", nodeSelector |-> NoSelector]]

MCSchedulable == {}
MCMatchLabels == <<>>
=============================================================================
