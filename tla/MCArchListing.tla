---------------------------- MODULE MCArchListing ----------------------------
(***************************************************************************)
(* Images and credentials for ArchListing: every authenticator that finds  *)
(* something, the pull secret and the kubelet's plugin two credentials     *)
(* each, in the order of NewAuthenticator.                                 *)
(***************************************************************************)
EXTENDS ArchListing

MCCandidates == <<"secret", "secret", "kubelet", "kubelet", "containerd", "anonymous">>

MCManifest == 1 .. 3

P(arch, os) == [arch |-> arch, os |-> os]

Lists == { <<P("amd64", "linux"), P("arm64", "linux"), P("unknown", "unknown")>>,
           <<P("amd64", "linux"), P("amd64", "windows"), P("arm64", "linux")>>,
           <<P("arm64", "linux"), P("s390x", "linux"), P("ppc64le", "linux")>>,
           <<P("s390x", "linux")>>,
           <<>> }

MCImages ==
  {[arch |-> "", list |-> TRUE, platforms |-> l, missing |-> miss] :
     l \in Lists, miss \in SUBSET MCManifest}
  \cup {[arch |-> a, list |-> FALSE, platforms |-> <<>>, missing |-> {}] : a \in {"", "arm64"}}

MCSchedulable == {"amd64", "arm64"}
=============================================================================
