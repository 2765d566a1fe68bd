--------------------------- MODULE MCAdmissionHook ---------------------------
(***************************************************************************)
(* Small clusters, pods and registries for AdmissionHook.                  *)
(***************************************************************************)
EXTENDS AdmissionHook

Zone == "zone"

MCKeys   == {NameField, ArchKey, BetaArchKey, OSKey, Zone, PreferredLabel}
MCValues == {"", "n1", "n2", "n3", "amd64", "arm64", "s390x", "linux", "windows", "a", "b"}

MCNode(name, arch, zone) ==
  [k \in {NameField, ArchKey, OSKey, Zone} |->
     CASE k = NameField -> name [] k = ArchKey -> arch
       [] k = OSKey -> "linux"  [] k = Zone -> zone]

MCNodes == {MCNode("n1", "amd64", "a"), MCNode("n2", "arm64", "a"), MCNode("n3", "arm64", "b")}

MCImages == {"app", "sidecar", NoImage}

P(arch, os) == [arch |-> arch, os |-> os]

MCAnswers ==
  { {P("amd64", "linux")},
    {P("arm64", AnyOS)},
    {P("amd64", "linux"), P("arm64", "linux")},
    {P("amd64", "windows"), P("arm64", "linux")},
    {P("s390x", "linux"), P("amd64", "linux")} }

MCSchedulable  == {"amd64", "arm64"}
MCMatchLabels  == <<Zone>>

Pair(a, b) == [c \in Container |-> IF c = 1 THEN a ELSE b]

PodSpec(images, selector, terms) ==
  [images |-> images, terms |-> terms, nodeName |-> NoNode, nodeSelector |-> selector]

NoLabels    == <<>>
Entry(k, v) == [x \in {k} |-> v]

Request(kind, labels, spec) ==
  [kind |-> kind, labels |-> labels, spec |-> spec,
   op |-> "CREATE", decodes |-> TRUE, hooked |-> FALSE]

Both == Pair("app", "sidecar")
Bare == PodSpec(Both, NoSelector, <<>>)

LabelSets == {NoLabels, Entry(Zone, "a"), Entry(PreferredLabel, "arm64"),
              Entry(PreferredLabel, "s390x")}

MCRequests ==
  {Request(kind, l, s) :
     kind \in {"Pod", "DaemonSet"},
     l \in LabelSets,
     s \in { Bare,
             PodSpec(Pair("app", NoImage), NoSelector, <<>>),
             PodSpec(Both, Entry(Zone, "b"), <<>>),
             PodSpec(Both, NoSelector, <<{Requirement(Zone, {"b"})}>>),
             PodSpec(Both, Entry(ArchKey, "arm64"), <<>>),
             PodSpec(Both, NoSelector, <<{Requirement(NameField, {"n1"})}>>) }}
  \cup {Request("Other", NoLabels, Bare),
        [Request("Pod", NoLabels, Bare) EXCEPT !.decodes = FALSE],
        [Request("Pod", NoLabels, Bare) EXCEPT !.spec.nodeName = "n2"]}

\* One pod of three different images, for the interleavings of its lookups.
MCThreeImages == {"app", "init", "sidecar", NoImage}
Three == [c \in Container |-> CASE c = 1 -> "init" [] c = 2 -> "app" [] c = 3 -> "sidecar"]
MCThreeRequests == {Request("Pod", NoLabels, PodSpec(Three, NoSelector, <<>>))}

\* Pods that come with a node selector term of their own.
MCTermRequests ==
  {Request("Pod", NoLabels, PodSpec(Both, NoSelector, <<{Requirement(Zone, {"a"})}>>))}

\* Pods labelled with a key of --match-node-labels.
MCLabelRequests == {Request("Pod", Entry(Zone, "b"), Bare)}

\* README.md:87-91: the architecture label is one of those to match, and a pod that
\* has a nodeSelector carries it.
MCMatchArch == <<ArchKey>>
MCArchLabelRequests ==
  {Request("Pod", Entry(ArchKey, "arm64"), PodSpec(Both, Entry(Zone, "a"), <<>>))}
=============================================================================
