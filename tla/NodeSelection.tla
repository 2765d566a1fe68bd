---------------------------- MODULE NodeSelection ----------------------------
(***************************************************************************)
(* The part of a pod specification that decides where the pod may run, and *)
(* the helpers of pkg/arch/hook.go that read and extend it.                *)
(*                                                                         *)
(* A node is a function from label keys to values.  A requirement is a     *)
(* key and a set of accepted values (operator In, the only one the hook    *)
(* writes); the field selector "metadata.name" is a requirement with that  *)
(* key.  A node selector term is a set of requirements.                    *)
(***************************************************************************)
EXTENDS Sequences, Naturals

CONSTANTS
  Key, Value,       \* label keys; label values, which include names, architectures and OSs
  Container,        \* the container slots of a pod, init containers included
  Image,            \* image references; NoImage marks an unused slot
  Node,             \* the nodes of the cluster, as functions from keys to values
  MatchNodeLabels,  \* --match-node-labels, a sequence of label keys
  NoSelector        \* a nil pod.spec.nodeSelector

ArchKey     == "kubernetes.io/arch"
BetaArchKey == "beta.kubernetes.io/arch"
OSKey       == "kubernetes.io/os"
NameField   == "metadata.name"

NoImage == ""
NoNode  == ""

Requirement(key, values) == [key |-> key, values |-> values]

IsSequence(s) == s \in Seq({s[i] : i \in DOMAIN s})
IsLabels(f)   == DOMAIN f \subseteq Key /\ f \in [DOMAIN f -> Value]

(***************************************************************************)
(* A pod specification: nodeName is the node it is pinned to, nodeSelector *)
(* is NoSelector or a function from keys to values, terms is               *)
(* affinity.nodeAffinity.requiredDuringScheduling... (<<>> when absent).   *)
(***************************************************************************)
IsPodSpec(spec) ==
  /\ spec = [images |-> spec.images, terms |-> spec.terms,
            nodeName |-> spec.nodeName, nodeSelector |-> spec.nodeSelector]
  /\ spec.images \in [Container -> Image]
  /\ IsSequence(spec.terms)
  /\ spec.nodeName \in Value
  /\ spec.nodeSelector = NoSelector \/ IsLabels(spec.nodeSelector)

ASSUME KeysAssumption == {ArchKey, BetaArchKey, OSKey, NameField} \subseteq Key /\ "" \in Value
ASSUME NoSelectorAssumption == \A K \in SUBSET Key : NoSelector \notin [K -> Value]
ASSUME MatchNodeLabelsAssumption == MatchNodeLabels \in Seq(Key)

\* The kubelet labels its node with its platform; no two nodes have the same name.
ASSUME NodesAssumption ==
  \A n \in Node : /\ IsLabels(n) /\ {ArchKey, OSKey, NameField} \subseteq DOMAIN n
                  /\ n[NameField] # NoNode
                  /\ \A m \in Node : m[NameField] = n[NameField] => m = n

\* GetContainerImages: the slots that name an image.
Used(spec) == {c \in Container : spec.images[c] # NoImage}

SelectorKeys(spec) ==
  IF spec.nodeSelector = NoSelector THEN {} ELSE DOMAIN spec.nodeSelector

TermKeys(spec) ==
  UNION {{r.key : r \in spec.terms[i]} : i \in DOMAIN spec.terms}

\* PodSpecHasNodeArchitectureSelection
PodSpecHasNodeArchitectureSelection(spec) ==
  \/ SelectorKeys(spec) \cap {ArchKey, BetaArchKey} # {}
  \/ TermKeys(spec) \cap {ArchKey, BetaArchKey, NameField} # {}

\* Mutant: nobody makes the affinity of a pod that comes without one.
WithTermIfAny(spec, term) ==
  IF spec.terms = <<>> THEN spec ELSE [spec EXCEPT !.terms = Append(@, term)]

WithTerm(spec, term) == [spec EXCEPT !.terms = Append(@, term)]

WithSelector(spec, f) ==
  LET old == IF spec.nodeSelector = NoSelector THEN <<>> ELSE spec.nodeSelector
  IN  [spec EXCEPT !.nodeSelector =
         [k \in DOMAIN old \cup DOMAIN f |->
            IF k \in DOMAIN f THEN f[k] ELSE old[k]]]

(***************************************************************************)
(* addPodNodeMatchingLabels: every configured key the pod is labelled with *)
(* becomes a new term of its own when the pod has no nodeSelector map, and *)
(* an entry of that map when it has one.  The loop never creates the map,  *)
(* so the test on it has the same outcome for every key.                   *)
(***************************************************************************)
MatchedKeys(labels) == {MatchNodeLabels[i] : i \in DOMAIN MatchNodeLabels} \cap DOMAIN labels

LabelledKeys(labels) == SelectSeq(MatchNodeLabels, LAMBDA k : k \in DOMAIN labels)

MatchingTerms(labels) ==
  LET keys == LabelledKeys(labels)
  IN  [i \in 1 .. Len(keys) |-> {Requirement(keys[i], {labels[keys[i]]})}]

AddPodNodeMatchingLabels(labels, spec) ==
  IF MatchedKeys(labels) = {} THEN spec
  ELSE IF spec.nodeSelector = NoSelector
       THEN [spec EXCEPT !.terms = @ \o MatchingTerms(labels)]
       ELSE WithSelector(spec, [k \in MatchedKeys(labels) |-> labels[k]])

-----------------------------------------------------------------------------
(***************************************************************************)
(* kube-scheduler, external: a node is admitted when it carries every      *)
(* nodeSelector entry and satisfies AT LEAST ONE node selector term, all   *)
(* the requirements of which must hold.                                    *)
(***************************************************************************)
Satisfies(node, r) == r.key \in DOMAIN node /\ node[r.key] \in r.values

NodeAdmits(spec, node) ==
  /\ spec.nodeName \in {NoNode, node[NameField]}
  /\ \A k \in SelectorKeys(spec) : Satisfies(node, Requirement(k, {spec.nodeSelector[k]}))
  /\ \/ spec.terms = <<>>
     \/ \E i \in DOMAIN spec.terms : \A r \in spec.terms[i] : Satisfies(node, r)

\* The nodes a specification can be bound to.
Placement(spec) == {n \in Node : NodeAdmits(spec, n)}

=============================================================================
