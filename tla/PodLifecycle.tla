---------------------------- MODULE PodLifecycle ----------------------------
(***************************************************************************)
(* The webhook and the controller together, as cmd/noe/main.go wires them, *)
(* around one pod of a StatefulSet: AdmissionHook decides what is stored   *)
(* when the pod is created, the scheduler binds what was stored,           *)
(* PodReconciler looks at where it sits and may delete it, whereupon the   *)
(* StatefulSet creates it again.                                           *)
(*                                                                         *)
(* The controller leaves pods alone that select an architecture, which is  *)
(* what the webhook adds (pod.go:152): it repairs what the webhook missed  *)
(* and trusts what the webhook wrote.                                      *)
(***************************************************************************)
EXTENDS Integers, SequencesExt

CONSTANTS
  Key, Value, Container, Image, Node, MatchNodeLabels, NoSelector,   \* see NodeSelection
  Answers, SystemOS, SchedulableArchs, DefaultArch,                  \* see AdmissionHook
  Submission,    \* the request for the pod, the same whenever it is created
  ThePod,        \* its name
  None,
  MaxPods,       \* bound: pods created
  MaxReporting,  \* bound: pods, from the first, whose status is updated
  MaxVersions,   \* bound: a pod of this version has no more status updates
  MaxMisses,     \* bound: admissions given up, and lookups of the webhook that fail
  MaxFailures,   \* bound: lookups of the controller that fail
  MaxRestarts    \* bound: changes of the leader

VARIABLES
  holds,         \* the registry both ask: image -> platforms
  req, handler, call, common, firstImage, resp, api, stored, hooked, node, updates,
  pods, feed, created, pushes, seen, queue, pc, cur, todo, matching,
  podImages, imagePlatforms, gauge, failed, failures, restarts,
  misses,        \* history: admissions given up and lookups of the webhook that failed
  statuses       \* history: status updates of pods the controller may question

hookVars == <<req, handler, call, common, firstImage, resp,
              api, stored, hooked, node, updates>>
controllerVars == <<pods, feed, created, pushes, seen, queue, pc, cur, todo, matching,
                    podImages, imagePlatforms, gauge, failed, failures, restarts>>
histories == <<misses, statuses>>
vars == <<holds, hookVars, controllerVars, histories>>

Hook == INSTANCE AdmissionHook WITH
  supports <- holds, pc <- handler, Requests <- {Submission}, MaxUpdates <- 0

\* The surroundings of the two, see NodeSelection, AdmissionHook and PodReconciler.
ASSUME HookAssumption ==
  /\ Hook!KeysAssumption /\ Hook!NoSelectorAssumption /\ Hook!MatchNodeLabelsAssumption
  /\ Hook!NodesAssumption /\ Hook!SystemOSAssumption
  /\ Hook!RequestsAssumption /\ Hook!PlatformsAssumption

\* As a StatefulSet submits it: the pod names images and no node (hook.go:298).
ASSUME SubmissionAssumption ==
  /\ Submission.kind = "Pod" /\ Submission.op = "CREATE"
  /\ Submission.spec.nodeName = Hook!NoNode /\ Hook!Used(Submission.spec) # {}

ASSUME BoundsAssumption    == MaxPods \in Nat
ASSUME ContainerAssumption == IsFiniteSet(Container)

\* GetContainerImages (pod.go:139): the containers that name an image, in some order, and
\* the images they name.
Slots          == SetToSeq(Hook!Used(Submission.spec))
ImagesOf(spec) == [i \in DOMAIN Slots |-> spec.images[Slots[i]]]

NodeNamed(name) == CHOOSE n \in Node : n[Hook!NameField] = name

Controller == INSTANCE PodReconciler WITH
  Name <- {ThePod},
  Templates <- {[stateful |-> TRUE, selects |-> b, images |-> ImagesOf(Submission.spec)] : b \in BOOLEAN},
  Image <- Image \ {Hook!NoImage},
  NodeLabels <- [name \in {n[Hook!NameField] : n \in Node} |->
                   [arch |-> NodeNamed(name)[Hook!ArchKey], os |-> NodeNamed(name)[Hook!OSKey]]],
  PlatformSets <- Answers,
  MaxUpdates <- 0

pod == pods[ThePod]

-----------------------------------------------------------------------------
(***************************************************************************)
(* The webhook's side.                                                     *)
(***************************************************************************)
\* The StatefulSet finds its pod missing.
Submit ==
  /\ ~Controller!Exists(pod) /\ created[ThePod] < MaxPods
  /\ Hook!Create(Submission)
  /\ UNCHANGED <<controllerVars, histories>>

\* What the controller and the kubelet are to see of the specification that is stored.
Store(spec) ==
  Controller!CreatePod(ThePod,
    [stateful |-> TRUE,
     selects  |-> Hook!PodSpecHasNodeArchitectureSelection(spec),
     images   |-> ImagesOf(spec)])

Inspect ==
  /\ Hook!Decide \/ \E c \in Container : Hook!LookupSucceeds(c) \/ Hook!Collect(c)
  /\ UNCHANGED <<controllerVars, histories>>

\* The answer is stored, if it admits the pod and somebody still waits for it.
Reply ==
  /\ Hook!Reply
  /\ IF api = "waiting" /\ api' = "stored"
     THEN Store(stored')
     ELSE UNCHANGED <<holds, controllerVars>>
  /\ UNCHANGED histories

Miss ==
  /\ misses < MaxMisses
  /\ misses' = misses + 1
  /\ UNCHANGED statuses

GiveUp ==
  /\ Miss
  /\ Hook!GiveUp
  /\ Store(stored')

LookupFails(c) ==
  /\ Miss
  /\ Hook!LookupFails(c)
  /\ UNCHANGED controllerVars

Bind(n) ==
  /\ Hook!Bind(n)
  /\ Controller!Schedule(ThePod, n[Hook!NameField])
  /\ UNCHANGED histories

-----------------------------------------------------------------------------
(***************************************************************************)
(* The controller's side.                                                  *)
(***************************************************************************)
\* What the controller looks into, pod.go:148-154: a pod that is bound and selects no
\* architecture.
Questioned(p) == Controller!Exists(p) /\ ~p.selects /\ p.node # Hook!NoNode

\* Of a StatefulSet: whether it is ready is not asked (pod.go:134).
UpdateStatus ==
  /\ Controller!UpdateStatus(ThePod, FALSE)
  /\ statuses' = statuses + (IF Questioned(pod) THEN 1 ELSE 0)
  /\ UNCHANGED <<hookVars, misses>>

Terminates == Controller!Terminates(ThePod) /\ UNCHANGED <<hookVars, histories>>
Observe    == Controller!Observe(ThePod) /\ UNCHANGED <<hookVars, histories>>
Take       == Controller!Take(ThePod) /\ UNCHANGED <<hookVars, histories>>
List       == (Controller!ImageListed \/ Controller!ImageListFails) /\ UNCHANGED <<hookVars, histories>>
DeletePod  == Controller!DeletePod /\ UNCHANGED <<hookVars, histories>>
Restart    == Controller!Restart /\ UNCHANGED <<hookVars, histories>>

-----------------------------------------------------------------------------
Init ==
  /\ Hook!Init
  /\ Controller!Init
  /\ misses = 0 /\ statuses = 0

Next ==
  \/ Submit \/ Inspect \/ Reply \/ GiveUp
  \/ \E c \in Container : LookupFails(c)
  \/ \E n \in Node : Bind(n)
  \/ UpdateStatus \/ Terminates \/ Observe \/ Take \/ List \/ DeletePod \/ Restart

(***************************************************************************)
(* Each side as in its own module.  The StatefulSet wants its pod back,    *)
(* the scheduler binds it if it can, and the kubelet lets go of it.        *)
(* Nobody has to give up, to fail or to restart.                           *)
(***************************************************************************)
Fairness ==
  /\ WF_vars(Submit) /\ WF_vars(Inspect) /\ WF_vars(Reply)
  /\ WF_vars(\E n \in Node : Bind(n))
  /\ WF_vars(Terminates) /\ WF_vars(Observe)
  /\ SF_vars(Take) /\ WF_vars(List) /\ WF_vars(DeletePod)

Spec     == Init /\ [][Next]_vars
FairSpec == Spec /\ Fairness

-----------------------------------------------------------------------------
(***************************************************************************)
(* Properties.                                                             *)
(***************************************************************************)
Placed == Controller!Exists(pod) /\ pod.node # Hook!NoNode /\ Controller!CanRun(pod)

\* Some node executes all the images of the pod and is one it may be bound to.
Runnable ==
  \E n \in Hook!Placement(Submission.spec) :
    /\ Hook!IsArchSupported(n[Hook!ArchKey])
    /\ \A c \in Hook!Used(Submission.spec) : Hook!Executes(n, Submission.spec.images[c])

\* The webhook chose the pod's architectures without having heard of all its images.
HalfInspected ==
  /\ Controller!Exists(pod) /\ hooked /\ pod.selects
  /\ \E c \in Container : call[c] = "failed"

\* README.md:5, "ensuring that Pods are scheduled on nodes capable of executing all
\* their images", by both sides together (pod_test.go:836, "WhenPodBelongsTo-
\* StatefulSetIsAlwaysChecked"): however many admissions are given up and lookups fail
\* before, the pod ends up, and stays, where it runs.  What nobody repairs is a pod
\* the webhook constrained by some of its images only, as the controller trusts that
\* it selects an architecture.
PlacedInTheEnd ==
  Runnable => <>[](Placed \/ HalfInspected \/ ThePod \in failed)

\* The same of all pods.  Does not hold: a lookup of the webhook that fails
\* (hook.go:336) leaves a constraint that the controller does not question (pod.go:152).
PlacedInTheEndWhateverFails ==
  Runnable => <>[](Placed \/ ThePod \in failed)

\* The two do not fight.  Every version of a pod enqueues its name (pod.go:124, 354-358) and
\* the deletion goes by name (pod.go:277), so that each of several stale versions of a pod
\* that is gone may delete a successor.  But none deletes twice, also not across a change of
\* the leader, and a pod that selects an architecture, as the webhook's do, has none that
\* deletes: a miss of the webhook costs at most a creation for the version in which the
\* pod is bound, one for that in which it is marked, and one for every status update.
\* Without a miss nothing is ever deleted.
RepairsAreFew == created[ThePod] <= 1 + 2 * misses + statuses

\* The pod that was examined is deleted only from a node that cannot execute one of its
\* images, as PodReconciler states it, for the pods the webhook lets through.
DeletesOnlyMisplaced == Controller!DeletesOnlyMisplaced

=============================================================================
