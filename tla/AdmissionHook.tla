---------------------------- MODULE AdmissionHook ----------------------------
(***************************************************************************)
(* pkg/arch/hook.go: the mutating webhook.  One admission request at a     *)
(* time is followed from the API server to the node the pod is bound to:   *)
(* concurrent requests run in handlers that share no state of their own.   *)
(*                                                                         *)
(* Within a request the concurrency is the code's: one goroutine per image *)
(* asks the registry, each hands its platforms over an unbuffered channel  *)
(* to the handler, which intersects them in arrival order, and the channel *)
(* is closed when every goroutine is done.                                 *)
(***************************************************************************)
EXTENDS NodeSelection, FiniteSets

CONSTANTS
  Requests,          \* the requests the API server may send
  Answers,           \* the platform sets a registry may report for an image
  SystemOS,          \* --system-os
  SchedulableArchs,  \* --cluster-schedulable-archs, {} for no restriction
  DefaultArch,       \* --preferred-arch, NoArch when empty
  MaxUpdates         \* bound: updates of an object after its creation

\* main.go:43: "Sole OS supported by the system".
ASSUME SystemOSAssumption == \A n \in Node : n[OSKey] = SystemOS

IsRequest(r) ==
  /\ r = [kind |-> r.kind, op |-> r.op, decodes |-> r.decodes, hooked |-> r.hooked,
         labels |-> r.labels, spec |-> r.spec]
  /\ r.decodes \in BOOLEAN /\ r.hooked \in BOOLEAN
  /\ IsLabels(r.labels) /\ IsPodSpec(r.spec)

\* Objects as they are created: the webhook has not seen them yet.
ASSUME RequestsAssumption == Requests # {} /\ \A r \in Requests : IsRequest(r) /\ ~r.hooked

ASSUME MaxUpdatesAssumption == MaxUpdates \in Nat
ASSUME PlatformsAssumption ==
  DefaultArch \in Value /\ \A P \in Answers : P \subseteq [arch : Value, os : Value]

NoArch  == ""
AnyOS   == ""
PreferredLabel == "arch.noe.adevinta.com/preferred"

VARIABLES
  supports,    \* what the registry knows: image -> platforms
  req,         \* the request being handled
  pc,          \* the handler: "idle", "inspecting", "answered"
  call,        \* the goroutine of each container's image
  common,      \* commonArchitectures
  firstImage,
  resp,        \* the handler's answer: verdict, warning, resulting spec
  api,         \* the API server: "none", "waiting", "stored", "rejected"
  stored,      \* the persisted specification
  hooked,      \* the persisted specification is an answer of the hook
  node,        \* the node the pod is bound to, or NoNode
  updates

handlerVars == <<req, pc, call, common, firstImage, resp>>
apiVars     == <<api, stored, hooked, node, updates>>
vars        == <<supports, handlerVars, apiVars>>

-----------------------------------------------------------------------------
\* isArchSupported
IsArchSupported(arch) == SchedulableArchs = {} \/ arch \in SchedulableArchs

\* Mutants: the set is keyed by the OS; an unknown OS is filtered out; no OS filter.
ImageOperatingSystems(platforms) ==
  {p.os : p \in {q \in platforms : q.os \in {AnyOS, SystemOS} /\ IsArchSupported(q.arch)}}
ImageArchitecturesKnownOS(platforms) ==
  {p.arch : p \in {q \in platforms : q.os = SystemOS /\ IsArchSupported(q.arch)}}
ImageArchitecturesAnyOS(platforms) ==
  {p.arch : p \in {q \in platforms : IsArchSupported(q.arch)}}

\* imageArchitectures: what the platforms of an image leave after both filters.
ImageArchitectures(platforms) ==
  {p.arch : p \in {q \in platforms : /\ q.os \in {AnyOS, SystemOS}
                                     /\ IsArchSupported(q.arch)}}

\* Mutant: the default overrides the label.
PreferenceDefaultFirst(labels) ==
  IF DefaultArch # NoArch
  THEN [arch |-> DefaultArch, defined |-> TRUE, isDefault |-> TRUE]
  ELSE [arch |-> IF PreferredLabel \in DOMAIN labels THEN labels[PreferredLabel] ELSE NoArch,
        defined |-> PreferredLabel \in DOMAIN labels, isDefault |-> FALSE]

(***************************************************************************)
(* The preferred architecture: the pod's label if it names a schedulable   *)
(* architecture, the default otherwise.  "defined" stays true for a label  *)
(* that was ignored, as in the code.                                       *)
(***************************************************************************)
Preference(labels) ==
  LET defined == PreferredLabel \in DOMAIN labels
      asked   == IF defined THEN labels[PreferredLabel] ELSE NoArch
      own     == IF IsArchSupported(asked) THEN asked ELSE NoArch
  IN  IF own = NoArch /\ DefaultArch # NoArch
      THEN [arch |-> DefaultArch, defined |-> TRUE, isDefault |-> TRUE]
      ELSE [arch |-> own, defined |-> defined, isDefault |-> FALSE]

(***************************************************************************)
(* Leaving Handle.  PatchResponse answers with the difference between the  *)
(* object and its update.  The events recorded are in EventRecorder.       *)
(***************************************************************************)
Respond(verdict, warning, spec) ==
  resp' = [verdict |-> verdict, warning |-> warning, spec |-> spec]

PatchResponse(spec, warning) ==
  /\ Respond("allowed", warning, spec)
  /\ pc' = "answered"

Refuse(r, verdict) ==
  /\ Respond(verdict, FALSE, r.spec)
  /\ pc' = "answered"

NoCalls == [c \in Container |-> "none"]

-----------------------------------------------------------------------------
(***************************************************************************)
(* Handle up to the first blocking call: the switch on kind and operation, *)
(* decoding, and updatePodSpec until the goroutines are started.           *)
(***************************************************************************)
Ignored(r) == r.kind = "Other" \/ (r.kind = "Pod" /\ r.op # "CREATE")

Skip(r) ==
  /\ Ignored(r)
  /\ Respond("allowed", FALSE, r.spec)
  /\ pc' = "answered"
  /\ call' = NoCalls

DecodeFails(r) ==
  /\ ~Ignored(r) /\ ~r.decodes
  /\ Refuse(r, "errored")
  /\ call' = NoCalls

AlreadyPlaced(r) ==
  /\ ~Ignored(r) /\ r.decodes
  /\ \/ /\ r.spec.nodeName # NoNode
        /\ PatchResponse(r.spec, FALSE)
     \/ /\ r.spec.nodeName = NoNode
        /\ PodSpecHasNodeArchitectureSelection(r.spec)
        /\ PatchResponse(AddPodNodeMatchingLabels(r.labels, r.spec), FALSE)
  /\ call' = NoCalls

\* Mutant: a pod that already selects an architecture is inspected as well.
StartLookupsAlways(r) ==
  /\ ~Ignored(r) /\ r.decodes
  /\ r.spec.nodeName = NoNode
  /\ call' = [c \in Container |-> IF c \in Used(r.spec) THEN "calling" ELSE "none"]
  /\ Respond("none", FALSE, r.spec)
  /\ pc' = "inspecting"

StartLookups(r) ==
  /\ ~Ignored(r) /\ r.decodes
  /\ r.spec.nodeName = NoNode
  /\ ~PodSpecHasNodeArchitectureSelection(r.spec)
  /\ call' = [c \in Container |-> IF c \in Used(r.spec) THEN "calling" ELSE "none"]
  /\ Respond("none", FALSE, r.spec)
  /\ pc' = "inspecting"

Handle(r) ==
  /\ pc = "idle"
  /\ api' = "waiting"
  /\ req' = r
  /\ Skip(r) \/ DecodeFails(r) \/ AlreadyPlaced(r) \/ StartLookups(r)
  /\ common' = {}
  /\ firstImage' = TRUE
  /\ UNCHANGED supports

\* A new object is submitted; the previous one is followed no further.
Create(r) ==
  /\ api # "waiting"
  /\ Handle(r)
  /\ stored' = r.spec
  /\ hooked' = FALSE
  /\ node' = NoNode
  /\ updates' = 0

\* A persisted object is submitted again, with the spec it has by now.
Update ==
  /\ api = "stored"
  /\ updates < MaxUpdates
  /\ Handle([req EXCEPT !.op = "UPDATE", !.spec = stored, !.hooked = hooked])
  /\ updates' = updates + 1
  /\ UNCHANGED <<stored, hooked, node>>

-----------------------------------------------------------------------------
\* ListArchs returns; a failure ends the goroutine without a result.
LookupSucceeds(c) ==
  /\ call[c] = "calling"
  /\ call' = [call EXCEPT ![c] = "sending"]
  /\ UNCHANGED <<supports, req, pc, common, firstImage, resp, apiVars>>

LookupFails(c) ==
  /\ call[c] = "calling"
  /\ call' = [call EXCEPT ![c] = "failed"]
  /\ UNCHANGED <<supports, req, pc, common, firstImage, resp, apiVars>>

\* Mutant: later images do not narrow the set down.
CollectFirstOnly(c) ==
  /\ pc = "inspecting"
  /\ call[c] = "sending"
  /\ LET archs == ImageArchitectures(supports[req.spec.images[c]])
     IN  common' = IF firstImage THEN archs ELSE common
  /\ firstImage' = FALSE
  /\ call' = [call EXCEPT ![c] = "received"]
  /\ UNCHANGED <<supports, req, pc, resp, apiVars>>

\* The rendezvous on imagePlatforms and one turn of the handler's loop.
Collect(c) ==
  /\ pc = "inspecting"
  /\ call[c] = "sending"
  /\ LET archs == ImageArchitectures(supports[req.spec.images[c]])
     IN  common' = IF firstImage THEN archs ELSE common \cap archs
  /\ firstImage' = FALSE
  /\ call' = [call EXCEPT ![c] = "received"]
  /\ UNCHANGED <<supports, req, pc, resp, apiVars>>

\* Mutant: wg.Done() is not deferred, and a failing goroutine returns before it.
AllDelivered == \A c \in Container : call[c] \in {"none", "received"}

\* wg.Wait() has returned, so imagePlatforms is closed and the loop ends.
AllDone == \A c \in Container : call[c] \in {"none", "failed", "received"}

\* Mutant: the preference is imposed whether the images allow it or not.
InjectPreferred(spec, labels) ==
  IF Preference(labels).defined
  THEN WithSelector(spec, [k \in {ArchKey} |-> Preference(labels).arch])
  ELSE WithTerm(spec, {Requirement(ArchKey, common)})

\* updatePodSpec after the loop, and the rest of Handle.
Inject(spec, labels) ==
  LET pref == Preference(labels)
  IN  IF pref.defined /\ pref.arch \in common
      THEN WithSelector(spec, [k \in {ArchKey} |-> pref.arch])
      ELSE WithTerm(spec, {Requirement(ArchKey, common)})

Decide ==
  /\ pc = "inspecting"
  /\ AllDone
  /\ \/ /\ firstImage
        /\ PatchResponse(AddPodNodeMatchingLabels(req.labels, req.spec), FALSE)
     \/ /\ ~firstImage /\ common = {}
        /\ Refuse(req, "denied")
     \/ /\ ~firstImage /\ common # {}
        /\ LET pref == Preference(req.labels)
           IN  PatchResponse(AddPodNodeMatchingLabels(req.labels, Inject(req.spec, req.labels)),
                 pref.defined /\ ~pref.isDefault /\ pref.arch \notin common)
  /\ UNCHANGED <<supports, req, call, common, firstImage, apiVars>>

-----------------------------------------------------------------------------
(***************************************************************************)
(* The API server and the scheduler, external.  The webhook is registered  *)
(* with failurePolicy Ignore: a call that takes too long is given up and   *)
(* the object is persisted as it was submitted.                            *)
(***************************************************************************)
Reply ==
  /\ pc = "answered"
  /\ pc' = "idle"
  /\ IF api = "waiting"
     THEN /\ api' = IF resp.verdict = "allowed" THEN "stored" ELSE "rejected"
          /\ stored' = resp.spec
          /\ hooked' = (resp.verdict = "allowed")
          /\ UNCHANGED <<node, updates>>
     ELSE UNCHANGED apiVars
  /\ UNCHANGED <<supports, req, call, common, firstImage, resp>>

GiveUp ==
  /\ api = "waiting"
  /\ api' = "stored"
  /\ stored' = req.spec
  /\ hooked' = req.hooked
  /\ UNCHANGED <<supports, handlerVars, node, updates>>

Bind(n) ==
  /\ api = "stored" /\ req.kind = "Pod" /\ node = NoNode
  /\ n \in Placement(stored)
  /\ node' = n[NameField]
  /\ UNCHANGED <<supports, handlerVars, api, stored, hooked, updates>>

-----------------------------------------------------------------------------
Init ==
  /\ supports \in [Image \ {NoImage} -> Answers]
  /\ req = CHOOSE r \in Requests : TRUE
  /\ pc = "idle"
  /\ call = NoCalls
  /\ common = {}
  /\ firstImage = TRUE
  /\ resp = [verdict |-> "none", warning |-> FALSE, spec |-> req.spec]
  /\ api = "none"
  /\ stored = req.spec
  /\ hooked = FALSE
  /\ node = NoNode
  /\ updates = 0

Next ==
  \/ \E r \in Requests : Create(r)
  \/ Update
  \/ \E c \in Container : LookupSucceeds(c) \/ LookupFails(c) \/ Collect(c)
  \/ Decide
  \/ Reply
  \/ GiveUp
  \/ \E n \in Node : Bind(n)

(***************************************************************************)
(* Every goroutine keeps running and every registry lookup ends.  Nothing  *)
(* obliges a client to submit anything, nor the scheduler to bind.         *)
(***************************************************************************)
Fairness ==
  /\ \A c \in Container : WF_vars(LookupSucceeds(c) \/ LookupFails(c))
  /\ \A c \in Container : WF_vars(Collect(c))
  /\ WF_vars(Decide)

Spec     == Init /\ [][Next]_vars
FairSpec == Spec /\ Fairness

-----------------------------------------------------------------------------
(***************************************************************************)
(* Properties.                                                             *)
(***************************************************************************)
Received     == {c \in Container : call[c] = "received"}
Supported(c) == ImageArchitectures(supports[req.spec.images[c]])

\* The reference definition: what all of the images in S have in common.
CommonTo(S) == {a \in UNION {Supported(c) : c \in S} : \A c \in S : a \in Supported(c)}

\* A node executes an image when the image is built for its platform.
Executes(n, image) ==
  \E p \in supports[image] : p.arch = n[ArchKey] /\ p.os \in {AnyOS, n[OSKey]}

\* Nothing but the hook writes node selector terms, it writes at most one, and no
\* label of the pod replaces the architecture it selects.
OnlyArchTerm(r) ==
  /\ r.spec.terms = <<>>
  /\ ArchKey \notin MatchedKeys(r.labels)
  /\ r.spec.nodeSelector # NoSelector \/ MatchedKeys(r.labels) = {}

Calls == {"none", "calling", "sending", "failed", "received"}

\* Type invariant of the handler, its goroutines and the API server's view
\* of the object (Handler, imageArchResult and admission.Response in hook.go).
TypeOK ==
  /\ supports \in [Image \ {NoImage} -> Answers]
  /\ IsRequest(req)
  /\ pc \in {"idle", "inspecting", "answered"}
  /\ call \in [Container -> Calls]
  /\ common \subseteq UNION {{p.arch : p \in P} : P \in Answers}
  /\ firstImage \in BOOLEAN
  /\ resp.verdict \in {"none", "allowed", "denied", "errored"}
  /\ resp.warning \in BOOLEAN /\ IsPodSpec(resp.spec)
  /\ api \in {"none", "waiting", "stored", "rejected"}
  /\ IsPodSpec(stored) /\ hooked \in BOOLEAN
  /\ node \in {NoNode} \cup {n[NameField] : n \in Node}
  /\ updates \in 0 .. MaxUpdates

\* However the lookups of a request interleave and fail, the accumulator of
\* updatePodSpec (hook.go:351-378) is the intersection over the images
\* inspected so far, and firstImage says whether there is one.
CommonIsIntersection ==
  pc = "inspecting" =>
    /\ firstImage <=> Received = {}
    /\ common = CommonTo(Received)

\* README "Noe will always prioritize a running Pod": a pod is denied
\* (hook.go:385-389) only when no node of a schedulable architecture can
\* execute all of its images, whatever lookups failed on the way.
RunnablePodIsAdmitted ==
  resp.verdict = "denied" =>
    ~ \E n \in Node : /\ IsArchSupported(n[ArchKey])
                      /\ \A c \in Used(req.spec) : Executes(n, req.spec.images[c])

\* README "Pods are scheduled on nodes capable of executing all their images":
\* a pod admitted by the hook runs only where every image the hook could
\* inspect runs, when the architecture term is the only one it has.
ScheduledWhereInspectedImagesRun ==
  hooked /\ OnlyArchTerm(req) =>
    \A n \in Node : n[NameField] = node =>
      \A c \in Received : Executes(n, req.spec.images[c])

\* The nodes that are open to the pod as it was submitted and execute all its images.
Suitable ==
  {n \in Placement(req.spec) : /\ IsArchSupported(n[ArchKey])
                               /\ \A c \in Used(req.spec) : Executes(n, req.spec.images[c])}

\* Of the nodes that suit a pod the hook takes away those that do not have the preferred
\* architecture, if all the images inspected have it (hook.go:391-397), and no other
\* (hook.go:398-420), whatever lookups failed.  So a pod that had a node to run on and
\* no label to match is stranded just when none of its nodes has that architecture.
OnlyPreferenceTakesNodes ==
  LET pref    == Preference(req.labels)
      imposed == pref.defined /\ pref.arch \in CommonTo(Received)
  IN  pc = "answered" /\ resp.verdict = "allowed" /\ MatchedKeys(req.labels) = {}
      => Suitable \cap Placement(resp.spec) = {n \in Suitable : imposed => n[ArchKey] = pref.arch}

\* README "Hinting preferred and supported target architectures": the pod's
\* label wins over --preferred-arch unless it names an architecture that is not
\* schedulable, and the winner is imposed whenever the images allow it; the user is
\* warned exactly when his label could not be honoured and no default replaced it.
\* A pod labelled with an architecture that is itself to be matched gets that one.
PreferenceHonoured ==
  LET labelled == PreferredLabel \in DOMAIN req.labels
      counts   == labelled /\ LET a == req.labels[PreferredLabel] IN a # NoArch /\ IsArchSupported(a)
      wanted   == IF counts THEN req.labels[PreferredLabel] ELSE DefaultArch
  IN  (/\ pc = "answered" /\ resp.verdict = "allowed" /\ Received # {}
       /\ ArchKey \notin MatchedKeys(req.labels))
      => IF wanted \in CommonTo(Received) /\ (labelled \/ wanted # NoArch)
         THEN /\ \A n \in Placement(resp.spec) : n[ArchKey] = wanted
              /\ ~resp.warning
         ELSE resp.warning = (labelled /\ (counts \/ DefaultArch = NoArch))

\* An object the hook has already answered for (a second admission of the same
\* object, or an update of a DaemonSet) and that carries an architecture
\* selection keeps its placement: the label terms appended once more by
\* addPodNodeMatchingLabels (hook.go:305) admit no new node and exclude none.
ReadmissionKeepsPlacement ==
  (pc = "answered" /\ req.hooked /\ PodSpecHasNodeArchitectureSelection(req.spec))
  => resp.verdict = "allowed" /\ Placement(resp.spec) = Placement(req.spec)

\* Every request the hook starts to inspect is answered, whatever lookups fail:
\* no goroutine is left sending and the channel is closed (hook.go:328-352).
InspectionEnds == pc = "inspecting" ~> pc = "answered"

\* README "ensuring that Pods are scheduled on nodes capable of executing all
\* their images", for pods all of whose images were inspected.
ScheduledWhereImagesRun ==
  (hooked /\ Received = Used(req.spec)) =>
    \A n \in Node : n[NameField] = node =>
      \A c \in Received : Executes(n, req.spec.images[c])

\* README "a pod with label failure-domain.beta.kubernetes.io/region=eu-west-3
\* would only be scheduled on nodes with label ...region=eu-west-3".
MatchedLabelsConstrain ==
  hooked =>
    \A n \in Node : n[NameField] = node =>
      \A k \in MatchedKeys(req.labels) : k \in DOMAIN n /\ n[k] = req.labels[k]

=============================================================================
