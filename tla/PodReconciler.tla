---------------------------- MODULE PodReconciler ----------------------------
(***************************************************************************)
(* pkg/controllers/pod.go: the controller that counts the images of the    *)
(* cluster and deletes pods from nodes that cannot execute them.           *)
(*                                                                         *)
(* One worker reconciles pod names off a queue.  It reads pods from the    *)
(* informer's cache, which takes the versions of a pod one after the other *)
(* and lags behind the API server, waits for the registry once per image,  *)
(* and deletes by name.                                                    *)
(***************************************************************************)
EXTENDS Integers, Sequences, FiniteSets

CONSTANTS
  Name,           \* pod names
  Templates,      \* [stateful, selects, images]: what may be created
  Image,
  NodeLabels,     \* node name -> [arch, os]
  None,           \* no name
  PlatformSets,   \* what the registry may hold for an image
  MaxPods,        \* bound: pods created under one name
  MaxReporting,   \* bound: pods of a name, from the first, with status updates but readiness
  MaxVersions,    \* bound: a pod of this version has no more of them
  MaxUpdates,     \* bound: images pushed again with other platforms
  MaxFailures,    \* bound: lookups that fail
  MaxRestarts     \* bound: restarts of the leader

ASSUME NamesAssumption == IsFiniteSet(Name)

\* A pod has at least one container.
ASSUME TemplatesAssumption ==
  \A t \in Templates : /\ t \in [stateful : BOOLEAN, selects : BOOLEAN, images : Seq(Image)]
                       /\ t.images # <<>>

ASSUME MaxPodsAssumption == MaxPods \in Nat

VARIABLES
  pods,           \* the API server
  feed,           \* its watch: what the informer has yet to take, in order
  created,        \* pods created so far under each name
  holds,          \* the registry: image -> platforms
  pushes,
  seen,           \* the informer's cache
  queue,          \* names to reconcile
  pc,             \* the worker: "idle", "listing", "deleting"
  cur,            \* name and pod it is reconciling
  todo,           \* index of the image it asks the registry for
  matching,       \* podScheduledOnMatchingNode
  podImages,      \* name -> images, or NotCached
  imagePlatforms, \* image -> [platforms, refcount]
  gauge,          \* the metric ImageCount; 0 is an absent series
  failed,         \* names of pods that stood and could not be deleted
  failures,       \* lookups that failed
  restarts

clusterVars == <<pods, feed, created, holds, pushes>>
workVars    == <<pc, cur, todo, matching>>
cacheVars   == <<podImages, imagePlatforms, gauge>>
boundVars   == <<failures, restarts>>
vars == <<clusterVars, seen, queue, workVars, cacheVars, failed, boundVars>>

NoNode    == ""
NotCached == <<>>
Absent    == [uid |-> 0]
Unused    == [platforms |-> {}, refcount |-> 0]
Platform  == UNION PlatformSets

Exists(pod) == pod.uid # 0
Stands(n)   == Exists(pods[n]) /\ pods[n].deleted = "no"

-----------------------------------------------------------------------------
(***************************************************************************)
(* The cluster, external.                                                  *)
(***************************************************************************)
\* Mutant: every platform of the image has to be the node's.
MatchesAll(platforms, node) ==
  \A p \in platforms : p.os = NodeLabels[node].os /\ p.arch = NodeLabels[node].arch

Matches(platforms, node) ==
  \E p \in platforms : p.os = NodeLabels[node].os /\ p.arch = NodeLabels[node].arch

\* An image without a stated OS runs wherever its architecture does.
Executes(node, image) ==
  \E p \in holds[image] : p.os \in {"", NodeLabels[node].os} /\ p.arch = NodeLabels[node].arch

Images(pod) == {pod.images[i] : i \in DOMAIN pod.images}

CanRun(pod) == \A i \in Images(pod) : Executes(pod.node, i)

\* Every write is watched.
Write(n, pod) ==
  /\ pods' = [pods EXCEPT ![n] = pod]
  /\ feed' = [feed EXCEPT ![n] = Append(@, pod)]

Touch(n, pod) ==
  /\ Write(n, pod)
  /\ UNCHANGED <<holds, pushes, seen, queue, workVars, cacheVars, failed, boundVars>>

NextVersion(pod) == [pod EXCEPT !.version = @ + 1]

Update(n, pod) == Touch(n, NextVersion(pod)) /\ UNCHANGED created

CreatePod(n, t) ==
  /\ ~Exists(pods[n]) /\ created[n] < MaxPods
  /\ created' = [created EXCEPT ![n] = @ + 1]
  /\ Touch(n, [uid |-> created'[n], version |-> 1, stateful |-> t.stateful,
               selects |-> t.selects, images |-> t.images, node |-> NoNode, ready |-> FALSE, deleted |-> "no"])

Schedule(n, node) ==
  /\ Stands(n) /\ pods[n].node = NoNode
  /\ Update(n, [pods[n] EXCEPT !.node = node])

UserDeletes(n) ==
  /\ Stands(n)
  /\ Update(n, [pods[n] EXCEPT !.deleted = "user"])

\* The scheduler or the kubelet reports on a pod, also on its way out.  It becomes ready
\* only where its images run (pod.go:327-333); other reports are bounded.
UpdateStatus(n, ready) ==
  LET becomesReady == ready /\ ~pods[n].ready IN
  /\ Exists(pods[n])
  /\ becomesReady => pods[n].node # NoNode /\ CanRun(pods[n])
  /\ ~becomesReady => pods[n].uid <= MaxReporting /\ pods[n].version < MaxVersions
  /\ Update(n, [pods[n] EXCEPT !.ready = ready])

\* The kubelet has stopped a pod that was being deleted.
Terminates(n) ==
  /\ Exists(pods[n]) /\ pods[n].deleted # "no"
  /\ Touch(n, Absent)
  /\ UNCHANGED created

Push(i, platforms) ==
  /\ pushes < MaxUpdates /\ platforms # holds[i]
  /\ holds' = [holds EXCEPT ![i] = platforms]
  /\ pushes' = pushes + 1
  /\ UNCHANGED <<pods, feed, created, seen, queue, workVars, cacheVars, failed, boundVars>>

\* The informer takes the next version of a pod, and its event enqueues the name, which
\* the queue holds once.
Observe(n) ==
  /\ feed[n] # <<>>
  /\ seen' = [seen EXCEPT ![n] = Head(feed[n])]
  /\ feed' = [feed EXCEPT ![n] = Tail(@)]
  /\ queue' = queue \cup {n}
  /\ UNCHANGED <<pods, created, holds, pushes, workVars, cacheVars, failed, boundVars>>

-----------------------------------------------------------------------------
\* Mutant: the series of platforms the image no longer has are kept.
IncrementOnly(i, platforms) ==
  /\ imagePlatforms' =
       [imagePlatforms EXCEPT ![i] = [platforms |-> platforms, refcount |-> @.refcount + 1]]
  /\ gauge' = [gauge EXCEPT ![i] =
       [p \in Platform |-> IF p \in platforms THEN @[p] + 1 ELSE @[p]]]

\* incrementPlatformStatistics: the series of a platform the image no longer has
\* is deleted, those of the platforms it has are incremented.
Increment(i, platforms) ==
  /\ imagePlatforms' =
       [imagePlatforms EXCEPT ![i] = [platforms |-> platforms, refcount |-> @.refcount + 1]]
  /\ gauge' = [gauge EXCEPT ![i] =
       [p \in Platform |->
          IF p \in platforms THEN @[p] + 1
          ELSE IF p \in imagePlatforms[i].platforms THEN 0 ELSE @[p]]]

Occurrences(images, i) == Cardinality({k \in DOMAIN images : images[k] = i})

(***************************************************************************)
(* decrementPlatformStatistics for the images of a pod: an image the pod   *)
(* names n times is decremented n times, until its count is zero and its   *)
(* entry and its series are gone.                                          *)
(***************************************************************************)
Decremented(usage, n) ==
  IF usage.refcount = 0 THEN usage
  ELSE IF usage.refcount <= n THEN Unused
  ELSE [usage EXCEPT !.refcount = @ - n]

DecrementedSeries(usage, n, count) ==
  [p \in Platform |->
     IF usage.refcount = 0 \/ p \notin usage.platforms THEN count[p]
     ELSE IF usage.refcount <= n THEN 0
     ELSE count[p] - n]

DecrementAll(images) ==
  /\ imagePlatforms' =
       [i \in Image |-> Decremented(imagePlatforms[i], Occurrences(images, i))]
  /\ gauge' =
       [i \in Image |-> DecrementedSeries(imagePlatforms[i], Occurrences(images, i), gauge[i])]

\* Mutant: the pod stays in the cache.
DeleteNothing(n) ==
  /\ DecrementAll(podImages[n])
  /\ UNCHANGED podImages

\* deleteFromCache
DeleteFromCache(n) ==
  /\ podImages' = [podImages EXCEPT ![n] = NotCached]
  /\ DecrementAll(podImages[n])

-----------------------------------------------------------------------------
\* Between two reconciliations.
Resting == [name |-> None, pod |-> Absent]

Rest ==
  /\ pc' = "idle"
  /\ cur' = Resting
  /\ todo' = 1
  /\ matching' = TRUE

\* Reconcile up to the first image.
ReconcileGone(n) ==
  /\ pc = "idle" /\ n \in queue
  /\ ~Exists(seen[n])
  /\ DeleteFromCache(n)
  /\ queue' = queue \ {n}
  /\ UNCHANGED <<clusterVars, seen, workVars, failed, boundVars>>

\* Mutant: pods of a StatefulSet are not told apart.
ProcessedAny(n) == podImages[n] # NotCached \/ seen[n].ready

Processed(n) == ~seen[n].stateful /\ (podImages[n] # NotCached \/ seen[n].ready)

ReconcileProcessed(n) ==
  /\ pc = "idle" /\ n \in queue
  /\ Exists(seen[n]) /\ Processed(n)
  /\ queue' = queue \ {n}
  /\ UNCHANGED <<clusterVars, seen, workVars, cacheVars, failed, boundVars>>

\* Reading the node can fail, which leaves the name in the queue.
ReconcileStarts(n) ==
  /\ pc = "idle" /\ n \in queue
  /\ Exists(seen[n]) /\ ~Processed(n)
  /\ queue' = queue \ {n}
  /\ pc' = "listing"
  /\ cur' = [name |-> n, pod |-> seen[n]]
  /\ todo' = 1
  /\ matching' = TRUE
  /\ UNCHANGED <<clusterVars, seen, cacheVars, failed, boundVars>>

\* Mutant: the loop runs one image too far.
ImageListedPastEnd ==
  /\ pc = "listing" /\ todo \in DOMAIN cur.pod.images
  /\ Increment(cur.pod.images[todo], holds[cur.pod.images[todo]])
  /\ todo' = todo + 1
  /\ UNCHANGED <<clusterVars, seen, queue, pc, cur, matching, podImages, failed, boundVars>>

(***************************************************************************)
(* One turn of podScheduledOnMatchingNode's loop and, after the last, the  *)
(* rest of Reconcile up to the deletion.                                   *)
(***************************************************************************)
ImageListed ==
  LET image == cur.pod.images[todo]
      platforms == holds[image]
      match == matching /\ (cur.pod.node # NoNode => Matches(platforms, cur.pod.node))
  IN
  /\ pc = "listing"
  /\ Increment(image, platforms)
  /\ \/ /\ todo < Len(cur.pod.images)
        /\ todo' = todo + 1
        /\ matching' = match
        /\ UNCHANGED <<podImages, pc, cur>>
     \/ /\ todo = Len(cur.pod.images)
        /\ podImages' = [podImages EXCEPT ![cur.name] = cur.pod.images]
        /\ \/ (match \/ cur.pod.selects) /\ Rest
           \/ ~match /\ ~cur.pod.selects /\ pc' = "deleting" /\ UNCHANGED <<cur, todo, matching>>
  /\ UNCHANGED <<clusterVars, seen, queue, failed, boundVars>>

\* An error is returned and the name queued again.
ImageListFails ==
  /\ pc = "listing" /\ failures < MaxFailures
  /\ failures' = failures + 1
  /\ Rest
  /\ queue' = queue \cup {cur.name}
  /\ UNCHANGED <<clusterVars, seen, cacheVars, failed, restarts>>

\* deletePodAndNotifyUser: by name, whatever pod has it now.  A pod that is gone or on its
\* way out is not changed, whether or not the call returns an error.
DeletePod ==
  /\ pc = "deleting"
  /\ Rest
  /\ \/ /\ Stands(cur.name)
        /\ Write(cur.name, NextVersion([pods[cur.name] EXCEPT !.deleted = "noe"]))
        /\ UNCHANGED failed
     \/ /\ Stands(cur.name)
        /\ failed' = failed \cup {cur.name}
        /\ UNCHANGED <<pods, feed>>
     \/ /\ ~Stands(cur.name)
        /\ UNCHANGED <<pods, feed, failed>>
  /\ UNCHANGED <<created, holds, pushes, seen, queue, cacheVars, boundVars>>

\* A restart, or another replica becoming the leader: memory is lost, every pod is listed
\* and enqueued.  The informer of pods is the controller's: a replica in waiting has none.
Restart ==
  /\ restarts < MaxRestarts
  /\ restarts' = restarts + 1
  /\ seen' = pods
  /\ feed' = [n \in Name |-> <<>>]
  /\ queue' = {n \in Name : Exists(pods[n])}
  /\ Rest
  /\ podImages' = [n \in Name |-> NotCached]
  /\ imagePlatforms' = [i \in Image |-> Unused]
  /\ gauge' = [i \in Image |-> [p \in Platform |-> 0]]
  /\ UNCHANGED <<pods, created, holds, pushes, failed, failures>>

-----------------------------------------------------------------------------
Init ==
  /\ pods = [n \in Name |-> Absent]
  /\ created = [n \in Name |-> 0]
  /\ holds \in [Image -> PlatformSets]
  /\ pushes = 0
  /\ feed = [n \in Name |-> <<>>]
  /\ seen = pods
  /\ queue = {}
  /\ pc = "idle"
  /\ cur = Resting
  /\ todo = 1
  /\ matching = TRUE
  /\ podImages = [n \in Name |-> NotCached]
  /\ imagePlatforms = [i \in Image |-> Unused]
  /\ gauge = [i \in Image |-> [p \in Platform |-> 0]]
  /\ failed = {}
  /\ failures = 0
  /\ restarts = 0

Cluster ==
  \/ \E n \in Name : \/ \E t \in Templates : CreatePod(n, t)
                     \/ \E node \in DOMAIN NodeLabels : Schedule(n, node)
                     \/ \E ready \in BOOLEAN : UpdateStatus(n, ready)
                     \/ UserDeletes(n) \/ Terminates(n)
  \/ \E i \in Image, platforms \in PlatformSets : Push(i, platforms)

Take(n) == ReconcileGone(n) \/ ReconcileProcessed(n) \/ ReconcileStarts(n)

Next ==
  \/ Cluster
  \/ \E n \in Name : Observe(n) \/ Take(n)
  \/ ImageListed \/ ImageListFails
  \/ DeletePod
  \/ Restart

(***************************************************************************)
(* The informer keeps up, the queue is first in first out (strong fairness *)
(* for each name, as the worker is busy in between) and calls end.  The    *)
(* registry does not fail for ever: MaxFailures bounds it.                 *)
(***************************************************************************)
Fairness ==
  /\ \A n \in Name : WF_vars(Observe(n)) /\ SF_vars(Take(n))
  /\ WF_vars(ImageListed \/ ImageListFails)
  /\ WF_vars(DeletePod)

Spec     == Init /\ [][Next]_vars
FairSpec == Spec /\ Fairness

-----------------------------------------------------------------------------
(***************************************************************************)
(* Properties.                                                             *)
(***************************************************************************)
\* How often the pods in the controller's cache name an image.
MentionsBy(n, images, i) == {<<n, k>> : k \in {j \in DOMAIN images : images[j] = i}}
Mentions(lists, i)       == UNION {MentionsBy(n, lists[n], i) : n \in Name}
References(i)            == Cardinality(Mentions(podImages, i))

Lists == {t.images : t \in Templates}
Pod   == [uid : 1 .. MaxPods, version : Nat, stateful : BOOLEAN, selects : BOOLEAN,
          images : Lists, node : {NoNode} \cup DOMAIN NodeLabels, ready : BOOLEAN,
          deleted : {"no", "user", "noe"}]

\* The state of PodReconciler (pod.go:80-86), of its worker and of its metric.
TypeOK ==
  /\ pods \in [Name -> {Absent} \cup Pod] /\ seen \in [Name -> {Absent} \cup Pod]
  /\ feed \in [Name -> Seq({Absent} \cup Pod)]
  /\ created \in [Name -> 0 .. MaxPods]
  /\ holds \in [Image -> PlatformSets]
  /\ queue \subseteq Name /\ failed \subseteq Name
  /\ \/ pc = "idle" /\ cur = Resting
     \/ /\ pc \in {"listing", "deleting"} /\ cur \in [name : Name, pod : Pod]
        /\ todo \in DOMAIN cur.pod.images
  /\ matching \in BOOLEAN
  /\ podImages \in [Name -> {NotCached} \cup Lists]
  /\ imagePlatforms \in [Image -> [platforms : PlatformSets \cup {{}}, refcount : Nat]]
  /\ gauge \in [Image -> [Platform -> Int]]

\* Metric help "Total number of pods deleted because scheduled on mismatching
\* instance architecture" (pod.go:62): a pod the controller deletes is on a node that
\* cannot execute one of its images.
DeletedPodsMismatch ==
  \A n \in Name : Exists(pods[n]) /\ pods[n].deleted = "noe" =>
    pods[n].node # NoNode /\ ~CanRun(pods[n])

\* The pod that was examined is deleted (pod.go:154-160, 276-280) only from a node that
\* cannot execute one of its images: not for an answer about another image or for
\* another pod's node, after failed lookups, restarts and events in between.
DeletesOnlyMisplaced ==
  [][\A n \in Name :
       (/\ Exists(pods[n]) /\ pods[n].deleted # "noe" /\ pods[n].uid = cur.pod.uid
        /\ Exists(pods'[n]) /\ pods'[n].deleted = "noe")
       => pods[n].node # NoNode /\ ~CanRun(pods[n])]_vars

\* The reference count of an image never falls below the pods that hold it in
\* the cache, across failed lookups, repeated reconciliations, a pod that comes
\* back under its name and restarts (pod.go:216-274): no series is removed
\* while a pod that was counted remains.
CountedPodsAreHeld == \A i \in Image : imagePlatforms[i].refcount >= References(i)

\* pod_test.go:307, the last pod is deleted: no series is left behind for an
\* image nobody holds or a platform the image no longer has (pod.go:240-252,
\* 266-272), however pushes interleave with the reconciliations.
NoStaleSeries ==
  \A i \in Image, p \in Platform :
    gauge[i][p] # 0 => imagePlatforms[i].refcount > 0 /\ p \in imagePlatforms[i].platforms

\* pod_test.go:367 "ReconcileShouldDeletePodsOnMismatchingNodes", whose pod belongs to a
\* Deployment: a pod that sits on a node that cannot execute it is deleted or its failed
\* deletion is reported.  Does not hold of pods that are judged before they are bound.
Misplaced(n) ==
  /\ Stands(n)
  /\ ~pods[n].selects /\ pods[n].node # NoNode /\ ~CanRun(pods[n])

MismatchesEnd == \A n \in Name : Misplaced(n) ~> (~Misplaced(n) \/ n \in failed)

\* Metric help "Number of images in the cluster at a given point in time"
\* (pod.go:53): at no point less than none, ...
ImageCountNotNegative == \A i \in Image, p \in Platform : gauge[i][p] >= 0

\* ... and, when the controller has nothing left to do, as many as there are.
Uses(i) ==
  Cardinality(Mentions([n \in Name |-> IF Exists(pods[n]) THEN pods[n].images ELSE <<>>], i))
AtRest == pc = "idle" /\ queue = {} /\ \A n \in Name : feed[n] = <<>>

ImageCountNotTooHigh ==
  AtRest => \A i \in Image : \A p \in holds[i] : gauge[i][p] <= Uses(i)
ImageCountNotTooLow ==
  AtRest => \A i \in Image : \A p \in holds[i] : gauge[i][p] >= Uses(i)

=============================================================================
