------------------------- MODULE PodReconcilerProofs -------------------------
(***************************************************************************)
(* The controller, for any cluster, any pods and any number of pushes,     *)
(* failures and restarts: the reference counts cover the pods in its       *)
(* cache, no series is left behind, and what it deletes is misplaced.      *)
(***************************************************************************)
EXTENDS PodReconciler, FiniteSetTheorems, TLAPS

-----------------------------------------------------------------------------
(***************************************************************************)
(* Counting the mentions of an image.                                      *)
(***************************************************************************)
\* The positions of an image among the first n of a list.
Among(images, i, n) == {k \in 1 .. n : images[k] = i}

LEMMA AmongIsFinite ==
  ASSUME NEW images, NEW i, NEW n \in Nat
  PROVE  IsFiniteSet(Among(images, i, n)) /\ Cardinality(Among(images, i, n)) \in Nat
<1>1. IsFiniteSet(1 .. n)
  BY FS_Interval
<1>2. Among(images, i, n) \in SUBSET (1 .. n)
  BY DEF Among
<1> QED
  BY <1>1, <1>2, FS_Subset, FS_CardinalityType

LEMMA AmongNext ==
  ASSUME NEW images, NEW i, NEW n \in Nat
  PROVE  Cardinality(Among(images, i, n + 1)) =
           Cardinality(Among(images, i, n)) + (IF images[n + 1] = i THEN 1 ELSE 0)
<1>1. CASE images[n + 1] = i
  <2>1. Among(images, i, n + 1) = Among(images, i, n) \cup {n + 1} /\ n + 1 \notin Among(images, i, n)
    BY <1>1 DEF Among
  <2> QED
    BY <1>1, <2>1, AmongIsFinite, FS_AddElement
<1>2. CASE images[n + 1] # i
  <2>1. Among(images, i, n + 1) = Among(images, i, n)
    BY <1>2 DEF Among
  <2> QED
    BY <1>2, <2>1, AmongIsFinite
<1> QED
  BY <1>1, <1>2

LEMMA AmongAll ==
  ASSUME NEW images \in Seq(Image), NEW i
  PROVE  /\ Occurrences(images, i) = Cardinality(Among(images, i, Len(images)))
         /\ Occurrences(images, i) \in Nat
<1>1. {k \in DOMAIN images : images[k] = i} = Among(images, i, Len(images))
  BY DEF Among
<1>2. Len(images) \in Nat
  OBVIOUS
<1> QED
  BY <1>1, <1>2, AmongIsFinite DEF Occurrences

LEMMA AmongNone == ASSUME NEW images, NEW i PROVE Cardinality(Among(images, i, 0)) = 0
<1>1. Among(images, i, 0) = {}
  BY DEF Among
<1> QED
  BY <1>1, FS_EmptySet

LEMMA MentionsByIsFinite ==
  ASSUME NEW n, NEW images \in Seq(Image), NEW i
  PROVE  /\ IsFiniteSet(MentionsBy(n, images, i))
         /\ Cardinality(MentionsBy(n, images, i)) = Occurrences(images, i)
<1> DEFINE S == {k \in DOMAIN images : images[k] = i}
           T == MentionsBy(n, images, i)
           f == [k \in S |-> <<n, k>>]
<1>1. IsFiniteSet(S)
  <2>1. S = Among(images, i, Len(images)) /\ Len(images) \in Nat
    BY DEF Among
  <2> QED
    BY <2>1, AmongIsFinite
<1>2. f \in Bijection(S, T)
  <2>1. f \in [S -> T]
    BY DEF MentionsBy
  <2>2. \A t \in T : \E k \in S : f[k] = t
    BY DEF MentionsBy
  <2>3. \A k, l \in S : f[k] = f[l] => k = l
    OBVIOUS
  <2> HIDE DEF f, T, S
  <2> QED
    BY <2>1, <2>2, <2>3 DEF Bijection, Injection, Surjection, IsInjective
<1>3. ExistsBijection(S, T)
  BY <1>2 DEF ExistsBijection
<1> QED
  BY <1>1, <1>3, FS_Bijection DEF Occurrences

LEMMA Mentioned ==
  ASSUME NEW lists, NEW i, NEW m
  PROVE  m \in Mentions(lists, i) <=> \E n \in Name : m \in MentionsBy(n, lists[n], i)
BY DEF Mentions

LEMMA MentionsIsFinite ==
  ASSUME NEW lists \in [Name -> Seq(Image)], NEW i
  PROVE  /\ IsFiniteSet(Mentions(lists, i))
         /\ Cardinality(Mentions(lists, i)) \in Nat
<1> DEFINE f == [n \in Name |-> MentionsBy(n, lists[n], i)]
           T == {MentionsBy(n, lists[n], i) : n \in Name}
<1>1. f \in Surjection(Name, T)
  BY DEF Surjection
<1>2. IsFiniteSet(T)
  BY <1>1, NamesAssumption, FS_Surjection
<1>3. \A t \in T : IsFiniteSet(t)
  BY MentionsByIsFinite
<1>4. IsFiniteSet(UNION T)
  <2> HIDE DEF T
  <2> QED
    BY <1>2, <1>3, FS_UNION
<1> QED
  BY <1>4, FS_CardinalityType DEF Mentions

LEMMA DisjointUnion ==
  ASSUME NEW S, NEW T, IsFiniteSet(S), IsFiniteSet(T), S \cap T = {}
  PROVE  Cardinality(S \cup T) = Cardinality(S) + Cardinality(T)
<1>1. Cardinality(S \cap T) = 0
  BY FS_EmptySet
<1>2. Cardinality(S) \in Nat /\ Cardinality(T) \in Nat
  BY FS_CardinalityType
<1>3. Cardinality(S \cup T) = Cardinality(S) + Cardinality(T) - Cardinality(S \cap T)
  BY FS_Union
<1> QED
  BY <1>1, <1>2, <1>3

\* One pod's images are replaced.
LEMMA MentionsReplaced ==
  ASSUME NEW lists \in [Name -> Seq(Image)], NEW n \in Name, NEW l \in Seq(Image), NEW i
  PROVE  Cardinality(Mentions([lists EXCEPT ![n] = l], i)) =
           Cardinality(Mentions(lists, i)) - Occurrences(lists[n], i) + Occurrences(l, i)
<1> DEFINE new  == [lists EXCEPT ![n] = l]
           rest == {m \in Mentions(lists, i) : m[1] # n}
           old  == MentionsBy(n, lists[n], i)
           own  == MentionsBy(n, l, i)
<1>1. \A k, g, m : m \in MentionsBy(k, g, i) => m[1] = k
  BY DEF MentionsBy
<1>2. Mentions(lists, i) = rest \cup old /\ rest \cap old = {}
  <2>1. ASSUME NEW m \in Mentions(lists, i), m[1] = n PROVE m \in old
    BY <1>1, <2>1, Mentioned
  <2>2. old \subseteq Mentions(lists, i)
    BY Mentioned
  <2> QED
    BY <1>1, <2>1, <2>2
<1>3. Mentions(new, i) = rest \cup own /\ rest \cap own = {}
  <2>1. new[n] = l /\ \A k \in Name \ {n} : new[k] = lists[k]
    OBVIOUS
  <2> HIDE DEF new
  <2>2. ASSUME NEW m \in Mentions(new, i) PROVE m \in rest \cup own
    BY <1>1, <2>1, <2>2, Mentioned
  <2>3. ASSUME NEW m \in rest PROVE m \in Mentions(new, i)
    BY <1>1, <2>1, <2>3, Mentioned
  <2>4. own \subseteq Mentions(new, i)
    BY <2>1, Mentioned
  <2> QED
    BY <1>1, <2>2, <2>3, <2>4
<1>4. IsFiniteSet(rest) /\ Cardinality(rest) \in Nat
  <2>1. rest \in SUBSET Mentions(lists, i)
    OBVIOUS
  <2> QED
    BY <2>1, MentionsIsFinite, FS_Subset, FS_CardinalityType
<1>5. /\ IsFiniteSet(old) /\ Cardinality(old) = Occurrences(lists[n], i)
      /\ IsFiniteSet(own) /\ Cardinality(own) = Occurrences(l, i)
  BY MentionsByIsFinite
<1>6. Cardinality(old) \in Nat /\ Cardinality(own) \in Nat
  BY <1>5, FS_CardinalityType
<1> HIDE DEF rest, old, own, new
<1>7. Cardinality(Mentions(lists, i)) = Cardinality(rest) + Cardinality(old)
  BY <1>2, <1>4, <1>5, DisjointUnion
<1>8. Cardinality(Mentions(new, i)) = Cardinality(rest) + Cardinality(own)
  BY <1>3, <1>4, <1>5, DisjointUnion
<1>9. Cardinality(Mentions(new, i)) =
        Cardinality(Mentions(lists, i)) - Occurrences(lists[n], i) + Occurrences(l, i)
  BY <1>4, <1>5, <1>6, <1>7, <1>8
<1> QED
  BY <1>9 DEF new

-----------------------------------------------------------------------------
(***************************************************************************)
(* Types.                                                                  *)
(***************************************************************************)
LEMMA ListsAreSequences == Lists \subseteq Seq(Image) /\ NotCached \in Seq(Image) /\ NotCached \notin Lists
<1>1. \A t \in Templates : t.images \in Seq(Image) /\ t.images # <<>>
  BY TemplatesAssumption
<1> QED
  BY <1>1 DEF Lists, NotCached

LEMMA ExistingPod == ASSUME NEW p \in {Absent} \cup Pod PROVE Exists(p) <=> p \in Pod
BY MaxPodsAssumption DEF Exists, Absent, Pod

\* An image that is being listed is one of the pod's.
LEMMA ListedImage ==
  ASSUME TypeOK, pc = "listing"
  PROVE  /\ cur \in [name : Name, pod : Pod] /\ cur.pod.images \in Lists
         /\ cur.pod.images \in Seq(Image) /\ todo \in 1 .. Len(cur.pod.images)
         /\ cur.pod.images[todo] \in Image /\ holds[cur.pod.images[todo]] \in PlatformSets
<1>1. cur \in [name : Name, pod : Pod] /\ todo \in DOMAIN cur.pod.images
  BY DEF TypeOK
<1>2. cur.pod.images \in Lists
  BY <1>1 DEF Pod
<1>3. cur.pod.images \in Seq(Image)
  BY <1>2, ListsAreSequences
<1>4. todo \in 1 .. Len(cur.pod.images) /\ cur.pod.images[todo] \in Image
  BY <1>1, <1>3
<1> QED
  BY <1>1, <1>2, <1>3, <1>4 DEF TypeOK

\* What is watched, taken from the watch and written, one pod at a time.
LEMMA WriteType ==
  ASSUME TypeOK, NEW n \in Name, NEW p \in {Absent} \cup Pod, Write(n, p)
  PROVE  pods' \in [Name -> {Absent} \cup Pod] /\ feed' \in [Name -> Seq({Absent} \cup Pod)]
<1>1. Append(feed[n], p) \in Seq({Absent} \cup Pod)
  BY DEF TypeOK
<1>2. pods' = [pods EXCEPT ![n] = p] /\ feed' = [feed EXCEPT ![n] = Append(feed[n], p)]
  BY DEF Write
<1> QED
  BY <1>1, <1>2 DEF TypeOK

LEMMA NextVersionType ==
  ASSUME NEW p \in Pod
  PROVE  /\ NextVersion(p) \in Pod /\ NextVersion(p).uid = p.uid /\ NextVersion(p).images = p.images
         /\ NextVersion(p).node = p.node /\ NextVersion(p).deleted = p.deleted
BY DEF NextVersion, Pod

LEMMA CreatePodType ==
  ASSUME TypeOK, NEW n \in Name, NEW t \in Templates, CreatePod(n, t)
  PROVE  TypeOK'
<1>1. created[n] + 1 \in 1 .. MaxPods /\ created' = [created EXCEPT ![n] = created[n] + 1]
  BY MaxPodsAssumption DEF TypeOK, CreatePod
<1>2. created' \in [Name -> 0 .. MaxPods] /\ created'[n] \in 1 .. MaxPods
  BY <1>1, MaxPodsAssumption DEF TypeOK
<1>3. t.stateful \in BOOLEAN /\ t.selects \in BOOLEAN /\ t.images \in Lists
  BY TemplatesAssumption DEF Lists
<1> DEFINE p == [uid |-> created'[n], version |-> 1, stateful |-> t.stateful, selects |-> t.selects,
                 images |-> t.images, node |-> NoNode, ready |-> FALSE, deleted |-> "no"]
<1>4. p \in Pod
  BY <1>2, <1>3 DEF Pod
<1>5. Touch(n, p)
  BY DEF CreatePod
<1> HIDE DEF p
<1>6. pods' \in [Name -> {Absent} \cup Pod] /\ feed' \in [Name -> Seq({Absent} \cup Pod)]
  BY <1>4, <1>5, WriteType DEF Touch
<1> QED
  BY <1>2, <1>5, <1>6 DEF Touch, TypeOK, workVars, cacheVars, Pod, Lists

LEMMA TouchType ==
  ASSUME TypeOK, NEW n \in Name, NEW p \in {Absent} \cup Pod, Touch(n, p), UNCHANGED created
  PROVE  TypeOK'
<1>1. pods' \in [Name -> {Absent} \cup Pod] /\ feed' \in [Name -> Seq({Absent} \cup Pod)]
  BY WriteType DEF Touch
<1> QED
  BY <1>1 DEF Touch, TypeOK, workVars, cacheVars

LEMMA UpdateType == ASSUME TypeOK, NEW n \in Name, NEW p \in Pod, Update(n, p) PROVE TypeOK'
BY NextVersionType, TouchType DEF Update

LEMMA ClusterType == TypeOK /\ Cluster => TypeOK'
<1> SUFFICES ASSUME TypeOK, Cluster PROVE TypeOK'
  OBVIOUS
<1>0. \A n \in Name : pods[n] \in {Absent} \cup Pod
  BY DEF TypeOK
<1>1. ASSUME NEW n \in Name, NEW node \in DOMAIN NodeLabels, Schedule(n, node) PROVE TypeOK'
  <2>1. [pods[n] EXCEPT !.node = node] \in Pod
    BY <1>0, <1>1, ExistingPod DEF Schedule, Stands, Pod
  <2> QED
    BY <1>1, <2>1, UpdateType DEF Schedule
<1>2. ASSUME NEW n \in Name, NEW ready \in BOOLEAN, UpdateStatus(n, ready) PROVE TypeOK'
  <2>1. [pods[n] EXCEPT !.ready = ready] \in Pod
    BY <1>0, <1>2, ExistingPod DEF UpdateStatus, Pod
  <2> QED
    BY <1>2, <2>1, UpdateType DEF UpdateStatus
<1>3. ASSUME NEW n \in Name, UserDeletes(n) PROVE TypeOK'
  <2>1. [pods[n] EXCEPT !.deleted = "user"] \in Pod
    BY <1>0, <1>3, ExistingPod DEF UserDeletes, Stands, Pod
  <2> QED
    BY <1>3, <2>1, UpdateType DEF UserDeletes
<1>4. ASSUME NEW n \in Name, Terminates(n) PROVE TypeOK'
  BY <1>4, TouchType DEF Terminates
<1>5. ASSUME NEW i \in Image, NEW platforms \in PlatformSets, Push(i, platforms) PROVE TypeOK'
  BY <1>5 DEF Push, TypeOK, workVars, cacheVars
<1> QED
  BY <1>1, <1>2, <1>3, <1>4, <1>5, CreatePodType DEF Cluster

\* The records of the images: what increments and decrements make of them.
LEMMA IncrementType ==
  ASSUME TypeOK, NEW i \in Image, NEW platforms \in PlatformSets, Increment(i, platforms)
  PROVE  /\ imagePlatforms' \in [Image -> [platforms : PlatformSets \cup {{}}, refcount : Nat]]
         /\ gauge' \in [Image -> [Platform -> Int]]
         /\ imagePlatforms'[i].platforms = platforms
         /\ imagePlatforms'[i].refcount = imagePlatforms[i].refcount + 1
         /\ \A j \in Image \ {i} : imagePlatforms'[j] = imagePlatforms[j] /\ gauge'[j] = gauge[j]
         /\ \A p \in Platform :
              gauge'[i][p] = IF p \in platforms THEN gauge[i][p] + 1
                             ELSE IF p \in imagePlatforms[i].platforms THEN 0 ELSE gauge[i][p]
<1> DEFINE u == [platforms |-> platforms, refcount |-> imagePlatforms[i].refcount + 1]
           g == [p \in Platform |-> IF p \in platforms THEN gauge[i][p] + 1
                                    ELSE IF p \in imagePlatforms[i].platforms THEN 0 ELSE gauge[i][p]]
<1>1. imagePlatforms \in [Image -> [platforms : PlatformSets \cup {{}}, refcount : Nat]]
  BY DEF TypeOK
<1>2. u \in [platforms : PlatformSets \cup {{}}, refcount : Nat]
  BY <1>1
<1>3. imagePlatforms' = [imagePlatforms EXCEPT ![i] = u]
  BY DEF Increment
<1>4. gauge \in [Image -> [Platform -> Int]]
  BY DEF TypeOK
<1>5. g \in [Platform -> Int]
  BY <1>4
<1>6. gauge' = [gauge EXCEPT ![i] = g]
  BY DEF Increment
<1>7. u.platforms = platforms /\ u.refcount = imagePlatforms[i].refcount + 1
  OBVIOUS
<1>8. \A p \in Platform :
        g[p] = IF p \in platforms THEN gauge[i][p] + 1
               ELSE IF p \in imagePlatforms[i].platforms THEN 0 ELSE gauge[i][p]
  OBVIOUS
<1> HIDE DEF u, g
<1> QED
  BY <1>1, <1>2, <1>3, <1>4, <1>5, <1>6, <1>7, <1>8

LEMMA DecrementType ==
  ASSUME TypeOK, NEW images \in Seq(Image), DecrementAll(images)
  PROVE  /\ imagePlatforms' \in [Image -> [platforms : PlatformSets \cup {{}}, refcount : Nat]]
         /\ gauge' \in [Image -> [Platform -> Int]]
<1>1. /\ imagePlatforms \in [Image -> [platforms : PlatformSets \cup {{}}, refcount : Nat]]
      /\ gauge \in [Image -> [Platform -> Int]]
  BY DEF TypeOK
<1>2. ASSUME NEW usage \in [platforms : PlatformSets \cup {{}}, refcount : Nat], NEW m \in Nat
      PROVE  Decremented(usage, m) \in [platforms : PlatformSets \cup {{}}, refcount : Nat]
  BY DEF Decremented, Unused
<1>3. ASSUME NEW usage, NEW m \in Nat, NEW count \in [Platform -> Int]
      PROVE  DecrementedSeries(usage, m, count) \in [Platform -> Int]
  BY DEF DecrementedSeries
<1>4. \A i \in Image : Occurrences(images, i) \in Nat
  BY AmongAll
<1>5. \A i \in Image : /\ Decremented(imagePlatforms[i], Occurrences(images, i))
                            \in [platforms : PlatformSets \cup {{}}, refcount : Nat]
                       /\ DecrementedSeries(imagePlatforms[i], Occurrences(images, i), gauge[i])
                            \in [Platform -> Int]
  BY <1>1, <1>2, <1>3, <1>4
<1> QED
  BY <1>5 DEF DecrementAll

LEMMA TakeType == ASSUME TypeOK, NEW n \in Name, Take(n) PROVE TypeOK'
<1>1. CASE ReconcileGone(n)
  <2>1. podImages[n] \in Seq(Image)
    BY ListsAreSequences DEF TypeOK
  <2>2. /\ imagePlatforms' \in [Image -> [platforms : PlatformSets \cup {{}}, refcount : Nat]]
        /\ gauge' \in [Image -> [Platform -> Int]]
    BY <1>1, <2>1, DecrementType DEF ReconcileGone, DeleteFromCache
  <2>3. podImages' \in [Name -> {NotCached} \cup Lists]
    BY <1>1 DEF ReconcileGone, DeleteFromCache, TypeOK
  <2> QED
    BY <1>1, <2>2, <2>3 DEF ReconcileGone, TypeOK, clusterVars, workVars
<1>2. CASE ReconcileProcessed(n)
  BY <1>2 DEF ReconcileProcessed, TypeOK, clusterVars, workVars, cacheVars
<1>3. CASE ReconcileStarts(n)
  <2>1. seen[n] \in Pod
    BY <1>3, ExistingPod DEF TypeOK, ReconcileStarts
  <2>2. seen[n].images \in Seq(Image) /\ seen[n].images # <<>>
    <3>1. seen[n].images \in Lists
      BY <2>1 DEF Pod
    <3> QED
      BY <3>1, ListsAreSequences DEF NotCached
  <2>3. 1 \in DOMAIN seen[n].images
    BY <2>2
  <2>4. cur' \in [name : Name, pod : Pod] /\ todo' \in DOMAIN cur'.pod.images
    BY <1>3, <2>1, <2>3 DEF ReconcileStarts
  <2> QED
    BY <1>3, <2>4 DEF ReconcileStarts, TypeOK, clusterVars, cacheVars
<1> QED
  BY <1>1, <1>2, <1>3 DEF Take

LEMMA ImageListedType == TypeOK /\ ImageListed => TypeOK'
<1> SUFFICES ASSUME TypeOK, ImageListed PROVE TypeOK'
  OBVIOUS
<1>1. pc = "listing" /\ Increment(cur.pod.images[todo], holds[cur.pod.images[todo]])
  BY DEF ImageListed
<1>2. /\ imagePlatforms' \in [Image -> [platforms : PlatformSets \cup {{}}, refcount : Nat]]
      /\ gauge' \in [Image -> [Platform -> Int]]
  BY <1>1, ListedImage, IncrementType
<1>3. UNCHANGED <<clusterVars, seen, queue, failed, boundVars>>
  BY DEF ImageListed
<1>4. podImages' \in [Name -> {NotCached} \cup Lists]
  BY <1>1, ListedImage DEF ImageListed, TypeOK
<1>5. /\ matching' \in BOOLEAN
      /\ \/ pc' = "idle" /\ cur' = Resting
         \/ /\ pc' \in {"listing", "deleting"} /\ cur' = cur
            /\ todo' \in DOMAIN cur.pod.images
  <2>1. todo < Len(cur.pod.images) => todo + 1 \in DOMAIN cur.pod.images
    BY <1>1, ListedImage
  <2>2. todo \in DOMAIN cur.pod.images
    BY <1>1, ListedImage
  <2>3. (matching /\ (cur.pod.node # NoNode =>
                       Matches(holds[cur.pod.images[todo]], cur.pod.node))) \in BOOLEAN
    OBVIOUS
  <2> QED
    BY <1>1, <2>1, <2>2, <2>3 DEF ImageListed, Rest, TypeOK
<1> QED
  BY <1>1, <1>2, <1>3, <1>4, <1>5 DEF TypeOK, clusterVars

LEMMA TypeStep == TypeOK /\ [Next]_vars => TypeOK'
<1> SUFFICES ASSUME TypeOK, [Next]_vars PROVE TypeOK'
  OBVIOUS
<1>1. ASSUME NEW n \in Name, Observe(n) PROVE TypeOK'
  <2>1. feed[n] \in Seq({Absent} \cup Pod) /\ feed[n] # <<>>
    BY <1>1 DEF Observe, TypeOK
  <2>2. Head(feed[n]) \in {Absent} \cup Pod /\ Tail(feed[n]) \in Seq({Absent} \cup Pod)
    BY <2>1
  <2>3. /\ seen' \in [Name -> {Absent} \cup Pod] /\ feed' \in [Name -> Seq({Absent} \cup Pod)]
    BY <1>1, <2>2 DEF Observe, TypeOK
  <2> QED
    BY <1>1, <2>3 DEF Observe, TypeOK, workVars, cacheVars
<1>2. CASE ImageListFails
  <2>1. cur.name \in Name
    BY <1>2, ListedImage DEF ImageListFails
  <2> QED
    BY <1>2, <2>1 DEF ImageListFails, Rest, TypeOK, clusterVars, cacheVars
<1>3. CASE DeletePod
  <2>1. cur.name \in Name
    BY <1>3 DEF DeletePod, TypeOK
  <2>2. pods' \in [Name -> {Absent} \cup Pod] /\ feed' \in [Name -> Seq({Absent} \cup Pod)]
    <3>1. CASE UNCHANGED <<pods, feed>>
      BY <3>1 DEF TypeOK
    <3>2. CASE Stands(cur.name) /\ Write(cur.name, NextVersion([pods[cur.name] EXCEPT !.deleted = "noe"]))
      <4>1. pods[cur.name] \in Pod
        BY <2>1, <3>2, ExistingPod DEF TypeOK, Stands
      <4>2. [pods[cur.name] EXCEPT !.deleted = "noe"] \in Pod
        BY <4>1 DEF Pod
      <4> QED
        BY <2>1, <3>2, <4>2, NextVersionType, WriteType
    <3> QED
      BY <1>3, <3>1, <3>2 DEF DeletePod
  <2> QED
    BY <1>3, <2>1, <2>2 DEF DeletePod, Rest, TypeOK, cacheVars
<1>4. CASE Restart
  BY <1>4 DEF Restart, Rest, TypeOK, clusterVars, Unused
<1>5. CASE UNCHANGED vars
  BY <1>5 DEF vars, TypeOK, clusterVars, workVars, cacheVars
<1> QED
  BY <1>1, <1>2, <1>3, <1>4, <1>5, ClusterType, TakeType, ImageListedType DEF Next

LEMMA InitType == Init => TypeOK
BY MaxPodsAssumption DEF Init, TypeOK, Unused

-----------------------------------------------------------------------------
(***************************************************************************)
(* The reference counts.  While a pod is listed, the images that have been *)
(* counted for it are in excess of those that the cache names: the excess  *)
(* is what makes room for the pod when its images enter the cache.         *)
(***************************************************************************)
Counted(i) == IF pc = "listing" THEN Cardinality(Among(cur.pod.images, i, todo - 1)) ELSE 0

CountInv == \A i \in Image : imagePlatforms[i].refcount >= References(i) + Counted(i)

LEMMA CachedImages ==
  ASSUME TypeOK
  PROVE  /\ podImages \in [Name -> Seq(Image)]
         /\ \A i : References(i) \in Nat
         /\ \A i \in Image : imagePlatforms[i].refcount \in Nat
<1>1. podImages \in [Name -> Seq(Image)]
  BY ListsAreSequences DEF TypeOK
<1> QED
  BY <1>1, MentionsIsFinite DEF References, TypeOK

LEMMA CountedType == ASSUME TypeOK, NEW i PROVE Counted(i) \in Nat
<1>1. pc = "listing" => todo - 1 \in Nat
  BY ListedImage
<1> QED
  BY <1>1, AmongIsFinite DEF Counted

LEMMA NoOccurrences == ASSUME NEW i PROVE Occurrences(NotCached, i) = 0
<1>1. NotCached \in Seq(Image) /\ Len(NotCached) = 0
  BY DEF NotCached
<1> QED
  BY <1>1, AmongAll, AmongNone

\* pod.go:255-274: a pod that is gone gives back no more than it was counted for.
LEMMA GoneCount == ASSUME TypeOK, CountInv, NEW n \in Name, ReconcileGone(n) PROVE CountInv'
<1> SUFFICES ASSUME NEW i \in Image
             PROVE  imagePlatforms'[i].refcount >= References(i)' + Counted(i)'
  BY DEF CountInv
<1> DEFINE o == Occurrences(podImages[n], i)
           c == imagePlatforms[i].refcount
<1>1. podImages[n] \in Seq(Image) /\ o \in Nat /\ c \in Nat /\ References(i) \in Nat
  BY CachedImages, AmongAll
<1>2. c >= References(i)
  BY <1>1, CountedType DEF CountInv, ReconcileGone, Counted
<1>3. podImages' = [podImages EXCEPT ![n] = NotCached]
  BY DEF ReconcileGone, DeleteFromCache
<1>4. References(i)' = References(i) - o
  <2>1. Cardinality(Mentions(podImages', i)) = References(i) - o + Occurrences(NotCached, i)
    BY <1>3, CachedImages, ListsAreSequences, MentionsReplaced DEF References
  <2> QED
    BY <1>1, <2>1, NoOccurrences DEF References
<1>5. imagePlatforms'[i] = Decremented(imagePlatforms[i], o)
  BY DEF ReconcileGone, DeleteFromCache, DecrementAll
<1>6. imagePlatforms[i] \in [platforms : PlatformSets \cup {{}}, refcount : Nat]
  BY DEF TypeOK
<1>7. imagePlatforms'[i].refcount = IF c <= o THEN 0 ELSE c - o
  <2> HIDE DEF o
  <2> QED
    BY <1>1, <1>5, <1>6 DEF Decremented, Unused
<1>8. Counted(i)' = 0
  BY DEF ReconcileGone, workVars, Counted
<1>9. References(i)' \in Nat
  <2>1. podImages' \in [Name -> Seq(Image)]
    BY <1>3, CachedImages, ListsAreSequences
  <2> QED
    BY <2>1, MentionsIsFinite DEF References
<1> HIDE DEF o, c
<1>10. References(i)' <= (IF c <= o THEN 0 ELSE c - o)
  BY <1>1, <1>2, <1>4, <1>9
<1> QED
  BY <1>7, <1>8, <1>9, <1>10, <1>1

\* pod.go:216-252 and the end of the loop that counts.
LEMMA ListedCount == ASSUME TypeOK, CountInv, ImageListed PROVE CountInv'
<1> SUFFICES ASSUME NEW i \in Image
             PROVE  imagePlatforms'[i].refcount >= References(i)' + Counted(i)'
  BY DEF CountInv
<1> DEFINE l == cur.pod.images
           h == Cardinality(Among(l, i, todo - 1))
           one == IF l[todo] = i THEN 1 ELSE 0
           c == imagePlatforms[i].refcount
<1>1. /\ pc = "listing" /\ Increment(l[todo], holds[l[todo]])
      /\ l \in Seq(Image) /\ todo \in 1 .. Len(l) /\ cur.name \in Name
  BY ListedImage DEF ImageListed
<1>2. /\ h \in Nat /\ c \in Nat /\ References(i) \in Nat
      /\ c >= References(i) + h
  <2>1. Counted(i) = h
    BY <1>1 DEF Counted
  <2> QED
    BY <2>1, CachedImages, CountedType DEF CountInv
<1>3. imagePlatforms'[i].refcount = c + one
  BY <1>1, <1>2, ListedImage, IncrementType
<1>4. Cardinality(Among(l, i, todo)) = h + one
  <2>1. todo - 1 \in Nat /\ (todo - 1) + 1 = todo
    BY <1>1
  <2> QED
    BY <2>1, AmongNext
<1>5. CASE todo < Len(l)
  <2>1. pc' = pc /\ cur' = cur /\ todo' = todo + 1 /\ podImages' = podImages
    BY <1>1, <1>5 DEF ImageListed
  <2>2. (todo + 1) - 1 = todo
    BY <1>1
  <2>3. Counted(i)' = Cardinality(Among(l, i, (todo + 1) - 1)) /\ References(i)' = References(i)
    BY <1>1, <2>1 DEF Counted, References
  <2> HIDE DEF h, one, c, l
  <2>4. one \in Nat
    BY DEF one
  <2> QED
    BY <1>2, <1>3, <1>4, <2>2, <2>3, <2>4
<1>6. CASE todo = Len(l)
  <2>1. podImages' = [podImages EXCEPT ![cur.name] = l] /\ pc' # "listing"
    BY <1>1, <1>6 DEF ImageListed, Rest
  <2>2. References(i)' = References(i) - Occurrences(podImages[cur.name], i) + Occurrences(l, i)
    BY <1>1, <2>1, CachedImages, MentionsReplaced DEF References
  <2>3. Occurrences(l, i) = h + one
    BY <1>1, <1>4, <1>6, AmongAll
  <2>4. Occurrences(podImages[cur.name], i) \in Nat
    BY <1>1, CachedImages, AmongAll
  <2>5. Counted(i)' = 0
    BY <2>1 DEF Counted
  <2> HIDE DEF h, one, c, l
  <2>6. one \in Nat
    BY DEF one
  <2> QED
    BY <1>2, <1>3, <2>2, <2>3, <2>4, <2>5, <2>6
<1> QED
  BY <1>1, <1>5, <1>6

LEMMA RestartCount == ASSUME Restart PROVE CountInv'
<1> SUFFICES ASSUME NEW i \in Image
             PROVE  imagePlatforms'[i].refcount >= References(i)' + Counted(i)'
  BY DEF CountInv
<1>1. imagePlatforms'[i].refcount = 0 /\ pc' = "idle"
  BY DEF Restart, Rest, Unused
<1>2. \A n \in Name : podImages'[n] = NotCached
  BY DEF Restart
<1>3. \A n : MentionsBy(n, NotCached, i) = {}
  BY DEF MentionsBy, NotCached
<1>4. Mentions(podImages', i) = {}
  BY <1>2, <1>3, Mentioned
<1>5. References(i)' = 0
  BY <1>4, FS_EmptySet DEF References
<1> QED
  BY <1>1, <1>5 DEF Counted

\* Nothing else counts: what is not listed any more is forgotten.
LEMMA OtherCount ==
  ASSUME TypeOK, CountInv, UNCHANGED <<podImages, imagePlatforms>>,
         \/ UNCHANGED <<pc, cur, todo>>
         \/ pc' # "listing"
         \/ pc' = "listing" /\ todo' = 1
  PROVE  CountInv'
<1> SUFFICES ASSUME NEW i \in Image
             PROVE  imagePlatforms'[i].refcount >= References(i)' + Counted(i)'
  BY DEF CountInv
<1>1. /\ imagePlatforms[i].refcount >= References(i) + Counted(i)
      /\ imagePlatforms[i].refcount \in Nat /\ References(i) \in Nat /\ Counted(i) \in Nat
  BY CachedImages, CountedType DEF CountInv
<1>2. References(i)' = References(i)
  BY DEF References
<1>3. Counted(i)' = Counted(i) \/ Counted(i)' = 0
  <2>1. pc' = "listing" /\ todo' = 1 => Counted(i)' = Cardinality(Among(cur'.pod.images, i, 0))
    BY DEF Counted
  <2> QED
    BY <2>1, AmongNone DEF Counted
<1> QED
  BY <1>1, <1>2, <1>3

LEMMA CountStep == TypeOK /\ CountInv /\ [Next]_vars => CountInv'
<1> SUFFICES ASSUME TypeOK, CountInv, [Next]_vars PROVE CountInv'
  OBVIOUS
<1>1. CASE Cluster \/ (\E n \in Name : Observe(n)) \/ UNCHANGED vars
  <2>1. UNCHANGED <<workVars, cacheVars>>
    BY <1>1 DEF Cluster, CreatePod, Schedule, UpdateStatus, UserDeletes, Terminates, Update, Touch, Push,
                Observe, vars
  <2> QED
    BY <2>1, OtherCount DEF workVars, cacheVars
<1>2. ASSUME NEW n \in Name, ReconcileProcessed(n) \/ ReconcileStarts(n) PROVE CountInv'
  BY <1>2, OtherCount DEF ReconcileProcessed, ReconcileStarts, workVars, cacheVars
<1>3. CASE ImageListFails \/ DeletePod
  BY <1>3, OtherCount DEF ImageListFails, DeletePod, Rest, cacheVars
<1> QED
  BY <1>1, <1>2, <1>3, GoneCount, ListedCount, RestartCount DEF Next, Take

LEMMA InitCount == Init => CountInv
<1> SUFFICES ASSUME Init, NEW i \in Image
             PROVE  imagePlatforms[i].refcount >= References(i) + Counted(i)
  BY DEF CountInv
<1>1. imagePlatforms[i].refcount = 0 /\ pc = "idle"
  BY DEF Init, Unused
<1>2. \A n \in Name : podImages[n] = NotCached
  BY DEF Init
<1>3. \A n : MentionsBy(n, NotCached, i) = {}
  BY DEF MentionsBy, NotCached
<1>4. Mentions(podImages, i) = {}
  BY <1>2, <1>3, Mentioned
<1> QED
  BY <1>1, <1>4, FS_EmptySet DEF References, Counted

-----------------------------------------------------------------------------
(***************************************************************************)
(* The series of the metric.                                               *)
(***************************************************************************)
LEMMA SeriesStep == TypeOK /\ NoStaleSeries /\ [Next]_vars => NoStaleSeries'
<1> SUFFICES ASSUME TypeOK, NoStaleSeries, [Next]_vars PROVE NoStaleSeries'
  OBVIOUS
<1>1. CASE UNCHANGED <<imagePlatforms, gauge>>
  BY <1>1 DEF NoStaleSeries
<1>2. ASSUME NEW n \in Name, ReconcileGone(n) PROVE NoStaleSeries'
  <2> SUFFICES ASSUME NEW i \in Image, NEW p \in Platform, gauge'[i][p] # 0
               PROVE  imagePlatforms'[i].refcount > 0 /\ p \in imagePlatforms'[i].platforms
    BY DEF NoStaleSeries
  <2> DEFINE o == Occurrences(podImages[n], i)
             u == imagePlatforms[i]
  <2>1. o \in Nat /\ u \in [platforms : PlatformSets \cup {{}}, refcount : Nat]
    BY CachedImages, AmongAll DEF TypeOK
  <2>2. imagePlatforms'[i] = Decremented(u, o) /\ gauge'[i] = DecrementedSeries(u, o, gauge[i])
    BY <1>2 DEF ReconcileGone, DeleteFromCache, DecrementAll
  <2>3. gauge[i][p] # 0 => u.refcount > 0 /\ p \in u.platforms
    BY DEF NoStaleSeries
  <2> HIDE DEF o, u
  <2>4. u.refcount > 0 /\ p \in u.platforms /\ ~(u.refcount <= o)
    BY <2>1, <2>2, <2>3 DEF DecrementedSeries
  <2>5. Decremented(u, o).refcount = u.refcount - o /\ Decremented(u, o).platforms = u.platforms
    BY <2>1, <2>4 DEF Decremented
  <2> QED
    BY <2>1, <2>2, <2>4, <2>5
<1>3. CASE ImageListed
  <2>1. pc = "listing" /\ Increment(cur.pod.images[todo], holds[cur.pod.images[todo]])
    BY <1>3 DEF ImageListed
  <2> DEFINE j == cur.pod.images[todo]
             platforms == holds[j]
  <2>2. j \in Image /\ platforms \in PlatformSets /\ Increment(j, platforms)
    BY <2>1, ListedImage
  <2> HIDE DEF j, platforms
  <2>3. imagePlatforms[j].refcount \in Nat
    BY <2>2 DEF TypeOK
  <2> QED
    BY <2>2, <2>3, IncrementType DEF NoStaleSeries
<1>4. CASE Restart
  BY <1>4 DEF Restart, NoStaleSeries
<1>5. CASE \/ Cluster \/ ImageListFails \/ DeletePod \/ UNCHANGED vars
           \/ \E n \in Name : Observe(n) \/ ReconcileProcessed(n) \/ ReconcileStarts(n)
  <2>1. UNCHANGED cacheVars
    BY <1>5 DEF Cluster, CreatePod, Schedule, UpdateStatus, UserDeletes, Terminates, Update, Touch, Push,
                Observe, ImageListFails, DeletePod, ReconcileProcessed, ReconcileStarts, vars
  <2> QED
    BY <1>1, <2>1 DEF cacheVars
<1> QED
  BY <1>2, <1>3, <1>4, <1>5 DEF Next, Take

LEMMA Invariant == Spec => [](TypeOK /\ CountInv /\ NoStaleSeries)
<1>1. Init => NoStaleSeries
  BY DEF Init, NoStaleSeries
<1> QED
  BY <1>1, InitType, InitCount, TypeStep, CountStep, SeriesStep, PTL DEF Spec

\* The reconciler's cache, its worker and its metric keep their types.
THEOREM TypeCorrect == Spec => []TypeOK
BY Invariant, PTL

\* pod.go:216-274: an image is not forgotten while a pod that was counted remains, however
\* lookups fail, names are taken again, pods are reconciled repeatedly and leaders change.
THEOREM NothingCountedIsForgotten == Spec => []CountedPodsAreHeld
<1>1. TypeOK /\ CountInv => CountedPodsAreHeld
  <2> SUFFICES ASSUME TypeOK, CountInv, NEW i \in Image
               PROVE  imagePlatforms[i].refcount >= References(i)
    BY DEF CountedPodsAreHeld
  <2> QED
    BY CachedImages, CountedType DEF CountInv
<1> QED
  BY <1>1, Invariant, PTL

\* pod.go:240-252, 266-272: no series survives its image or the platform it was for.
THEOREM SeriesAreRemoved == Spec => []NoStaleSeries
BY Invariant, PTL

-----------------------------------------------------------------------------
(***************************************************************************)
(* The pod that is deleted.  What the informer and the worker know of a    *)
(* pod is an earlier version of it, or of one that had its name before;    *)
(* and the worker turns to deletion only after an image that does not run  *)
(* on the node.                                                            *)
(***************************************************************************)
Earlier(old, pod) ==
  Exists(old) /\ old.uid = pod.uid =>
    old.images = pod.images /\ (old.node # NoNode => pod.node = old.node)

Known(old, n) == old.uid <= created[n] /\ Earlier(old, pods[n])

VersionInv ==
  /\ \A n \in Name : /\ pods[n].uid <= created[n] /\ Known(seen[n], n)
                     /\ \A k \in DOMAIN feed[n] : Known(feed[n][k], n)
  /\ pc # "idle" => Known(cur.pod, cur.name)

Unfit(n) == cur.pod.node # NoNode /\ \E k \in 1 .. n : ~Matches(holds[cur.pod.images[k]], cur.pod.node)

JudgementInv ==
  /\ pc = "listing" /\ ~matching => Unfit(todo - 1)
  /\ pc = "deleting" => Unfit(Len(cur.pod.images))

\* What may happen to the pod of a name in a step.
Evolves(n) ==
  \/ pods'[n] = Absent /\ created'[n] = created[n]
  \/ /\ created'[n] = created[n] /\ pods'[n].uid = pods[n].uid
     /\ Exists(pods[n]) => /\ pods'[n].images = pods[n].images
                           /\ pods[n].node # NoNode => pods'[n].node = pods[n].node
  \/ created'[n] = created[n] + 1 /\ pods'[n].uid = created'[n]

LEMMA Evolution == ASSUME TypeOK, [Next]_vars, NEW n \in Name PROVE Evolves(n)
<1>0. pods \in [Name -> {Absent} \cup Pod] /\ created \in [Name -> 0 .. MaxPods]
  BY DEF TypeOK
<1>1. CASE UNCHANGED <<pods, created>>
  BY <1>1 DEF Evolves
<1>2. ASSUME NEW m \in Name, NEW p, pods' = [pods EXCEPT ![m] = p], UNCHANGED created,
             p = Absent \/ (/\ p.uid = pods[m].uid /\ p.images = pods[m].images
                            /\ pods[m].node # NoNode => p.node = pods[m].node)
      PROVE  Evolves(n)
  BY <1>0, <1>2 DEF Evolves
<1>3. ASSUME NEW m \in Name, NEW p \in Pod, pods' = [pods EXCEPT ![m] = NextVersion(p)], UNCHANGED created,
             /\ p.uid = pods[m].uid /\ p.images = pods[m].images
             /\ pods[m].node # NoNode => p.node = pods[m].node
      PROVE  Evolves(n)
  <2>1. /\ NextVersion(p).uid = p.uid /\ NextVersion(p).images = p.images
        /\ NextVersion(p).node = p.node
    BY NextVersionType
  <2> DEFINE v == NextVersion(p)
  <2> HIDE DEF v
  <2> QED
    BY <1>2, <1>3, <2>1 DEF v
<1>4. ASSUME NEW m \in Name, NEW t \in Templates, CreatePod(m, t) PROVE Evolves(n)
  <2>1. created' = [created EXCEPT ![m] = created[m] + 1]
    BY <1>4 DEF CreatePod
  <2>2. pods'[m].uid = created'[m] /\ \A k \in Name \ {m} : pods'[k] = pods[k]
    BY <1>0, <1>4 DEF CreatePod, Touch, Write
  <2> QED
    BY <1>0, <2>1, <2>2 DEF Evolves
<1>5. ASSUME NEW m \in Name, NEW node \in DOMAIN NodeLabels, Schedule(m, node) PROVE Evolves(n)
  <2>1. pods[m] \in Pod /\ pods[m].node = NoNode
    BY <1>0, <1>5, ExistingPod DEF Schedule, Stands
  <2> DEFINE p == [pods[m] EXCEPT !.node = node]
  <2>2. p \in Pod /\ p.uid = pods[m].uid /\ p.images = pods[m].images
    BY <2>1 DEF Pod
  <2>3. pods' = [pods EXCEPT ![m] = NextVersion(p)] /\ UNCHANGED created
    BY <1>5 DEF Schedule, Update, Touch, Write
  <2> HIDE DEF p
  <2> QED
    BY <1>3, <2>1, <2>2, <2>3
<1>6. ASSUME NEW m \in Name, NEW ready \in BOOLEAN, UpdateStatus(m, ready) PROVE Evolves(n)
  <2>1. pods[m] \in Pod
    BY <1>0, <1>6, ExistingPod DEF UpdateStatus
  <2> DEFINE p == [pods[m] EXCEPT !.ready = ready]
  <2>2. p \in Pod /\ p.uid = pods[m].uid /\ p.images = pods[m].images /\ p.node = pods[m].node
    BY <2>1 DEF Pod
  <2>3. pods' = [pods EXCEPT ![m] = NextVersion(p)] /\ UNCHANGED created
    BY <1>6 DEF UpdateStatus, Update, Touch, Write
  <2> HIDE DEF p
  <2> QED
    BY <1>3, <2>1, <2>2, <2>3
<1>7. ASSUME NEW m \in Name, UserDeletes(m) PROVE Evolves(n)
  <2>1. pods[m] \in Pod
    BY <1>0, <1>7, ExistingPod DEF UserDeletes, Stands
  <2> DEFINE p == [pods[m] EXCEPT !.deleted = "user"]
  <2>2. p \in Pod /\ p.uid = pods[m].uid /\ p.images = pods[m].images /\ p.node = pods[m].node
    BY <2>1 DEF Pod
  <2>3. pods' = [pods EXCEPT ![m] = NextVersion(p)] /\ UNCHANGED created
    BY <1>7 DEF UserDeletes, Update, Touch, Write
  <2> HIDE DEF p
  <2> QED
    BY <1>3, <2>1, <2>2, <2>3
<1>8. ASSUME NEW m \in Name, Terminates(m) PROVE Evolves(n)
  BY <1>2, <1>8 DEF Terminates, Touch, Write
<1>9. CASE DeletePod
  <2> DEFINE m == cur.name
             p == [pods[m] EXCEPT !.deleted = "noe"]
  <2>1. m \in Name /\ UNCHANGED created
    BY <1>9 DEF DeletePod, TypeOK
  <2>2. CASE UNCHANGED pods
    BY <1>1, <2>1, <2>2
  <2>3. CASE Stands(m) /\ pods' = [pods EXCEPT ![m] = NextVersion(p)]
    <3>1. pods[m] \in Pod
      BY <1>0, <2>1, <2>3, ExistingPod DEF Stands
    <3>2. p \in Pod /\ p.uid = pods[m].uid /\ p.images = pods[m].images /\ p.node = pods[m].node
      BY <3>1 DEF Pod
    <3> HIDE DEF m, p
    <3> QED
      BY <1>3, <2>1, <2>3, <3>2
  <2>4. UNCHANGED pods \/ (Stands(m) /\ pods' = [pods EXCEPT ![m] = NextVersion(p)])
    BY <1>9 DEF DeletePod, Write
  <2> QED
    BY <2>2, <2>3, <2>4
<1>10. CASE /\ [Next]_vars
            /\ ~DeletePod
            /\ ~ \E m \in Name : \/ \E t \in Templates : CreatePod(m, t)
                                 \/ \E node \in DOMAIN NodeLabels : Schedule(m, node)
                                 \/ \E ready \in BOOLEAN : UpdateStatus(m, ready)
                                 \/ UserDeletes(m) \/ Terminates(m)
  <2>1. UNCHANGED <<pods, created>>
    BY <1>10 DEF Next, Cluster, Push, Observe, Take, ReconcileGone, ReconcileProcessed,
                 ReconcileStarts, ImageListed, ImageListFails, Restart, clusterVars, vars
  <2> QED
    BY <1>1, <2>1
<1> QED
  BY <1>4, <1>5, <1>6, <1>7, <1>8, <1>9, <1>10

\* An older version stays older, whatever happens to the pod.
LEMMA StillEarlier ==
  ASSUME TypeOK, NEW n \in Name, Evolves(n), pods[n].uid <= created[n],
         NEW old \in {Absent} \cup Pod, Known(old, n)
  PROVE  /\ old.uid <= created'[n] /\ pods'[n].uid <= created'[n]
         /\ Earlier(old, pods'[n])
<1>0. old.uid <= created[n] /\ Earlier(old, pods[n])
  BY DEF Known
<1>1. created[n] \in Int /\ old.uid \in Int /\ pods[n].uid \in Int
  <2>1. \A p \in {Absent} \cup Pod : p.uid \in Int
    BY MaxPodsAssumption DEF Pod, Absent
  <2> QED
    BY <2>1 DEF TypeOK
<1>2. CASE pods'[n] = Absent /\ created'[n] = created[n]
  <2>1. pods'[n].uid = 0
    BY <1>2 DEF Absent
  <2>2. old.uid <= created'[n] /\ pods'[n].uid <= created'[n]
    BY <1>0, <1>1, <1>2, <2>1 DEF TypeOK
  <2> QED
    BY <2>1, <2>2 DEF Earlier, Exists
<1>3. CASE /\ created'[n] = created[n] /\ pods'[n].uid = pods[n].uid
           /\ Exists(pods[n]) => /\ pods'[n].images = pods[n].images
                                 /\ pods[n].node # NoNode => pods'[n].node = pods[n].node
  BY <1>0, <1>1, <1>3 DEF Earlier, Exists
<1>4. CASE created'[n] = created[n] + 1 /\ pods'[n].uid = created'[n]
  BY <1>0, <1>1, <1>4 DEF Earlier
<1> QED
  BY <1>2, <1>3, <1>4 DEF Evolves

\* Nothing comes out of the watch that was not written.
LEMMA Watched ==
  ASSUME TypeOK, [Next]_vars, NEW n \in Name
  PROVE  /\ \/ seen'[n] = seen[n] \/ seen'[n] = pods'[n]
            \/ \E j \in DOMAIN feed[n] : seen'[n] = feed[n][j]
         /\ \A k \in DOMAIN feed'[n] :
              feed'[n][k] = pods'[n] \/ \E j \in DOMAIN feed[n] : feed'[n][k] = feed[n][j]
<1>0. /\ pods \in [Name -> {Absent} \cup Pod] /\ seen \in [Name -> {Absent} \cup Pod]
      /\ feed \in [Name -> Seq({Absent} \cup Pod)] /\ feed[n] \in Seq({Absent} \cup Pod)
  BY DEF TypeOK
<1>1. CASE UNCHANGED <<seen, feed>>
  BY <1>1
<1>2. ASSUME NEW m \in Name, NEW p, Write(m, p), UNCHANGED seen
      PROVE  /\ seen'[n] = seen[n]
             /\ \A k \in DOMAIN feed'[n] :
                  feed'[n][k] = pods'[n] \/ \E j \in DOMAIN feed[n] : feed'[n][k] = feed[n][j]
  <2>1. CASE m = n
    <3>1. pods'[n] = p /\ feed'[n] = Append(feed[n], p)
      BY <1>0, <1>2, <2>1 DEF Write
    <3> SUFFICES ASSUME NEW k \in DOMAIN feed'[n]
                 PROVE  feed'[n][k] = pods'[n] \/ \E j \in DOMAIN feed[n] : feed'[n][k] = feed[n][j]
      BY <1>2
    <3>2. k \in 1 .. Len(feed[n]) + 1
      BY <1>0, <3>1
    <3>3. CASE k = Len(feed[n]) + 1
      BY <1>0, <3>1, <3>3
    <3>4. CASE k \in 1 .. Len(feed[n])
      BY <1>0, <3>1, <3>4
    <3> QED
      BY <1>0, <3>2, <3>3, <3>4
  <2>2. CASE m # n
    BY <1>0, <1>2, <2>2 DEF Write
  <2> QED
    BY <2>1, <2>2
<1>3. ASSUME NEW m \in Name, Observe(m)
      PROVE  /\ seen'[n] = seen[n] \/ \E j \in DOMAIN feed[n] : seen'[n] = feed[n][j]
             /\ \A k \in DOMAIN feed'[n] : \E j \in DOMAIN feed[n] : feed'[n][k] = feed[n][j]
  <2>1. CASE m = n
    <3>1. seen'[n] = Head(feed[n]) /\ feed'[n] = Tail(feed[n]) /\ feed[n] # <<>>
      BY <1>0, <1>3, <2>1 DEF Observe
    <3>2. seen'[n] = feed[n][1] /\ 1 \in DOMAIN feed[n]
      BY <1>0, <3>1
    <3>3. \A k \in DOMAIN Tail(feed[n]) : k + 1 \in DOMAIN feed[n] /\ Tail(feed[n])[k] = feed[n][k + 1]
      BY <1>0, <3>1
    <3> QED
      BY <3>1, <3>2, <3>3
  <2>2. CASE m # n
    BY <1>0, <1>3, <2>2 DEF Observe
  <2> QED
    BY <2>1, <2>2
<1>4. CASE Restart
  BY <1>4 DEF Restart
<1>5. ASSUME Cluster PROVE UNCHANGED <<seen, feed>> \/ (UNCHANGED seen /\ \E m \in Name : \E p : Write(m, p))
  BY <1>5 DEF Cluster, CreatePod, Schedule, UpdateStatus, UserDeletes, Terminates, Update, Touch, Push
<1>6. ASSUME DeletePod PROVE UNCHANGED <<seen, feed>> \/ (UNCHANGED seen /\ \E m \in Name : \E p : Write(m, p))
  <2>1. cur.name \in Name
    BY <1>6 DEF DeletePod, TypeOK
  <2> QED
    BY <1>6, <2>1 DEF DeletePod
<1>7. CASE UNCHANGED vars \/ ImageListed \/ ImageListFails \/ \E m \in Name : Take(m)
  <2>1. UNCHANGED <<seen, feed>>
    BY <1>7 DEF vars, clusterVars, ImageListed, ImageListFails, Take, ReconcileGone, ReconcileProcessed,
                ReconcileStarts
  <2> QED
    BY <1>1, <2>1
<1> QED
  BY <1>1, <1>2, <1>3, <1>4, <1>5, <1>6, <1>7 DEF Next

LEMMA VersionStep == TypeOK /\ VersionInv /\ [Next]_vars => VersionInv'
<1> SUFFICES ASSUME TypeOK, VersionInv, [Next]_vars PROVE VersionInv'
  OBVIOUS
<1> DEFINE Still(old, n) == old.uid <= created'[n] /\ Earlier(old, pods'[n])
<1>1. \A n \in Name : /\ pods[n] \in {Absent} \cup Pod /\ seen[n] \in {Absent} \cup Pod
                      /\ feed[n] \in Seq({Absent} \cup Pod)
                      /\ pods[n].uid <= created[n] /\ Known(seen[n], n)
                      /\ \A k \in DOMAIN feed[n] : Known(feed[n][k], n)
  BY DEF TypeOK, VersionInv
<1>2. ASSUME NEW n \in Name
      PROVE  /\ pods'[n].uid <= created'[n]
             /\ Still(seen[n], n) /\ Still(pods'[n], n)
             /\ \A k \in DOMAIN feed[n] : Still(feed[n][k], n)
  <2>1. pods'[n].uid <= created'[n] /\ Still(seen[n], n)
    BY <1>1, Evolution, StillEarlier
  <2>2. Still(pods'[n], n)
    BY <2>1 DEF Earlier
  <2>3. ASSUME NEW k \in DOMAIN feed[n] PROVE Still(feed[n][k], n)
    <3>1. feed[n][k] \in {Absent} \cup Pod /\ Known(feed[n][k], n)
      BY <1>1
    <3> QED
      BY <1>1, <3>1, Evolution, StillEarlier
  <2> QED
    BY <2>1, <2>2, <2>3
<1>3. ASSUME NEW n \in Name
      PROVE  Still(seen'[n], n) /\ \A k \in DOMAIN feed'[n] : Still(feed'[n][k], n)
  <2> HIDE DEF Still
  <2> QED
    BY <1>2, Watched
<1>4. pc' # "idle" => Still(cur'.pod, cur'.name)
  <2>1. CASE pc # "idle" /\ cur' = cur
    <3>1. cur \in [name : Name, pod : Pod]
      BY <2>1 DEF TypeOK
    <3>2. cur.name \in Name /\ cur.pod \in {Absent} \cup Pod
      BY <3>1
    <3>3. Known(cur.pod, cur.name)
      BY <2>1 DEF VersionInv
    <3> QED
      BY <1>1, <2>1, <3>2, <3>3, Evolution, StillEarlier
  <2>2. ASSUME NEW n \in Name, ReconcileStarts(n)
        PROVE  Still(cur'.pod, cur'.name)
    <3>1. cur' = [name |-> n, pod |-> seen[n]]
      BY <2>2 DEF ReconcileStarts
    <3>2. cur'.name = n /\ cur'.pod = seen[n]
      BY <3>1
    <3> QED
      BY <1>2, <3>2
  <2>3. CASE pc' = "idle"
    BY <2>3
  <2> QED
    BY <2>1, <2>2, <2>3 DEF Next, Cluster, CreatePod, Schedule, UpdateStatus, UserDeletes, Terminates,
         Update, Touch, Push, Observe, Take, ReconcileGone, ReconcileProcessed, ImageListed,
         ImageListFails, DeletePod, Restart, Rest, workVars, vars
<1> QED
  BY <1>2, <1>3, <1>4 DEF VersionInv, Known

LEMMA InitVersion == Init => VersionInv
BY DEF Init, VersionInv, Known, Absent, Earlier, Exists

\* As long as nothing is pushed, the worker's judgement is about what the registry holds.
LEMMA JudgementStep ==
  ASSUME TypeOK, JudgementInv, [Next]_vars, UNCHANGED holds
  PROVE  JudgementInv'
<1>1. CASE ImageListed
  <2> DEFINE match == matching /\ (cur.pod.node # NoNode =>
                                     Matches(holds[cur.pod.images[todo]], cur.pod.node))
  <2>1. pc = "listing" /\ todo \in 1 .. Len(cur.pod.images)
    BY <1>1, ListedImage DEF ImageListed
  <2>2. ~match => Unfit(todo)
    <3>1. CASE ~matching
      BY <2>1, <3>1 DEF JudgementInv, Unfit
    <3>2. CASE cur.pod.node # NoNode /\ ~Matches(holds[cur.pod.images[todo]], cur.pod.node)
      BY <2>1, <3>2 DEF Unfit
    <3> QED
      BY <3>1, <3>2
  <2>3. CASE todo < Len(cur.pod.images)
    <3>1. /\ pc' = "listing" /\ cur' = cur /\ todo' = todo + 1 /\ matching' = match
      BY <1>1, <2>1, <2>3 DEF ImageListed
    <3>2. (todo + 1) - 1 = todo
      BY <2>1
    <3>3. Unfit(todo - 1)' <=> Unfit(todo)
      BY <3>1, <3>2 DEF Unfit
    <3> HIDE DEF match
    <3> QED
      BY <2>2, <3>1, <3>3 DEF JudgementInv
  <2>4. CASE todo = Len(cur.pod.images)
    <3>1. \/ pc' = "idle"
          \/ ~match /\ pc' = "deleting" /\ cur' = cur
      BY <1>1, <2>1, <2>4 DEF ImageListed, Rest
    <3>2. pc' = "deleting" => (Unfit(Len(cur.pod.images))' <=> Unfit(todo))
      BY <2>4, <3>1 DEF Unfit
    <3> HIDE DEF match
    <3> QED
      BY <2>2, <3>1, <3>2 DEF JudgementInv
  <2> QED
    BY <2>1, <2>3, <2>4
<1>2. CASE pc' = "idle"
  BY <1>2 DEF JudgementInv
<1>3. ASSUME NEW n \in Name, ReconcileStarts(n) PROVE JudgementInv'
  BY <1>3 DEF ReconcileStarts, JudgementInv
<1>4. CASE UNCHANGED workVars
  BY <1>4 DEF workVars, JudgementInv, Unfit
<1> QED
  BY <1>1, <1>2, <1>3, <1>4 DEF Next, Cluster, CreatePod, Schedule, UpdateStatus, UserDeletes,
     Terminates, Update, Touch, Push, Observe, Take, ReconcileGone, ReconcileProcessed,
     ImageListFails, DeletePod, Restart, Rest, vars

\* The cluster around the worker: uids, versions and the registry.
LEMMA NothingPushed ==
  ASSUME MaxUpdates = 0, pushes \in Nat, [Next]_vars
  PROVE  UNCHANGED <<holds, pushes>>
<1>1. CASE Cluster
  <2>1. ASSUME NEW i \in Image, NEW platforms \in PlatformSets, Push(i, platforms) PROVE FALSE
    BY <2>1 DEF Push
  <2> QED
    BY <1>1, <2>1
       DEF Cluster, CreatePod, Schedule, UpdateStatus, UserDeletes, Terminates, Update, Touch
<1>2. CASE ~Cluster
  BY <1>2 DEF Next, Observe, Take, ReconcileGone, ReconcileProcessed, ReconcileStarts, ImageListed,
              ImageListFails, DeletePod, Restart, clusterVars, vars
<1> QED
  BY <1>1, <1>2

LEMMA Listed ==
  ASSUME NEW images \in Seq(Image), NEW k \in 1 .. Len(images)
  PROVE  k \in DOMAIN images /\ images[k] \in Image
OBVIOUS

LEMMA InitPushes == Init => pushes \in Nat
BY DEF Init

LEMMA MarkedByTheWorker ==
  ASSUME TypeOK, [Next]_vars, NEW n \in Name,
         Exists(pods[n]), pods[n].deleted # "noe", Exists(pods'[n]), pods'[n].deleted = "noe"
  PROVE  DeletePod /\ n = cur.name
<1>0. pods \in [Name -> {Absent} \cup Pod] /\ pods[n] \in Pod
  BY ExistingPod DEF TypeOK
<1>1. ASSUME NEW m \in Name, NEW p, Touch(m, p), p = Absent \/ p.deleted # "noe" \/ p.deleted = pods[m].deleted
      PROVE  FALSE
  BY <1>0, <1>1 DEF Touch, Write, Exists, Absent
<1>2. ASSUME NEW m \in Name, NEW t \in Templates, CreatePod(m, t) PROVE FALSE
  <2> DEFINE p == [uid |-> created'[m], version |-> 1, stateful |-> t.stateful, selects |-> t.selects,
                   images |-> t.images, node |-> NoNode, ready |-> FALSE, deleted |-> "no"]
  <2>1. Touch(m, p) /\ p.deleted # "noe"
    BY <1>2 DEF CreatePod
  <2> HIDE DEF p
  <2> QED
    BY <1>1, <2>1
<1>3. ASSUME NEW m \in Name, NEW p \in Pod, Update(m, p), p.deleted # "noe" \/ p.deleted = pods[m].deleted
      PROVE  FALSE
  <2> DEFINE v == NextVersion(p)
  <2>1. v.deleted = p.deleted /\ Touch(m, v)
    BY <1>3, NextVersionType DEF Update
  <2> HIDE DEF v
  <2> QED
    BY <1>1, <1>3, <2>1
<1>4. ASSUME NEW m \in Name, NEW node \in DOMAIN NodeLabels, Schedule(m, node) PROVE FALSE
  <2> DEFINE p == [pods[m] EXCEPT !.node = node]
  <2>1. pods[m] \in Pod
    BY <1>0, <1>4, ExistingPod DEF Schedule, Stands
  <2>2. p \in Pod /\ Update(m, p) /\ p.deleted = pods[m].deleted
    BY <1>4, <2>1 DEF Schedule, Pod
  <2> HIDE DEF p
  <2> QED
    BY <1>3, <2>2
<1>5. ASSUME NEW m \in Name, NEW ready \in BOOLEAN, UpdateStatus(m, ready) PROVE FALSE
  <2> DEFINE p == [pods[m] EXCEPT !.ready = ready]
  <2>1. pods[m] \in Pod
    BY <1>0, <1>5, ExistingPod DEF UpdateStatus
  <2>2. p \in Pod /\ p.deleted = pods[m].deleted
    BY <2>1 DEF Pod
  <2>3. Update(m, p)
    BY <1>5 DEF UpdateStatus
  <2> HIDE DEF p
  <2> QED
    BY <1>3, <2>2, <2>3
<1>6. ASSUME NEW m \in Name, UserDeletes(m) \/ Terminates(m) PROVE FALSE
  <2>1. CASE Terminates(m)
    BY <1>1, <2>1 DEF Terminates
  <2>2. CASE UserDeletes(m)
    <3> DEFINE p == [pods[m] EXCEPT !.deleted = "user"]
    <3>1. pods[m] \in Pod
      BY <1>0, <2>2, ExistingPod DEF UserDeletes, Stands
    <3>2. p \in Pod /\ Update(m, p) /\ p.deleted # "noe"
      BY <2>2, <3>1 DEF UserDeletes, Pod
    <3> HIDE DEF p
    <3> QED
      BY <1>3, <3>2
  <2> QED
    BY <1>6, <2>1, <2>2
<1>7. pods' # pods
  BY DEF Exists
<1>8. DeletePod
  BY <1>2, <1>3, <1>4, <1>5, <1>6, <1>7
     DEF Next, Cluster, Push, Observe, Take, ReconcileGone, ReconcileProcessed, ReconcileStarts,
         ImageListed, ImageListFails, Restart, clusterVars, vars
<1>9. cur.name # n => pods'[n] = pods[n]
  BY <1>0, <1>8 DEF DeletePod, Write
<1> QED
  BY <1>8, <1>9

\* pod.go:154-160, 276-280: as long as no image is pushed again and every platform says its
\* OS (PodReconciler_noos.cfg shows it fail for one that does not), the
\* pod that was examined is deleted only when it does not run where it is: not for another
\* pod's images or node, after failed lookups, changes of the leader and events in between.
THEOREM OnlyMisplacedAreDeleted ==
  ASSUME MaxUpdates = 0, \A P \in PlatformSets : \A p \in P : p.os # ""
  PROVE  Spec => DeletesOnlyMisplaced
<1> DEFINE J == TypeOK /\ VersionInv /\ JudgementInv /\ pushes \in Nat
<1>1. Init => J
  <2>1. Init => JudgementInv
    BY DEF Init, JudgementInv
  <2> QED
    BY <2>1, InitType, InitVersion, InitPushes
<1>2. J /\ [Next]_vars => J'
  <2> SUFFICES ASSUME J, [Next]_vars PROVE J'
    OBVIOUS
  <2>1. UNCHANGED <<holds, pushes>>
    BY NothingPushed
  <2> QED
    BY <2>1, TypeStep, VersionStep, JudgementStep
<1>3. J /\ [Next]_vars =>
        \A n \in Name : (/\ Exists(pods[n]) /\ pods[n].deleted # "noe" /\ pods[n].uid = cur.pod.uid
                         /\ Exists(pods'[n]) /\ pods'[n].deleted = "noe")
                        => pods[n].node # NoNode /\ ~CanRun(pods[n])
  <2> SUFFICES ASSUME J, [Next]_vars, NEW n \in Name,
                      Exists(pods[n]), pods[n].deleted # "noe", pods[n].uid = cur.pod.uid,
                      Exists(pods'[n]), pods'[n].deleted = "noe"
               PROVE  pods[n].node # NoNode /\ ~CanRun(pods[n])
    OBVIOUS
  <2>1. DeletePod /\ n = cur.name
    BY MarkedByTheWorker
  <2>2. Unfit(Len(cur.pod.images)) /\ Earlier(cur.pod, pods[n])
    BY <2>1 DEF DeletePod, JudgementInv, VersionInv, Known
  <2>3. Exists(cur.pod)
    BY DEF Exists
  <2>4. cur.pod.images = pods[n].images /\ pods[n].node = cur.pod.node /\ cur.pod.node # NoNode
    BY <2>2, <2>3 DEF Earlier, Unfit
  <2>5. PICK k \in 1 .. Len(cur.pod.images) : ~Matches(holds[cur.pod.images[k]], cur.pod.node)
    BY <2>2 DEF Unfit
  <2>6. cur.pod.images \in Seq(Image)
    <3>1. cur \in [name : Name, pod : Pod]
      BY <2>1 DEF DeletePod, TypeOK
    <3>2. cur.pod.images \in Lists
      BY <3>1 DEF Pod
    <3> QED
      BY <3>2, ListsAreSequences
  <2>7. k \in DOMAIN cur.pod.images /\ cur.pod.images[k] \in Image
    BY <2>5, <2>6, Listed
  <2>8. holds[cur.pod.images[k]] \in PlatformSets
    BY <2>7 DEF TypeOK
  <2>9. ~Executes(pods[n].node, cur.pod.images[k])
    BY <2>4, <2>5, <2>8 DEF Executes, Matches
  <2> QED
    BY <2>4, <2>7, <2>9 DEF CanRun, Images
<1>4. Spec => [][\A n \in Name :
        (/\ Exists(pods[n]) /\ pods[n].deleted # "noe" /\ pods[n].uid = cur.pod.uid
         /\ Exists(pods'[n]) /\ pods'[n].deleted = "noe")
        => pods[n].node # NoNode /\ ~CanRun(pods[n])]_vars
  BY <1>1, <1>2, <1>3, PTL DEF Spec
<1> QED
  BY <1>4 DEF DeletesOnlyMisplaced

=============================================================================
