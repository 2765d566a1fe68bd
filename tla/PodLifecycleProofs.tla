------------------------- MODULE PodLifecycleProofs -------------------------
(***************************************************************************)
(* The webhook and the controller do not fight over a pod, however many    *)
(* admissions are given up, lookups fail and leaders change: the argument  *)
(* is one of accounts.  Whatever the webhook misses pays for two           *)
(* deletions, and every status update of a pod that was missed for one     *)
(* more.  What is still to come of it, on the watch, in the informer's     *)
(* cache, in the worker's hands or in the API server, is what is left.     *)
(***************************************************************************)
EXTENDS PodLifecycle, FiniteSetTheorems, TLAPS

Absent == Controller!Absent
NoNode == Hook!NoNode

\* A pod of the StatefulSet, which no kubelet has called ready.
IsPod(x) ==
  /\ x = [uid |-> x.uid, version |-> x.version, stateful |-> x.stateful, selects |-> x.selects,
          images |-> x.images, node |-> x.node, ready |-> x.ready, deleted |-> x.deleted]
  /\ x.uid \in Nat \ {0} /\ x.version \in Nat
  /\ x.selects \in BOOLEAN /\ x.stateful = TRUE /\ x.ready = FALSE

IsPodOrAbsent(x) == x = Absent \/ IsPod(x)

IsSeq(f) == \E S : f \in Seq(S)

(***************************************************************************)
(* What the controller sees of the pod, as values: p is the pod of the API *)
(* server, the n-th of its name, f is what the informer has yet to take, s *)
(* is what it has, q is the queue, w is where the worker is and k is the   *)
(* pod it took up.                                                         *)
(***************************************************************************)
\* x is p or an earlier version of it, or a pod that had its name before.
Older(x, p, n) ==
  IsPodOrAbsent(x) /\ (x # Absent => x.uid <= n /\ (x.uid = p.uid => x.version <= p.version))

\* The watch ends with p and tells of no version twice.
Watching(p, n, f, s) ==
  /\ n \in Nat /\ IsPodOrAbsent(p) /\ p.uid <= n
  /\ Older(s, p, n)
  /\ IsSeq(f) /\ \A i \in 1 .. Len(f) : Older(f[i], p, n)
  /\ f = <<>> => s = p
  /\ f # <<>> => f[Len(f)] = p /\ (s # Absent => s # p)
  /\ \A i \in 1 .. Len(f) : i < Len(f) => (f[i] # Absent => f[i] # p)

\* The worker is at what the informer has, unless that has changed and is queued again.
Working(p, n, f, s, q, k, w) ==
  w # "idle" => /\ IsPod(k) /\ Older(k, p, n)
                /\ k = p => f = <<>> /\ ThePod \notin q
                /\ ThePod \notin q => k = s

Seen(p, n, f, s, q, k, w) == Watching(p, n, f, s) /\ Working(p, n, f, s, q, k, w)

(***************************************************************************)
(* The account: the pods created or to be created again, and what may yet  *)
(* be deleted because of pods that do not select an architecture.          *)
(***************************************************************************)
Risky(x) == x # Absent /\ ~x.selects /\ x.node # NoNode

Risk(x) == IF Risky(x) THEN 1 ELSE 0

\* The versions that are outdated already: on the watch, ...
Stale(f)   == {i \in 1 .. Len(f) : i < Len(f) /\ Risky(f[i])}
Backlog(f) == Cardinality(Stale(f))

\* ... in the informer's cache, ...
Queued(f, s, q) == IF ThePod \in q /\ f # <<>> THEN Risk(s) ELSE 0

\* ... and in the worker's hands.
Taken(p, k, w) == IF w # "idle" /\ k # p THEN Risk(k) ELSE 0

Pending(p, f, s, q, k, w) == Backlog(f) + Queued(f, s, q) + Taken(p, k, w)

\* Deleted for itself, and once more on its way out.
Standing(p) ==
  IF p = Absent THEN 0 ELSE IF p.selects THEN 0 ELSE IF p.deleted = "no" THEN 2 ELSE 1

ToCreate(p) == IF p # Absent /\ p.deleted = "no" THEN 0 ELSE 1

Account(p, n, f, s, q, k, w) == n + ToCreate(p) + Standing(p) + Pending(p, f, s, q, k, w)

-----------------------------------------------------------------------------
(***************************************************************************)
(* What is outdated, as the watch grows at its end and is taken from its   *)
(* beginning.                                                              *)
(***************************************************************************)
LEMMA StaleFinite ==
  ASSUME NEW f, IsSeq(f)
  PROVE  /\ Len(f) \in Nat /\ (f = <<>> <=> Len(f) = 0)
         /\ IsFiniteSet(Stale(f)) /\ Backlog(f) \in Nat
<1>1. Len(f) \in Nat /\ (f = <<>> <=> Len(f) = 0)
  BY DEF IsSeq
<1>2. IsFiniteSet(1 .. Len(f))
  BY <1>1, FS_Interval
<1>3. IsFiniteSet(Stale(f))
  BY <1>2, FS_Subset DEF Stale
<1> QED
  BY <1>1, <1>3, FS_CardinalityType DEF Backlog

LEMMA Appended ==
  ASSUME NEW f, NEW x, IsSeq(f)
  PROVE  LET g == Append(f, x) IN
         /\ IsSeq(g) /\ Len(g) = Len(f) + 1 /\ g # <<>> /\ g[Len(g)] = x
         /\ \A i \in 1 .. Len(f) : g[i] = f[i]
<1>1. PICK S : f \in Seq(S)
  BY DEF IsSeq
<1> DEFINE T == S \cup {x}
<1>2. f \in Seq(T) /\ x \in T
  BY <1>1
<1> HIDE DEF T
<1>3. Append(f, x) \in Seq(T) /\ Len(Append(f, x)) = Len(f) + 1 /\ Len(f) \in Nat
  BY <1>2
<1>4. Append(f, x)[Len(f) + 1] = x /\ \A i \in 1 .. Len(f) : Append(f, x)[i] = f[i]
  BY <1>2
<1>5. Append(f, x) # <<>>
  BY <1>3
<1> QED
  BY <1>3, <1>4, <1>5 DEF IsSeq

LEMMA Taking ==
  ASSUME NEW f, IsSeq(f), f # <<>>
  PROVE  LET g == Tail(f) IN
         /\ IsSeq(g) /\ Len(f) \in Nat \ {0} /\ Len(g) = Len(f) - 1 /\ Head(f) = f[1]
         /\ g = <<>> <=> Len(f) = 1
         /\ \A i \in 1 .. Len(g) : g[i] = f[i + 1]
<1>1. PICK S : f \in Seq(S)
  BY DEF IsSeq
<1>2. Tail(f) \in Seq(S) /\ Len(Tail(f)) = Len(f) - 1 /\ Len(f) \in Nat \ {0} /\ Head(f) = f[1]
  BY <1>1
<1>3. \A i \in 1 .. Len(Tail(f)) : Tail(f)[i] = f[i + 1]
  BY <1>1, <1>2
<1>4. Tail(f) = <<>> <=> Len(f) = 1
  BY <1>1, <1>2
<1> QED
  BY <1>2, <1>3, <1>4 DEF IsSeq

\* The version that was last becomes an outdated one.
LEMMA BacklogGrows ==
  ASSUME NEW f, NEW x, IsSeq(f)
  PROVE  Backlog(Append(f, x)) <= Backlog(f) + (IF f = <<>> THEN 0 ELSE Risk(f[Len(f)]))
<1> DEFINE g == Append(f, x)
           m == Len(f)
<1>1. IsSeq(g) /\ Len(g) = m + 1 /\ \A i \in 1 .. m : g[i] = f[i]
  BY Appended
<1>2. m \in Nat /\ (f = <<>> <=> m = 0) /\ IsFiniteSet(Stale(f)) /\ Backlog(f) \in Nat
  BY StaleFinite
<1> HIDE DEF g, m
<1>3. Stale(g) = Stale(f) \cup {i \in {m} : m # 0 /\ Risky(f[m])}
  <2>1. Stale(f) = {i \in 1 .. m : i < m /\ Risky(f[i])}
    BY DEF Stale, m
  <2>2. Stale(g) = {i \in 1 .. (m + 1) : i < m + 1 /\ Risky(g[i])}
    BY <1>1 DEF Stale
  <2>3. \A i \in 1 .. m : Risky(g[i]) <=> Risky(f[i])
    BY <1>1
  <2> QED
    BY <1>2, <2>1, <2>2, <2>3
<1>4. CASE m # 0 /\ Risky(f[m])
  <2>1. Stale(g) = Stale(f) \cup {m}
    BY <1>3, <1>4
  <2>2. m \notin Stale(f)
    BY <1>2 DEF Stale, m
  <2>3. Cardinality(Stale(f) \cup {m}) = Cardinality(Stale(f)) + 1
    BY <1>2, <2>2, FS_AddElement
  <2> QED
    BY <1>2, <1>4, <2>1, <2>3 DEF Backlog, Risk, g, m
<1>5. CASE ~(m # 0 /\ Risky(f[m]))
  <2>1. Stale(g) = Stale(f)
    BY <1>3, <1>5
  <2> QED
    BY <1>2, <1>5, <2>1 DEF Backlog, Risk, g, m
<1> QED
  BY <1>4, <1>5

LEMMA BacklogTaken ==
  ASSUME NEW f, IsSeq(f), f # <<>>
  PROVE  Backlog(f) = Backlog(Tail(f)) + (IF Tail(f) = <<>> THEN 0 ELSE Risk(Head(f)))
<1> DEFINE g == Tail(f)
           m == Len(f)
           moved == {i + 1 : i \in Stale(g)}
<1>1. /\ IsSeq(g) /\ m \in Nat \ {0} /\ Len(g) = m - 1 /\ Head(f) = f[1] /\ (g = <<>> <=> m = 1)
      /\ \A i \in 1 .. Len(g) : g[i] = f[i + 1]
  BY Taking
<1>2. IsFiniteSet(Stale(g)) /\ Backlog(g) \in Nat
  BY <1>1, StaleFinite
<1> HIDE DEF g, m
<1>3. Stale(g) \subseteq Nat /\ \A i \in Stale(g) : i >= 1
  BY <1>1 DEF Stale
<1>4. IsFiniteSet(moved) /\ Cardinality(moved) = Backlog(g)
  <2> DEFINE h == [i \in Stale(g) |-> i + 1]
  <2>1. \A i, j \in Stale(g) : i + 1 = j + 1 => i = j
    BY <1>3
  <2>2. h \in [Stale(g) -> moved] /\ \A i \in Stale(g) : h[i] = i + 1
    OBVIOUS
  <2>3. h \in Injection(Stale(g), moved)
    BY <2>1, <2>2 DEF Injection, IsInjective
  <2>4. h \in Surjection(Stale(g), moved)
    BY <2>2 DEF Surjection
  <2>5. ExistsBijection(Stale(g), moved)
    BY <2>3, <2>4 DEF ExistsBijection, Bijection
  <2> HIDE DEF moved
  <2> QED
    BY <1>2, <2>5, FS_Bijection DEF Backlog
<1>5. Stale(f) = moved \cup {i \in {1} : m # 1 /\ Risky(f[1])}
  <2>1. Stale(f) = {i \in 1 .. m : i < m /\ Risky(f[i])}
    BY DEF Stale, m
  <2>2. Stale(g) = {i \in 1 .. (m - 1) : i < m - 1 /\ Risky(g[i])}
    BY <1>1 DEF Stale
  <2>3. \A i \in 1 .. (m - 1) : Risky(g[i]) <=> Risky(f[i + 1])
    BY <1>1
  <2>4. ASSUME NEW i \in Stale(f) PROVE i \in moved \cup {j \in {1} : m # 1 /\ Risky(f[1])}
    <3>1. i \in 1 .. m /\ i < m /\ Risky(f[i])
      BY <2>1
    <3>2. CASE i = 1
      BY <1>1, <3>1, <3>2
    <3>3. CASE i # 1
      <4>1. i - 1 \in 1 .. (m - 1) /\ i - 1 < m - 1 /\ (i - 1) + 1 = i
        BY <1>1, <3>1, <3>3
      <4>2. Risky(g[i - 1])
        BY <2>3, <3>1, <4>1
      <4>3. i - 1 \in Stale(g)
        BY <2>2, <4>1, <4>2
      <4> QED
        BY <4>1, <4>3
    <3> QED
      BY <3>2, <3>3
  <2>5. ASSUME NEW i \in Stale(g) PROVE i + 1 \in Stale(f)
    BY <1>1, <2>1, <2>2, <2>3
  <2>6. m # 1 /\ Risky(f[1]) => 1 \in Stale(f)
    BY <1>1, <2>1
  <2> QED
    BY <2>4, <2>5, <2>6
<1>6. 1 \notin moved
  BY <1>3
<1> HIDE DEF moved
<1>7. CASE m # 1 /\ Risky(f[1])
  <2>1. Stale(f) = moved \cup {1}
    BY <1>5, <1>7
  <2>2. Cardinality(Stale(f)) = Cardinality(moved) + 1
    BY <1>4, <1>6, <2>1, FS_AddElement
  <2> QED
    BY <1>1, <1>4, <1>7, <2>2 DEF Backlog, Risk, g
<1>8. CASE ~(m # 1 /\ Risky(f[1]))
  <2>1. Stale(f) = moved
    BY <1>5, <1>8
  <2> QED
    BY <1>1, <1>2, <1>4, <1>8, <2>1 DEF Backlog, Risk, g
<1> QED
  BY <1>7, <1>8

-----------------------------------------------------------------------------
(***************************************************************************)
(* No step of the controller or of the cluster raises the account, but for *)
(* a status update of a pod that is bound and does not select, by one, and *)
(* the creation of a pod without a selection, by two.                      *)
(***************************************************************************)
LEMMA Amounts ==
  ASSUME NEW p, NEW f, NEW s, NEW q, NEW k, NEW w, IsSeq(f)
  PROVE  /\ ToCreate(p) \in {0, 1} /\ Standing(p) \in {0, 1, 2}
         /\ Risk(p) \in {0, 1} /\ Backlog(f) \in Nat
         /\ Queued(f, s, q) \in {0, 1} /\ Taken(p, k, w) \in {0, 1}
         /\ Pending(p, f, s, q, k, w) \in Nat
<1>1. Risk(p) \in {0, 1} /\ Risk(s) \in {0, 1} /\ Risk(k) \in {0, 1}
  BY DEF Risk
<1>2. Queued(f, s, q) \in {0, 1} /\ Taken(p, k, w) \in {0, 1}
  BY <1>1 DEF Queued, Taken
<1>3. Backlog(f) \in Nat
  BY StaleFinite
<1>4. Pending(p, f, s, q, k, w) \in Nat
  BY <1>2, <1>3 DEF Pending
<1> QED
  BY <1>1, <1>2, <1>3, <1>4 DEF ToCreate, Standing

\* x is what comes after p, the n-th pod, and there are m pods then.
Follows(x, p, n, m) ==
  /\ IsPodOrAbsent(x)
  /\ \/ x = Absent /\ m = n
     \/ p = Absent /\ x # Absent /\ x.uid = n + 1 /\ m = n + 1
     \/ p # Absent /\ x # Absent /\ x.uid = p.uid /\ x.version = p.version + 1 /\ m = n

\* What was older before is older after.
LEMMA StillOlder ==
  ASSUME NEW n \in Nat, NEW p, IsPodOrAbsent(p), p.uid <= n,
         NEW m, NEW x, Follows(x, p, n, m), NEW y, Older(y, p, n)
  PROVE  Older(y, x, m) /\ (y # Absent => y # x)
<1>1. Absent.uid = 0
  BY DEF Absent, Controller!Absent
<1>2. /\ y # Absent => y.uid \in Nat \ {0} /\ y.version \in Nat
      /\ x # Absent => x.uid \in Nat \ {0} /\ x.version \in Nat
      /\ p # Absent => p.uid \in Nat \ {0} /\ p.version \in Nat
  BY DEF Older, Follows, IsPodOrAbsent, IsPod
<1>3. CASE x = Absent /\ m = n
  BY <1>1, <1>2, <1>3 DEF Older
<1>4. CASE p = Absent /\ x # Absent /\ x.uid = n + 1 /\ m = n + 1
  BY <1>1, <1>2, <1>4 DEF Older
<1>5. CASE p # Absent /\ x # Absent /\ x.uid = p.uid /\ x.version = p.version + 1 /\ m = n
  BY <1>1, <1>2, <1>5 DEF Older
<1> QED
  BY <1>3, <1>4, <1>5 DEF Follows

\* The new one is of the pods there are.
LEMMA NewIsLast ==
  ASSUME NEW n \in Nat, NEW p, IsPodOrAbsent(p), p.uid <= n,
         NEW m, NEW x, Follows(x, p, n, m)
  PROVE  m \in Nat /\ x.uid <= m /\ Older(x, x, m)
<1>1. Absent.uid = 0
  BY DEF Absent, Controller!Absent
<1>2. /\ x # Absent => x.uid \in Nat \ {0} /\ x.version \in Nat
      /\ p # Absent => p.uid \in Nat \ {0}
  BY DEF Follows, IsPodOrAbsent, IsPod
<1>3. m \in Nat /\ x.uid <= m
  BY <1>1, <1>2 DEF Follows
<1> QED
  BY <1>2, <1>3 DEF Older, Follows

LEMMA WriteWatched ==
  ASSUME NEW p, NEW n, NEW f, NEW s, Watching(p, n, f, s),
         NEW x, NEW m, Follows(x, p, n, m)
  PROVE  Watching(x, m, Append(f, x), s)
<1> DEFINE g == Append(f, x)
<1>1. /\ IsSeq(g) /\ Len(g) = Len(f) + 1 /\ g # <<>> /\ g[Len(g)] = x
      /\ \A i \in 1 .. Len(f) : g[i] = f[i]
  BY Appended DEF Watching
<1>2. Len(f) \in Nat /\ n \in Nat /\ IsPodOrAbsent(p) /\ p.uid <= n
  BY StaleFinite DEF Watching
<1> HIDE DEF g
<1>3. m \in Nat /\ x.uid <= m /\ Older(x, x, m) /\ IsPodOrAbsent(x)
  BY <1>2, NewIsLast DEF Follows
<1>4. Older(s, x, m) /\ (s # Absent => s # x)
  BY <1>2, StillOlder DEF Watching
<1>5. ASSUME NEW i \in 1 .. Len(f) PROVE Older(g[i], x, m) /\ (g[i] # Absent => g[i] # x)
  <2>1. Older(f[i], p, n) /\ g[i] = f[i]
    BY <1>1 DEF Watching
  <2> QED
    BY <1>2, <2>1, StillOlder
<1>6. ASSUME NEW i \in 1 .. Len(g)
      PROVE Older(g[i], x, m) /\ (i < Len(g) => (g[i] # Absent => g[i] # x))
  <2>1. CASE i \in 1 .. Len(f)
    BY <1>5, <2>1
  <2>2. CASE i \notin 1 .. Len(f)
    BY <1>1, <1>2, <1>3, <2>2
  <2> QED
    BY <2>1, <2>2
<1>7. Watching(x, m, g, s)
  BY <1>1, <1>3, <1>4, <1>6 DEF Watching
<1> QED
  BY <1>7 DEF g

LEMMA WriteSeen ==
  ASSUME NEW p, NEW n, NEW f, NEW s, NEW q, NEW k, NEW w, Seen(p, n, f, s, q, k, w),
         NEW x, NEW m, Follows(x, p, n, m)
  PROVE  Seen(x, m, Append(f, x), s, q, k, w)
<1>1. Watching(x, m, Append(f, x), s)
  BY WriteWatched DEF Seen
<1>2. w # "idle" => Older(k, x, m) /\ k # x
  <2>1. w # "idle" => IsPod(k) /\ Older(k, p, n) /\ k # Absent
    BY DEF Seen, Working, IsPod, Absent, Controller!Absent
  <2> QED
    BY <2>1, StillOlder DEF Seen, Watching
<1> QED
  BY <1>1, <1>2 DEF Seen, Working

(***************************************************************************)
(* A write makes what it replaces an outdated version, wherever the latest *)
(* version is: on the watch, in the informer's cache or with the worker.   *)
(***************************************************************************)
LEMMA WritePending ==
  ASSUME NEW p, NEW n, NEW f, NEW s, NEW q, NEW k, NEW w, Seen(p, n, f, s, q, k, w), NEW x
  PROVE  Pending(x, Append(f, x), s, q, k, w) <= Pending(p, f, s, q, k, w) + Risk(p)
<1> DEFINE g == Append(f, x)
<1>1. IsSeq(f) /\ IsSeq(g) /\ g # <<>>
  BY Appended DEF Seen, Watching
<1>2. Backlog(g) <= Backlog(f) + (IF f = <<>> THEN 0 ELSE Risk(f[Len(f)]))
  BY <1>1, BacklogGrows
<1> HIDE DEF g
<1>3. /\ Risk(p) \in {0, 1} /\ Risk(s) \in {0, 1} /\ Risk(k) \in {0, 1}
      /\ Backlog(f) \in Nat /\ Backlog(g) \in Nat
      /\ Queued(f, s, q) \in {0, 1} /\ Taken(p, k, w) \in {0, 1}
      /\ Queued(g, s, q) \in {0, 1} /\ Taken(x, k, w) \in {0, 1}
  <2>1. /\ Risk(p) \in {0, 1} /\ Backlog(f) \in Nat
        /\ Queued(f, s, q) \in {0, 1} /\ Taken(p, k, w) \in {0, 1}
    BY <1>1, Amounts
  <2>2. Backlog(g) \in Nat /\ Queued(g, s, q) \in {0, 1} /\ Taken(x, k, w) \in {0, 1}
    BY <1>1, Amounts
  <2>3. Risk(s) \in {0, 1} /\ Risk(k) \in {0, 1}
    BY DEF Risk
  <2> QED
    BY <2>1, <2>2, <2>3
<1>4. k # p => Taken(x, k, w) <= Taken(p, k, w)
  BY <1>3 DEF Taken
<1>5. Taken(x, k, w) <= Risk(k)
  BY <1>3 DEF Taken
<1>6. CASE f # <<>>
  <2>1. Backlog(g) <= Backlog(f) + Risk(p)
    BY <1>2, <1>6 DEF Seen, Watching
  <2>2. Queued(g, s, q) = Queued(f, s, q)
    BY <1>1, <1>6 DEF Queued
  <2>3. Taken(x, k, w) <= Taken(p, k, w)
    BY <1>3, <1>4, <1>6 DEF Seen, Working, Taken
  <2> QED
    BY <1>3, <2>1, <2>2, <2>3 DEF Pending, g
<1>7. CASE f = <<>>
  <2>1. Backlog(g) <= Backlog(f) /\ s = p /\ Queued(f, s, q) = 0
    BY <1>2, <1>3, <1>7 DEF Seen, Watching, Queued
  <2>2. CASE ThePod \in q
    <3>1. Queued(g, s, q) = Risk(p)
      BY <1>1, <2>1, <2>2 DEF Queued
    <3>2. Taken(x, k, w) <= Taken(p, k, w)
      BY <1>3, <1>4, <2>2 DEF Seen, Working, Taken
    <3> QED
      BY <1>3, <2>1, <3>1, <3>2 DEF Pending, g
  <2>3. CASE ThePod \notin q
    <3>1. Queued(g, s, q) = 0
      BY <2>3 DEF Queued
    <3>2. Taken(x, k, w) <= Taken(p, k, w) + Risk(p)
      BY <1>3, <1>4, <1>5
    <3> QED
      BY <1>3, <2>1, <3>1, <3>2 DEF Pending, g
  <2> QED
    BY <2>2, <2>3
<1> QED
  BY <1>6, <1>7

LEMMA CreateAccount ==
  ASSUME NEW n, NEW f, NEW s, NEW q, NEW k, NEW w, Seen(Absent, n, f, s, q, k, w),
         NEW x, IsPod(x), x.uid = n + 1, x.deleted = "no"
  PROVE  /\ Seen(x, n + 1, Append(f, x), s, q, k, w)
         /\ Account(x, n + 1, Append(f, x), s, q, k, w)
              <= Account(Absent, n, f, s, q, k, w) + (IF x.selects THEN 0 ELSE 2)
<1>1. n \in Nat /\ IsSeq(f) /\ x # Absent
  BY DEF Seen, Watching, IsPod, Absent, Controller!Absent
<1>2. Follows(x, Absent, n, n + 1)
  BY <1>1 DEF Follows, IsPodOrAbsent
<1>3. Seen(x, n + 1, Append(f, x), s, q, k, w)
  BY <1>2, WriteSeen
<1>4. Pending(x, Append(f, x), s, q, k, w) <= Pending(Absent, f, s, q, k, w)
  <2>1. Pending(x, Append(f, x), s, q, k, w) <= Pending(Absent, f, s, q, k, w) + Risk(Absent)
    BY WritePending
  <2>2. Risk(Absent) = 0 /\ Pending(Absent, f, s, q, k, w) \in Nat
    BY <1>1, Amounts DEF Risk, Risky
  <2> QED
    BY <2>1, <2>2
<1>5. Pending(x, Append(f, x), s, q, k, w) \in Nat /\ Pending(Absent, f, s, q, k, w) \in Nat
  BY <1>1, Appended, Amounts
<1>6. /\ ToCreate(x) = 0 /\ ToCreate(Absent) = 1 /\ Standing(Absent) = 0
      /\ Standing(x) = IF x.selects THEN 0 ELSE 2
  BY <1>1 DEF ToCreate, Standing, IsPod
<1> QED
  BY <1>1, <1>3, <1>4, <1>5, <1>6 DEF Account

\* A pod with another node, another mark or another status, ...
LEMMA Edited ==
  ASSUME NEW p, IsPod(p), NEW v
  PROVE  /\ LET b == [p EXCEPT !.node = v] IN
            /\ IsPod(b) /\ b.uid = p.uid /\ b.version = p.version /\ b.selects = p.selects
            /\ b.deleted = p.deleted
         /\ LET b == [p EXCEPT !.deleted = v] IN
            /\ IsPod(b) /\ b.uid = p.uid /\ b.version = p.version /\ b.selects = p.selects
            /\ b.deleted = v
         /\ [p EXCEPT !.ready = FALSE] = p
<1>1. p = [uid |-> p.uid, version |-> p.version, stateful |-> p.stateful, selects |-> p.selects,
           images |-> p.images, node |-> p.node, ready |-> p.ready, deleted |-> p.deleted]
  BY DEF IsPod
<1>2. [p EXCEPT !.node = v] =
          [uid |-> p.uid, version |-> p.version, stateful |-> p.stateful, selects |-> p.selects,
           images |-> p.images, node |-> v, ready |-> p.ready, deleted |-> p.deleted]
  BY <1>1
<1>3. [p EXCEPT !.deleted = v] =
          [uid |-> p.uid, version |-> p.version, stateful |-> p.stateful, selects |-> p.selects,
           images |-> p.images, node |-> p.node, ready |-> p.ready, deleted |-> v]
  BY <1>1
<1>4. [p EXCEPT !.ready = p.ready] = p
  BY <1>1
<1>5. p.ready = FALSE
  BY DEF IsPod
<1>6. LET b == [p EXCEPT !.node = v] IN
      /\ IsPod(b) /\ b.uid = p.uid /\ b.version = p.version /\ b.selects = p.selects
      /\ b.deleted = p.deleted
  <2> DEFINE b == [p EXCEPT !.node = v]
  <2>1. b = [uid |-> p.uid, version |-> p.version, stateful |-> p.stateful, selects |-> p.selects,
           images |-> p.images, node |-> v, ready |-> p.ready, deleted |-> p.deleted]
    BY <1>2
  <2> HIDE DEF b
  <2>2. /\ IsPod(b) /\ b.uid = p.uid /\ b.version = p.version /\ b.selects = p.selects
        /\ b.deleted = p.deleted
    BY <2>1 DEF IsPod
  <2> QED
    BY <2>2 DEF b
<1>7. LET b == [p EXCEPT !.deleted = v] IN
      /\ IsPod(b) /\ b.uid = p.uid /\ b.version = p.version /\ b.selects = p.selects
      /\ b.deleted = v
  <2> DEFINE b == [p EXCEPT !.deleted = v]
  <2>1. b = [uid |-> p.uid, version |-> p.version, stateful |-> p.stateful, selects |-> p.selects,
           images |-> p.images, node |-> p.node, ready |-> p.ready, deleted |-> v]
    BY <1>3
  <2> HIDE DEF b
  <2>2. /\ IsPod(b) /\ b.uid = p.uid /\ b.version = p.version /\ b.selects = p.selects
        /\ b.deleted = v
    BY <2>1 DEF IsPod
  <2> QED
    BY <2>2 DEF b
<1> QED
  BY <1>4, <1>5, <1>6, <1>7

\* ... and as the next version.
LEMMA Reversioned ==
  ASSUME NEW p, IsPod(p)
  PROVE  LET b == Controller!NextVersion(p) IN
         /\ IsPod(b) /\ b.uid = p.uid /\ b.version = p.version + 1 /\ b.selects = p.selects
         /\ b.deleted = p.deleted
<1>1. p = [uid |-> p.uid, version |-> p.version, stateful |-> p.stateful, selects |-> p.selects,
           images |-> p.images, node |-> p.node, ready |-> p.ready, deleted |-> p.deleted]
  BY DEF IsPod
<1>2. ASSUME NEW u \in Nat
      PROVE  LET b == [p EXCEPT !.version = u] IN
             /\ IsPod(b) /\ b.uid = p.uid /\ b.version = u /\ b.selects = p.selects
             /\ b.deleted = p.deleted
  <2> DEFINE b == [p EXCEPT !.version = u]
  <2>1. b = [uid |-> p.uid, version |-> u, stateful |-> p.stateful, selects |-> p.selects,
           images |-> p.images, node |-> p.node, ready |-> p.ready, deleted |-> p.deleted]
    BY <1>1
  <2> HIDE DEF b
  <2>2. /\ IsPod(b) /\ b.uid = p.uid /\ b.version = u /\ b.selects = p.selects
        /\ b.deleted = p.deleted
    BY <2>1 DEF IsPod
  <2> QED
    BY <2>2 DEF b
<1>3. p.version + 1 \in Nat
  BY DEF IsPod
<1>4. Controller!NextVersion(p) = [p EXCEPT !.version = p.version + 1]
  BY DEF Controller!NextVersion
<1> QED
  BY <1>2, <1>3, <1>4

\* Another version of a pod: bound, or with another status.
LEMMA UpdateAccount ==
  ASSUME NEW p, NEW n, NEW f, NEW s, NEW q, NEW k, NEW w, Seen(p, n, f, s, q, k, w), p # Absent,
         NEW x, IsPod(x), x.uid = p.uid, x.version = p.version + 1, x.selects = p.selects,
         x.deleted = p.deleted
  PROVE  /\ Seen(x, n, Append(f, x), s, q, k, w)
         /\ Account(x, n, Append(f, x), s, q, k, w) <= Account(p, n, f, s, q, k, w) + Risk(p)
<1>1. n \in Nat /\ IsSeq(f) /\ x # Absent
  BY DEF Seen, Watching, IsPod, Absent, Controller!Absent
<1>2. Seen(x, n, Append(f, x), s, q, k, w)
  BY <1>1, WriteSeen DEF Follows, IsPodOrAbsent
<1>3. Pending(x, Append(f, x), s, q, k, w) <= Pending(p, f, s, q, k, w) + Risk(p)
  BY WritePending
<1>4. ToCreate(x) = ToCreate(p) /\ Standing(x) = Standing(p)
  BY <1>1 DEF ToCreate, Standing
<1>5. Pending(x, Append(f, x), s, q, k, w) \in Nat
  BY <1>1, Appended, Amounts
<1>6. /\ Pending(p, f, s, q, k, w) \in Nat /\ Risk(p) \in {0, 1}
      /\ ToCreate(p) \in {0, 1} /\ Standing(p) \in {0, 1, 2}
  BY <1>1, Amounts
<1> QED
  BY <1>1, <1>2, <1>3, <1>4, <1>5, <1>6 DEF Account

LEMMA TerminateAccount ==
  ASSUME NEW p, NEW n, NEW f, NEW s, NEW q, NEW k, NEW w, Seen(p, n, f, s, q, k, w),
         p # Absent, p.deleted # "no"
  PROVE  /\ Seen(Absent, n, Append(f, Absent), s, q, k, w)
         /\ Account(Absent, n, Append(f, Absent), s, q, k, w) <= Account(p, n, f, s, q, k, w)
<1>1. n \in Nat /\ IsSeq(f)
  BY DEF Seen, Watching
<1>2. Seen(Absent, n, Append(f, Absent), s, q, k, w)
  BY WriteSeen DEF Follows, IsPodOrAbsent
<1>3. Pending(Absent, Append(f, Absent), s, q, k, w) <= Pending(p, f, s, q, k, w) + Risk(p)
  BY WritePending
<1>4. /\ ToCreate(p) = 1 /\ ToCreate(Absent) = 1 /\ Standing(Absent) = 0
      /\ Risk(p) <= Standing(p)
  BY DEF ToCreate, Standing, Risk, Risky
<1>5. Pending(Absent, Append(f, Absent), s, q, k, w) \in Nat
  BY <1>1, Appended, Amounts
<1>6. Pending(p, f, s, q, k, w) \in Nat /\ Risk(p) \in {0, 1} /\ Standing(p) \in {0, 1, 2}
  BY <1>1, Amounts
<1> QED
  BY <1>1, <1>2, <1>3, <1>4, <1>5, <1>6 DEF Account

\* The informer takes the first of the watch.
LEMMA ObserveAccount ==
  ASSUME NEW p, NEW n, NEW f, NEW s, NEW q, NEW k, NEW w, Seen(p, n, f, s, q, k, w), f # <<>>,
         NEW r, ThePod \in r
  PROVE  /\ Seen(p, n, Tail(f), Head(f), r, k, w)
         /\ Account(p, n, Tail(f), Head(f), r, k, w) <= Account(p, n, f, s, q, k, w)
<1> DEFINE g == Tail(f)
<1>1. /\ IsSeq(f) /\ IsSeq(g) /\ Len(f) \in Nat \ {0} /\ Len(g) = Len(f) - 1 /\ Head(f) = f[1]
      /\ g = <<>> <=> Len(f) = 1
      /\ \A i \in 1 .. Len(g) : g[i] = f[i + 1]
  BY Taking DEF Seen, Watching
<1>2. Backlog(f) = Backlog(g) + (IF g = <<>> THEN 0 ELSE Risk(Head(f)))
  BY <1>1, BacklogTaken
<1> HIDE DEF g
<1>3. Watching(p, n, f, s)
  BY DEF Seen
<1>4. Watching(p, n, g, f[1])
  <2>1. n \in Nat /\ IsPodOrAbsent(p) /\ p.uid <= n /\ Older(f[1], p, n)
    BY <1>1, <1>3 DEF Watching
  <2>2. ASSUME NEW i \in 1 .. Len(g)
        PROVE Older(g[i], p, n) /\ (i < Len(g) => (g[i] # Absent => g[i] # p))
    <3>1. i + 1 \in 1 .. Len(f) /\ g[i] = f[i + 1] /\ (i < Len(g) => i + 1 < Len(f))
      BY <1>1
    <3> QED
      BY <1>3, <3>1 DEF Watching
  <2>3. g = <<>> => f[1] = p
    BY <1>1, <1>3 DEF Watching
  <2>4. g # <<>> => g[Len(g)] = p /\ (f[1] # Absent => f[1] # p)
    <3>1. g # <<>> => Len(g) \in 1 .. Len(g) /\ Len(g) + 1 = Len(f) /\ 1 \in 1 .. Len(f) /\ 1 < Len(f)
      BY <1>1
    <3> QED
      BY <1>1, <1>3, <3>1 DEF Watching
  <2> QED
    BY <1>1, <2>1, <2>2, <2>3, <2>4 DEF Watching
<1>5. Working(p, n, g, f[1], r, k, w)
  BY DEF Seen, Working
<1>6. Queued(g, f[1], r) = IF g = <<>> THEN 0 ELSE Risk(Head(f))
  BY <1>1 DEF Queued
<1>7. /\ ToCreate(p) \in {0, 1} /\ Standing(p) \in {0, 1, 2} /\ Backlog(f) \in Nat
      /\ Queued(f, s, q) \in {0, 1} /\ Taken(p, k, w) \in {0, 1}
  BY <1>1, Amounts
<1>8. Backlog(g) \in Nat /\ Queued(g, f[1], r) \in {0, 1}
  BY <1>1, Amounts
<1>9. Seen(p, n, g, f[1], r, k, w)
  BY <1>4, <1>5 DEF Seen
<1>10. Account(p, n, g, f[1], r, k, w) <= Account(p, n, f, s, q, k, w)
  <2>1. n \in Nat
    BY <1>3 DEF Watching
  <2> QED
    BY <2>1, <1>2, <1>6, <1>7, <1>8 DEF Account, Pending
<1> QED
  BY <1>1, <1>9, <1>10 DEF g

\* The worker takes the name off the queue.
LEMMA TakeAccount ==
  ASSUME NEW p, NEW n, NEW f, NEW s, NEW q, NEW k, Seen(p, n, f, s, q, k, "idle"), ThePod \in q,
         NEW r, ThePod \notin r
  PROVE  /\ Seen(p, n, f, s, r, k, "idle")
         /\ Account(p, n, f, s, r, k, "idle") <= Account(p, n, f, s, q, k, "idle")
         /\ s # Absent =>
              /\ Seen(p, n, f, s, r, s, "listing")
              /\ Account(p, n, f, s, r, s, "listing") <= Account(p, n, f, s, q, k, "idle")
<1>1. Seen(p, n, f, s, r, k, "idle") /\ n \in Nat /\ IsSeq(f)
  BY DEF Seen, Watching, Working
<1>2. s # Absent => Seen(p, n, f, s, r, s, "listing")
  BY DEF Seen, Watching, Working, Older, IsPodOrAbsent
<1>3. Queued(f, s, r) = 0 /\ Taken(p, k, "idle") = 0
  BY DEF Queued, Taken
<1>4. Taken(p, s, "listing") <= Queued(f, s, q)
  BY DEF Seen, Watching, Taken, Queued, Risk
<1>5. /\ ToCreate(p) \in {0, 1} /\ Standing(p) \in {0, 1, 2} /\ Backlog(f) \in Nat
      /\ Queued(f, s, q) \in {0, 1} /\ Taken(p, s, "listing") \in {0, 1}
  BY <1>1, Amounts
<1>6. /\ Account(p, n, f, s, r, k, "idle") <= Account(p, n, f, s, q, k, "idle")
      /\ Account(p, n, f, s, r, s, "listing") <= Account(p, n, f, s, q, k, "idle")
  BY <1>1, <1>3, <1>4, <1>5 DEF Account, Pending
<1> QED
  BY <1>1, <1>2, <1>6

\* The worker is through with a pod, or queues its name again.
LEMMA RestAccount ==
  ASSUME NEW p, NEW n, NEW f, NEW s, NEW q, NEW k, NEW w, Seen(p, n, f, s, q, k, w), w # "idle",
         NEW r, r = q \/ ThePod \in r, NEW l
  PROVE  /\ Seen(p, n, f, s, r, l, "idle")
         /\ Account(p, n, f, s, r, l, "idle") <= Account(p, n, f, s, q, k, w)
<1>1. Seen(p, n, f, s, r, l, "idle") /\ n \in Nat /\ IsSeq(f)
  BY DEF Seen, Watching, Working
<1>2. Taken(p, l, "idle") = 0
  BY DEF Taken
<1>3. /\ ToCreate(p) \in {0, 1} /\ Standing(p) \in {0, 1, 2} /\ Backlog(f) \in Nat
      /\ Queued(f, s, q) \in {0, 1} /\ Taken(p, k, w) \in {0, 1}
  BY <1>1, Amounts
<1>4. Queued(f, s, r) \in {0, 1}
  BY <1>1, Amounts
<1>5. Queued(f, s, r) <= Queued(f, s, q) + Taken(p, k, w)
  <2>1. CASE r = q \/ ThePod \in q
    <3>1. Queued(f, s, r) = Queued(f, s, q)
      BY <2>1 DEF Queued
    <3> QED
      BY <1>3, <3>1
  <2>2. CASE ThePod \notin q
    <3>1. k = s /\ IsPod(k) /\ k # Absent
      BY <2>2 DEF Seen, Working, IsPod, Absent, Controller!Absent
    <3>2. f # <<>> => k # p
      BY <3>1 DEF Seen, Watching
    <3> QED
      BY <1>3, <1>4, <3>1, <3>2 DEF Queued, Taken
  <2> QED
    BY <2>1, <2>2
<1> QED
  BY <1>1, <1>2, <1>3, <1>4, <1>5 DEF Account, Pending

\* Nothing is outdated for a new leader.
LEMMA NothingPending == ASSUME NEW p, NEW s, NEW q, NEW l PROVE Pending(p, <<>>, s, q, l, "idle") = 0
<1>1. Stale(<<>>) = {}
  BY DEF Stale
<1>2. Backlog(<<>>) = 0
  BY <1>1, FS_EmptySet DEF Backlog
<1> QED
  BY <1>2 DEF Pending, Queued, Taken

LEMMA RestartAccount ==
  ASSUME NEW p, NEW n, NEW f, NEW s, NEW q, NEW k, NEW w, Seen(p, n, f, s, q, k, w), NEW r, NEW l
  PROVE  /\ Seen(p, n, <<>>, p, r, l, "idle")
         /\ Account(p, n, <<>>, p, r, l, "idle") <= Account(p, n, f, s, q, k, w)
<1>1. n \in Nat /\ IsSeq(f) /\ IsPodOrAbsent(p) /\ p.uid <= n
  BY DEF Seen, Watching
<1>2. IsSeq(<<>>) /\ Len(<<>>) = 0
  BY DEF IsSeq
<1>3. Older(p, p, n)
  BY <1>1 DEF Older, IsPodOrAbsent, IsPod
<1>4. Watching(p, n, <<>>, p)
  BY <1>1, <1>2, <1>3 DEF Watching
<1>5. Seen(p, n, <<>>, p, r, l, "idle")
  BY <1>4 DEF Seen, Working
<1>6. Pending(p, f, s, q, k, w) \in Nat /\ ToCreate(p) \in {0, 1} /\ Standing(p) \in {0, 1, 2}
  BY <1>1, Amounts
<1> QED
  BY <1>1, <1>5, <1>6, NothingPending DEF Account

\* The worker deletes what has the name by now, for a pod that was on a node.
LEMMA DeleteAccount ==
  ASSUME NEW p, NEW n, NEW f, NEW s, NEW q, NEW k, NEW w, Seen(p, n, f, s, q, k, w), w # "idle",
         p # Absent, p.deleted = "no", Risky(k), NEW l,
         NEW x, IsPod(x), x.uid = p.uid, x.version = p.version + 1, x.selects = p.selects,
         x.deleted # "no"
  PROVE  /\ Seen(x, n, Append(f, x), s, q, l, "idle")
         /\ Account(x, n, Append(f, x), s, q, l, "idle") <= Account(p, n, f, s, q, k, w)
<1> DEFINE g == Append(f, x)
<1>1. IsPod(p) /\ n \in Nat /\ IsSeq(f) /\ x # Absent /\ p.selects \in BOOLEAN
  BY DEF Seen, Watching, IsPodOrAbsent, IsPod, Absent, Controller!Absent
<1>2. Seen(x, n, g, s, q, k, w)
  BY <1>1, WriteSeen DEF Follows, IsPodOrAbsent
<1>3. Seen(x, n, g, s, q, l, "idle")
  BY <1>2 DEF Seen, Working
<1>4. Pending(x, g, s, q, k, w) <= Pending(p, f, s, q, k, w) + Risk(p)
  BY WritePending
<1>5. IsSeq(g)
  BY <1>1, Appended
<1>6. /\ ToCreate(x) = 1 /\ ToCreate(p) = 0
      /\ Standing(x) = (IF p.selects THEN 0 ELSE 1) /\ Standing(p) = (IF p.selects THEN 0 ELSE 2)
  BY <1>1 DEF ToCreate, Standing
<1>7. Risk(p) <= 1 /\ Risk(p) \in {0, 1} /\ (p.selects => Risk(p) = 0)
  BY DEF Risk, Risky
<1>8. /\ Backlog(f) \in Nat /\ Queued(f, s, q) \in {0, 1} /\ Taken(p, k, w) \in {0, 1}
      /\ Pending(p, f, s, q, k, w) \in Nat
  BY <1>1, Amounts
<1>9. Backlog(g) \in Nat /\ Queued(g, s, q) \in {0, 1} /\ Taken(x, k, w) \in {0, 1}
  BY <1>5, Amounts
<1>10. Taken(x, l, "idle") = 0
  BY DEF Taken
<1>11. k # x
  BY <1>1, StillOlder DEF Seen, Watching, Working, Follows, IsPodOrAbsent, Risky
<1>12. Taken(x, k, w) = 1
  BY <1>11 DEF Taken, Risk
<1>13. Pending(x, g, s, q, l, "idle") = Pending(x, g, s, q, k, w) - 1
  BY <1>9, <1>10, <1>12 DEF Pending
<1>14. 1 + Standing(x) + Pending(x, g, s, q, l, "idle") <= Standing(p) + Pending(p, f, s, q, k, w)
  <2>1. Pending(x, g, s, q, k, w) \in Nat
    BY <1>9 DEF Pending
  <2> QED
    BY <1>1, <1>4, <1>6, <1>7, <1>8, <1>13, <2>1
<1> QED
  BY <1>1, <1>3, <1>6, <1>8, <1>9, <1>10, <1>14 DEF Account, Pending

-----------------------------------------------------------------------------
(***************************************************************************)
(* The controller's steps.                                                 *)
(***************************************************************************)
ControllerInv ==
  /\ DOMAIN pods = {ThePod} /\ DOMAIN feed = {ThePod} /\ DOMAIN created = {ThePod}
  /\ DOMAIN seen = {ThePod}
  /\ pods = [n \in {ThePod} |-> pod]
  /\ Seen(pod, created[ThePod], feed[ThePod], seen[ThePod], queue, cur.pod, pc)
  /\ pc \in {"idle", "listing", "deleting"} /\ matching \in BOOLEAN
  /\ pc # "idle" => cur.name = ThePod
  /\ pc = "listing" /\ ~matching => cur.pod.node # NoNode
  /\ pc = "deleting" => Risky(cur.pod)

Total == Account(pod, created[ThePod], feed[ThePod], seen[ThePod], queue, cur.pod, pc)

LEMMA Existence ==
  ASSUME NEW x, IsPodOrAbsent(x)
  PROVE  Controller!Exists(x) <=> x # Absent
BY DEF IsPodOrAbsent, IsPod, Absent, Controller!Absent, Controller!Exists

\* What the invariant says of the pod.
LEMMA ThePodNow ==
  ASSUME ControllerInv
  PROVE  /\ IsPodOrAbsent(pod) /\ (Controller!Exists(pod) <=> pod # Absent)
         /\ pod # Absent => IsPod(pod)
         /\ created[ThePod] \in Nat /\ Total \in Int /\ Risk(pod) \in {0, 1}
<1>1. IsPodOrAbsent(pod) /\ created[ThePod] \in Nat /\ IsSeq(feed[ThePod])
  BY DEF ControllerInv, Seen, Watching
<1>2. /\ ToCreate(pod) \in {0, 1} /\ Standing(pod) \in {0, 1, 2} /\ Risk(pod) \in {0, 1}
      /\ Pending(pod, feed[ThePod], seen[ThePod], queue, cur.pod, pc) \in Nat
  BY <1>1, Amounts
<1>3. Total \in Int
  BY <1>1, <1>2 DEF Total, Account
<1> QED
  BY <1>1, <1>2, <1>3, Existence DEF IsPodOrAbsent

\* What a step leaves of the pod and the worker.
LEMMA Unmoved ==
  ASSUME ControllerInv, UNCHANGED <<pods, feed, created, seen, queue, pc, cur, matching>>
  PROVE  ControllerInv' /\ Total' = Total
BY DEF ControllerInv, Total, pod

LEMMA AtRest ==
  ASSUME Controller!Rest
  PROVE  pc' = "idle" /\ cur'.pod = Absent /\ matching' = TRUE
BY DEF Controller!Rest, Controller!Resting, Absent

\* A write of the pod, which the watch tells of.
LEMMA Written ==
  ASSUME ControllerInv, NEW x, Controller!Write(ThePod, x)
  PROVE  /\ pod' = x /\ pods' = [n \in {ThePod} |-> x] /\ DOMAIN pods' = {ThePod}
         /\ DOMAIN feed' = {ThePod} /\ feed'[ThePod] = Append(feed[ThePod], x)
BY DEF ControllerInv, Controller!Write, pod

LEMMA TerminatesStep ==
  ASSUME ControllerInv, Terminates
  PROVE  ControllerInv' /\ Total' <= Total
<1>1. /\ Controller!Exists(pod) /\ pod.deleted # "no" /\ Controller!Write(ThePod, Absent)
      /\ UNCHANGED <<created, seen, queue, pc, cur, matching>>
  BY DEF Terminates, Controller!Terminates, Controller!Touch, Controller!workVars, pod, Absent
<1>2. /\ pod' = Absent /\ pods' = [n \in {ThePod} |-> Absent] /\ DOMAIN pods' = {ThePod}
      /\ DOMAIN feed' = {ThePod} /\ feed'[ThePod] = Append(feed[ThePod], Absent)
  BY <1>1, Written
<1>3. Seen(pod, created[ThePod], feed[ThePod], seen[ThePod], queue, cur.pod, pc)
  BY DEF ControllerInv
<1>4. pod # Absent
  BY <1>1, ThePodNow
<1>5. /\ Seen(Absent, created[ThePod], feed'[ThePod], seen[ThePod], queue, cur.pod, pc)
      /\ Account(Absent, created[ThePod], feed'[ThePod], seen[ThePod], queue, cur.pod, pc) <= Total
  BY <1>1, <1>2, <1>3, <1>4, TerminateAccount DEF Total
<1>6. ControllerInv'
  BY <1>1, <1>2, <1>5 DEF ControllerInv
<1> QED
  BY <1>1, <1>2, <1>5, <1>6 DEF Total

\* Another version of the pod.
LEMMA UpdateStep ==
  ASSUME ControllerInv, pod # Absent, NEW x, IsPod(x), x.uid = pod.uid, x.version = pod.version,
         x.selects = pod.selects, x.deleted = pod.deleted, Controller!Update(ThePod, x)
  PROVE  ControllerInv' /\ Total' <= Total + Risk(pod)
<1> DEFINE y == Controller!NextVersion(x)
<1>1. /\ IsPod(y) /\ y.uid = pod.uid /\ y.version = pod.version + 1 /\ y.selects = pod.selects
      /\ y.deleted = pod.deleted
  BY Reversioned
<1>2. Controller!Write(ThePod, y) /\ UNCHANGED <<created, seen, queue, pc, cur, matching>>
  BY DEF Controller!Update, Controller!Touch, Controller!workVars
<1> HIDE DEF y
<1>3. /\ pod' = y /\ pods' = [n \in {ThePod} |-> y] /\ DOMAIN pods' = {ThePod}
      /\ DOMAIN feed' = {ThePod} /\ feed'[ThePod] = Append(feed[ThePod], y)
  BY <1>2, Written
<1>4. Seen(pod, created[ThePod], feed[ThePod], seen[ThePod], queue, cur.pod, pc)
  BY DEF ControllerInv
<1>5. /\ Seen(y, created[ThePod], feed'[ThePod], seen[ThePod], queue, cur.pod, pc)
      /\ Account(y, created[ThePod], feed'[ThePod], seen[ThePod], queue, cur.pod, pc) <= Total + Risk(pod)
  BY <1>1, <1>3, <1>4, UpdateAccount DEF Total
<1>6. ControllerInv'
  BY <1>2, <1>3, <1>5 DEF ControllerInv
<1> QED
  BY <1>2, <1>3, <1>5, <1>6 DEF Total

LEMMA StatusStep ==
  ASSUME ControllerInv, UpdateStatus
  PROVE  ControllerInv' /\ Total' <= Total + Risk(pod) /\ statuses' = statuses + Risk(pod)
<1> DEFINE x == [pod EXCEPT !.ready = FALSE]
<1>1. /\ Controller!Exists(pod) /\ Controller!Update(ThePod, x)
      /\ statuses' = statuses + (IF Questioned(pod) THEN 1 ELSE 0)
  BY DEF UpdateStatus, Controller!UpdateStatus, pod
<1>2. pod # Absent /\ IsPod(pod)
  BY <1>1, ThePodNow
<1>3. x = pod
  BY <1>2, Edited
<1> HIDE DEF x
<1>4. ControllerInv' /\ Total' <= Total + Risk(pod)
  BY <1>1, <1>2, <1>3, UpdateStep
<1>5. Questioned(pod) <=> Risky(pod)
  BY <1>1, <1>2 DEF Questioned, Risky, NoNode
<1> QED
  BY <1>1, <1>4, <1>5 DEF Risk

LEMMA ObserveStep ==
  ASSUME ControllerInv, Observe
  PROVE  ControllerInv' /\ Total' <= Total
<1> DEFINE f == feed[ThePod]
<1>1. /\ f # <<>> /\ seen' = [seen EXCEPT ![ThePod] = Head(f)]
      /\ feed' = [feed EXCEPT ![ThePod] = Tail(f)] /\ queue' = queue \cup {ThePod}
      /\ UNCHANGED <<pods, created, pc, cur, matching>>
  BY DEF Observe, Controller!Observe, Controller!workVars
<1>2. /\ pod' = pod /\ DOMAIN seen' = {ThePod} /\ seen'[ThePod] = Head(f) /\ ThePod \in queue'
      /\ DOMAIN feed' = {ThePod} /\ feed'[ThePod] = Tail(f)
  BY <1>1 DEF ControllerInv, pod
<1>3. Seen(pod, created[ThePod], f, seen[ThePod], queue, cur.pod, pc)
  BY DEF ControllerInv
<1>4. /\ Seen(pod, created[ThePod], Tail(f), Head(f), queue', cur.pod, pc)
      /\ Account(pod, created[ThePod], Tail(f), Head(f), queue', cur.pod, pc) <= Total
  BY <1>1, <1>2, <1>3, ObserveAccount DEF Total
<1>5. ControllerInv'
  BY <1>1, <1>2, <1>4 DEF ControllerInv
<1> QED
  BY <1>1, <1>2, <1>4, <1>5 DEF Total

LEMMA TakeStep ==
  ASSUME ControllerInv, Take
  PROVE  ControllerInv' /\ Total' <= Total
<1>1. /\ pc = "idle" /\ ThePod \in queue /\ queue' = queue \ {ThePod}
      /\ UNCHANGED <<pods, feed, created, seen>>
      /\ \/ UNCHANGED <<pc, cur, matching>>
         \/ /\ Controller!Exists(seen[ThePod])
            /\ pc' = "listing" /\ cur' = [name |-> ThePod, pod |-> seen[ThePod]] /\ matching' = TRUE
  BY DEF Take, Controller!Take, Controller!ReconcileGone, Controller!ReconcileProcessed,
         Controller!ReconcileStarts, Controller!clusterVars, Controller!workVars
<1>2. pod' = pod /\ ThePod \notin queue'
  BY <1>1 DEF pod
<1>3. Seen(pod, created[ThePod], feed[ThePod], seen[ThePod], queue, cur.pod, "idle")
  BY <1>1 DEF ControllerInv
<1>4. CASE UNCHANGED <<pc, cur, matching>>
  <2>1. /\ Seen(pod, created[ThePod], feed[ThePod], seen[ThePod], queue', cur.pod, "idle")
        /\ Account(pod, created[ThePod], feed[ThePod], seen[ThePod], queue', cur.pod, "idle") <= Total
    BY <1>1, <1>2, <1>3, TakeAccount DEF Total
  <2>2. ControllerInv'
    BY <1>1, <1>2, <1>4, <2>1 DEF ControllerInv
  <2> QED
    BY <1>1, <1>2, <1>4, <2>1, <2>2 DEF Total
<1>5. CASE /\ Controller!Exists(seen[ThePod])
           /\ pc' = "listing" /\ cur' = [name |-> ThePod, pod |-> seen[ThePod]] /\ matching' = TRUE
  <2>1. seen[ThePod] # Absent
    BY <1>3, <1>5, Existence DEF Seen, Watching, Older
  <2>2. /\ Seen(pod, created[ThePod], feed[ThePod], seen[ThePod], queue', seen[ThePod], "listing")
        /\ Account(pod, created[ThePod], feed[ThePod], seen[ThePod], queue', seen[ThePod], "listing") <= Total
    BY <1>1, <1>2, <1>3, <2>1, TakeAccount DEF Total
  <2>3. cur'.pod = seen[ThePod] /\ cur'.name = ThePod
    BY <1>5
  <2>4. ControllerInv'
    BY <1>1, <1>2, <1>5, <2>2, <2>3 DEF ControllerInv
  <2> QED
    BY <1>1, <1>2, <1>5, <2>2, <2>3, <2>4 DEF Total
<1> QED
  BY <1>1, <1>4, <1>5

\* The worker has done with the pod it took up.
LEMMA RestStep ==
  ASSUME ControllerInv, pc # "idle", Controller!Rest, UNCHANGED <<pods, feed, created, seen>>,
         queue' = queue \/ ThePod \in queue'
  PROVE  ControllerInv' /\ Total' <= Total
<1>1. pod' = pod
  BY DEF pod
<1>2. Seen(pod, created[ThePod], feed[ThePod], seen[ThePod], queue, cur.pod, pc)
  BY DEF ControllerInv
<1>3. /\ Seen(pod, created[ThePod], feed[ThePod], seen[ThePod], queue', Absent, "idle")
      /\ Account(pod, created[ThePod], feed[ThePod], seen[ThePod], queue', Absent, "idle") <= Total
  BY <1>2, RestAccount DEF Total
<1>4. ControllerInv'
  BY <1>1, <1>3, AtRest DEF ControllerInv
<1> QED
  BY <1>1, <1>3, <1>4, AtRest DEF Total

LEMMA ListStep ==
  ASSUME ControllerInv, List
  PROVE  ControllerInv' /\ Total' <= Total
<1>0. Total \in Int
  BY ThePodNow
<1>1. CASE Controller!ImageListFails
  <2>1. /\ pc = "listing" /\ Controller!Rest /\ queue' = queue \cup {cur.name}
        /\ UNCHANGED <<pods, feed, created, seen>>
    BY <1>1 DEF Controller!ImageListFails, Controller!clusterVars
  <2>2. ThePod \in queue'
    BY <2>1 DEF ControllerInv
  <2> QED
    BY <2>1, <2>2, RestStep
<1>2. CASE Controller!ImageListed
  <2> DEFINE match == matching /\ (cur.pod.node # NoNode =>
                        Controller!Matches(holds[cur.pod.images[todo]], cur.pod.node))
  <2>1. /\ pc = "listing" /\ UNCHANGED <<pods, feed, created, seen, queue>>
        /\ \/ matching' = match /\ UNCHANGED <<pc, cur>>
           \/ Controller!Rest
           \/ ~match /\ ~cur.pod.selects /\ pc' = "deleting" /\ UNCHANGED <<cur, matching>>
    BY <1>2 DEF Controller!ImageListed, Controller!clusterVars, Controller!NoNode, NoNode, Hook!NoNode
  <2>2. ~match => cur.pod.node # NoNode
    BY <2>1 DEF ControllerInv
  <2>3. match \in BOOLEAN
    OBVIOUS
  <2> HIDE DEF match
  <2>4. CASE matching' = match /\ UNCHANGED <<pc, cur>>
    <3>1. ControllerInv'
      BY <2>1, <2>2, <2>3, <2>4 DEF ControllerInv, pod
    <3> QED
      BY <1>0, <2>1, <2>4, <3>1 DEF Total, pod
  <2>5. CASE Controller!Rest
    BY <2>1, <2>5, RestStep
  <2>6. CASE ~match /\ ~cur.pod.selects /\ pc' = "deleting" /\ UNCHANGED <<cur, matching>>
    <3>1. /\ Seen(pod, created[ThePod], feed[ThePod], seen[ThePod], queue, cur.pod, "deleting")
          /\ IsPod(cur.pod)
      BY <2>1 DEF ControllerInv, Seen, Working
    <3>2. Risky(cur.pod)
      BY <2>2, <2>6, <3>1 DEF Risky, IsPod, Absent, Controller!Absent
    <3>3. ControllerInv'
      BY <2>1, <2>6, <3>1, <3>2 DEF ControllerInv, pod
    <3>4. Total' = Total
      BY <2>1, <2>6 DEF Total, Account, Pending, Taken, pod
    <3> QED
      BY <1>0, <3>3, <3>4
  <2> QED
    BY <2>1, <2>4, <2>5, <2>6
<1> QED
  BY <1>1, <1>2 DEF List

LEMMA DeleteStep ==
  ASSUME ControllerInv, DeletePod
  PROVE  ControllerInv' /\ Total' <= Total
<1> DEFINE x == Controller!NextVersion([pod EXCEPT !.deleted = "noe"])
<1>1. /\ pc = "deleting" /\ Controller!Rest /\ UNCHANGED <<created, seen, queue>>
      /\ cur.name = ThePod /\ Risky(cur.pod)
      /\ Seen(pod, created[ThePod], feed[ThePod], seen[ThePod], queue, cur.pod, pc)
  BY DEF DeletePod, Controller!DeletePod, ControllerInv
<1>2. \/ Controller!Stands(ThePod) /\ Controller!Write(ThePod, x)
      \/ UNCHANGED <<pods, feed>>
  BY <1>1 DEF DeletePod, Controller!DeletePod, pod
<1>3. CASE UNCHANGED <<pods, feed>>
  BY <1>1, <1>3, RestStep
<1>4. CASE Controller!Stands(ThePod) /\ Controller!Write(ThePod, x)
  <2> DEFINE d == [pod EXCEPT !.deleted = "noe"]
  <2>1. pod # Absent /\ IsPod(pod) /\ pod.deleted = "no"
    BY <1>4, ThePodNow DEF Controller!Stands, pod
  <2>2. IsPod(d) /\ d.uid = pod.uid /\ d.version = pod.version /\ d.selects = pod.selects /\ d.deleted = "noe"
    BY <2>1, Edited
  <2> HIDE DEF d
  <2>3. /\ IsPod(x) /\ x.uid = pod.uid /\ x.version = pod.version + 1 /\ x.selects = pod.selects
        /\ x.deleted = "noe"
    BY <2>2, Reversioned DEF d
  <2> HIDE DEF x
  <2>4. /\ pod' = x /\ pods' = [n \in {ThePod} |-> x] /\ DOMAIN pods' = {ThePod}
        /\ DOMAIN feed' = {ThePod} /\ feed'[ThePod] = Append(feed[ThePod], x)
    BY <1>4, Written
  <2>5. x.deleted # "no"
    BY <2>3
  <2>6. /\ Seen(x, created[ThePod], feed'[ThePod], seen[ThePod], queue, Absent, "idle")
        /\ Account(x, created[ThePod], feed'[ThePod], seen[ThePod], queue, Absent, "idle") <= Total
    BY <1>1, <2>1, <2>3, <2>4, <2>5, DeleteAccount DEF Total
  <2>7. ControllerInv'
    BY <1>1, <2>4, <2>6, AtRest DEF ControllerInv
  <2> QED
    BY <1>1, <2>4, <2>6, <2>7, AtRest DEF Total
<1> QED
  BY <1>2, <1>3, <1>4

LEMMA RestartStep ==
  ASSUME ControllerInv, Restart
  PROVE  ControllerInv' /\ Total' <= Total
<1>1. /\ seen' = pods /\ feed' = [n \in {ThePod} |-> <<>>] /\ Controller!Rest
      /\ UNCHANGED <<pods, created>>
  BY DEF Restart, Controller!Restart
<1>2. /\ pod' = pod /\ seen'[ThePod] = pod /\ DOMAIN seen' = {ThePod}
      /\ feed'[ThePod] = <<>> /\ DOMAIN feed' = {ThePod}
  BY <1>1 DEF ControllerInv, pod
<1>3. Seen(pod, created[ThePod], feed[ThePod], seen[ThePod], queue, cur.pod, pc)
  BY DEF ControllerInv
<1>4. /\ Seen(pod, created[ThePod], <<>>, pod, queue', Absent, "idle")
      /\ Account(pod, created[ThePod], <<>>, pod, queue', Absent, "idle") <= Total
  BY <1>3, RestartAccount DEF Total
<1>5. ControllerInv'
  BY <1>1, <1>2, <1>4, AtRest DEF ControllerInv
<1> QED
  BY <1>1, <1>2, <1>4, <1>5, AtRest DEF Total

-----------------------------------------------------------------------------
(***************************************************************************)
(* What is stored is what the webhook answered, or what was submitted.     *)
(***************************************************************************)
LEMMA StoreStep ==
  ASSUME ControllerInv, NEW selects \in BOOLEAN, NEW images,
         Controller!CreatePod(ThePod, [stateful |-> TRUE, selects |-> selects, images |-> images])
  PROVE  ControllerInv' /\ Total' <= Total + (IF selects THEN 0 ELSE 2)
<1> DEFINE new(u) == [uid |-> u, version |-> 1, stateful |-> TRUE, selects |-> selects,
                      images |-> images, node |-> NoNode, ready |-> FALSE, deleted |-> "no"]
           x == new(created[ThePod] + 1)
<1>1. /\ ~Controller!Exists(pod)
      /\ created' = [created EXCEPT ![ThePod] = @ + 1]
      /\ Controller!Write(ThePod, new(created'[ThePod]))
      /\ UNCHANGED <<seen, queue, pc, cur, matching>>
  BY DEF Controller!CreatePod, Controller!Touch, Controller!workVars, Controller!NoNode, NoNode,
         Hook!NoNode, pod
<1>2. pod = Absent /\ created[ThePod] \in Nat
  BY <1>1, ThePodNow
<1>3. created'[ThePod] = created[ThePod] + 1 /\ DOMAIN created' = {ThePod}
  BY <1>1 DEF ControllerInv
<1>4. /\ x.uid = created[ThePod] + 1 /\ x.selects = selects /\ x.deleted = "no"
      /\ IsPod(x)
  BY <1>2 DEF IsPod
<1>5. Controller!Write(ThePod, x)
  BY <1>1, <1>3
<1> HIDE DEF x
<1>6. /\ pod' = x /\ pods' = [n \in {ThePod} |-> x] /\ DOMAIN pods' = {ThePod}
      /\ DOMAIN feed' = {ThePod} /\ feed'[ThePod] = Append(feed[ThePod], x)
  BY <1>5, Written
<1>7. Seen(Absent, created[ThePod], feed[ThePod], seen[ThePod], queue, cur.pod, pc)
  BY <1>2 DEF ControllerInv
<1>8. /\ Seen(x, created[ThePod] + 1, feed'[ThePod], seen[ThePod], queue, cur.pod, pc)
      /\ Account(x, created[ThePod] + 1, feed'[ThePod], seen[ThePod], queue, cur.pod, pc)
           <= Total + (IF selects THEN 0 ELSE 2)
  BY <1>2, <1>4, <1>6, <1>7, CreateAccount DEF Total
<1>9. ControllerInv'
  BY <1>1, <1>3, <1>6, <1>8 DEF ControllerInv
<1> QED
  BY <1>1, <1>3, <1>6, <1>8, <1>9 DEF Total

LEMMA BindStep ==
  ASSUME ControllerInv, NEW n \in Node, Bind(n)
  PROVE  ControllerInv' /\ Total' <= Total
<1> DEFINE x == [pod EXCEPT !.node = n[Hook!NameField]]
<1>1. Controller!Exists(pod) /\ pod.node = NoNode /\ Controller!Update(ThePod, x)
  BY DEF Bind, Controller!Schedule, Controller!Stands, Controller!NoNode, NoNode, Hook!NoNode, pod
<1>2. pod # Absent /\ IsPod(pod)
  BY <1>1, ThePodNow
<1>3. /\ IsPod(x) /\ x.uid = pod.uid /\ x.version = pod.version /\ x.selects = pod.selects
      /\ x.deleted = pod.deleted
  BY <1>2, Edited
<1> HIDE DEF x
<1>4. ControllerInv' /\ Total' <= Total + Risk(pod)
  BY <1>1, <1>2, <1>3, UpdateStep
<1>5. Risk(pod) = 0 /\ Total \in Int
  BY <1>1, ThePodNow DEF Risk, Risky
<1> QED
  BY <1>4, <1>5

-----------------------------------------------------------------------------
(***************************************************************************)
(* Together.  A lookup of the webhook that failed pays for what its answer *)
(* may cost.                                                               *)
(***************************************************************************)
Missed == IF api = "waiting" /\ \E c \in Container : call[c] = "failed" THEN 2 ELSE 0

\* What the webhook promises of its answers.
Selects == Hook!PodSpecHasNodeArchitectureSelection(resp.spec)

AnswerSelects ==
  handler = "answered" /\ resp.verdict = "allowed" /\ req = Submission
  => Selects \/ \E c \in Container : call[c] = "failed"

Inv ==
  /\ ControllerInv
  /\ req = Submission /\ DOMAIN call = Container /\ misses \in Nat /\ statuses \in Nat
  /\ Total + Missed <= 1 + 2 * misses + statuses

\* Before and after a step these are amounts.
LEMMA Balance ==
  ASSUME ControllerInv, ControllerInv'
  PROVE  /\ Total \in Int /\ Total' \in Int
         /\ Missed \in {0, 2} /\ Missed' \in {0, 2}
<1>1. Total \in Int
  BY ThePodNow
<1>2. Total' \in Int
  <2>1. created'[ThePod] \in Nat /\ IsSeq(feed'[ThePod])
    BY DEF ControllerInv, Seen, Watching
  <2>2. /\ ToCreate(pod') \in {0, 1} /\ Standing(pod') \in {0, 1, 2}
        /\ Pending(pod', feed'[ThePod], seen'[ThePod], queue', cur'.pod, pc') \in Nat
    BY <2>1, Amounts
  <2> QED
    BY <2>1, <2>2 DEF Total, Account
<1> QED
  BY <1>1, <1>2 DEF Missed

LEMMA InitInv == Init => Inv
<1> SUFFICES ASSUME Init PROVE Inv
  OBVIOUS
<1>1. /\ pods = [n \in {ThePod} |-> Absent] /\ created = [n \in {ThePod} |-> 0] /\ seen = pods
      /\ feed = [n \in {ThePod} |-> <<>>]
      /\ queue = {} /\ pc = "idle" /\ matching = TRUE /\ api = "none" /\ misses = 0 /\ statuses = 0
  BY DEF Init, Controller!Init, Hook!Init, Absent
<1>2. req = Submission /\ DOMAIN call = Container
  BY DEF Init, Hook!Init, Hook!NoCalls
<1>3. Seen(Absent, 0, <<>>, Absent, {}, cur.pod, "idle")
  BY DEF Seen, Watching, Working, Older, IsSeq, IsPodOrAbsent, Absent, Controller!Absent
<1>4. ControllerInv
  BY <1>1, <1>3 DEF ControllerInv, pod
<1>5. Total = 1 /\ Missed = 0
  BY <1>1, NothingPending DEF Total, Account, ToCreate, Standing, Missed, pod
<1> QED
  BY <1>1, <1>2, <1>4, <1>5 DEF Inv

LEMMA SubmitStep == Inv /\ Submit => Inv'
<1> SUFFICES ASSUME Inv, Submit PROVE Inv'
  OBVIOUS
<1>1. Hook!Create(Submission) /\ UNCHANGED <<controllerVars, misses, statuses>>
  BY DEF Submit, histories
<1>2. ControllerInv' /\ Total' = Total
  BY <1>1, Unmoved DEF Inv, controllerVars
<1>3. /\ req' = Submission /\ api # "waiting"
      /\ DOMAIN call' = Container /\ \A c \in Container : call'[c] # "failed"
  <2>1. api # "waiting" /\ Hook!Handle(Submission)
    BY <1>1 DEF Hook!Create
  <2>2. req' = Submission
    BY <2>1 DEF Hook!Handle
  <2>3. \/ Hook!Skip(Submission) \/ Hook!DecodeFails(Submission)
        \/ Hook!AlreadyPlaced(Submission) \/ Hook!StartLookups(Submission)
    BY <2>1 DEF Hook!Handle
  <2>4. \/ call' = Hook!NoCalls
        \/ call' = [c \in Container |-> IF c \in Hook!Used(Submission.spec) THEN "calling" ELSE "none"]
    BY <2>3 DEF Hook!Skip, Hook!DecodeFails, Hook!AlreadyPlaced, Hook!StartLookups
  <2>5. DOMAIN call' = Container /\ \A c \in Container : call'[c] # "failed"
    BY <2>4 DEF Hook!NoCalls
  <2> QED
    BY <2>1, <2>2, <2>5
<1>4. Missed = 0 /\ Missed' = 0
  BY <1>3 DEF Missed
<1> QED
  BY <1>1, <1>2, <1>3, <1>4 DEF Inv

LEMMA InspectStep == Inv /\ Inspect => Inv'
<1> SUFFICES ASSUME Inv, Inspect PROVE Inv'
  OBVIOUS
<1>1. UNCHANGED <<controllerVars, misses, statuses, req, api>>
  BY DEF Inspect, histories, Hook!Decide, Hook!LookupSucceeds, Hook!Collect, Hook!apiVars
<1>2. ControllerInv' /\ Total' = Total
  BY <1>1, Unmoved DEF Inv, controllerVars
<1>3. /\ DOMAIN call' = Container
      /\ \A c \in Container : call'[c] = "failed" => call[c] = "failed"
  BY DEF Inv, Inspect, Hook!Decide, Hook!LookupSucceeds, Hook!Collect
<1>4. Missed' <= Missed
  BY <1>1, <1>3 DEF Missed
<1> QED
  BY <1>1, <1>2, <1>3, <1>4, Balance DEF Inv

LEMMA ReplyStep == Inv /\ AnswerSelects /\ Reply => Inv'
<1> SUFFICES ASSUME Inv, AnswerSelects, Reply PROVE Inv'
  OBVIOUS
<1>1. UNCHANGED <<misses, statuses, req, call>> /\ handler = "answered"
  BY DEF Reply, histories, Hook!Reply
<1>2. CASE api = "waiting" /\ api' = "stored"
  <2>1. resp.verdict = "allowed" /\ stored' = resp.spec /\ Store(stored')
    BY <1>2 DEF Reply, Hook!Reply
  <2> DEFINE images == ImagesOf(resp.spec)
  <2>2. Controller!CreatePod(ThePod, [stateful |-> TRUE, selects |-> Selects, images |-> images])
    BY <2>1 DEF Store, Selects
  <2>3. Selects \in BOOLEAN
    BY DEF Selects, Hook!PodSpecHasNodeArchitectureSelection
  <2> HIDE DEF images
  <2>4. ControllerInv' /\ Total' <= Total + (IF Selects THEN 0 ELSE 2)
    BY <2>2, <2>3, StoreStep DEF Inv
  <2>5. Missed' = 0 /\ (~Selects => Missed = 2)
    BY <1>1, <1>2, <2>1 DEF Missed, Inv, AnswerSelects
  <2> QED
    BY <1>1, <2>4, <2>5, Balance DEF Inv
<1>3. CASE ~(api = "waiting" /\ api' = "stored")
  <2>1. UNCHANGED controllerVars
    BY <1>3 DEF Reply
  <2>2. ControllerInv' /\ Total' = Total
    BY <2>1, Unmoved DEF Inv, controllerVars
  <2>3. api' # "waiting" \/ api' = api
    BY DEF Reply, Hook!Reply, Hook!apiVars
  <2>4. Missed' <= Missed
    BY <1>1, <2>3 DEF Missed
  <2> QED
    BY <1>1, <2>2, <2>4, Balance DEF Inv
<1> QED
  BY <1>2, <1>3

LEMMA GiveUpStep == Inv /\ GiveUp => Inv'
<1> SUFFICES ASSUME Inv, GiveUp PROVE Inv'
  OBVIOUS
<1>1. /\ misses' = misses + 1 /\ UNCHANGED <<statuses, req, call>>
      /\ api' = "stored" /\ stored' = req.spec /\ Store(stored')
  BY DEF GiveUp, Miss, Hook!GiveUp, Hook!handlerVars
<1> DEFINE images == ImagesOf(req.spec)
           selects == Hook!PodSpecHasNodeArchitectureSelection(req.spec)
<1>2. Controller!CreatePod(ThePod, [stateful |-> TRUE, selects |-> selects, images |-> images])
  BY <1>1 DEF Store
<1>3. selects \in BOOLEAN
  BY DEF Hook!PodSpecHasNodeArchitectureSelection
<1> HIDE DEF images, selects
<1>4. ControllerInv' /\ Total' <= Total + (IF selects THEN 0 ELSE 2)
  BY <1>2, <1>3, StoreStep DEF Inv
<1>5. Missed' = 0
  BY <1>1 DEF Missed
<1> QED
  BY <1>1, <1>4, <1>5, Balance DEF Inv

LEMMA LookupFailsStep == ASSUME Inv, NEW c \in Container, LookupFails(c) PROVE Inv'
<1>1. misses' = misses + 1 /\ UNCHANGED <<controllerVars, statuses, req>> /\ DOMAIN call' = DOMAIN call
  BY DEF LookupFails, Miss, Hook!LookupFails
<1>2. ControllerInv' /\ Total' = Total
  BY <1>1, Unmoved DEF Inv, controllerVars
<1> QED
  BY <1>1, <1>2, Balance DEF Inv

\* The steps of the cluster and of the controller.
LEMMA ControllerStep ==
  ASSUME Inv, (\E n \in Node : Bind(n)) \/ Terminates \/ Observe \/ Take \/ List \/ DeletePod \/ Restart
  PROVE  Inv'
<1>1. ControllerInv' /\ Total' <= Total
  BY BindStep, TerminatesStep, ObserveStep, TakeStep, ListStep, DeleteStep, RestartStep DEF Inv
<1>2. UNCHANGED <<misses, statuses, req, api, call>>
  BY DEF Bind, Hook!Bind, Hook!handlerVars, Terminates, Observe, Take, List, DeletePod, Restart,
         hookVars, histories
<1>3. Missed' = Missed
  BY <1>2 DEF Missed
<1> QED
  BY <1>1, <1>2, <1>3, Balance DEF Inv

LEMMA StatusInv == Inv /\ UpdateStatus => Inv'
<1> SUFFICES ASSUME Inv, UpdateStatus PROVE Inv'
  OBVIOUS
<1>1. /\ ControllerInv' /\ Total' <= Total + Risk(pod) /\ statuses' = statuses + Risk(pod)
      /\ Risk(pod) \in {0, 1}
  BY StatusStep, ThePodNow DEF Inv
<1>2. UNCHANGED <<misses, req, api, call>>
  BY DEF UpdateStatus, hookVars
<1>3. Missed' = Missed
  BY <1>2 DEF Missed
<1> QED
  BY <1>1, <1>2, <1>3, Balance DEF Inv

LEMMA NextInv == Inv /\ AnswerSelects /\ [Next]_vars => Inv'
<1> SUFFICES ASSUME Inv, AnswerSelects, [Next]_vars PROVE Inv'
  OBVIOUS
<1>1. CASE UNCHANGED vars
  <2>1. UNCHANGED <<controllerVars, misses, statuses, req, api, call>>
    BY <1>1 DEF vars, hookVars, histories
  <2>2. ControllerInv' /\ Total' = Total /\ Missed' = Missed
    BY <2>1, Unmoved DEF Inv, controllerVars, Missed
  <2> QED
    BY <2>1, <2>2 DEF Inv
<1> QED
  BY <1>1, SubmitStep, InspectStep, ReplyStep, GiveUpStep, LookupFailsStep, StatusInv, ControllerStep
     DEF Next

-----------------------------------------------------------------------------
(***************************************************************************)
(* Next to the controller the webhook is what it is alone, so that what is *)
(* proved of it holds here.  An instance of its proofs has definitions of  *)
(* its own, which are those of Hook.                                       *)
(***************************************************************************)
HookProofs == INSTANCE AdmissionHookProofs WITH
  supports <- holds, pc <- handler, Requests <- {Submission}, MaxUpdates <- 0

THEOREM WebhookAsAlone == Spec => Hook!Spec
<1>1. Init => Hook!Init
  BY DEF Init
<1>2. Next => Hook!Next \/ UNCHANGED Hook!vars
  <2>1. Submit \/ Inspect \/ Reply \/ GiveUp => Hook!Next
    BY DEF Submit, Inspect, Reply, GiveUp, Hook!Next
  <2>2. ASSUME NEW c \in Container, LookupFails(c) PROVE Hook!Next
    BY <2>2 DEF LookupFails, Hook!Next
  <2>3. ASSUME NEW n \in Node, Bind(n) PROVE Hook!Next
    BY <2>3 DEF Bind, Hook!Next
  <2>4. UpdateStatus \/ Terminates \/ Observe \/ Take \/ List \/ DeletePod \/ Restart 
        => UNCHANGED <<holds, hookVars>>
    BY DEF UpdateStatus, Controller!UpdateStatus, Controller!Update, Controller!Touch, Terminates, Observe, Take, List, DeletePod, Restart, Controller!Terminates,
           Controller!Observe, Controller!Take, Controller!ReconcileGone, Controller!ReconcileProcessed,
           Controller!ReconcileStarts, Controller!ImageListed, Controller!ImageListFails,
           Controller!DeletePod, Controller!Restart, Controller!clusterVars
  <2>5. UNCHANGED <<holds, hookVars>> => UNCHANGED Hook!vars
    BY DEF hookVars, Hook!vars, Hook!handlerVars, Hook!apiVars
  <2> QED
    BY <2>1, <2>2, <2>3, <2>4, <2>5 DEF Next
<1>3. UNCHANGED vars => UNCHANGED Hook!vars
  BY DEF vars, hookVars, Hook!vars, Hook!handlerVars, Hook!apiVars
<1> QED
  BY <1>1, <1>2, <1>3, PTL DEF Spec, Hook!Spec

LEMMA SameAssumptions ==
  /\ HookProofs!KeysAssumption
  /\ HookProofs!NoSelectorAssumption
  /\ HookProofs!MatchNodeLabelsAssumption
  /\ HookProofs!NodesAssumption
  /\ HookProofs!SystemOSAssumption
  /\ HookProofs!RequestsAssumption
  /\ HookProofs!PlatformsAssumption
  /\ HookProofs!MaxUpdatesAssumption
<1>1. HookProofs!KeysAssumption
  BY HookAssumption DEF Hook!KeysAssumption, HookProofs!KeysAssumption,
                        Hook!ArchKey, HookProofs!ArchKey, Hook!BetaArchKey, HookProofs!BetaArchKey,
                        Hook!OSKey, HookProofs!OSKey, Hook!NameField, HookProofs!NameField
<1>2. HookProofs!NoSelectorAssumption
  BY HookAssumption DEF Hook!NoSelectorAssumption, HookProofs!NoSelectorAssumption
<1>3. HookProofs!MatchNodeLabelsAssumption
  BY HookAssumption DEF Hook!MatchNodeLabelsAssumption, HookProofs!MatchNodeLabelsAssumption
<1>4. HookProofs!NodesAssumption
  BY HookAssumption DEF Hook!NodesAssumption, HookProofs!NodesAssumption,
                        Hook!ArchKey, HookProofs!ArchKey, Hook!OSKey, HookProofs!OSKey,
                        Hook!NameField, HookProofs!NameField, Hook!NoNode, HookProofs!NoNode,
                        Hook!IsLabels, HookProofs!IsLabels
<1>5. HookProofs!SystemOSAssumption
  BY HookAssumption DEF Hook!SystemOSAssumption, HookProofs!SystemOSAssumption,
                        Hook!OSKey, HookProofs!OSKey
<1>6. HookProofs!RequestsAssumption
  BY HookAssumption DEF Hook!RequestsAssumption, HookProofs!RequestsAssumption,
                        Hook!IsRequest, HookProofs!IsRequest, Hook!IsLabels, HookProofs!IsLabels,
                        Hook!IsPodSpec, HookProofs!IsPodSpec, Hook!IsSequence, HookProofs!IsSequence
<1>7. HookProofs!PlatformsAssumption
  BY HookAssumption DEF Hook!PlatformsAssumption, HookProofs!PlatformsAssumption
<1> QED
  BY <1>1, <1>2, <1>3, <1>4, <1>5, <1>6, <1>7 DEF HookProofs!MaxUpdatesAssumption

LEMMA SameHook == Spec => HookProofs!Spec
<1>1. Hook!Init => HookProofs!Init
  BY DEF Hook!Init, HookProofs!Init, Hook!NoCalls, HookProofs!NoCalls,
         Hook!NoImage, HookProofs!NoImage, Hook!NoNode, HookProofs!NoNode
<1>2. Hook!Next => HookProofs!Next
  <2> SUFFICES ASSUME Hook!Next PROVE HookProofs!Next
    OBVIOUS
  <2> QED
    BY DEF Hook!ArchKey, HookProofs!ArchKey, Hook!BetaArchKey, HookProofs!BetaArchKey,
           Hook!OSKey, HookProofs!OSKey, Hook!NameField, HookProofs!NameField,
           Hook!NoImage, HookProofs!NoImage, Hook!NoNode, HookProofs!NoNode,
           Hook!NoArch, HookProofs!NoArch, Hook!AnyOS, HookProofs!AnyOS,
           Hook!PreferredLabel, HookProofs!PreferredLabel,
           Hook!Requirement, HookProofs!Requirement, Hook!Used, HookProofs!Used,
           Hook!SelectorKeys, HookProofs!SelectorKeys, Hook!TermKeys, HookProofs!TermKeys,
           Hook!PodSpecHasNodeArchitectureSelection, HookProofs!PodSpecHasNodeArchitectureSelection,
           Hook!WithTerm, HookProofs!WithTerm, Hook!WithSelector, HookProofs!WithSelector,
           Hook!MatchedKeys, HookProofs!MatchedKeys,
           Hook!LabelledKeys, HookProofs!LabelledKeys,
           Hook!MatchingTerms, HookProofs!MatchingTerms,
           Hook!AddPodNodeMatchingLabels, HookProofs!AddPodNodeMatchingLabels,
           Hook!Satisfies, HookProofs!Satisfies, Hook!NodeAdmits, HookProofs!NodeAdmits,
           Hook!Placement, HookProofs!Placement, Hook!handlerVars, HookProofs!handlerVars,
           Hook!apiVars, HookProofs!apiVars,
           Hook!IsArchSupported, HookProofs!IsArchSupported,
           Hook!ImageArchitectures, HookProofs!ImageArchitectures,
           Hook!Preference, HookProofs!Preference, Hook!Respond, HookProofs!Respond,
           Hook!PatchResponse, HookProofs!PatchResponse, Hook!Refuse, HookProofs!Refuse,
           Hook!NoCalls, HookProofs!NoCalls, Hook!Ignored, HookProofs!Ignored,
           Hook!Skip, HookProofs!Skip, Hook!DecodeFails, HookProofs!DecodeFails,
           Hook!AlreadyPlaced, HookProofs!AlreadyPlaced,
           Hook!StartLookups, HookProofs!StartLookups, Hook!Handle, HookProofs!Handle,
           Hook!Create, HookProofs!Create, Hook!Update, HookProofs!Update,
           Hook!LookupSucceeds, HookProofs!LookupSucceeds,
           Hook!LookupFails, HookProofs!LookupFails, Hook!Collect, HookProofs!Collect,
           Hook!AllDone, HookProofs!AllDone, Hook!Inject, HookProofs!Inject,
           Hook!Decide, HookProofs!Decide, Hook!Reply, HookProofs!Reply,
           Hook!GiveUp, HookProofs!GiveUp, Hook!Bind, HookProofs!Bind,
           Hook!Next, HookProofs!Next
<1>3. UNCHANGED Hook!vars => UNCHANGED HookProofs!vars
  BY DEF Hook!vars, HookProofs!vars, Hook!handlerVars, HookProofs!handlerVars,
         Hook!apiVars, HookProofs!apiVars
<1> QED
  BY <1>1, <1>2, <1>3, WebhookAsAlone, PTL DEF Hook!Spec, HookProofs!Spec

\* README.md:5, hook.go:385: next to the controller, and however often the pod is created
\* again, the webhook denies it only if no node runs it, it is bound where the images
\* that were inspected run, unless it has other terms or labels to match, and of the
\* nodes that suit it those of another than the preferred architecture are taken away.
THEOREM AdmittedAsAlone ==
  Spec => [](/\ Hook!RunnablePodIsAdmitted
            /\ Hook!ScheduledWhereInspectedImagesRun
            /\ Hook!OnlyPreferenceTakesNodes)
<1>1. HookProofs!Spec => []HookProofs!RunnablePodIsAdmitted
  BY SameAssumptions, HookProofs!DeniedOnlyIfNotRunnable
<1>2. HookProofs!Spec => []HookProofs!ScheduledWhereInspectedImagesRun
  BY SameAssumptions, HookProofs!AdmittedPodsRun
<1>3. HookProofs!Spec => []HookProofs!OnlyPreferenceTakesNodes
  BY SameAssumptions, HookProofs!StrandedOnlyByPreference
<1>4. HookProofs!RunnablePodIsAdmitted => Hook!RunnablePodIsAdmitted
  BY DEF Hook!RunnablePodIsAdmitted, HookProofs!RunnablePodIsAdmitted,
         Hook!IsArchSupported, HookProofs!IsArchSupported, Hook!Used, HookProofs!Used,
         Hook!NoImage, HookProofs!NoImage, Hook!Executes, HookProofs!Executes,
         Hook!ArchKey, HookProofs!ArchKey, Hook!OSKey, HookProofs!OSKey,
         Hook!AnyOS, HookProofs!AnyOS
<1>5. HookProofs!ScheduledWhereInspectedImagesRun => Hook!ScheduledWhereInspectedImagesRun
  BY DEF Hook!ScheduledWhereInspectedImagesRun, HookProofs!ScheduledWhereInspectedImagesRun,
         Hook!OnlyArchTerm, HookProofs!OnlyArchTerm, Hook!Received, HookProofs!Received,
         Hook!MatchedKeys, HookProofs!MatchedKeys, Hook!Executes, HookProofs!Executes,
         Hook!ArchKey, HookProofs!ArchKey, Hook!OSKey, HookProofs!OSKey,
         Hook!NameField, HookProofs!NameField, Hook!AnyOS, HookProofs!AnyOS
<1>6. HookProofs!OnlyPreferenceTakesNodes => Hook!OnlyPreferenceTakesNodes
  BY DEF Hook!OnlyPreferenceTakesNodes, HookProofs!OnlyPreferenceTakesNodes,
         Hook!Suitable, HookProofs!Suitable,
         Hook!Preference, HookProofs!Preference,
         Hook!PreferredLabel, HookProofs!PreferredLabel, Hook!NoArch, HookProofs!NoArch,
         Hook!IsArchSupported, HookProofs!IsArchSupported,
         Hook!Placement, HookProofs!Placement, Hook!NodeAdmits, HookProofs!NodeAdmits,
         Hook!Satisfies, HookProofs!Satisfies, Hook!SelectorKeys, HookProofs!SelectorKeys,
         Hook!Requirement, HookProofs!Requirement, Hook!NoNode, HookProofs!NoNode,
         Hook!Used, HookProofs!Used, Hook!NoImage, HookProofs!NoImage,
         Hook!Executes, HookProofs!Executes, Hook!CommonTo, HookProofs!CommonTo,
         Hook!Supported, HookProofs!Supported,
         Hook!ImageArchitectures, HookProofs!ImageArchitectures,
         Hook!Received, HookProofs!Received, Hook!MatchedKeys, HookProofs!MatchedKeys,
         Hook!ArchKey, HookProofs!ArchKey, Hook!OSKey, HookProofs!OSKey,
         Hook!NameField, HookProofs!NameField, Hook!AnyOS, HookProofs!AnyOS
<1> QED
  BY <1>1, <1>2, <1>3, <1>4, <1>5, <1>6, SameHook, PTL

LEMMA AnswersSelect == Spec => []AnswerSelects
<1>1. HookProofs!Spec => []HookProofs!SelectsUnlessAllFail
  BY SameAssumptions, HookProofs!AdmittedPodsSelect
<1>2. HookProofs!SelectsUnlessAllFail => AnswerSelects
  <2> SUFFICES ASSUME HookProofs!SelectsUnlessAllFail, handler = "answered",
                      resp.verdict = "allowed", req = Submission
               PROVE  Selects \/ \E c \in Container : call[c] = "failed"
    BY DEF AnswerSelects
  <2>1. \E c \in Container : c \in HookProofs!Used(Submission.spec)
    BY SubmissionAssumption DEF Hook!Used, HookProofs!Used, Hook!NoImage, HookProofs!NoImage
  <2>2. ~HookProofs!Ignored(req) /\ req.spec.nodeName = HookProofs!NoNode
    BY SubmissionAssumption DEF HookProofs!Ignored, Hook!NoNode, HookProofs!NoNode
  <2>3. \/ HookProofs!PodSpecHasNodeArchitectureSelection(resp.spec)
        \/ \A c \in HookProofs!Used(req.spec) : call[c] = "failed"
    BY <2>2 DEF HookProofs!SelectsUnlessAllFail
  <2>4. HookProofs!PodSpecHasNodeArchitectureSelection(resp.spec) => Selects
    BY DEF Selects, Hook!PodSpecHasNodeArchitectureSelection, HookProofs!PodSpecHasNodeArchitectureSelection,
           Hook!SelectorKeys, HookProofs!SelectorKeys, Hook!TermKeys, HookProofs!TermKeys,
           Hook!ArchKey, HookProofs!ArchKey, Hook!BetaArchKey, HookProofs!BetaArchKey,
           Hook!NameField, HookProofs!NameField
  <2> QED
    BY <2>1, <2>3, <2>4
<1> QED
  BY <1>1, <1>2, SameHook, PTL

LEMMA Invariance == Spec => []Inv
BY InitInv, NextInv, AnswersSelect, PTL DEF Spec

\* pod.go:124, 152, 276-280, hook.go:336: without a miss of the webhook no pod is created
\* twice; a miss costs two more at most, and one for every status update of the pod
\* that was missed.  No version of a pod deletes twice, in whatever order the informer, the
\* worker, the kubelet and changes of the leader come, and however often each does.
THEOREM TheTwoDoNotFight == Spec => []RepairsAreFew
<1>1. Inv => RepairsAreFew
  <2> SUFFICES ASSUME Inv PROVE created[ThePod] <= 1 + 2 * misses + statuses
    BY DEF RepairsAreFew
  <2>1. /\ created[ThePod] \in Nat /\ misses \in Nat /\ statuses \in Nat /\ IsSeq(feed[ThePod])
        /\ Total + Missed <= 1 + 2 * misses + statuses
    BY DEF Inv, ControllerInv, Seen, Watching
  <2>2. Missed \in {0, 2}
    BY DEF Missed
  <2>3. created[ThePod] <= Total /\ Total \in Int
    BY <2>1, Amounts DEF Total, Account
  <2> QED
    BY <2>1, <2>2, <2>3
<1> QED
  BY <1>1, Invariance, PTL

-----------------------------------------------------------------------------
(***************************************************************************)
(* Next to the webhook the controller is what it is alone: the pods that   *)
(* are stored name the images that were submitted, and select an           *)
(* architecture or not.                                                    *)
(***************************************************************************)
ControllerProofs == INSTANCE PodReconcilerProofs WITH
  Name <- {ThePod},
  Templates <- {[stateful |-> TRUE, selects |-> b, images |-> ImagesOf(Submission.spec)] : b \in BOOLEAN},
  Image <- Image \ {Hook!NoImage},
  NodeLabels <- [name \in {n[Hook!NameField] : n \in Node} |->
                   [arch |-> NodeNamed(name)[Hook!ArchKey], os |-> NodeNamed(name)[Hook!OSKey]]],
  PlatformSets <- Answers,
  MaxUpdates <- 0

\* The containers can be put in an order, and each of them names an image.
LEMMA SubmittedImages ==
  /\ ImagesOf(Submission.spec) \in Seq(Image \ {Hook!NoImage})
  /\ ImagesOf(Submission.spec) # <<>>
<1> DEFINE used == Hook!Used(Submission.spec)
           n    == Cardinality(used)
<1>1. used \subseteq Container /\ used # {} /\ \A c \in used : Submission.spec.images[c] # Hook!NoImage
  BY SubmissionAssumption DEF Hook!Used
<1>2. \A c \in Container : Submission.spec.images[c] \in Image
  BY HookAssumption DEF Hook!RequestsAssumption, Hook!IsRequest, Hook!IsPodSpec
<1>3. IsFiniteSet(used)
  BY <1>1, ContainerAssumption, FS_Subset
<1> HIDE DEF used
<1>4. n \in Nat /\ n # 0 /\ ExistsBijection(1 .. n, used)
  BY <1>1, <1>3, FS_CardinalityType, FS_EmptySet
<1>5. \E f \in [1 .. n -> used] : IsInjective(f)
  BY <1>4 DEF ExistsBijection, Bijection, Injection, IsInjective
<1>6. Slots \in [1 .. n -> used]
  BY <1>5 DEF Slots, SetToSeq, used
<1>7. ImagesOf(Submission.spec) \in [1 .. n -> Image \ {Hook!NoImage}]
  BY <1>1, <1>2, <1>6 DEF ImagesOf
<1> HIDE DEF n
<1> QED
  BY <1>4, <1>7

\* The pod that is admitted runs the images that were submitted.
Kept == handler = "answered" /\ resp.verdict = "allowed" => resp.spec.images = req.spec.images

LEMMA AnswersKeepImages == Spec => []Kept
<1>1. HookProofs!Spec => []HookProofs!ImagesKept
  BY SameAssumptions, HookProofs!ImagesAreKept
<1>2. HookProofs!ImagesKept => Kept
  BY DEF HookProofs!ImagesKept, Kept
<1> QED
  BY <1>1, <1>2, SameHook, PTL

LEMMA StoredAsSubmitted ==
  ASSUME NEW spec, Store(spec), spec.images = Submission.spec.images
  PROVE  Controller!Next
<1> DEFINE selects == Hook!PodSpecHasNodeArchitectureSelection(spec)
           templates == {[stateful |-> TRUE, selects |-> b, images |-> ImagesOf(Submission.spec)] : b \in BOOLEAN}
           t == [stateful |-> TRUE, selects |-> selects, images |-> ImagesOf(Submission.spec)]
<1>1. ImagesOf(spec) = ImagesOf(Submission.spec)
  BY DEF ImagesOf
<1>2. selects \in BOOLEAN
  BY DEF Hook!PodSpecHasNodeArchitectureSelection
<1>3. Controller!CreatePod(ThePod, t)
  BY <1>1 DEF Store
<1> HIDE DEF selects
<1>4. t \in templates
  BY <1>2
<1> HIDE DEF t
<1>5. \E x \in templates : Controller!CreatePod(ThePod, x)
  BY <1>3, <1>4
<1>6. Controller!Cluster
  BY <1>5 DEF Controller!Cluster
<1> QED
  BY <1>6 DEF Controller!Next

THEOREM ControllerAsAlone == Spec => Controller!Spec
<1>1. Init => Controller!Init
  BY DEF Init
<1>2. Inv /\ Kept /\ Next => Controller!Next \/ UNCHANGED Controller!vars
  <2> SUFFICES ASSUME Inv, Kept, Next PROVE Controller!Next \/ UNCHANGED Controller!vars
    OBVIOUS
  <2>1. UNCHANGED <<holds, controllerVars>> => UNCHANGED Controller!vars
    BY DEF controllerVars, Controller!vars, Controller!clusterVars, Controller!workVars,
           Controller!cacheVars, Controller!boundVars
  <2>2. CASE Submit \/ Inspect \/ \E c \in Container : LookupFails(c)
    <3>1. UNCHANGED <<holds, controllerVars>>
      BY <2>2 DEF Submit, Inspect, LookupFails, Hook!Create, Hook!Handle, Hook!Decide,
                  Hook!LookupSucceeds, Hook!LookupFails, Hook!Collect
    <3> QED
      BY <2>1, <3>1
  <2>3. CASE Reply
    <3>1. handler = "answered" /\ req = Submission
      BY <2>3 DEF Reply, Hook!Reply, Inv
    <3>2. CASE api = "waiting" /\ api' = "stored"
      <4>1. resp.verdict = "allowed" /\ stored' = resp.spec /\ Store(stored')
        BY <2>3, <3>2 DEF Reply, Hook!Reply
      <4>2. Store(resp.spec) /\ resp.spec.images = Submission.spec.images
        BY <3>1, <4>1 DEF Kept, Store
      <4> QED
        BY <4>2, StoredAsSubmitted
    <3>3. CASE ~(api = "waiting" /\ api' = "stored")
      BY <2>1, <2>3, <3>3 DEF Reply
    <3> QED
      BY <3>2, <3>3
  <2>4. CASE GiveUp
    <3>1. stored' = Submission.spec /\ Store(stored')
      BY <2>4 DEF GiveUp, Hook!GiveUp, Inv
    <3>2. Store(Submission.spec)
      BY <3>1 DEF Store
    <3> QED
      BY <3>2, StoredAsSubmitted
  <2>5. CASE \E n \in Node : Bind(n)
    <3>1. \E n \in Node : Controller!Schedule(ThePod, n[Hook!NameField])
      BY <2>5 DEF Bind
    <3>2. Controller!Cluster
      BY <3>1 DEF Controller!Cluster
    <3> QED
      BY <3>2 DEF Controller!Next
  <2>6. CASE UpdateStatus \/ Terminates
    <3>1. \E ready \in BOOLEAN : UpdateStatus => Controller!UpdateStatus(ThePod, ready)
      BY DEF UpdateStatus
    <3> QED
      BY <2>6, <3>1 DEF Terminates, Controller!Next, Controller!Cluster
  <2>7. CASE Observe \/ Take \/ List \/ DeletePod \/ Restart
    BY <2>7 DEF Observe, Take, List, DeletePod, Restart, Controller!Next
  <2> QED
    BY <2>2, <2>3, <2>4, <2>5, <2>6, <2>7 DEF Next
<1>3. UNCHANGED vars => UNCHANGED Controller!vars
  BY DEF vars, controllerVars, Controller!vars, Controller!clusterVars, Controller!workVars,
         Controller!cacheVars, Controller!boundVars
<1> QED
  BY <1>1, <1>2, <1>3, AnswersKeepImages, Invariance, PTL DEF Spec, Controller!Spec

LEMMA SameSurroundings ==
  /\ ControllerProofs!NamesAssumption
  /\ ControllerProofs!TemplatesAssumption
  /\ ControllerProofs!MaxPodsAssumption
<1>1. ControllerProofs!NamesAssumption
  BY FS_Singleton DEF ControllerProofs!NamesAssumption, IsFiniteSet, ControllerProofs!IsFiniteSet
<1>2. ControllerProofs!TemplatesAssumption
  <2> DEFINE images == ImagesOf(Submission.spec)
  <2>1. images \in Seq(Image \ {Hook!NoImage}) /\ images # <<>>
    BY SubmittedImages
  <2> HIDE DEF images
  <2>2. \A b \in BOOLEAN :
          /\ [stateful |-> TRUE, selects |-> b, images |-> images]
               \in [stateful : BOOLEAN, selects : BOOLEAN, images : Seq(Image \ {Hook!NoImage})]
          /\ [stateful |-> TRUE, selects |-> b, images |-> images].images = images
    BY <2>1
  <2> QED
    BY <2>1, <2>2 DEF ControllerProofs!TemplatesAssumption, images
<1> QED
  BY <1>1, <1>2, BoundsAssumption DEF ControllerProofs!MaxPodsAssumption

LEMMA SameController == Spec => ControllerProofs!Spec
<1>1. Controller!Init => ControllerProofs!Init
  BY DEF Controller!Init, ControllerProofs!Init,
         Controller!Absent, ControllerProofs!Absent,
         Controller!NotCached, ControllerProofs!NotCached,
         Controller!Unused, ControllerProofs!Unused,
         Controller!Platform, ControllerProofs!Platform,
         Controller!Resting, ControllerProofs!Resting
<1>2. Controller!Next => ControllerProofs!Next
  <2> SUFFICES ASSUME Controller!Next PROVE ControllerProofs!Next
    OBVIOUS
  <2> QED
    BY DEF Controller!Cardinality, ControllerProofs!Cardinality,
           Controller!NoNode, ControllerProofs!NoNode,
           Controller!NotCached, ControllerProofs!NotCached,
           Controller!Absent, ControllerProofs!Absent,
           Controller!Unused, ControllerProofs!Unused,
           Controller!Platform, ControllerProofs!Platform,
           Controller!Exists, ControllerProofs!Exists,
           Controller!Matches, ControllerProofs!Matches,
           Controller!Executes, ControllerProofs!Executes,
           Controller!Images, ControllerProofs!Images,
           Controller!CanRun, ControllerProofs!CanRun,
           Controller!clusterVars, ControllerProofs!clusterVars,
           Controller!workVars, ControllerProofs!workVars,
           Controller!cacheVars, ControllerProofs!cacheVars,
           Controller!boundVars, ControllerProofs!boundVars,
           Controller!Write, ControllerProofs!Write, Controller!Touch, ControllerProofs!Touch,
           Controller!NextVersion, ControllerProofs!NextVersion,
           Controller!Update, ControllerProofs!Update, Controller!Stands, ControllerProofs!Stands,
           Controller!CreatePod, ControllerProofs!CreatePod,
           Controller!Schedule, ControllerProofs!Schedule,
           Controller!UpdateStatus, ControllerProofs!UpdateStatus,
           Controller!UserDeletes, ControllerProofs!UserDeletes,
           Controller!Terminates, ControllerProofs!Terminates,
           Controller!Push, ControllerProofs!Push, Controller!Observe, ControllerProofs!Observe,
           Controller!Increment, ControllerProofs!Increment,
           Controller!Occurrences, ControllerProofs!Occurrences,
           Controller!Decremented, ControllerProofs!Decremented,
           Controller!DecrementedSeries, ControllerProofs!DecrementedSeries,
           Controller!DecrementAll, ControllerProofs!DecrementAll,
           Controller!DeleteFromCache, ControllerProofs!DeleteFromCache,
           Controller!Resting, ControllerProofs!Resting, Controller!Rest, ControllerProofs!Rest,
           Controller!ReconcileGone, ControllerProofs!ReconcileGone,
           Controller!Processed, ControllerProofs!Processed,
           Controller!ReconcileProcessed, ControllerProofs!ReconcileProcessed,
           Controller!ReconcileStarts, ControllerProofs!ReconcileStarts,
           Controller!Take, ControllerProofs!Take,
           Controller!ImageListed, ControllerProofs!ImageListed,
           Controller!ImageListFails, ControllerProofs!ImageListFails,
           Controller!DeletePod, ControllerProofs!DeletePod,
           Controller!Restart, ControllerProofs!Restart,
           Controller!Cluster, ControllerProofs!Cluster, Controller!Next, ControllerProofs!Next
<1>3. UNCHANGED Controller!vars => UNCHANGED ControllerProofs!vars
  BY DEF Controller!vars, ControllerProofs!vars,
         Controller!clusterVars, ControllerProofs!clusterVars,
         Controller!workVars, ControllerProofs!workVars,
         Controller!cacheVars, ControllerProofs!cacheVars,
         Controller!boundVars, ControllerProofs!boundVars
<1> QED
  BY <1>1, <1>2, <1>3, ControllerAsAlone, PTL DEF Controller!Spec, ControllerProofs!Spec

\* pod.go:216-274: the counts of the controller are right next to the webhook, too.
THEOREM CountedAsAlone == Spec => [](Controller!CountedPodsAreHeld /\ Controller!NoStaleSeries)
<1>1. ControllerProofs!Spec => []ControllerProofs!CountedPodsAreHeld
  BY SameSurroundings, ControllerProofs!NothingCountedIsForgotten
<1>2. ControllerProofs!Spec => []ControllerProofs!NoStaleSeries
  BY SameSurroundings, ControllerProofs!SeriesAreRemoved
<1>3. ControllerProofs!CountedPodsAreHeld => Controller!CountedPodsAreHeld
  BY DEF Controller!Cardinality, ControllerProofs!Cardinality,
         Controller!CountedPodsAreHeld, ControllerProofs!CountedPodsAreHeld,
         Controller!References, ControllerProofs!References,
         Controller!Mentions, ControllerProofs!Mentions,
         Controller!MentionsBy, ControllerProofs!MentionsBy
<1>4. ControllerProofs!NoStaleSeries => Controller!NoStaleSeries
  BY DEF Controller!NoStaleSeries, ControllerProofs!NoStaleSeries,
         Controller!Platform, ControllerProofs!Platform
<1> QED
  BY <1>1, <1>2, <1>3, <1>4, SameController, PTL

\* pod.go:154-160, 276-280: of the pods that the webhook lets through, the controller
\* deletes the one it examined only where it does not run, if every platform says its OS.
THEOREM RepairsAreOfMisplaced ==
  ASSUME \A P \in Answers : \A p \in P : p.os # ""
  PROVE  Spec => DeletesOnlyMisplaced
<1>1. ControllerProofs!Spec => ControllerProofs!DeletesOnlyMisplaced
  BY SameSurroundings, ControllerProofs!OnlyMisplacedAreDeleted
<1>2. ControllerProofs!DeletesOnlyMisplaced => Controller!DeletesOnlyMisplaced
  BY DEF Controller!DeletesOnlyMisplaced, ControllerProofs!DeletesOnlyMisplaced,
         Controller!Exists, ControllerProofs!Exists, Controller!CanRun, ControllerProofs!CanRun,
         Controller!Images, ControllerProofs!Images,
         Controller!Executes, ControllerProofs!Executes,
         Controller!NoNode, ControllerProofs!NoNode, Controller!vars, ControllerProofs!vars,
         Controller!clusterVars, ControllerProofs!clusterVars,
         Controller!workVars, ControllerProofs!workVars,
         Controller!cacheVars, ControllerProofs!cacheVars,
         Controller!boundVars, ControllerProofs!boundVars
<1> QED
  BY <1>1, <1>2, SameController DEF DeletesOnlyMisplaced

=============================================================================
