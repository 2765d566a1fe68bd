------------------------- MODULE AdmissionHookProofs -------------------------
(***************************************************************************)
(* The webhook, for any cluster, any registry content, any labels to match *)
(* and any order and failure of the lookups.                               *)
(*                                                                         *)
(* First the inspection of a pod's images: the handler ends with the       *)
(* intersection of what it received, and denies a pod only when no node    *)
(* could have run it.  Then what the helpers that extend a specification   *)
(* do to the nodes it can be bound to.  Last, with an invariant that       *)
(* relates the request, the answer, the persisted object and its node,     *)
(* where an admitted pod runs, what it keeps, whose preference it gets,    *)
(* and what a second admission leaves as it was.                           *)
(***************************************************************************)
EXTENDS AdmissionHook, SequenceTheorems, TLAPS

-----------------------------------------------------------------------------
\* The goroutines of a request belong to its images, in every state it is in.
CallInv ==
  /\ call \in [Container -> Calls]
  /\ Received \subseteq Used(req.spec)
  /\ \A c \in Container : call[c] # "none" => c \in Used(req.spec)

\* A denial follows from the intersection.
DenialInv ==
  resp.verdict = "denied" => pc # "inspecting" /\ Received # {} /\ CommonTo(Received) = {}

Inv == CallInv /\ CommonIsIntersection /\ DenialInv

\* Leaving one image out of an intersection, or adding one.
LEMMA CommonToOne == ASSUME NEW c PROVE CommonTo({c}) = Supported(c)
BY DEF CommonTo

LEMMA CommonToNext ==
  ASSUME NEW S, NEW c, S # {}
  PROVE  CommonTo(S \cup {c}) = CommonTo(S) \cap Supported(c)
BY DEF CommonTo

LEMMA CommonToNone == CommonTo({}) = {}
BY DEF CommonTo

-----------------------------------------------------------------------------
LEMMA InitInv == Init => Inv
BY DEF Init, Inv, CallInv, CommonIsIntersection, DenialInv, NoCalls, Received, Calls

\* Handle starts from nothing received, whatever the request before it left.
LEMMA HandleInv == ASSUME NEW r, Handle(r) PROVE Inv'
<1>1. CASE call' = NoCalls /\ pc' = "answered" /\ resp'.verdict # "denied"
  <2>1. Received' = {}
    BY <1>1 DEF Received, NoCalls
  <2>2. CallInv'
    BY <1>1, <2>1 DEF CallInv, NoCalls, Calls
  <2> QED
    BY <1>1, <2>2 DEF Inv, CommonIsIntersection, DenialInv
<1>2. CASE StartLookups(r)
  <2>1. /\ call' = [c \in Container |-> IF c \in Used(r.spec) THEN "calling" ELSE "none"]
        /\ req' = r /\ common' = {} /\ firstImage' = TRUE
        /\ resp'.verdict = "none"
    BY <1>2 DEF StartLookups, Handle, Respond
  <2>2. Received' = {}
    BY <2>1 DEF Received
  <2>3. CallInv'
    BY <2>1, <2>2 DEF CallInv, Calls
  <2>4. CommonTo({})' = {}
    BY DEF CommonTo
  <2> QED
    BY <2>1, <2>2, <2>3, <2>4 DEF Inv, CommonIsIntersection, DenialInv
<1> QED
  BY <1>1, <1>2 DEF Handle, Skip, DecodeFails, AlreadyPlaced, PatchResponse, Refuse, Respond

\* A goroutine that ends or waits to send does not change what was received.
LEMMA LookupInv ==
  ASSUME Inv, NEW c \in Container, LookupSucceeds(c) \/ LookupFails(c)
  PROVE  Inv'
<1>1. /\ call[c] = "calling"
      /\ call' \in [Container -> Calls]
      /\ \A d \in Container : d # c => call'[d] = call[d]
      /\ call'[c] \in {"sending", "failed"}
      /\ UNCHANGED <<supports, req, pc, common, firstImage, resp>>
  BY DEF LookupSucceeds, LookupFails, Inv, CallInv, Calls
<1>2. Received' = Received
  BY <1>1 DEF Received
<1>3. CallInv'
  BY <1>1, <1>2 DEF Inv, CallInv
<1>4. CommonTo(Received)' = CommonTo(Received)
  BY <1>1, <1>2 DEF CommonTo, Supported
<1> QED
  BY <1>1, <1>2, <1>3, <1>4 DEF Inv, CommonIsIntersection, DenialInv

\* One turn of the handler's loop adds one image to the intersection.
LEMMA CollectInv ==
  ASSUME Inv, NEW c \in Container, Collect(c)
  PROVE  Inv'
<1>1. /\ call[c] = "sending"
      /\ pc = "inspecting"
      /\ call' = [call EXCEPT ![c] = "received"]
      /\ firstImage' = FALSE
      /\ common' = IF firstImage THEN Supported(c) ELSE common \cap Supported(c)
      /\ UNCHANGED <<supports, req, pc, resp>>
  BY DEF Collect, Supported
<1>2. Received' = Received \cup {c}
  BY <1>1 DEF Received, Inv, CallInv
<1>3. CallInv'
  BY <1>1, <1>2 DEF Inv, CallInv, Calls
<1>4. CommonTo(Received)' = CommonTo(Received \cup {c})
  BY <1>1, <1>2 DEF CommonTo, Supported
<1>5. common' = CommonTo(Received \cup {c})
  BY <1>1, CommonToOne, CommonToNext DEF Inv, CommonIsIntersection
<1> QED
  BY <1>1, <1>2, <1>3, <1>4, <1>5 DEF Inv, CommonIsIntersection, DenialInv

LEMMA DecideInv == Inv /\ Decide => Inv'
<1> SUFFICES ASSUME Inv, Decide PROVE Inv'
  OBVIOUS
<1>1. UNCHANGED <<supports, req, call, common, firstImage>> /\ pc = "inspecting" /\ pc' = "answered"
  BY DEF Decide, PatchResponse, Refuse
<1>2. Received' = Received /\ CommonTo(Received)' = CommonTo(Received)
  BY <1>1 DEF Received, CommonTo, Supported
<1>3. CallInv'
  BY <1>1, <1>2 DEF Inv, CallInv
<1>4. resp'.verdict = "denied" => ~firstImage /\ common = {}
  BY DEF Decide, PatchResponse, Refuse, Respond
<1> QED
  BY <1>1, <1>2, <1>3, <1>4 DEF Inv, CommonIsIntersection, DenialInv

LEMMA NextInv == Inv /\ [Next]_vars => Inv'
<1> SUFFICES ASSUME Inv, [Next]_vars PROVE Inv'
  OBVIOUS
<1>1. ASSUME NEW r, Handle(r) PROVE Inv'
  BY <1>1, HandleInv
<1>2. ASSUME NEW c \in Container, LookupSucceeds(c) \/ LookupFails(c) PROVE Inv'
  BY <1>2, LookupInv
<1>3. ASSUME NEW c \in Container, Collect(c) PROVE Inv'
  BY <1>3, CollectInv
<1>4. ASSUME Decide PROVE Inv'
  BY <1>4, DecideInv
<1>5. ASSUME UNCHANGED <<supports, req, call, common, firstImage, resp>>,
             pc' = pc \/ pc' = "idle"
      PROVE  Inv'
  <2>1. Received' = Received /\ CommonTo(Received)' = CommonTo(Received)
    BY <1>5 DEF Received, CommonTo, Supported
  <2>2. CallInv'
    BY <1>5, <2>1 DEF Inv, CallInv
  <2> QED
    BY <1>5, <2>1, <2>2 DEF Inv, CommonIsIntersection, DenialInv
<1>6. CASE Reply
  BY <1>5, <1>6 DEF Reply
<1>7. CASE GiveUp \/ (\E n \in Node : Bind(n)) \/ UNCHANGED vars
  BY <1>5, <1>7 DEF GiveUp, Bind, vars, handlerVars
<1> QED
  BY <1>1, <1>2, <1>3, <1>4, <1>6, <1>7 DEF Next, Create, Update

LEMMA Invariant == Spec => []Inv
BY InitInv, NextInv, PTL DEF Spec

\* hook.go:351-378: the order in which images arrive over the channel does not
\* matter, and neither do the lookups that fail.
THEOREM IntersectionOfReceived == Spec => []CommonIsIntersection
<1>1. Inv => CommonIsIntersection
  BY DEF Inv
<1> QED
  BY <1>1, Invariant, PTL

\* hook.go:385: a pod is denied only when no node of a schedulable architecture
\* executes all of its images, on a cluster that runs the one OS it is told.
THEOREM DeniedOnlyIfNotRunnable == Spec => []RunnablePodIsAdmitted
<1>1. Inv => RunnablePodIsAdmitted
  <2> SUFFICES ASSUME Inv, resp.verdict = "denied", NEW n \in Node,
                      IsArchSupported(n[ArchKey]),
                      \A c \in Used(req.spec) : Executes(n, req.spec.images[c])
               PROVE  FALSE
    BY DEF RunnablePodIsAdmitted
  <2>1. Received # {} /\ Received \subseteq Used(req.spec) /\ CommonTo(Received) = {}
    BY DEF Inv, CallInv, DenialInv
  <2>2. ASSUME NEW c \in Received PROVE n[ArchKey] \in Supported(c)
    BY <2>1, <2>2, SystemOSAssumption DEF Executes, Supported, ImageArchitectures
  <2>3. n[ArchKey] \in CommonTo(Received)
    BY <2>1, <2>2 DEF CommonTo
  <2> QED
    BY <2>1, <2>3
<1> QED
  BY <1>1, Invariant, PTL

-----------------------------------------------------------------------------
(***************************************************************************)
(* What the helpers of hook.go do to a specification and its placement.    *)
(***************************************************************************)
\* Adding terms at the end.
Extended(s, t) == s \o t

LEMMA AppendTerms ==
  ASSUME NEW s, NEW t, IsSequence(s), IsSequence(t)
  PROVE  LET u == Extended(s, t) IN
         /\ IsSequence(u)
         /\ \A i \in DOMAIN s : i \in DOMAIN u /\ u[i] = s[i]
         /\ \A j \in DOMAIN t : \E i \in DOMAIN u : u[i] = t[j]
         /\ \A i \in DOMAIN u : (i \in DOMAIN s /\ u[i] = s[i]) \/ \E j \in DOMAIN t : u[i] = t[j]
<1> DEFINE S == {s[i] : i \in DOMAIN s}
           T == {t[i] : i \in DOMAIN t}
           U == S \cup T
           u == s \o t
<1>0. s \in Seq(S) /\ t \in Seq(T)
  BY DEF IsSequence
<1> HIDE DEF S, T
<1>1. s \in Seq(U) /\ t \in Seq(U)
  BY <1>0, SeqMonotonic
<1>2. /\ Len(s) \in Nat /\ DOMAIN s = 1 .. Len(s)
      /\ Len(t) \in Nat /\ DOMAIN t = 1 .. Len(t)
  BY <1>0, LenProperties
<1> HIDE DEF U
<1>3. /\ u \in Seq(U) /\ Len(u) = Len(s) + Len(t)
      /\ \A i \in 1 .. Len(s) + Len(t) : u[i] = IF i <= Len(s) THEN s[i] ELSE t[i - Len(s)]
  BY <1>1, ConcatProperties
<1>4. DOMAIN u = 1 .. Len(u) /\ u \in Seq(Range(u))
  BY <1>3, LenProperties, SeqOfRange
<1>5. IsSequence(u)
  BY <1>4 DEF Range, IsSequence
<1> HIDE DEF u
<1> DEFINE n == Len(s)
           m == Len(t)
<1>6. n \in Nat /\ m \in Nat /\ DOMAIN s = 1 .. n /\ DOMAIN t = 1 .. m /\ DOMAIN u = 1 .. n + m
  BY <1>2, <1>3, <1>4
<1>7. \A i \in 1 .. n + m : u[i] = IF i <= n THEN s[i] ELSE t[i - n]
  BY <1>3
<1> HIDE DEF n, m
<1>8. \A i \in 1 .. n : i \in 1 .. n + m /\ u[i] = s[i]
  BY <1>6, <1>7
<1>9. ASSUME NEW j \in 1 .. m PROVE \E i \in 1 .. n + m : u[i] = t[j]
  <2>1. n + j \in 1 .. n + m /\ ~(n + j <= n) /\ (n + j) - n = j
    BY <1>6
  <2> QED
    BY <1>7, <2>1
<1>10. \A i \in 1 .. n + m : (i \in 1 .. n /\ u[i] = s[i]) \/ \E j \in 1 .. m : u[i] = t[j]
  <2> SUFFICES ASSUME NEW i \in 1 .. n + m, i \notin 1 .. n PROVE i - n \in 1 .. m /\ u[i] = t[i - n]
    BY <1>8
  <2> QED
    BY <1>6, <1>7
<1> QED
  BY <1>5, <1>6, <1>8, <1>9, <1>10 DEF n, m, u, Extended


LEMMA EmptySequence == ASSUME NEW s, IsSequence(s) PROVE s = <<>> <=> DOMAIN s = {}
<1> DEFINE S == {s[i] : i \in DOMAIN s}
<1>1. s \in Seq(S)
  BY DEF IsSequence
<1> HIDE DEF S
<1>2. Len(s) \in Nat /\ DOMAIN s = 1 .. Len(s)
  BY <1>1, LenProperties
<1>3. s # <<>> => Len(s) \in Nat \ {0}
  BY <1>1, EmptySeq
<1> QED
  BY <1>2, <1>3

LEMMA OneTerm == ASSUME NEW term PROVE IsSequence(<<term>>) /\ DOMAIN <<term>> = {1}
BY DEF IsSequence

LEMMA WithTermSpec ==
  ASSUME NEW spec, IsPodSpec(spec), NEW term
  PROVE  LET s == WithTerm(spec, term)
         IN  /\ IsPodSpec(s)
             /\ s.images = spec.images /\ s.nodeName = spec.nodeName
             /\ s.nodeSelector = spec.nodeSelector
             /\ s.terms = Extended(spec.terms, <<term>>)
<1> DEFINE s == WithTerm(spec, term)
<1>2. Append(spec.terms, term) = Extended(spec.terms, <<term>>)
  <2> DEFINE U == {spec.terms[i] : i \in DOMAIN spec.terms}
  <2>1. spec.terms \in Seq(U)
    BY DEF IsPodSpec, IsSequence
  <2> HIDE DEF U
  <2>2. spec.terms \in Seq(U \cup {term})
    BY <2>1, SeqMonotonic
  <2> QED
    BY <2>2, AppendIsConcat DEF Extended
<1>3. s = [spec EXCEPT !.terms = Extended(spec.terms, <<term>>)]
  BY <1>2 DEF WithTerm
<1>4. s = [images |-> spec.images, terms |-> Extended(spec.terms, <<term>>),
           nodeName |-> spec.nodeName, nodeSelector |-> spec.nodeSelector]
  <2>1. spec = [images |-> spec.images, terms |-> spec.terms,
                nodeName |-> spec.nodeName, nodeSelector |-> spec.nodeSelector]
    BY DEF IsPodSpec
  <2> QED
    BY <1>3, <2>1
<1> HIDE DEF s
<1>5. IsSequence(Extended(spec.terms, <<term>>))
  BY OneTerm, AppendTerms DEF IsPodSpec
<1>6. IsSequence(s.terms)
  BY <1>4, <1>5
<1>7. IsPodSpec(s)
  BY <1>4, <1>6 DEF IsPodSpec
<1> QED
  BY <1>4, <1>7 DEF s

LEMMA WithSelectorSpec ==
  ASSUME NEW spec, IsPodSpec(spec), NEW f, IsLabels(f)
  PROVE  LET s == WithSelector(spec, f)
         IN  /\ IsPodSpec(s)
             /\ s.images = spec.images /\ s.nodeName = spec.nodeName /\ s.terms = spec.terms
             /\ s.nodeSelector # NoSelector /\ IsLabels(s.nodeSelector)
             /\ SelectorKeys(s) = SelectorKeys(spec) \cup DOMAIN f
             /\ \A k \in SelectorKeys(s) :
                  s.nodeSelector[k] = IF k \in DOMAIN f THEN f[k] ELSE spec.nodeSelector[k]
<1> DEFINE s == WithSelector(spec, f)
           old == IF spec.nodeSelector = NoSelector THEN <<>> ELSE spec.nodeSelector
           new == [k \in DOMAIN old \cup DOMAIN f |-> IF k \in DOMAIN f THEN f[k] ELSE old[k]]
<1>1. DOMAIN old = SelectorKeys(spec) /\ IsLabels(old)
  BY DEF IsPodSpec, IsLabels, SelectorKeys
<1>2. \A k \in SelectorKeys(spec) : old[k] = spec.nodeSelector[k]
  BY DEF SelectorKeys
<1>3. s = [spec EXCEPT !.nodeSelector = new]
  BY DEF WithSelector
<1> HIDE DEF old
<1>4. /\ DOMAIN new = SelectorKeys(spec) \cup DOMAIN f
      /\ \A k \in DOMAIN new : new[k] = IF k \in DOMAIN f THEN f[k] ELSE spec.nodeSelector[k]
  BY <1>1, <1>2
<1>5. IsLabels(new)
  BY <1>1 DEF IsLabels
<1>6. new # NoSelector
  BY <1>5, NoSelectorAssumption DEF IsLabels
<1> HIDE DEF new
<1>7. s = [images |-> spec.images, terms |-> spec.terms,
           nodeName |-> spec.nodeName, nodeSelector |-> new]
  <2>1. spec = [images |-> spec.images, terms |-> spec.terms,
                nodeName |-> spec.nodeName, nodeSelector |-> spec.nodeSelector]
    BY DEF IsPodSpec
  <2> QED
    BY <1>3, <2>1
<1> HIDE DEF s
<1>8. IsPodSpec(s)
  BY <1>5, <1>7 DEF IsPodSpec
<1>9. SelectorKeys(s) = DOMAIN new
  BY <1>6, <1>7 DEF SelectorKeys
<1> QED
  BY <1>4, <1>5, <1>6, <1>7, <1>8, <1>9 DEF s

LEMMA MatchingTermsSeq == ASSUME NEW labels PROVE IsSequence(MatchingTerms(labels))
<1> DEFINE n == Len(LabelledKeys(labels))
<1>1. n \in Nat
  OBVIOUS
<1>3. MatchingTerms(labels) = [i \in 1 .. n |-> MatchingTerms(labels)[i]]
  BY DEF MatchingTerms
<1> HIDE DEF n
<1>2. ASSUME NEW f, f = [i \in 1 .. n |-> f[i]] PROVE IsSequence(f)
  <2>1. f \in [1 .. n -> {f[i] : i \in DOMAIN f}]
    BY <1>2
  <2> QED
    BY <1>1, <2>1, SeqDef DEF IsSequence
<1> QED
  BY <1>2, <1>3

LEMMA AddLabelsSpec ==
  ASSUME NEW spec, IsPodSpec(spec), NEW labels, IsLabels(labels)
  PROVE  LET s == AddPodNodeMatchingLabels(labels, spec)
         IN  /\ IsPodSpec(s)
             /\ s.images = spec.images /\ s.nodeName = spec.nodeName
             /\ MatchedKeys(labels) = {} => s = spec
             /\ spec.nodeSelector = NoSelector /\ MatchedKeys(labels) # {} =>
                  s.nodeSelector = NoSelector /\ s.terms = Extended(spec.terms, MatchingTerms(labels))
             /\ spec.nodeSelector # NoSelector =>
                  /\ s.nodeSelector # NoSelector /\ s.terms = spec.terms
                  /\ SelectorKeys(s) = SelectorKeys(spec) \cup MatchedKeys(labels)
                  /\ \A k \in SelectorKeys(s) :
                       s.nodeSelector[k] = IF k \in MatchedKeys(labels) THEN labels[k]
                                           ELSE spec.nodeSelector[k]
<1> DEFINE s == AddPodNodeMatchingLabels(labels, spec)
<1>1. CASE MatchedKeys(labels) = {}
  BY <1>1 DEF AddPodNodeMatchingLabels, SelectorKeys
<1>2. CASE MatchedKeys(labels) # {} /\ spec.nodeSelector = NoSelector
  <2> DEFINE ts == Extended(spec.terms, MatchingTerms(labels))
  <2>2. IsSequence(ts)
    BY MatchingTermsSeq, AppendTerms DEF IsPodSpec
  <2>3. s = [spec EXCEPT !.terms = ts]
    BY <1>2 DEF AddPodNodeMatchingLabels, Extended
  <2> HIDE DEF ts, s
  <2>4. s = [images |-> spec.images, terms |-> ts,
             nodeName |-> spec.nodeName, nodeSelector |-> spec.nodeSelector]
    <3>1. spec = [images |-> spec.images, terms |-> spec.terms,
                  nodeName |-> spec.nodeName, nodeSelector |-> spec.nodeSelector]
      BY DEF IsPodSpec
    <3> QED
      BY <2>3, <3>1
  <2>5. IsPodSpec(s)
    BY <2>2, <2>4 DEF IsPodSpec
  <2> QED
    BY <1>2, <2>4, <2>5 DEF s, ts
<1>3. CASE MatchedKeys(labels) # {} /\ spec.nodeSelector # NoSelector
  <2> DEFINE f == [k \in MatchedKeys(labels) |-> labels[k]]
  <2>1. IsLabels(f) /\ DOMAIN f = MatchedKeys(labels) /\ \A k \in MatchedKeys(labels) : f[k] = labels[k]
    BY DEF IsLabels, MatchedKeys
  <2>2. s = WithSelector(spec, f)
    BY <1>3 DEF AddPodNodeMatchingLabels
  <2> HIDE DEF f, s
  <2>3. /\ IsPodSpec(s)
        /\ s.images = spec.images /\ s.nodeName = spec.nodeName /\ s.terms = spec.terms
        /\ s.nodeSelector # NoSelector
        /\ SelectorKeys(s) = SelectorKeys(spec) \cup DOMAIN f
        /\ \A k \in SelectorKeys(s) :
             s.nodeSelector[k] = IF k \in DOMAIN f THEN f[k] ELSE spec.nodeSelector[k]
    BY <2>1, <2>2, WithSelectorSpec
  <2> QED
    BY <1>3, <2>1, <2>3 DEF s
<1> QED
  BY <1>1, <1>2, <1>3

-----------------------------------------------------------------------------
\* The terms of a specification, as the scheduler reads them.
Chosen(n, terms) == terms = <<>> \/ \E i \in DOMAIN terms : \A r \in terms[i] : Satisfies(n, r)

LEMMA AdmittedNodes ==
  ASSUME NEW n, NEW spec
  PROVE  NodeAdmits(spec, n) <=>
           /\ spec.nodeName \in {NoNode, n[NameField]}
           /\ \A k \in SelectorKeys(spec) : k \in DOMAIN n /\ n[k] = spec.nodeSelector[k]
           /\ Chosen(n, spec.terms)
BY DEF NodeAdmits, Satisfies, Requirement, Chosen

\* More terms admit no fewer nodes, unless they are the first; terms that are there
\* already change nothing.
LEMMA MoreTerms ==
  ASSUME NEW n, NEW s, NEW t, NEW u, u = Extended(s, t), IsSequence(s), IsSequence(t)
  PROVE  /\ s # <<>> /\ Chosen(n, s) => Chosen(n, u)
         /\ (\A j \in DOMAIN t : \E i \in DOMAIN s : s[i] = t[j]) => (Chosen(n, u) <=> Chosen(n, s))
<1>0. /\ IsSequence(u)
      /\ \A i \in DOMAIN s : i \in DOMAIN u /\ u[i] = s[i]
      /\ \A i \in DOMAIN u : (i \in DOMAIN s /\ u[i] = s[i]) \/ \E j \in DOMAIN t : u[i] = t[j]
  BY AppendTerms
<1>1. s # <<>> /\ Chosen(n, s) => Chosen(n, u)
  BY <1>0 DEF Chosen
<1>2. ASSUME \A j \in DOMAIN t : \E i \in DOMAIN s : s[i] = t[j]
      PROVE  Chosen(n, u) <=> Chosen(n, s)
  <2>1. \A i \in DOMAIN u : \E k \in DOMAIN s : s[k] = u[i]
    BY <1>0, <1>2
  <2>2. s = <<>> <=> u = <<>>
    <3>1. DOMAIN s = {} <=> DOMAIN u = {}
      BY <1>0, <2>1
    <3>2. (s = <<>> <=> DOMAIN s = {}) /\ (u = <<>> <=> DOMAIN u = {})
      BY <1>0, EmptySequence
    <3> QED
      BY <3>1, <3>2
  <2>3. s # <<>> /\ Chosen(n, u) => Chosen(n, s)
    BY <2>1, <2>2 DEF Chosen
  <2> QED
    BY <1>1, <2>2, <2>3 DEF Chosen
<1> QED
  BY <1>1, <1>2

\* A specification that has been given the labels to match.
Carries(labels, spec) ==
  IF spec.nodeSelector = NoSelector
  THEN \A j \in DOMAIN MatchingTerms(labels) :
         \E i \in DOMAIN spec.terms : spec.terms[i] = MatchingTerms(labels)[j]
  ELSE \A k \in MatchedKeys(labels) :
         k \in DOMAIN spec.nodeSelector /\ spec.nodeSelector[k] = labels[k]

LEMMA LabelsAreCarried ==
  ASSUME NEW spec, IsPodSpec(spec), NEW labels, IsLabels(labels), MatchedKeys(labels) # {}
  PROVE  Carries(labels, AddPodNodeMatchingLabels(labels, spec))
<1> DEFINE s == AddPodNodeMatchingLabels(labels, spec)
<1> HIDE DEF s
<1>1. CASE spec.nodeSelector = NoSelector
  <2>1. s.nodeSelector = NoSelector /\ s.terms = Extended(spec.terms, MatchingTerms(labels))
    BY <1>1, AddLabelsSpec DEF s
  <2>2. IsSequence(spec.terms) /\ IsSequence(MatchingTerms(labels))
    BY MatchingTermsSeq DEF IsPodSpec
  <2>3. ASSUME NEW j \in DOMAIN MatchingTerms(labels)
        PROVE  \E i \in DOMAIN s.terms : s.terms[i] = MatchingTerms(labels)[j]
    BY <2>1, <2>2, AppendTerms
  <2> QED
    BY <2>1, <2>3 DEF Carries, s
<1>2. CASE spec.nodeSelector # NoSelector
  <2>1. /\ s.nodeSelector # NoSelector
        /\ SelectorKeys(s) = SelectorKeys(spec) \cup MatchedKeys(labels)
        /\ \A k \in SelectorKeys(s) :
             s.nodeSelector[k] = IF k \in MatchedKeys(labels) THEN labels[k]
                                 ELSE spec.nodeSelector[k]
    BY <1>2, AddLabelsSpec DEF s
  <2> QED
    BY <2>1 DEF Carries, SelectorKeys, s
<1> QED
  BY <1>1, <1>2

\* hook.go:255-290: what carries the labels is placed as before when it is given them again.
LEMMA CarriedLabelsChangeNothing ==
  ASSUME NEW spec, IsPodSpec(spec), NEW labels, IsLabels(labels),
         MatchedKeys(labels) = {} \/ Carries(labels, spec)
  PROVE  Placement(AddPodNodeMatchingLabels(labels, spec)) = Placement(spec)
<1> DEFINE s == AddPodNodeMatchingLabels(labels, spec)
<1> HIDE DEF s
<1> SUFFICES ASSUME NEW n \in Node PROVE NodeAdmits(s, n) <=> NodeAdmits(spec, n)
  BY DEF Placement, s
<1>1. CASE MatchedKeys(labels) = {}
  BY <1>1, AddLabelsSpec DEF s
<1>2. CASE MatchedKeys(labels) # {} /\ spec.nodeSelector = NoSelector
  <2>1. /\ s.nodeName = spec.nodeName
        /\ s.nodeSelector = NoSelector /\ s.terms = Extended(spec.terms, MatchingTerms(labels))
    BY <1>2, AddLabelsSpec DEF s
  <2>2. SelectorKeys(s) = {} /\ SelectorKeys(spec) = {}
    BY <1>2, <2>1 DEF SelectorKeys
  <2>3. Chosen(n, s.terms) <=> Chosen(n, spec.terms)
    BY <1>2, <2>1, MoreTerms, MatchingTermsSeq DEF IsPodSpec, Carries
  <2> QED
    BY <2>1, <2>2, <2>3, AdmittedNodes
<1>3. CASE MatchedKeys(labels) # {} /\ spec.nodeSelector # NoSelector
  <2>1. /\ s.nodeName = spec.nodeName /\ s.terms = spec.terms
        /\ SelectorKeys(s) = SelectorKeys(spec) \cup MatchedKeys(labels)
        /\ \A k \in SelectorKeys(s) :
             s.nodeSelector[k] = IF k \in MatchedKeys(labels) THEN labels[k]
                                 ELSE spec.nodeSelector[k]
    BY <1>3, AddLabelsSpec DEF s
  <2>2. \A k \in MatchedKeys(labels) : k \in SelectorKeys(spec) /\ spec.nodeSelector[k] = labels[k]
    BY <1>3 DEF Carries, SelectorKeys
  <2>3. SelectorKeys(s) = SelectorKeys(spec)
        /\ \A k \in SelectorKeys(s) : s.nodeSelector[k] = spec.nodeSelector[k]
    BY <2>1, <2>2
  <2> QED
    BY <2>1, <2>3, AdmittedNodes
<1> QED
  BY <1>1, <1>2, <1>3

-----------------------------------------------------------------------------
\* hook.go:391-456: what is injected, by its two cases.
Preferred(labels) == Preference(labels).defined /\ Preference(labels).arch \in common

LEMMA PreferenceType == ASSUME NEW labels, IsLabels(labels) PROVE Preference(labels).arch \in Value
BY KeysAssumption, PlatformsAssumption DEF Preference, IsLabels, NoArch

LEMMA InjectSpec ==
  ASSUME NEW spec, IsPodSpec(spec), NEW labels, IsLabels(labels)
  PROVE  LET s == Inject(spec, labels)
         IN  /\ IsPodSpec(s)
             /\ s.images = spec.images /\ s.nodeName = spec.nodeName
             /\ Preferred(labels) =>
                  /\ s.nodeSelector # NoSelector /\ s.terms = spec.terms
                  /\ SelectorKeys(s) = SelectorKeys(spec) \cup {ArchKey}
                  /\ \A k \in SelectorKeys(s) :
                       s.nodeSelector[k] = IF k = ArchKey THEN Preference(labels).arch
                                           ELSE spec.nodeSelector[k]
             /\ ~Preferred(labels) =>
                  /\ s.nodeSelector = spec.nodeSelector
                  /\ s.terms = Extended(spec.terms, <<{Requirement(ArchKey, common)}>>)
<1> DEFINE s == Inject(spec, labels)
<1>1. CASE Preferred(labels)
  <2> DEFINE f == [k \in {ArchKey} |-> Preference(labels).arch]
  <2>1. IsLabels(f) /\ DOMAIN f = {ArchKey} /\ f[ArchKey] = Preference(labels).arch
    BY PreferenceType, KeysAssumption DEF IsLabels
  <2>2. s = WithSelector(spec, f)
    BY <1>1 DEF Inject, Preferred
  <2> HIDE DEF f, s
  <2>3. /\ IsPodSpec(s)
        /\ s.images = spec.images /\ s.nodeName = spec.nodeName /\ s.terms = spec.terms
        /\ s.nodeSelector # NoSelector
        /\ SelectorKeys(s) = SelectorKeys(spec) \cup DOMAIN f
        /\ \A k \in SelectorKeys(s) :
             s.nodeSelector[k] = IF k \in DOMAIN f THEN f[k] ELSE spec.nodeSelector[k]
    BY <2>1, <2>2, WithSelectorSpec
  <2> QED
    BY <1>1, <2>1, <2>3 DEF s
<1>2. CASE ~Preferred(labels)
  <2>1. s = WithTerm(spec, {Requirement(ArchKey, common)})
    BY <1>2 DEF Inject, Preferred
  <2> HIDE DEF s
  <2> QED
    BY <1>2, <2>1, WithTermSpec DEF s
<1> QED
  BY <1>1, <1>2

\* A node meets the requirement that is injected when its architecture is a common one.
LEMMA ArchTerm ==
  ASSUME NEW n \in Node
  PROVE  (\A r \in {Requirement(ArchKey, common)} : Satisfies(n, r)) <=> n[ArchKey] \in common
BY NodesAssumption DEF Satisfies, Requirement

\* The pods the hook constrains run on architectures common to their images, when
\* nothing else chooses for them.
LEMMA InjectionConfines ==
  ASSUME NEW r, IsRequest(r), OnlyArchTerm(r),
         NEW n \in Placement(AddPodNodeMatchingLabels(r.labels, Inject(r.spec, r.labels)))
  PROVE  n[ArchKey] \in common
<1> DEFINE i == Inject(r.spec, r.labels)
           s == AddPodNodeMatchingLabels(r.labels, i)
<1>1. IsPodSpec(r.spec) /\ IsLabels(r.labels) /\ n \in Node /\ NodeAdmits(s, n)
  BY DEF IsRequest, Placement
<1>2. IsPodSpec(i)
  BY <1>1, InjectSpec
<1>3. CASE Preferred(r.labels)
  <2>1. /\ i.nodeSelector # NoSelector /\ ArchKey \in SelectorKeys(i)
        /\ i.nodeSelector[ArchKey] = Preference(r.labels).arch
    BY <1>1, <1>3, InjectSpec
  <2> HIDE DEF i
  <2>2. ArchKey \in SelectorKeys(s) /\ s.nodeSelector[ArchKey] = Preference(r.labels).arch
    BY <1>1, <1>2, <2>1, AddLabelsSpec DEF OnlyArchTerm
  <2> HIDE DEF s
  <2>3. n[ArchKey] = Preference(r.labels).arch
    BY <1>1, <2>2, AdmittedNodes
  <2> QED
    BY <1>3, <2>3 DEF Preferred
<1>4. CASE ~Preferred(r.labels)
  <2>1. /\ i.nodeSelector = r.spec.nodeSelector
        /\ i.terms = Extended(r.spec.terms, <<{Requirement(ArchKey, common)}>>)
    BY <1>1, <1>4, InjectSpec
  <2> HIDE DEF i
  <2>2. s.terms = i.terms
    BY <1>1, <1>2, <2>1, AddLabelsSpec DEF OnlyArchTerm
  <2> HIDE DEF s
  <2>3. i.terms = <<{Requirement(ArchKey, common)}>>
    BY <2>1 DEF OnlyArchTerm, Extended
  <2>4. \A q \in {Requirement(ArchKey, common)} : Satisfies(n, q)
    BY <1>1, <2>2, <2>3, AdmittedNodes DEF Chosen
  <2> QED
    BY <1>1, <2>4, ArchTerm
<1> QED
  BY <1>3, <1>4

\* The preferred architecture is imposed, unless a label to match replaces it.
LEMMA InjectionPrefers ==
  ASSUME NEW r, IsRequest(r), ArchKey \notin MatchedKeys(r.labels), Preferred(r.labels),
         NEW n \in Placement(AddPodNodeMatchingLabels(r.labels, Inject(r.spec, r.labels)))
  PROVE  n[ArchKey] = Preference(r.labels).arch
<1> DEFINE i == Inject(r.spec, r.labels)
           s == AddPodNodeMatchingLabels(r.labels, i)
<1>1. IsPodSpec(r.spec) /\ IsLabels(r.labels) /\ n \in Node /\ NodeAdmits(s, n)
  BY DEF IsRequest, Placement
<1>2. /\ IsPodSpec(i) /\ i.nodeSelector # NoSelector /\ ArchKey \in SelectorKeys(i)
      /\ i.nodeSelector[ArchKey] = Preference(r.labels).arch
  BY <1>1, InjectSpec
<1> HIDE DEF i
<1>3. ArchKey \in SelectorKeys(s) /\ s.nodeSelector[ArchKey] = Preference(r.labels).arch
  BY <1>1, <1>2, AddLabelsSpec
<1> HIDE DEF s
<1> QED
  BY <1>1, <1>3, AdmittedNodes

\* A node of a common architecture is left to the pod, of the preferred one if there is one.
LEMMA InjectionKeeps ==
  ASSUME NEW spec, IsPodSpec(spec), NEW labels, IsLabels(labels),
         NEW n \in Placement(spec), n[ArchKey] \in common,
         Preferred(labels) => n[ArchKey] = Preference(labels).arch
  PROVE  n \in Placement(Inject(spec, labels))
<1> DEFINE s == Inject(spec, labels)
<1>1. n \in Node /\ ArchKey \in DOMAIN n
  BY NodesAssumption DEF Placement
<1>2. /\ spec.nodeName \in {NoNode, n[NameField]}
      /\ \A k \in SelectorKeys(spec) : k \in DOMAIN n /\ n[k] = spec.nodeSelector[k]
      /\ Chosen(n, spec.terms)
  BY AdmittedNodes DEF Placement
<1>3. s.nodeName = spec.nodeName
  BY InjectSpec
<1>4. CASE Preferred(labels)
  <2>1. /\ s.terms = spec.terms
        /\ SelectorKeys(s) = SelectorKeys(spec) \cup {ArchKey}
        /\ \A k \in SelectorKeys(s) : s.nodeSelector[k] = IF k = ArchKey THEN Preference(labels).arch
                                                          ELSE spec.nodeSelector[k]
    BY <1>4, InjectSpec
  <2> HIDE DEF s
  <2>2. NodeAdmits(s, n)
    BY <1>1, <1>2, <1>3, <1>4, <2>1, AdmittedNodes
  <2> QED
    BY <1>1, <2>2 DEF Placement, s
<1>5. CASE ~Preferred(labels)
  <2> DEFINE t == <<{Requirement(ArchKey, common)}>>
  <2>1. s.nodeSelector = spec.nodeSelector /\ s.terms = Extended(spec.terms, t)
    BY <1>5, InjectSpec
  <2>2. IsSequence(t) /\ IsSequence(spec.terms) /\ DOMAIN t = {1}
    BY OneTerm DEF IsPodSpec
  <2>3. \A q \in t[1] : Satisfies(n, q)
    BY <1>1, ArchTerm
  <2> HIDE DEF s, t
  <2>4. SelectorKeys(s) = SelectorKeys(spec)
    BY <2>1 DEF SelectorKeys
  <2>5. Chosen(n, s.terms)
    <3>1. CASE spec.terms # <<>>
      BY <1>2, <2>1, <2>2, <3>1, MoreTerms
    <3>2. CASE spec.terms = <<>>
      <4>1. \E k \in DOMAIN s.terms : s.terms[k] = t[1]
        BY <2>1, <2>2, AppendTerms
      <4> QED
        BY <2>3, <4>1 DEF Chosen
    <3> QED
      BY <3>1, <3>2
  <2>6. NodeAdmits(s, n)
    BY <1>2, <1>3, <2>1, <2>4, <2>5, AdmittedNodes
  <2> QED
    BY <1>1, <2>6 DEF Placement, s
<1> QED
  BY <1>4, <1>5

-----------------------------------------------------------------------------
(***************************************************************************)
(* The handler's answers and what the API server and the scheduler make of *)
(* them.                                                                   *)
(***************************************************************************)
Answer(verdict, warning, spec) == [verdict |-> verdict, warning |-> warning, spec |-> spec]

LEMMA HandleCases ==
  ASSUME NEW r, Handle(r)
  PROVE  /\ req' = r /\ common' = {} /\ firstImage' = TRUE /\ supports' = supports /\ api' = "waiting"
         /\ \/ /\ pc' = "answered" /\ call' = NoCalls
               /\ \/ /\ resp' = Answer("allowed", FALSE, r.spec)
                     /\ Ignored(r) \/ (r.decodes /\ r.spec.nodeName # NoNode)
                  \/ /\ resp' = Answer("errored", FALSE, r.spec)
                     /\ ~Ignored(r) /\ ~r.decodes
                  \/ /\ resp' = Answer("allowed", FALSE, AddPodNodeMatchingLabels(r.labels, r.spec))
                     /\ ~Ignored(r) /\ r.decodes /\ r.spec.nodeName = NoNode
            \/ /\ pc' = "inspecting" /\ resp' = Answer("none", FALSE, r.spec)
               /\ call' = [c \in Container |-> IF c \in Used(r.spec) THEN "calling" ELSE "none"]
               /\ ~Ignored(r) /\ r.decodes /\ r.spec.nodeName = NoNode
               /\ ~PodSpecHasNodeArchitectureSelection(r.spec)
<1>1. req' = r /\ common' = {} /\ firstImage' = TRUE /\ supports' = supports /\ api' = "waiting"
  BY DEF Handle
<1>2. CASE Skip(r)
  BY <1>1, <1>2 DEF Skip, Respond, Answer
<1>3. CASE DecodeFails(r)
  BY <1>1, <1>3 DEF DecodeFails, Refuse, Respond, Answer
<1>4. CASE AlreadyPlaced(r)
  BY <1>1, <1>4 DEF AlreadyPlaced, PatchResponse, Respond, Answer
<1>5. CASE StartLookups(r)
  BY <1>1, <1>5 DEF StartLookups, Respond, Answer
<1> QED
  BY <1>2, <1>3, <1>4, <1>5 DEF Handle

LEMMA HandleType ==
  ASSUME NEW r, IsRequest(r), Handle(r)
  PROVE  /\ req' = r /\ common' = {} /\ firstImage' = TRUE /\ supports' = supports
         /\ pc' \in {"inspecting", "answered"} /\ api' = "waiting"
         /\ call' \in [Container -> Calls]
         /\ resp'.verdict \in {"none", "allowed", "denied", "errored"}
         /\ resp'.warning \in BOOLEAN /\ IsPodSpec(resp'.spec)
<1>1. IsPodSpec(r.spec) /\ IsPodSpec(AddPodNodeMatchingLabels(r.labels, r.spec))
  BY AddLabelsSpec DEF IsRequest
<1>2. call' \in [Container -> Calls]
  BY HandleCases DEF NoCalls, Calls
<1>3. /\ resp'.verdict \in {"none", "allowed", "denied", "errored"}
      /\ resp'.warning \in BOOLEAN /\ IsPodSpec(resp'.spec)
  <2> DEFINE t == AddPodNodeMatchingLabels(r.labels, r.spec)
  <2>1. \/ resp' = Answer("allowed", FALSE, r.spec) \/ resp' = Answer("errored", FALSE, r.spec)
        \/ resp' = Answer("none", FALSE, r.spec) \/ resp' = Answer("allowed", FALSE, t)
    BY HandleCases
  <2> HIDE DEF t
  <2>2. resp'.verdict \in {"none", "allowed", "errored"} /\ resp'.warning = FALSE
    BY <2>1 DEF Answer
  <2>3. resp'.spec = r.spec \/ resp'.spec = t
    BY <2>1 DEF Answer
  <2>4. IsPodSpec(r.spec) /\ IsPodSpec(t)
    BY <1>1 DEF t
  <2>5. IsPodSpec(resp'.spec)
    BY <2>3, <2>4
  <2> QED
    BY <2>2, <2>5
<1> QED
  BY <1>2, <1>3, HandleCases

LEMMA CreateType == ASSUME TypeOK, NEW r \in Requests, Create(r) PROVE TypeOK'
<1>1. IsRequest(r) /\ IsPodSpec(r.spec)
  BY RequestsAssumption DEF IsRequest
<1>2. Handle(r) /\ stored' = r.spec /\ hooked' = FALSE /\ node' = NoNode /\ updates' = 0
  BY DEF Create
<1>3. updates' \in 0 .. MaxUpdates
  BY <1>2, MaxUpdatesAssumption
<1>4. IsPodSpec(stored)' /\ IsRequest(req)'
  <2>1. stored' = r.spec /\ req' = r
    BY <1>2, HandleType, <1>1
  <2>2. IsPodSpec(stored')
    BY <1>1, <2>1
  <2>3. IsRequest(req')
    BY <1>1, <2>1
  <2>4. IsPodSpec(stored)'
    BY <2>2 DEF IsPodSpec
  <2>5. IsRequest(req)'
    BY <2>3 DEF IsRequest, IsPodSpec
  <2> QED
    BY <2>4, <2>5
<1>5. hooked' \in BOOLEAN /\ node' \in {NoNode} \cup {n[NameField] : n \in Node}
  BY <1>2
<1> QED
  BY <1>1, <1>2, <1>3, <1>4, <1>5, HandleType DEF TypeOK

Resubmitted == [req EXCEPT !.op = "UPDATE", !.spec = stored, !.hooked = hooked]

LEMMA SubmittedAgain ==
  ASSUME NEW r, NEW spec, NEW h,
         r = [kind |-> r.kind, op |-> r.op, decodes |-> r.decodes, hooked |-> r.hooked,
              labels |-> r.labels, spec |-> r.spec]
  PROVE  [r EXCEPT !.op = "UPDATE", !.spec = spec, !.hooked = h] =
         [kind |-> r.kind, op |-> "UPDATE", decodes |-> r.decodes, hooked |-> h,
          labels |-> r.labels, spec |-> spec]
<1> DEFINE k == r.kind
           o == r.op
           d == r.decodes
           g == r.hooked
           l == r.labels
           s == r.spec
<1>1. r = [kind |-> k, op |-> o, decodes |-> d, hooked |-> g, labels |-> l, spec |-> s]
  OBVIOUS
<1> HIDE DEF k, o, d, g, l, s
<1>2. [r EXCEPT !.op = "UPDATE", !.spec = spec, !.hooked = h] =
      [kind |-> k, op |-> "UPDATE", decodes |-> d, hooked |-> h, labels |-> l, spec |-> spec]
  <2> DEFINE u == [r EXCEPT !.op = "UPDATE"]
             v == [u EXCEPT !.spec = spec]
  <2>1. u = [kind |-> k, op |-> "UPDATE", decodes |-> d, hooked |-> g, labels |-> l, spec |-> s]
    BY <1>1
  <2>2. [r EXCEPT !.op = "UPDATE", !.spec = spec, !.hooked = h] = [v EXCEPT !.hooked = h]
    OBVIOUS
  <2> HIDE DEF u
  <2>3. v = [kind |-> k, op |-> "UPDATE", decodes |-> d, hooked |-> g, labels |-> l, spec |-> spec]
    BY <2>1
  <2> HIDE DEF v
  <2> QED
    BY <2>2, <2>3
<1> QED
  BY <1>2 DEF k, d, l

LEMMA ResubmittedType ==
  ASSUME TypeOK
  PROVE  /\ IsRequest(Resubmitted)
         /\ Resubmitted.op = "UPDATE" /\ Resubmitted.spec = stored /\ Resubmitted.hooked = hooked
         /\ Resubmitted.kind = req.kind /\ Resubmitted.labels = req.labels
         /\ Resubmitted.decodes = req.decodes
<1>1. /\ req = [kind |-> req.kind, op |-> req.op, decodes |-> req.decodes, hooked |-> req.hooked,
                labels |-> req.labels, spec |-> req.spec]
      /\ IsLabels(req.labels) /\ req.decodes \in BOOLEAN
      /\ IsPodSpec(stored) /\ hooked \in BOOLEAN
  BY DEF TypeOK, IsRequest
<1>2. Resubmitted = [kind |-> req.kind, op |-> "UPDATE", decodes |-> req.decodes, hooked |-> hooked,
                     labels |-> req.labels, spec |-> stored]
  BY <1>1, SubmittedAgain DEF Resubmitted
<1> QED
  BY <1>1, <1>2 DEF IsRequest

LEMMA UpdateType == TypeOK /\ Update => TypeOK'
<1> SUFFICES ASSUME TypeOK, Update PROVE TypeOK'
  OBVIOUS
<1>1. /\ Handle(Resubmitted) /\ updates < MaxUpdates /\ updates' = updates + 1
      /\ UNCHANGED <<stored, hooked, node>>
  BY DEF Update, Resubmitted
<1>2. IsRequest(Resubmitted)
  BY ResubmittedType
<1>3. updates' \in 0 .. MaxUpdates
  BY <1>1, MaxUpdatesAssumption DEF TypeOK
<1> QED
  BY <1>1, <1>2, <1>3, HandleType DEF TypeOK

LEMMA CollectType == ASSUME TypeOK, Inv, NEW c \in Container, Collect(c) PROVE TypeOK'
<1>1. c \in Used(req.spec)
  BY DEF Collect, Inv, CallInv
<1>2. supports[req.spec.images[c]] \in Answers
  BY <1>1 DEF TypeOK, IsRequest, IsPodSpec, Used
<1>3. Supported(c) \subseteq UNION {{p.arch : p \in P} : P \in Answers}
  <2> DEFINE Archs(P) == {p.arch : p \in P}
  <2>1. Supported(c) \subseteq Archs(supports[req.spec.images[c]])
    BY DEF Supported, ImageArchitectures
  <2>2. Archs(supports[req.spec.images[c]]) \in {Archs(P) : P \in Answers}
    BY <1>2
  <2> HIDE DEF Archs
  <2>3. Supported(c) \subseteq UNION {Archs(P) : P \in Answers}
    BY <2>1, <2>2
  <2> QED
    BY <2>3 DEF Archs
<1>4. common' \subseteq UNION {{p.arch : p \in P} : P \in Answers}
  BY <1>3 DEF Collect, Supported, TypeOK
<1>5. call' \in [Container -> Calls]
  BY DEF Collect, TypeOK, Calls
<1> QED
  BY <1>4, <1>5 DEF Collect, TypeOK, apiVars

LEMMA DecideCases ==
  ASSUME Decide
  PROVE  /\ pc = "inspecting" /\ AllDone /\ pc' = "answered"
         /\ UNCHANGED <<supports, req, call, common, firstImage, apiVars>>
         /\ \/ /\ firstImage
               /\ resp' = Answer("allowed", FALSE, AddPodNodeMatchingLabels(req.labels, req.spec))
            \/ /\ ~firstImage /\ common = {}
               /\ resp' = Answer("denied", FALSE, req.spec)
            \/ /\ ~firstImage /\ common # {}
               /\ \E w \in BOOLEAN :
                    /\ w = (/\ Preference(req.labels).defined /\ ~Preference(req.labels).isDefault
                            /\ Preference(req.labels).arch \notin common)
                    /\ resp' = Answer("allowed", w,
                         AddPodNodeMatchingLabels(req.labels, Inject(req.spec, req.labels)))
BY DEF Decide, PatchResponse, Refuse, Respond, Answer

LEMMA DecideType == TypeOK /\ Decide => TypeOK'
<1> SUFFICES ASSUME TypeOK, Decide PROVE TypeOK'
  OBVIOUS
<1>1. IsPodSpec(req.spec) /\ IsLabels(req.labels)
  BY DEF TypeOK, IsRequest
<1>2. /\ IsPodSpec(AddPodNodeMatchingLabels(req.labels, req.spec))
      /\ IsPodSpec(AddPodNodeMatchingLabels(req.labels, Inject(req.spec, req.labels)))
  BY <1>1, AddLabelsSpec, InjectSpec
<1>3. (Preference(req.labels).defined /\ ~Preference(req.labels).isDefault
        /\ Preference(req.labels).arch \notin common) \in BOOLEAN
  OBVIOUS
<1>4. /\ resp'.verdict \in {"none", "allowed", "denied", "errored"}
      /\ resp'.warning \in BOOLEAN /\ IsPodSpec(resp'.spec)
  <2> DEFINE t == AddPodNodeMatchingLabels(req.labels, req.spec)
             u == AddPodNodeMatchingLabels(req.labels, Inject(req.spec, req.labels))
  <2>1. \/ resp' = Answer("allowed", FALSE, t) \/ resp' = Answer("denied", FALSE, req.spec)
        \/ \E w \in BOOLEAN : resp' = Answer("allowed", w, u)
    BY DecideCases
  <2> HIDE DEF t, u
  <2>2. resp'.verdict \in {"none", "allowed", "denied", "errored"} /\ resp'.warning \in BOOLEAN
    <3>1. CASE \E w \in BOOLEAN : resp' = Answer("allowed", w, u)
      <4>1. PICK w \in BOOLEAN : resp' = Answer("allowed", w, u)
        BY <3>1
      <4> QED
        BY <4>1 DEF Answer
    <3>2. CASE resp' = Answer("allowed", FALSE, t)
      BY <3>2 DEF Answer
    <3>3. CASE resp' = Answer("denied", FALSE, req.spec)
      BY <3>3 DEF Answer
    <3> QED
      BY <2>1, <3>1, <3>2, <3>3
  <2>3. resp'.spec = req.spec \/ resp'.spec = t \/ resp'.spec = u
    BY <2>1 DEF Answer
  <2>4. IsPodSpec(req.spec) /\ IsPodSpec(t) /\ IsPodSpec(u)
    BY <1>1, <1>2 DEF t, u
  <2>5. IsPodSpec(resp'.spec)
    BY <2>3, <2>4
  <2> QED
    BY <2>2, <2>5
<1>5. pc' = "answered"
  BY DecideCases
<1> QED
  BY <1>4, <1>5 DEF Decide, TypeOK, IsRequest, IsPodSpec, apiVars

LEMMA TypeInv == TypeOK /\ Inv /\ [Next]_vars => TypeOK'
<1> SUFFICES ASSUME TypeOK, Inv, [Next]_vars PROVE TypeOK'
  OBVIOUS
<1>1. CASE (\E r \in Requests : Create(r)) \/ Update
  BY <1>1, CreateType, UpdateType
<1>2. ASSUME NEW c \in Container, LookupSucceeds(c) \/ LookupFails(c) PROVE TypeOK'
  <2>1. call' \in [Container -> Calls]
    BY <1>2 DEF LookupSucceeds, LookupFails, TypeOK, Calls
  <2> QED
    BY <1>2, <2>1 DEF LookupSucceeds, LookupFails, TypeOK, apiVars
<1>3. ASSUME NEW c \in Container, Collect(c) PROVE TypeOK'
  BY <1>3, CollectType
<1>4. CASE Decide
  BY <1>4, DecideType
<1>5. CASE Reply \/ GiveUp
  BY <1>5 DEF Reply, GiveUp, TypeOK, IsRequest, handlerVars, apiVars
<1>6. CASE \E n \in Node : Bind(n)
  BY <1>6 DEF Bind, TypeOK, handlerVars
<1>7. CASE UNCHANGED vars
  BY <1>7 DEF vars, TypeOK, handlerVars, apiVars
<1> QED
  BY <1>1, <1>2, <1>3, <1>4, <1>5, <1>6, <1>7 DEF Next

LEMMA InitType == Init => TypeOK
<1> SUFFICES ASSUME Init PROVE TypeOK
  OBVIOUS
<1>1. IsRequest(req) /\ IsPodSpec(req.spec)
  BY RequestsAssumption DEF Init, IsRequest
<1>2. IsPodSpec(resp.spec) /\ IsPodSpec(stored)
  BY <1>1 DEF Init
<1>3. updates \in 0 .. MaxUpdates
  BY MaxUpdatesAssumption DEF Init
<1>4. call \in [Container -> Calls]
  BY DEF Init, NoCalls, Calls
<1>5. supports \in [Image \ {NoImage} -> Answers]
  BY DEF Init
<1>6. resp.verdict = "none" /\ resp.warning = FALSE
  BY DEF Init
<1>7. /\ pc = "idle" /\ common = {} /\ firstImage = TRUE /\ api = "none"
      /\ hooked = FALSE /\ node = NoNode
  BY DEF Init
<1> QED
  BY <1>1, <1>2, <1>3, <1>4, <1>5, <1>6, <1>7 DEF TypeOK

-----------------------------------------------------------------------------
(***************************************************************************)
(* What the theorems about placement need to know of the states before     *)
(* them.  RequestInv: only an update comes with an answer of the hook, an  *)
(* object is waited for while its request is handled, and only pods are    *)
(* bound.                                                                  *)
(***************************************************************************)
RequestInv ==
  /\ req.hooked => req.op = "UPDATE"
  /\ pc # "idle" /\ hooked => req.op = "UPDATE"
  /\ api = "waiting" => pc # "idle" /\ (node # NoNode => req.op = "UPDATE")
  /\ Ignored(req) => call = NoCalls
  /\ node # NoNode => req.kind = "Pod"
  /\ pc = "inspecting" => /\ ~Ignored(req) /\ req.decodes /\ req.spec.nodeName = NoNode
                          /\ ~PodSpecHasNodeArchitectureSelection(req.spec)

\* What the hook has answered for is what it would answer.
Treated(r, spec) ==
  /\ r.decodes
  /\ spec.nodeName # NoNode \/ MatchedKeys(r.labels) = {} \/ Carries(r.labels, spec)

HookedInv ==
  /\ req.hooked /\ ~Ignored(req) => Treated(req, req.spec)
  /\ hooked /\ req.kind \notin {"Pod", "Other"} => Treated(req, stored)

\* The answers of Handle: the specification as it came, with the labels, or inspected.
LeftAlone ==
  /\ resp.spec = req.spec /\ Received = {}
  /\ Ignored(req) \/ (req.decodes /\ req.spec.nodeName # NoNode)

OnlyLabelled ==
  /\ resp.spec = AddPodNodeMatchingLabels(req.labels, req.spec)
  /\ Received = {} /\ ~Ignored(req) /\ req.decodes /\ req.spec.nodeName = NoNode

Injected ==
  /\ resp.spec = AddPodNodeMatchingLabels(req.labels, Inject(req.spec, req.labels))
  /\ resp.warning = (/\ Preference(req.labels).defined /\ ~Preference(req.labels).isDefault
                     /\ Preference(req.labels).arch \notin common)
  /\ Received # {} /\ common = CommonTo(Received)
  /\ ~Ignored(req) /\ req.decodes /\ ~PodSpecHasNodeArchitectureSelection(req.spec)

AnswerInv ==
  pc = "answered" =>
    \/ resp.verdict = "errored" /\ ~Ignored(req) /\ ~req.decodes
    \/ resp.verdict = "denied" /\ ~PodSpecHasNodeArchitectureSelection(req.spec)
    \/ resp.verdict = "allowed" /\ (LeftAlone \/ OnlyLabelled \/ Injected)

\* Every image received supports the architectures of the nodes in S.
AllSupported(S) == \A n \in S : \A c \in Received : n[ArchKey] \in Supported(c)

PlacementInv ==
  hooked /\ OnlyArchTerm(req) =>
    /\ req.kind = "Pod" => AllSupported(Placement(stored))
    /\ AllSupported({n \in Node : n[NameField] = node})

IndInv == TypeOK /\ Inv /\ RequestInv /\ HookedInv /\ AnswerInv /\ PlacementInv

-----------------------------------------------------------------------------
LEMMA InitIndInv == Init => IndInv
<1> SUFFICES ASSUME Init PROVE IndInv
  OBVIOUS
<1>1. TypeOK /\ Inv
  BY InitType, InitInv
<1>2. req \in Requests /\ ~req.hooked
  BY RequestsAssumption DEF Init
<1>3. RequestInv
  BY <1>2 DEF Init, RequestInv
<1>4. HookedInv /\ AnswerInv /\ PlacementInv
  BY <1>2 DEF Init, HookedInv, AnswerInv, PlacementInv
<1> QED
  BY <1>1, <1>3, <1>4 DEF IndInv

\* Create and Update are Handle of a request that says where it comes from.
LEMMA Submission ==
  ASSUME TypeOK, RequestInv, HookedInv, (\E r \in Requests : Create(r)) \/ Update
  PROVE  \E r : /\ Handle(r) /\ IsRequest(r)
                /\ \/ ~r.hooked /\ hooked' = FALSE /\ node' = NoNode
                   \/ /\ r.op = "UPDATE" /\ r.spec = stored /\ r.hooked = hooked
                      /\ r.kind = req.kind /\ r.labels = req.labels /\ r.decodes = req.decodes
                      /\ UNCHANGED <<stored, hooked, node>>
<1>1. ASSUME NEW r \in Requests, Create(r)
      PROVE  Handle(r) /\ IsRequest(r) /\ ~r.hooked /\ hooked' = FALSE /\ node' = NoNode
  BY <1>1, RequestsAssumption DEF Create
<1>2. CASE Update
  <2>1. Handle(Resubmitted) /\ UNCHANGED <<stored, hooked, node>>
    BY <1>2 DEF Update, Resubmitted
  <2> QED
    BY <2>1, ResubmittedType
<1> QED
  BY <1>1, <1>2

LEMMA RequestStep == TypeOK /\ RequestInv /\ HookedInv /\ [Next]_vars => RequestInv'
<1> SUFFICES ASSUME TypeOK, RequestInv, HookedInv, [Next]_vars PROVE RequestInv'
  OBVIOUS
<1>1. CASE (\E r \in Requests : Create(r)) \/ Update
  <2>1. PICK r : /\ Handle(r) /\ IsRequest(r)
                 /\ \/ ~r.hooked /\ hooked' = FALSE /\ node' = NoNode
                    \/ /\ r.op = "UPDATE" /\ r.spec = stored /\ r.hooked = hooked
                       /\ r.kind = req.kind /\ r.labels = req.labels /\ r.decodes = req.decodes
                       /\ UNCHANGED <<stored, hooked, node>>
    BY <1>1, Submission
  <2>2. req' = r /\ pc' # "idle" /\ api' = "waiting"
    BY <2>1, HandleCases
  <2>3. Ignored(r) => call' = NoCalls
    BY <2>1, HandleCases
  <2>4. pc' = "inspecting" => /\ ~Ignored(r) /\ r.decodes /\ r.spec.nodeName = NoNode
                              /\ ~PodSpecHasNodeArchitectureSelection(r.spec)
    BY <2>1, HandleCases
  <2> QED
    BY <2>1, <2>2, <2>3, <2>4 DEF RequestInv, NoCalls
<1>2. CASE \E c \in Container : LookupSucceeds(c) \/ LookupFails(c) \/ Collect(c)
  <2>1. /\ UNCHANGED <<req, pc, resp, api, hooked, node>> /\ call # NoCalls
    BY <1>2 DEF LookupSucceeds, LookupFails, Collect, apiVars, NoCalls
  <2> QED
    BY <2>1 DEF RequestInv
<1>3. CASE Decide
  BY <1>3, DecideCases DEF RequestInv, apiVars, NoCalls
<1>4. CASE Reply
  BY <1>4 DEF RequestInv, Reply, apiVars, NoCalls
<1>5. CASE GiveUp
  BY <1>5 DEF RequestInv, GiveUp, handlerVars, NoCalls
<1>6. CASE \E n \in Node : Bind(n)
  BY <1>6 DEF RequestInv, Bind, handlerVars, NoCalls
<1>7. CASE UNCHANGED vars
  BY <1>7 DEF RequestInv, vars, handlerVars, apiVars, NoCalls
<1> QED
  BY <1>1, <1>2, <1>3, <1>4, <1>5, <1>6, <1>7 DEF Next

\* Handle answers at once with the request as it is or with its labels matched.
LEMMA HandleAnswer == ASSUME NEW r, Handle(r) PROVE AnswerInv'
<1>1. CASE pc' = "inspecting"
  BY <1>1 DEF AnswerInv
<1>2. CASE pc' = "answered" /\ call' = NoCalls
  <2> DEFINE t == AddPodNodeMatchingLabels(r.labels, r.spec)
  <2>1. Received' = {} /\ req' = r
    BY <1>2, HandleCases DEF Received, NoCalls
  <2>2. \/ resp' = Answer("allowed", FALSE, r.spec) /\ (Ignored(r) \/ (r.decodes /\ r.spec.nodeName # NoNode))
        \/ resp' = Answer("errored", FALSE, r.spec) /\ ~Ignored(r) /\ ~r.decodes
        \/ resp' = Answer("allowed", FALSE, t) /\ ~Ignored(r) /\ r.decodes /\ r.spec.nodeName = NoNode
    BY <1>2, HandleCases
  <2>3. CASE resp' = Answer("errored", FALSE, r.spec) /\ ~Ignored(r) /\ ~r.decodes
    BY <2>1, <2>3 DEF AnswerInv, Answer
  <2>4. CASE resp' = Answer("allowed", FALSE, r.spec) /\ (Ignored(r) \/ (r.decodes /\ r.spec.nodeName # NoNode))
    <3>1. LeftAlone'
      BY <2>1, <2>4 DEF LeftAlone, Answer
    <3> QED
      BY <2>4, <3>1 DEF AnswerInv, Answer
  <2>5. CASE resp' = Answer("allowed", FALSE, t) /\ ~Ignored(r) /\ r.decodes /\ r.spec.nodeName = NoNode
    <3>1. OnlyLabelled'
      BY <2>1, <2>5 DEF OnlyLabelled, Answer
    <3> QED
      BY <2>5, <3>1 DEF AnswerInv, Answer
  <2> QED
    BY <2>2, <2>3, <2>4, <2>5
<1> QED
  BY <1>1, <1>2, HandleCases

LEMMA DecideAnswer ==
  ASSUME Inv, RequestInv, Decide
  PROVE  AnswerInv'
<1>1. /\ UNCHANGED <<supports, req, call, common>> /\ pc' = "answered"
      /\ ~Ignored(req) /\ req.decodes /\ req.spec.nodeName = NoNode
      /\ ~PodSpecHasNodeArchitectureSelection(req.spec)
      /\ (firstImage <=> Received = {}) /\ common = CommonTo(Received)
  BY DecideCases DEF RequestInv, Inv, CommonIsIntersection
<1>2. Received' = Received /\ CommonTo(Received)' = CommonTo(Received)
  BY <1>1 DEF Received, CommonTo, Supported
<1> DEFINE t == AddPodNodeMatchingLabels(req.labels, req.spec)
           u == AddPodNodeMatchingLabels(req.labels, Inject(req.spec, req.labels))
<1>3. CASE firstImage /\ resp' = Answer("allowed", FALSE, t)
  <2>1. OnlyLabelled'
    BY <1>1, <1>2, <1>3 DEF OnlyLabelled, Answer
  <2> QED
    BY <1>3, <2>1 DEF AnswerInv, Answer
<1>4. CASE resp' = Answer("denied", FALSE, req.spec)
  BY <1>1, <1>4 DEF AnswerInv, Answer
<1>5. ASSUME ~firstImage,
             NEW w \in BOOLEAN,
             w = (/\ Preference(req.labels).defined /\ ~Preference(req.labels).isDefault
                  /\ Preference(req.labels).arch \notin common),
             resp' = Answer("allowed", w, u)
      PROVE  AnswerInv'
  <2>1. resp'.verdict = "allowed" /\ resp'.warning = w /\ resp'.spec = u
    BY <1>5 DEF Answer
  <2>2. Inject(req.spec, req.labels)' = Inject(req.spec, req.labels)
    BY <1>1 DEF Inject
  <2>3. resp'.spec = AddPodNodeMatchingLabels(req.labels', Inject(req.spec, req.labels)')
    BY <1>1, <2>1, <2>2
  <2>4. (resp.warning = (/\ Preference(req.labels).defined /\ ~Preference(req.labels).isDefault
                         /\ Preference(req.labels).arch \notin common))'
    BY <1>1, <1>5, <2>1
  <2>5. Injected'
    BY <1>1, <1>2, <1>5, <2>3, <2>4 DEF Injected
  <2> QED
    BY <2>1, <2>5 DEF AnswerInv
<1> QED
  BY <1>3, <1>4, <1>5, DecideCases

LEMMA AnswerStep == TypeOK /\ Inv /\ RequestInv /\ HookedInv /\ AnswerInv /\ [Next]_vars => AnswerInv'
<1> SUFFICES ASSUME TypeOK, Inv, RequestInv, HookedInv, AnswerInv, [Next]_vars PROVE AnswerInv'
  OBVIOUS
<1>1. CASE (\E r \in Requests : Create(r)) \/ Update
  BY <1>1, Submission, HandleAnswer
<1>2. CASE Decide
  BY <1>2, DecideAnswer
<1>3. CASE Reply
  BY <1>3 DEF Reply, AnswerInv
<1>4. ASSUME NEW c \in Container, Collect(c) PROVE AnswerInv'
  BY <1>4 DEF Collect, AnswerInv
<1>5. CASE /\ UNCHANGED <<supports, req, pc, common, resp>> /\ Received' = Received
  <2>1. /\ CommonTo(Received)' = CommonTo(Received)
        /\ Inject(req.spec, req.labels)' = Inject(req.spec, req.labels)
    BY <1>5 DEF CommonTo, Supported, Inject
  <2>2. LeftAlone => LeftAlone'
    BY <1>5 DEF LeftAlone
  <2>3. OnlyLabelled => OnlyLabelled'
    BY <1>5 DEF OnlyLabelled
  <2>4. Injected => Injected'
    BY <1>5, <2>1 DEF Injected
  <2> QED
    BY <1>5, <2>2, <2>3, <2>4 DEF AnswerInv
<1>6. ASSUME NEW c \in Container, LookupSucceeds(c) \/ LookupFails(c)
      PROVE  UNCHANGED <<supports, req, pc, common, resp>> /\ Received' = Received
  BY <1>6 DEF LookupSucceeds, LookupFails, Received, TypeOK
<1>7. CASE GiveUp \/ (\E n \in Node : Bind(n)) \/ UNCHANGED vars
  BY <1>5, <1>7 DEF GiveUp, Bind, vars, handlerVars, Received
<1> QED
  BY <1>1, <1>2, <1>3, <1>4, <1>5, <1>6, <1>7 DEF Next

\* What an admitted object is persisted as carries its labels, and is treated when it
\* is submitted again.
LEMMA AnswersAreTreated ==
  ASSUME TypeOK, AnswerInv, pc = "answered", resp.verdict = "allowed", ~Ignored(req)
  PROVE  Treated(req, resp.spec)
<1>1. IsPodSpec(req.spec) /\ IsLabels(req.labels) /\ IsPodSpec(Inject(req.spec, req.labels))
  BY InjectSpec DEF TypeOK, IsRequest
<1>2. CASE LeftAlone
  BY <1>2 DEF LeftAlone, Treated
<1>3. CASE OnlyLabelled
  BY <1>1, <1>3, LabelsAreCarried DEF OnlyLabelled, Treated
<1>4. CASE Injected
  BY <1>1, <1>4, LabelsAreCarried DEF Injected, Treated
<1> QED
  BY <1>2, <1>3, <1>4 DEF AnswerInv

LEMMA HookedStep ==
  TypeOK /\ RequestInv /\ HookedInv /\ AnswerInv /\ [Next]_vars => HookedInv'
<1> SUFFICES ASSUME TypeOK, RequestInv, HookedInv, AnswerInv, [Next]_vars PROVE HookedInv'
  OBVIOUS
<1>1. CASE (\E r \in Requests : Create(r)) \/ Update
  <2>1. PICK r : /\ Handle(r) /\ IsRequest(r)
                 /\ \/ ~r.hooked /\ hooked' = FALSE /\ node' = NoNode
                    \/ /\ r.op = "UPDATE" /\ r.spec = stored /\ r.hooked = hooked
                       /\ r.kind = req.kind /\ r.labels = req.labels /\ r.decodes = req.decodes
                       /\ UNCHANGED <<stored, hooked, node>>
    BY <1>1, Submission
  <2>2. req' = r
    BY <2>1, HandleCases
  <2>3. r.op = "UPDATE" /\ ~Ignored(r) => r.kind \notin {"Pod", "Other"}
    BY DEF Ignored
  <2>4. r.op = "UPDATE" /\ Ignored(r) => r.kind \in {"Pod", "Other"}
    BY DEF Ignored
  <2> QED
    BY <2>1, <2>2, <2>3, <2>4 DEF HookedInv, Treated
<1>2. CASE \E c \in Container : LookupSucceeds(c) \/ LookupFails(c) \/ Collect(c)
  BY <1>2 DEF LookupSucceeds, LookupFails, Collect, apiVars, HookedInv, Treated
<1>3. CASE Decide
  BY <1>3, DecideCases DEF apiVars, HookedInv, Treated
<1>4. CASE Reply
  <2>1. hooked' /\ api = "waiting" => resp.verdict = "allowed" /\ stored' = resp.spec
    BY <1>4 DEF Reply
  <2>2. req.kind \notin {"Pod", "Other"} => ~Ignored(req)
    BY DEF Ignored
  <2>3. req' = req /\ pc = "answered" /\ (api # "waiting" => UNCHANGED <<stored, hooked>>)
    BY <1>4 DEF Reply, apiVars
  <2> QED
    BY <2>1, <2>2, <2>3, AnswersAreTreated DEF HookedInv, Treated
<1>5. CASE GiveUp
  <2>1. req.kind \notin {"Pod", "Other"} => ~Ignored(req)
    BY DEF Ignored
  <2>2. req' = req /\ stored' = req.spec /\ hooked' = req.hooked
    BY <1>5 DEF GiveUp, handlerVars
  <2> QED
    BY <2>1, <2>2 DEF HookedInv, Treated
<1>6. CASE \E n \in Node : Bind(n)
  BY <1>6 DEF Bind, handlerVars, HookedInv, Treated
<1>7. CASE UNCHANGED vars
  BY <1>7 DEF vars, handlerVars, apiVars, HookedInv, Treated
<1> QED
  BY <1>1, <1>2, <1>3, <1>4, <1>5, <1>6, <1>7 DEF Next

\* A request that is not inspected receives nothing, and nobody runs what is not bound.
LEMMA NothingToSupport ==
  /\ RequestInv /\ Ignored(req) => Received = {}
  /\ \A S : Received = {} => AllSupported(S)
  /\ node = NoNode => AllSupported({n \in Node : n[NameField] = node})
BY NodesAssumption DEF RequestInv, NoCalls, Received, AllSupported

\* An answer of the hook sends the pod to nodes that support what was received.
LEMMA AnswersArePlaced ==
  ASSUME TypeOK, RequestInv, AnswerInv, pc = "answered", resp.verdict = "allowed", OnlyArchTerm(req)
  PROVE  AllSupported(Placement(resp.spec))
<1>1. CASE LeftAlone \/ OnlyLabelled
  BY <1>1, NothingToSupport DEF LeftAlone, OnlyLabelled
<1>2. CASE Injected
  <2> SUFFICES ASSUME NEW n \in Placement(resp.spec), NEW c \in Received
               PROVE  n[ArchKey] \in Supported(c)
    BY DEF AllSupported
  <2>1. n[ArchKey] \in common
    BY <1>2, InjectionConfines DEF Injected, TypeOK
  <2> QED
    BY <1>2, <2>1 DEF Injected, CommonTo
<1> QED
  BY <1>1, <1>2 DEF AnswerInv

\* The steps that leave the object, its request and what was received for it alone.
LEMMA PlacementUnchanged ==
  ASSUME PlacementInv, UNCHANGED <<supports, req, stored, hooked, node>>, Received' = Received
  PROVE  PlacementInv'
<1>1. \A c : Supported(c)' = Supported(c)
  BY DEF Supported
<1>2. \A S : AllSupported(S) => \A n \in S : \A c \in Received' : n[ArchKey] \in Supported(c)'
  BY <1>1 DEF AllSupported
<1>3. AllSupported(Placement(stored)) => AllSupported(Placement(stored))'
  BY <1>2 DEF AllSupported
<1>4. AllSupported({n \in Node : n[NameField] = node}) => AllSupported({n \in Node : n[NameField] = node})'
  BY <1>2 DEF AllSupported
<1> QED
  BY <1>3, <1>4 DEF PlacementInv

LEMMA PlacementStep == IndInv /\ RequestInv' /\ [Next]_vars => PlacementInv'
<1> SUFFICES ASSUME TypeOK, Inv, RequestInv, HookedInv, AnswerInv, PlacementInv,
                    RequestInv', [Next]_vars
             PROVE  PlacementInv'
  BY DEF IndInv
<1>1. CASE (\E r \in Requests : Create(r)) \/ Update
  <2>1. PICK r : /\ Handle(r) /\ IsRequest(r)
                 /\ \/ ~r.hooked /\ hooked' = FALSE /\ node' = NoNode
                    \/ /\ r.op = "UPDATE" /\ r.spec = stored /\ r.hooked = hooked
                       /\ r.kind = req.kind /\ r.labels = req.labels /\ r.decodes = req.decodes
                       /\ UNCHANGED <<stored, hooked, node>>
    BY <1>1, Submission
  <2>2. req' = r /\ (r.op = "UPDATE" /\ r.kind = "Pod" => Ignored(r))
    BY <2>1, HandleCases DEF Ignored
  <2>3. CASE ~hooked'
    BY <2>3 DEF PlacementInv
  <2>4. CASE r.op = "UPDATE" /\ r.kind = "Pod"
    <3>1. call' = NoCalls
      BY <2>1, <2>2, <2>4, HandleCases
    <3>2. Received' = {}
      BY <3>1 DEF Received, NoCalls
    <3> QED
      BY <3>2 DEF PlacementInv, AllSupported
  <2>5. CASE r.op = "UPDATE" /\ r.kind # "Pod"
    <3>1. req'.kind # "Pod" /\ node' = NoNode
      BY <2>2, <2>5 DEF RequestInv
    <3> QED
      BY <3>1, NodesAssumption DEF PlacementInv, AllSupported
  <2> QED
    BY <2>1, <2>3, <2>4, <2>5
<1>2. ASSUME NEW c \in Container, LookupSucceeds(c) \/ LookupFails(c) PROVE PlacementInv'
  <2>1. UNCHANGED <<supports, req, stored, hooked, node>>
    BY <1>2 DEF LookupSucceeds, LookupFails, apiVars
  <2>2. Received' = Received
    BY <1>2 DEF LookupSucceeds, LookupFails, Received, TypeOK
  <2> QED
    BY <2>1, <2>2, PlacementUnchanged
<1>3. ASSUME NEW c \in Container, Collect(c) PROVE PlacementInv'
  <2>1. UNCHANGED <<req, hooked, node>> /\ pc = "inspecting"
    BY <1>3 DEF Collect, apiVars
  <2>2. hooked => req.kind # "Pod"
    BY <2>1 DEF RequestInv, Ignored
  <2>3. hooked => node = NoNode
    BY <2>2 DEF RequestInv
  <2> QED
    BY <2>1, <2>2, <2>3, NodesAssumption DEF PlacementInv, AllSupported
<1>4. CASE Decide
  BY <1>4, DecideCases, PlacementUnchanged DEF apiVars, Received
<1>5. CASE Reply
  <2>1. UNCHANGED <<supports, req, call, node>> /\ Received' = Received
    BY <1>5 DEF Reply, Received, apiVars
  <2>2. CASE UNCHANGED <<stored, hooked>>
    BY <2>1, <2>2, PlacementUnchanged
  <2>3. CASE ~hooked'
    BY <2>3 DEF PlacementInv
  <2>4. CASE pc = "answered" /\ resp.verdict = "allowed" /\ stored' = resp.spec /\ api = "waiting"
    <3> SUFFICES ASSUME OnlyArchTerm(req)'
                 PROVE  /\ AllSupported(Placement(stored))'
                        /\ AllSupported({n \in Node : n[NameField] = node})'
      BY DEF PlacementInv
    <3>1. OnlyArchTerm(req)
      BY <2>1
    <3>2. AllSupported(Placement(resp.spec))
      BY <2>4, <3>1, AnswersArePlaced
    <3>3. \A c : Supported(c)' = Supported(c)
      BY <2>1 DEF Supported
    <3>4. AllSupported(Placement(stored))'
      BY <2>1, <2>4, <3>2, <3>3 DEF AllSupported
    <3>5. AllSupported({n \in Node : n[NameField] = node})
      <4>1. node = NoNode \/ Ignored(req)
        BY <2>4 DEF RequestInv, Ignored
      <4> QED
        BY <4>1, NothingToSupport
    <3>6. AllSupported({n \in Node : n[NameField] = node})'
      BY <2>1, <3>3, <3>5 DEF AllSupported
    <3> QED
      BY <3>4, <3>6
  <2> QED
    BY <1>5, <2>2, <2>3, <2>4 DEF Reply, apiVars
<1>6. CASE GiveUp
  <2>1. UNCHANGED <<req, node, call>> /\ hooked' = req.hooked
    BY <1>6 DEF GiveUp, handlerVars
  <2>2. hooked' /\ req.kind = "Pod" => Received' = {}
    BY <2>1, NothingToSupport DEF RequestInv, Ignored, Received
  <2>3. req.kind # "Pod" => node = NoNode
    BY DEF RequestInv
  <2> QED
    BY <2>1, <2>2, <2>3, NodesAssumption DEF PlacementInv, AllSupported
<1>7. ASSUME NEW n \in Node, Bind(n) PROVE PlacementInv'
  <2>1. /\ UNCHANGED <<supports, req, stored, hooked, call>> /\ Received' = Received
        /\ req.kind = "Pod" /\ n \in Placement(stored) /\ node' = n[NameField]
    BY <1>7 DEF Bind, handlerVars, Received
  <2>2. \A c : Supported(c)' = Supported(c)
    BY <2>1 DEF Supported
  <2>3. {m \in Node : m[NameField] = node'} = {n}
    BY <2>1, NodesAssumption
  <2>4. AllSupported(Placement(stored)) => /\ AllSupported(Placement(stored))'
                                           /\ AllSupported({m \in Node : m[NameField] = node})'
    BY <2>1, <2>2, <2>3 DEF AllSupported
  <2> QED
    BY <2>1, <2>4 DEF PlacementInv
<1>8. CASE UNCHANGED vars
  BY <1>8, PlacementUnchanged DEF vars, handlerVars, apiVars, Received
<1> QED
  BY <1>1, <1>2, <1>3, <1>4, <1>5, <1>6, <1>7, <1>8 DEF Next

LEMMA Inductive == Spec => []IndInv
<1>1. IndInv /\ [Next]_vars => IndInv'
  BY NextInv, TypeInv, RequestStep, HookedStep, AnswerStep, PlacementStep DEF IndInv
<1> QED
  BY InitIndInv, <1>1, PTL DEF Spec

-----------------------------------------------------------------------------
\* Handler, imageArchResult and admission.Response keep their types.
THEOREM TypeCorrect == Spec => []TypeOK
<1>1. IndInv => TypeOK
  BY DEF IndInv
<1> QED
  BY <1>1, Inductive, PTL

\* README "Pods are scheduled on nodes capable of executing all their images": wherever
\* the scheduler binds a pod that the hook has answered for, every image that the hook
\* could inspect runs there.
THEOREM AdmittedPodsRun == Spec => []ScheduledWhereInspectedImagesRun
<1>1. IndInv => ScheduledWhereInspectedImagesRun
  <2> SUFFICES ASSUME IndInv, hooked, OnlyArchTerm(req),
                      NEW n \in Node, n[NameField] = node, NEW c \in Received
               PROVE  Executes(n, req.spec.images[c])
    BY DEF ScheduledWhereInspectedImagesRun
  <2>1. n \in {m \in Node : m[NameField] = node}
    OBVIOUS
  <2>2. n[ArchKey] \in Supported(c)
    BY <2>1 DEF IndInv, PlacementInv, AllSupported
  <2> QED
    BY <2>2, SystemOSAssumption DEF Supported, ImageArchitectures, Executes
<1> QED
  BY <1>1, Inductive, PTL

LEMMA PreferenceNow == IndInv => PreferenceHonoured
<1> DEFINE labelled == PreferredLabel \in DOMAIN req.labels
           counts   == labelled /\ req.labels[PreferredLabel] # NoArch
                                /\ IsArchSupported(req.labels[PreferredLabel])
           wanted   == IF counts THEN req.labels[PreferredLabel] ELSE DefaultArch
           pref     == Preference(req.labels)
<1>1. pref.arch = wanted
  BY DEF Preference
<1>2. /\ pref.defined <=> labelled \/ wanted # NoArch
      /\ pref.isDefault <=> ~counts /\ DefaultArch # NoArch
  BY DEF Preference
<1>3. IndInv => PreferenceHonoured
  <2> SUFFICES ASSUME IndInv, pc = "answered", resp.verdict = "allowed", Received # {},
                      ArchKey \notin MatchedKeys(req.labels)
               PROVE  IF wanted \in CommonTo(Received) /\ (labelled \/ wanted # NoArch)
                      THEN /\ \A n \in Placement(resp.spec) : n[ArchKey] = wanted
                           /\ ~resp.warning
                      ELSE resp.warning = (labelled /\ (counts \/ DefaultArch = NoArch))
    BY DEF PreferenceHonoured
  <2>1. Injected
    BY DEF IndInv, AnswerInv, LeftAlone, OnlyLabelled
  <2>2. IsRequest(req) /\ common = CommonTo(Received)
    BY <2>1 DEF IndInv, TypeOK, Injected
  <2>3. /\ resp.spec = AddPodNodeMatchingLabels(req.labels, Inject(req.spec, req.labels))
        /\ resp.warning = (pref.defined /\ ~pref.isDefault /\ pref.arch \notin common)
    BY <2>1 DEF Injected
  <2>4. CASE wanted \in CommonTo(Received) /\ (labelled \/ wanted # NoArch)
    <3>1. Preferred(req.labels)
      BY <1>1, <1>2, <2>2, <2>4 DEF Preferred
    <3>2. \A n \in Placement(resp.spec) : n[ArchKey] = pref.arch
      BY <2>2, <2>3, <3>1, InjectionPrefers
    <3> HIDE DEF wanted, pref
    <3> QED
      BY <1>1, <2>2, <2>3, <2>4, <3>2
  <2>5. CASE ~(wanted \in CommonTo(Received) /\ (labelled \/ wanted # NoArch))
    <3>1. wanted # NoArch <=> counts \/ DefaultArch # NoArch
      OBVIOUS
    <3> HIDE DEF wanted, pref, counts, labelled
    <3>2. counts => labelled
      BY DEF counts
    <3>3. resp.warning <=> (labelled /\ (counts \/ DefaultArch = NoArch))
      BY <1>1, <1>2, <2>2, <2>3, <2>5, <3>1, <3>2
    <3> QED
      BY <2>3, <2>5, <3>3 DEF counts, labelled
  <2> QED
    BY <2>4, <2>5
<1> QED
  BY <1>3

\* README "Hinting preferred and supported target architectures": whose preference
\* counts, when it is imposed and when the user is warned.
THEOREM PreferenceIsHonoured == Spec => []PreferenceHonoured
BY PreferenceNow, Inductive, PTL

\* hook.go:391-420: of the nodes that were open to a pod without a label to match and execute
\* all its images, those are left that have the preferred architecture, if all the images
\* inspected have it, and all of them if not: it is stranded just when the preference
\* is imposed and none of them has it.
THEOREM StrandedOnlyByPreference == Spec => []OnlyPreferenceTakesNodes
<1> DEFINE pref    == Preference(req.labels)
           imposed == pref.defined /\ pref.arch \in CommonTo(Received)
<1>1. IndInv => OnlyPreferenceTakesNodes
  <2> SUFFICES ASSUME IndInv, pc = "answered", resp.verdict = "allowed",
                      MatchedKeys(req.labels) = {}, NEW n \in Suitable
               PROVE  n \in Placement(resp.spec) <=> (imposed => n[ArchKey] = pref.arch)
    BY DEF OnlyPreferenceTakesNodes
  <2>1. IsPodSpec(req.spec) /\ IsLabels(req.labels) /\ IsPodSpec(Inject(req.spec, req.labels))
    BY InjectSpec DEF IndInv, TypeOK, IsRequest
  <2>2. /\ n \in Placement(req.spec) /\ IsArchSupported(n[ArchKey])
        /\ \A c \in Used(req.spec) : Executes(n, req.spec.images[c])
    BY DEF Suitable
  <2>3. ASSUME imposed => n[ArchKey] = pref.arch PROVE n \in Placement(resp.spec)
    <3>1. CASE LeftAlone \/ OnlyLabelled
      BY <2>1, <2>2, <3>1, AddLabelsSpec DEF LeftAlone, OnlyLabelled
    <3>2. CASE Injected
      <4>1. Received # {} /\ Received \subseteq Used(req.spec) /\ common = CommonTo(Received)
        BY <3>2 DEF IndInv, Inv, CallInv, Injected
      <4>2. n \in Node
        BY <2>2 DEF Placement
      <4>3. ASSUME NEW c \in Received PROVE n[ArchKey] \in Supported(c)
        BY <2>2, <4>1, <4>2, <4>3, SystemOSAssumption DEF Executes, Supported, ImageArchitectures
      <4>4. n[ArchKey] \in common
        BY <4>1, <4>3 DEF CommonTo
      <4>5. n \in Placement(Inject(req.spec, req.labels))
        BY <2>1, <2>2, <2>3, <4>1, <4>4, InjectionKeeps DEF Preferred
      <4>6. resp.spec = Inject(req.spec, req.labels)
        BY <2>1, <3>2, AddLabelsSpec DEF Injected
      <4> QED
        BY <4>5, <4>6
    <3> QED
      BY <3>1, <3>2 DEF IndInv, AnswerInv
  <2>4. ASSUME n \in Placement(resp.spec), imposed PROVE n[ArchKey] = pref.arch
    <3>1. Received # {}
      BY <2>4 DEF CommonTo
    <3>2. ArchKey \notin MatchedKeys(req.labels)
      OBVIOUS
    <3> DEFINE labelled == PreferredLabel \in DOMAIN req.labels
               counts   == labelled /\ req.labels[PreferredLabel] # NoArch
                                    /\ IsArchSupported(req.labels[PreferredLabel])
               wanted   == IF counts THEN req.labels[PreferredLabel] ELSE DefaultArch
    <3>3. pref.arch = wanted /\ (pref.defined <=> labelled \/ wanted # NoArch)
      BY DEF Preference
    <3>4. PreferenceHonoured
      BY PreferenceNow
    <3>5. wanted \in CommonTo(Received) /\ (labelled \/ wanted # NoArch) =>
            \A m \in Placement(resp.spec) : m[ArchKey] = wanted
      BY <3>1, <3>2, <3>4 DEF PreferenceHonoured
    <3> HIDE DEF wanted, labelled, pref
    <3> QED
      BY <2>4, <3>3, <3>5
  <2> QED
    BY <2>3, <2>4
<1> QED
  BY <1>1, Inductive, PTL

\* hook.go:305: an object that selects an architecture may be admitted any number of
\* times and keeps its placement.
THEOREM AdmittedAgainAsBefore == Spec => []ReadmissionKeepsPlacement
<1>1. IndInv => ReadmissionKeepsPlacement
  <2> SUFFICES ASSUME IndInv, pc = "answered", req.hooked,
                      PodSpecHasNodeArchitectureSelection(req.spec)
               PROVE  resp.verdict = "allowed" /\ Placement(resp.spec) = Placement(req.spec)
    BY DEF ReadmissionKeepsPlacement
  <2>1. ~Ignored(req) => Treated(req, req.spec)
    BY DEF IndInv, HookedInv
  <2>2. resp.verdict = "allowed" /\ (LeftAlone \/ OnlyLabelled)
    <3>1. \/ ~Ignored(req) /\ ~req.decodes
          \/ ~PodSpecHasNodeArchitectureSelection(req.spec)
          \/ resp.verdict = "allowed" /\ (LeftAlone \/ OnlyLabelled)
      BY DEF IndInv, AnswerInv, Injected
    <3>2. ~Ignored(req) => req.decodes
      BY <2>1 DEF Treated
    <3> QED
      BY <3>1, <3>2
  <2>3. CASE OnlyLabelled
    <3>1. IsPodSpec(req.spec) /\ IsLabels(req.labels)
      BY DEF IndInv, TypeOK, IsRequest
    <3>2. MatchedKeys(req.labels) = {} \/ Carries(req.labels, req.spec)
      BY <2>1, <2>3 DEF OnlyLabelled, Treated
    <3>3. Placement(AddPodNodeMatchingLabels(req.labels, req.spec)) = Placement(req.spec)
      BY <3>1, <3>2, CarriedLabelsChangeNothing
    <3> QED
      BY <2>2, <2>3, <3>3 DEF OnlyLabelled
  <2> QED
    BY <2>2, <2>3 DEF LeftAlone
<1> QED
  BY <1>1, Inductive, PTL

-----------------------------------------------------------------------------
(***************************************************************************)
(* Whether an admitted pod selects an architecture, which is what the      *)
(* controller looks at (pod.go:152).                                       *)
(***************************************************************************)
\* Every image in use has its goroutine, and without a result from any they all failed.
SelectionInv ==
  /\ pc = "inspecting" => \A c \in Used(req.spec) : call[c] # "none"
  /\ /\ pc = "answered" /\ resp.verdict = "allowed" /\ Received = {}
     /\ ~Ignored(req) /\ req.spec.nodeName = NoNode
     => PodSpecHasNodeArchitectureSelection(req.spec) \/ \A c \in Used(req.spec) : call[c] = "failed"

\* hook.go:297-350, 379-435: a pod that is yet to be scheduled is let through without
\* a selection only when none of its images could be inspected.
SelectsUnlessAllFail ==
  /\ pc = "answered" /\ resp.verdict = "allowed"
  /\ ~Ignored(req) /\ req.spec.nodeName = NoNode
  => PodSpecHasNodeArchitectureSelection(resp.spec) \/ \A c \in Used(req.spec) : call[c] = "failed"

LEMMA SelectionStep == TypeOK /\ RequestInv /\ HookedInv /\ SelectionInv /\ [Next]_vars => SelectionInv'
<1> SUFFICES ASSUME TypeOK, RequestInv, HookedInv, SelectionInv, [Next]_vars PROVE SelectionInv'
  OBVIOUS
<1>1. CASE (\E r \in Requests : Create(r)) \/ Update
  <2>1. PICK r : Handle(r)
    BY <1>1, Submission
  <2>2. req' = r
    BY <2>1, HandleCases
  <2>3. pc' = "inspecting" => \A c \in Used(r.spec) : call'[c] # "none"
    BY <2>1, HandleCases DEF Used
  <2>4. ~Ignored(r) /\ resp'.verdict = "allowed" => AlreadyPlaced(r) \/ StartLookups(r)
    <3>1. DecodeFails(r) => resp'.verdict = "errored"
      BY DEF DecodeFails, Refuse, Respond
    <3>2. Skip(r) => Ignored(r)
      BY DEF Skip
    <3> QED
      BY <2>1, <3>1, <3>2 DEF Handle
  <2>5. pc' = "answered" /\ r.spec.nodeName = NoNode /\ (AlreadyPlaced(r) \/ StartLookups(r))
          => PodSpecHasNodeArchitectureSelection(r.spec)
    BY DEF AlreadyPlaced, StartLookups
  <2> QED
    BY <2>2, <2>3, <2>4, <2>5 DEF SelectionInv
<1>2. ASSUME NEW c \in Container, LookupSucceeds(c) \/ LookupFails(c) PROVE SelectionInv'
  <2>1. /\ UNCHANGED <<req, pc, resp>> /\ call[c] = "calling" /\ call'[c] \in {"sending", "failed"}
        /\ \A d \in Container : d # c => call'[d] = call[d]
        /\ Received' = Received
    BY <1>2 DEF LookupSucceeds, LookupFails, TypeOK, Received
  <2>2. \A d \in Used(req.spec) : /\ call[d] # "none" => call'[d] # "none"
                                  /\ call[d] = "failed" => call'[d] = "failed"
    BY <2>1 DEF Used
  <2> QED
    BY <2>1, <2>2 DEF SelectionInv
<1>3. ASSUME NEW c \in Container, Collect(c) PROVE SelectionInv'
  <2>1. /\ UNCHANGED <<req, pc>> /\ pc = "inspecting" /\ call'[c] = "received"
        /\ \A d \in Container : d # c => call'[d] = call[d]
    BY <1>3 DEF Collect, TypeOK
  <2> QED
    BY <2>1 DEF SelectionInv, Used
<1>4. CASE Decide
  <2>1. /\ UNCHANGED <<req, call>> /\ pc = "inspecting" /\ pc' = "answered" /\ AllDone
    BY <1>4, DecideCases
  <2>2. Received' = Received
    BY <2>1 DEF Received
  <2>3. Received = {} => \A c \in Used(req.spec) : call[c] = "failed"
    BY <2>1 DEF Received, AllDone, SelectionInv, Used
  <2> QED
    BY <2>1, <2>2, <2>3 DEF SelectionInv
<1>5. CASE Reply
  BY <1>5 DEF Reply, SelectionInv
<1>6. CASE GiveUp \/ (\E n \in Node : Bind(n)) \/ UNCHANGED vars
  <2>1. UNCHANGED <<req, pc, call, resp>>
    BY <1>6 DEF GiveUp, Bind, vars, handlerVars
  <2>2. Received' = Received
    BY <2>1 DEF Received
  <2> QED
    BY <2>1, <2>2 DEF SelectionInv
<1> QED
  BY <1>1, <1>2, <1>3, <1>4, <1>5, <1>6 DEF Next

LEMMA LabelsKeepSelection ==
  ASSUME NEW spec, IsPodSpec(spec), NEW labels, IsLabels(labels),
         PodSpecHasNodeArchitectureSelection(spec)
  PROVE  PodSpecHasNodeArchitectureSelection(AddPodNodeMatchingLabels(labels, spec))
<1> DEFINE s == AddPodNodeMatchingLabels(labels, spec)
<1>1. /\ MatchedKeys(labels) = {} => s = spec
      /\ spec.nodeSelector = NoSelector /\ MatchedKeys(labels) # {} =>
           s.terms = Extended(spec.terms, MatchingTerms(labels))
      /\ spec.nodeSelector # NoSelector =>
           /\ s.nodeSelector # NoSelector /\ s.terms = spec.terms
           /\ SelectorKeys(s) = SelectorKeys(spec) \cup MatchedKeys(labels)
  BY AddLabelsSpec
<1> HIDE DEF s
<1>2. SelectorKeys(spec) \subseteq SelectorKeys(s)
  BY <1>1 DEF SelectorKeys
<1>3. TermKeys(spec) \subseteq TermKeys(s)
  <2>1. CASE spec.nodeSelector = NoSelector /\ MatchedKeys(labels) # {}
    <3>1. \A i \in DOMAIN spec.terms : i \in DOMAIN s.terms /\ s.terms[i] = spec.terms[i]
      BY <1>1, <2>1, MatchingTermsSeq, AppendTerms DEF IsPodSpec
    <3> QED
      BY <3>1 DEF TermKeys
  <2> QED
    BY <1>1, <2>1 DEF TermKeys
<1> QED
  BY <1>2, <1>3 DEF PodSpecHasNodeArchitectureSelection, s

LEMMA InjectionSelects ==
  ASSUME NEW spec, IsPodSpec(spec), NEW labels, IsLabels(labels)
  PROVE  PodSpecHasNodeArchitectureSelection(Inject(spec, labels))
<1> DEFINE s == Inject(spec, labels)
<1>1. /\ Preferred(labels) => SelectorKeys(s) = SelectorKeys(spec) \cup {ArchKey}
      /\ ~Preferred(labels) => s.terms = Extended(spec.terms, <<{Requirement(ArchKey, common)}>>)
  BY InjectSpec
<1> HIDE DEF s
<1>2. CASE Preferred(labels)
  BY <1>1, <1>2 DEF PodSpecHasNodeArchitectureSelection, s
<1>3. CASE ~Preferred(labels)
  <2> DEFINE t == {Requirement(ArchKey, common)}
  <2>1. IsSequence(<<t>>) /\ DOMAIN <<t>> = {1} /\ <<t>>[1] = t
    BY OneTerm
  <2>2. \E i \in DOMAIN s.terms : s.terms[i] = t
    BY <1>1, <1>3, <2>1, AppendTerms DEF IsPodSpec
  <2>3. Requirement(ArchKey, common) \in t /\ Requirement(ArchKey, common).key = ArchKey
    BY DEF Requirement
  <2> HIDE DEF t
  <2>4. ArchKey \in TermKeys(s)
    BY <2>2, <2>3 DEF TermKeys
  <2> QED
    BY <2>4 DEF PodSpecHasNodeArchitectureSelection, s
<1> QED
  BY <1>2, <1>3

THEOREM AdmittedPodsSelect == Spec => []SelectsUnlessAllFail
<1>1. Init => SelectionInv
  BY DEF Init, SelectionInv
<1>2. IndInv /\ SelectionInv /\ [Next]_vars => SelectionInv'
  BY SelectionStep DEF IndInv
<1>3. IndInv /\ SelectionInv => SelectsUnlessAllFail
  <2> SUFFICES ASSUME IndInv, SelectionInv, pc = "answered", resp.verdict = "allowed",
                      ~Ignored(req), req.spec.nodeName = NoNode
               PROVE  \/ PodSpecHasNodeArchitectureSelection(resp.spec)
                      \/ \A c \in Used(req.spec) : call[c] = "failed"
    BY DEF SelectsUnlessAllFail
  <2>1. IsPodSpec(req.spec) /\ IsLabels(req.labels) /\ IsPodSpec(Inject(req.spec, req.labels))
    BY InjectSpec DEF IndInv, TypeOK, IsRequest
  <2>2. OnlyLabelled \/ Injected
    BY DEF IndInv, AnswerInv, LeftAlone
  <2>3. CASE OnlyLabelled
    BY <2>1, <2>3, LabelsKeepSelection DEF OnlyLabelled, SelectionInv
  <2>4. CASE Injected
    BY <2>1, <2>4, LabelsKeepSelection, InjectionSelects DEF Injected
  <2> QED
    BY <2>2, <2>3, <2>4
<1> QED
  BY <1>1, <1>2, <1>3, Inductive, PTL DEF Spec

-----------------------------------------------------------------------------
\* hook.go:391-456: the images that run are those that were submitted.
ImagesKept == pc = "answered" /\ resp.verdict = "allowed" => resp.spec.images = req.spec.images

THEOREM ImagesAreKept == Spec => []ImagesKept
<1>1. IndInv => ImagesKept
  <2> SUFFICES ASSUME IndInv, pc = "answered", resp.verdict = "allowed"
               PROVE  resp.spec.images = req.spec.images
    BY DEF ImagesKept
  <2>1. CASE LeftAlone
    BY <2>1 DEF LeftAlone
  <2>2. IsPodSpec(req.spec) /\ IsLabels(req.labels)
    BY DEF IndInv, TypeOK, IsRequest
  <2>3. CASE OnlyLabelled
    BY <2>2, <2>3, AddLabelsSpec DEF OnlyLabelled
  <2>4. CASE Injected
    BY <2>2, <2>4, InjectSpec, AddLabelsSpec DEF Injected
  <2> QED
    BY <2>1, <2>3, <2>4 DEF IndInv, AnswerInv
<1> QED
  BY <1>1, Inductive, PTL

=============================================================================
