---------------------------- MODULE ListArchsProofs ----------------------------
(***************************************************************************)
(* What one ListArchs answers and in which order it goes through its       *)
(* credentials (ArchListing), and which credentials it is offered          *)
(* (CredentialSources), for any image, any list of manifests and any       *)
(* surroundings.                                                           *)
(***************************************************************************)
EXTENDS ArchListing, CredentialSources,
        WellFoundedInduction, SequenceTheorems, FiniteSetTheorems, TLAPS

\* Every set of natural numbers that is not empty has a least element.
LEMMA LeastNumber ==
  ASSUME NEW T \in SUBSET Nat, T # {}
  PROVE  \E m \in T : \A n \in T : m <= n
<1> DEFINE R == {ss \in Nat \X Nat : ss[1] < ss[2]}
<1>1. IsWellFoundedOn(R, Nat)
  BY NatLessThanWellFounded DEF OpToRel
<1>2. \A m, n \in Nat : m < n => <<m, n>> \in R
  OBVIOUS
<1> HIDE DEF R
<1>3. PICK m \in T : \A n \in T : <<n, m>> \notin R
  BY <1>1, WFMin
<1>4. \A n \in T : m \in Nat /\ n \in Nat /\ ~(n < m)
  BY <1>2, <1>3
<1>5. \A n \in T : m <= n
  BY <1>4
<1> QED
  BY <1>5

-----------------------------------------------------------------------------
(***************************************************************************)
(* ArchListing: the answer and the order of the credentials.               *)
(***************************************************************************)
\* While ListArchs runs and its caller waits, the authenticators are one candidate ahead
\* of it; what they offer is a candidate, and the channel closes after the last.
OfferInv ==
  /\ ~expired /\ pc # "returned" => ~ctxDone /\ offer = auth + 1
  /\ apc = "offering" => offer \in DOMAIN Candidates
  /\ apc = "closed" => offer = Len(Candidates) + 1
  /\ pc \in {"fetching", "collecting"} => auth \in DOMAIN Candidates
  /\ pc # "returned" => ~answer.err

\* Each goroutine of a list ends as the registry has it, and what was collected is what
\* they delivered.
FetchInv ==
  /\ pc \in {"receiving", "fetching"} => \A m \in Manifest : fetch[m] = "none"
  /\ \A m \in Manifest : /\ fetch[m] \in {"found", "delivered"} => m \notin image.missing
                         /\ fetch[m] = "skipped" => m \in image.missing
  /\ pc = "collecting" =>
       /\ image.list
       /\ \A m \in Manifest : fetch[m] # "rejected" /\ (fetch[m] = "none" <=> m \notin Listed)
       /\ platforms = {image.platforms[m] : m \in {n \in Manifest : fetch[n] = "delivered"}}

Inv == TypeOK /\ OfferInv /\ FetchInv /\ AnswerIsWhatExists /\ NoCredentialPassedOver

\* login.go: the next authenticator starts where the candidates of this one end.
LEMMA NextProviderType ==
  ASSUME NEW i \in DOMAIN Candidates
  PROVE  NextProvider(i) \in 1 .. Len(Candidates) + 1
<1>1. Len(Candidates) \in Nat /\ DOMAIN Candidates = 1 .. Len(Candidates)
  BY CandidatesAssumption, LenProperties
<1> DEFINE T == {j \in i + 1 .. Len(Candidates) + 1 :
                   j \in DOMAIN Candidates => Provider(j) # Provider(i)}
<1>2. T \in SUBSET Nat /\ Len(Candidates) + 1 \in T
  BY <1>1
<1> HIDE DEF T
<1>3. PICK j \in T : \A k \in T : j <= k
  BY <1>2, LeastNumber
<1>4. j \in i + 1 .. Len(Candidates) + 1 /\ (j \in DOMAIN Candidates => Provider(j) # Provider(i))
  BY <1>3 DEF T
<1>5. ASSUME NEW k \in i + 1 .. j - 1 PROVE Provider(k) = Provider(i)
  <2>1. k \notin T
    BY <1>1, <1>3, <1>4, <1>5
  <2> QED
    BY <1>1, <1>4, <1>5, <2>1 DEF T
<1> QED
  BY <1>1, <1>4, <1>5 DEF NextProvider

\* Platforms of listed manifests are known, and so is what a listing may answer.
LEMMA KnownPlatforms ==
  ASSUME image \in Images
  PROVE  /\ Default \in Known
         /\ [arch |-> image.arch, os |-> ""] \in Known
         /\ Listed \subseteq Manifest
         /\ \A m \in Listed : image.platforms[m] \in Known
<1>1. Listed \subseteq DOMAIN image.platforms
  BY DEF Listed
<1>2. ASSUME NEW m \in DOMAIN image.platforms PROVE image.platforms[m] \in Known
  <2> DEFINE Of(i) == {i.platforms[n] : n \in DOMAIN i.platforms}
  <2>1. image.platforms[m] \in Of(image)
    OBVIOUS
  <2>2. Of(image) \in {Of(i) : i \in Images}
    OBVIOUS
  <2> QED
    BY <2>1, <2>2, Zenon DEF Known, OfLists
<1>3. DOMAIN image.platforms \subseteq Manifest
  BY ImagesAssumption
<1>4. Default \in Known /\ [arch |-> image.arch, os |-> ""] \in Known
  BY DEF Known, OfManifests
<1> QED
  BY <1>1, <1>2, <1>3, <1>4

LEMMA InitInv == Init => Inv
<1> SUFFICES ASSUME Init PROVE Inv
  OBVIOUS
<1>1. Len(Candidates) \in Nat
  BY CandidatesAssumption, LenProperties
<1>2. TypeOK
  <2>1. fetch \in [Manifest -> {"none", "fetching", "found", "failed",
                               "skipped", "delivered", "rejected"}]
    BY DEF Init
  <2>2. offer \in 1 .. Len(Candidates) + 1 /\ auth \in 0 .. Len(Candidates)
    BY <1>1 DEF Init
  <2>3. answer.err \in BOOLEAN /\ answer.platforms \subseteq Known
    BY DEF Init, NoAnswer
  <2> QED
    BY <2>1, <2>2, <2>3 DEF Init, TypeOK
<1>3. OfferInv
  BY DEF Init, OfferInv, NoAnswer
<1>4. FetchInv
  BY DEF Init, FetchInv
<1>5. AnswerIsWhatExists /\ NoCredentialPassedOver
  BY DEF Init, AnswerIsWhatExists, Answered, NoCredentialPassedOver, NoAnswer
<1> QED
  BY <1>2, <1>3, <1>4, <1>5 DEF Inv

-----------------------------------------------------------------------------
\* The authenticators' goroutine: what it offers, and, once the call has ended, whom it
\* asks next, is a candidate; while the caller waits it does not run ahead.
LEMMA AuthenticateInv == Inv /\ Authenticate => Inv'
<1> SUFFICES ASSUME Inv, Authenticate PROVE Inv'
  OBVIOUS
<1>1. Len(Candidates) \in Nat /\ DOMAIN Candidates = 1 .. Len(Candidates)
  BY CandidatesAssumption, LenProperties
<1>2. UNCHANGED <<image, ctxDone, callerVars, expired>>
  BY DEF Authenticate, Offer, ExecFails, Abandon, CloseCandidates
<1>3. /\ offer' \in 1 .. Len(Candidates) + 1
      /\ apc' \in {"preparing", "offering", "closed"}
      /\ apc' = "offering" => offer' \in DOMAIN Candidates
      /\ apc' = "closed" => offer' = Len(Candidates) + 1
      /\ ~ctxDone => offer' = offer
  <2>1. CASE Offer \/ CloseCandidates
    BY <2>1, <1>1 DEF Offer, CloseCandidates, Inv, TypeOK, OfferInv
  <2>2. CASE ExecFails \/ Abandon
    <3>1. offer \in DOMAIN Candidates
      BY <2>2 DEF ExecFails, Abandon, Inv, OfferInv
    <3> QED
      BY <2>2, <3>1, NextProviderType DEF ExecFails, Abandon, Move
  <2> QED
    BY <2>1, <2>2 DEF Authenticate
<1>4. TypeOK'
  BY <1>2, <1>3 DEF Inv, TypeOK, callerVars
<1>5. OfferInv'
  BY <1>2, <1>3 DEF Inv, OfferInv, callerVars
<1>6. FetchInv'
  BY <1>2 DEF Inv, FetchInv, callerVars, Listed, Usable
<1>7. AnswerIsWhatExists'
  BY <1>2 DEF Inv, AnswerIsWhatExists, Answered, Available, Listed, Usable, callerVars
<1>8. NoCredentialPassedOver'
  BY <1>2 DEF Inv, NoCredentialPassedOver, callerVars
<1> QED
  BY <1>4, <1>5, <1>6, <1>7, <1>8 DEF Inv

\* The caller takes a candidate, fails to fetch with it, or has no more to take.
LEMMA CandidateInv == Inv /\ (Receive \/ NoMoreCandidates \/ FetchFails) => Inv'
<1> SUFFICES ASSUME Inv, Receive \/ NoMoreCandidates \/ FetchFails PROVE Inv'
  OBVIOUS
<1> USE DEF Inv
<1>1. Len(Candidates) \in Nat /\ DOMAIN Candidates = 1 .. Len(Candidates)
  BY CandidatesAssumption, LenProperties
<1>2. CASE Receive
  <2>1. TypeOK'
    BY <1>1, <1>2 DEF Receive, Move, TypeOK, OfferInv
  <2>2. OfferInv'
    BY <1>1, <1>2 DEF Receive, Move, TypeOK, OfferInv
  <2>3. FetchInv'
    BY <1>2 DEF Receive, FetchInv
  <2>4. AnswerIsWhatExists'
    BY <1>2 DEF Receive, AnswerIsWhatExists, Answered
  <2>5. NoCredentialPassedOver'
    <3> SUFFICES ASSUME ~expired
                 PROVE  refused' = 1 .. auth' - 1 /\ pc' = "fetching" /\ ~answer.err'
      BY <1>2 DEF Receive, NoCredentialPassedOver
    <3>1. auth' = auth + 1 /\ auth \in Nat
      BY <1>1, <1>2 DEF Receive, TypeOK, OfferInv
    <3>2. refused = 1 .. auth
      BY <1>2 DEF Receive, NoCredentialPassedOver
    <3> QED
      BY <1>2, <3>1, <3>2 DEF Receive, OfferInv
  <2> QED
    BY <2>1, <2>2, <2>3, <2>4, <2>5
<1>3. CASE NoMoreCandidates
  <2>0. ~expired => auth = Len(Candidates)
    <3>1. Len(Candidates) \in Nat
      BY <1>1
    <3> QED
      BY <3>1, <1>3 DEF NoMoreCandidates, TypeOK, OfferInv
  <2> USE DEF NoMoreCandidates, Return, Failed, authVars
  <2>1. TypeOK' /\ OfferInv'
    BY <1>3 DEF TypeOK, OfferInv
  <2>2. FetchInv'
    BY <1>3 DEF FetchInv
  <2>3. AnswerIsWhatExists'
    BY <1>3 DEF AnswerIsWhatExists, Answered
  <2>4. NoCredentialPassedOver'
    <3> SUFFICES ASSUME ~expired
                 PROVE  refused' = 1 .. auth' /\ answer.err' /\ auth' = Len(Candidates)
      BY <1>3 DEF NoCredentialPassedOver
    <3>1. refused = 1 .. auth
      BY <1>3 DEF NoCredentialPassedOver
    <3> QED
      BY <1>3, <2>0, <3>1
  <2> QED
    BY <2>1, <2>2, <2>3, <2>4
<1>4. CASE FetchFails
  <2> USE DEF FetchFails, authVars
  <2>1. auth \in DOMAIN Candidates
    BY <1>4 DEF OfferInv
  <2>2. TypeOK' /\ OfferInv'
    BY <1>4, <2>1 DEF TypeOK, OfferInv
  <2>3. FetchInv'
    BY <1>4 DEF FetchInv
  <2>4. AnswerIsWhatExists'
    BY <1>4 DEF AnswerIsWhatExists, Answered
  <2>5. NoCredentialPassedOver'
    <3>1. (1 .. auth - 1) \cup {auth} = 1 .. auth
      BY <1>1, <2>1
    <3> QED
      BY <1>4, <3>1 DEF OfferInv, NoCredentialPassedOver
  <2> QED
    BY <2>2, <2>3, <2>4, <2>5
<1> QED
  BY <1>2, <1>3, <1>4

\* Every way listArchsWithAuth succeeds: the type, and all that does not depend on which
\* platforms it answers.
LEMMA SucceedInv ==
  ASSUME Inv, NEW ps \in SUBSET Known, Succeed(ps), pc \in {"fetching", "collecting"},
         UNCHANGED <<image, authVars, auth, platforms, refused, expired>>
  PROVE  /\ answer.platforms' = IF ps = {} THEN {Default} ELSE ps
         /\ ~answer.err' /\ pc' = "returned"
         /\ OfferInv' /\ NoCredentialPassedOver'
         /\ fetch' \in [Manifest -> {"none", "fetching", "found", "failed",
                                     "skipped", "delivered", "rejected"}] => TypeOK'
<1>1. /\ answer' = [platforms |-> IF ps = {} THEN {Default} ELSE ps, err |-> FALSE]
      /\ pc' = "returned" /\ ctxDone' = TRUE
  BY DEF Succeed, Return
<1>2. answer'.err = FALSE /\ answer'.platforms = IF ps = {} THEN {Default} ELSE ps
  BY <1>1
<1>3. OfferInv'
  BY <1>1, <1>2 DEF Inv, OfferInv, authVars
<1>4. NoCredentialPassedOver'
  BY <1>1, <1>2 DEF Inv, OfferInv, NoCredentialPassedOver
<1>5. answer'.platforms \subseteq Known
  BY <1>2, KnownPlatforms DEF Inv, TypeOK
<1> QED
  BY <1>1, <1>2, <1>3, <1>4, <1>5 DEF Inv, TypeOK, authVars

\* A lone manifest answers with its own architecture.
LEMMA FetchManifestInv == Inv /\ FetchManifest => Inv'
<1> SUFFICES ASSUME Inv, FetchManifest PROVE Inv'
  OBVIOUS
<1> DEFINE ps == IF image.arch = "" THEN {} ELSE {[arch |-> image.arch, os |-> ""]}
<1>1. ps \in SUBSET Known
  BY KnownPlatforms DEF Inv, TypeOK
<1>2. /\ Succeed(ps) /\ pc = "fetching"
      /\ UNCHANGED <<image, authVars, auth, platforms, refused, expired>>
      /\ fetch' = fetch /\ ~image.list
  BY DEF FetchManifest
<1> HIDE DEF ps
<1>3. TypeOK' /\ OfferInv' /\ NoCredentialPassedOver' /\ pc' = "returned"
  BY <1>1, <1>2, SucceedInv DEF Inv, TypeOK
<1>4. FetchInv'
  BY <1>2, <1>3 DEF Inv, FetchInv
<1>5. AnswerIsWhatExists'
  BY <1>2 DEF AnswerIsWhatExists
<1> QED
  BY <1>3, <1>4, <1>5 DEF Inv

\* A list starts one goroutine for each manifest of a schedulable architecture.
LEMMA FetchListInv == Inv /\ FetchList => Inv'
<1> SUFFICES ASSUME Inv, FetchList PROVE Inv'
  OBVIOUS
<1> USE DEF Inv, FetchList
<1>1. Listed' = Listed
  BY DEF Listed, Usable
<1>2. fetch' \in [Manifest -> {"none", "fetching", "found", "failed",
                             "skipped", "delivered", "rejected"}]
  BY DEF TypeOK
<1>3. TypeOK' /\ OfferInv'
  BY <1>2 DEF TypeOK, OfferInv, authVars
<1>4. FetchInv'
  <2>1. \A m \in Manifest : /\ fetch'[m] \in {"none", "fetching"}
                            /\ fetch'[m] = "none" <=> m \notin Listed
    OBVIOUS
  <2> QED
    BY <1>1, <2>1 DEF FetchInv
<1>5. AnswerIsWhatExists' /\ NoCredentialPassedOver'
  BY DEF AnswerIsWhatExists, Answered, NoCredentialPassedOver
<1> QED
  BY <1>3, <1>4, <1>5

\* A goroutine reports what the registry has for its manifest, or that it failed; before
\* the call has ended or after it.
LEMMA FetchPointedInv == ASSUME Inv, NEW m \in Manifest, FetchPointed(m) PROVE Inv'
<1> USE DEF Inv
<1>1. PICK s \in {"found", "skipped", "failed"} :
        /\ Report(m, s)
        /\ s = "found" => m \notin image.missing
        /\ s = "skipped" => m \in image.missing
  BY DEF FetchPointed, ManifestFound, ManifestMissing, ManifestFails
<1>2. /\ fetch[m] = "fetching" /\ fetch' = [fetch EXCEPT ![m] = s]
      /\ UNCHANGED <<image, ctxDone, authVars, pc, auth, platforms, answer, refused, expired>>
  BY <1>1 DEF Report
<1>3. \A n \in Manifest : fetch'[n] = IF n = m THEN s ELSE fetch[n]
  BY <1>2 DEF TypeOK
<1>4. Listed' = Listed
  BY <1>2 DEF Listed, Usable
<1>5. TypeOK' /\ OfferInv'
  BY <1>2 DEF TypeOK, OfferInv, authVars
<1>6. FetchInv'
  <2>1. {n \in Manifest : fetch'[n] = "delivered"} = {n \in Manifest : fetch[n] = "delivered"}
    BY <1>2, <1>3
  <2>2. pc = "collecting" => m \in Listed
    BY <1>2 DEF FetchInv
  <2> QED
    BY <1>1, <1>2, <1>3, <1>4, <2>1, <2>2 DEF FetchInv
<1>7. AnswerIsWhatExists'
  <2>1. Available' = Available
    BY <1>2, <1>4 DEF Available
  <2>2. (\A n \in Manifest : fetch'[n] # "rejected") => \A n \in Manifest : fetch[n] # "rejected"
    BY <1>2, <1>3
  <2> QED
    BY <1>2, <2>1, <2>2 DEF AnswerIsWhatExists, Answered
<1>8. NoCredentialPassedOver'
  BY <1>2 DEF NoCredentialPassedOver
<1> QED
  BY <1>5, <1>6, <1>7, <1>8

\* The receiving loop takes the platform of one manifest.
LEMMA CollectFoundInv == ASSUME Inv, NEW m \in Manifest, CollectFound(m) PROVE Inv'
<1> USE DEF Inv
<1>1. /\ pc = "collecting" /\ fetch[m] = "found"
      /\ platforms' = platforms \cup {image.platforms[m]}
      /\ fetch' = [fetch EXCEPT ![m] = "delivered"]
      /\ UNCHANGED <<image, ctxDone, authVars, pc, auth, answer, refused, expired>>
  BY DEF CollectFound
<1>2. \A n \in Manifest : fetch'[n] = IF n = m THEN "delivered" ELSE fetch[n]
  BY <1>1 DEF TypeOK
<1>3. Listed' = Listed
  BY <1>1 DEF Listed, Usable
<1>4. m \in Listed
  BY <1>1 DEF FetchInv
<1>5. TypeOK' /\ OfferInv'
  <2>1. image.platforms[m] \in Known
    BY <1>4, KnownPlatforms DEF TypeOK
  <2> QED
    BY <1>1, <2>1 DEF TypeOK, OfferInv, authVars
<1>6. FetchInv'
  <2> DEFINE Delivered == {n \in Manifest : fetch[n] = "delivered"}
  <2>1. {n \in Manifest : fetch'[n] = "delivered"} = Delivered \cup {m}
    BY <1>2
  <2>2. platforms = {image.platforms[n] : n \in Delivered}
    BY <1>1 DEF FetchInv
  <2> HIDE DEF Delivered
  <2>3. platforms' = {image.platforms[n] : n \in Delivered \cup {m}}
    BY <1>1, <2>2
  <2>4. platforms' = {image'.platforms[n] : n \in {k \in Manifest : fetch'[k] = "delivered"}}
    BY <1>1, <2>1, <2>3
  <2> QED
    BY <1>1, <1>2, <1>3, <1>4, <2>4 DEF FetchInv
<1>7. AnswerIsWhatExists' /\ NoCredentialPassedOver'
  BY <1>1 DEF AnswerIsWhatExists, Answered, NoCredentialPassedOver
<1> QED
  BY <1>5, <1>6, <1>7

\* A failed manifest ends the loop with no platforms, which become the default.
LEMMA CollectFailedInv == ASSUME Inv, NEW m \in Manifest, CollectFailed(m) PROVE Inv'
<1>1. /\ pc = "collecting" /\ fetch[m] = "failed"
      /\ fetch' = [fetch EXCEPT ![m] = "rejected"]
      /\ Succeed({})
      /\ UNCHANGED <<image, authVars, auth, platforms, refused, expired>>
  BY DEF CollectFailed
<1>2. \A n \in Manifest : fetch'[n] = IF n = m THEN "rejected" ELSE fetch[n]
  BY <1>1 DEF Inv, TypeOK
<1>3. fetch' \in [Manifest -> {"none", "fetching", "found", "failed",
                             "skipped", "delivered", "rejected"}]
  BY <1>1 DEF Inv, TypeOK
<1>4. TypeOK' /\ OfferInv' /\ NoCredentialPassedOver' /\ pc' = "returned"
  BY <1>1, <1>3, SucceedInv
<1>5. FetchInv'
  BY <1>1, <1>2, <1>4 DEF Inv, FetchInv
<1>6. AnswerIsWhatExists'
  BY <1>2 DEF AnswerIsWhatExists
<1> QED
  BY <1>4, <1>5, <1>6 DEF Inv

\* The loop ends with every manifest accounted for: what was collected is what exists.
LEMMA CollectEndInv == Inv /\ CollectEnd => Inv'
<1> SUFFICES ASSUME Inv, CollectEnd PROVE Inv'
  OBVIOUS
<1>1. /\ pc = "collecting" /\ Succeed(platforms)
      /\ \A m \in Manifest : fetch[m] \in {"none", "skipped", "delivered"}
      /\ UNCHANGED <<image, authVars, auth, fetch, platforms, refused, expired>>
  BY DEF CollectEnd
<1>2. platforms \in SUBSET Known
  BY DEF Inv, TypeOK
<1>3. /\ TypeOK' /\ OfferInv' /\ NoCredentialPassedOver' /\ pc' = "returned"
      /\ answer.platforms' = IF platforms = {} THEN {Default} ELSE platforms
  BY <1>1, <1>2, SucceedInv DEF Inv, TypeOK
<1>4. FetchInv'
  BY <1>1, <1>3 DEF Inv, FetchInv
<1>5. platforms = Available
  <2>1. {m \in Manifest : fetch[m] = "delivered"} = Listed \ image.missing
    <3>1. Listed \subseteq Manifest
      BY KnownPlatforms DEF Inv, TypeOK
    <3> QED
      BY <1>1, <3>1 DEF Inv, FetchInv
  <2> QED
    BY <1>1, <2>1 DEF Inv, FetchInv, Available
<1>6. AnswerIsWhatExists'
  BY <1>1, <1>3, <1>5 DEF AnswerIsWhatExists, Available, Listed, Usable
<1> QED
  BY <1>3, <1>4, <1>6 DEF Inv

-----------------------------------------------------------------------------
\* Every step of ListArchs, of its goroutines and of its caller.
LEMMA NextInv == Inv /\ [Next]_vars => Inv'
<1> SUFFICES ASSUME Inv, [Next]_vars PROVE Inv'
  OBVIOUS
<1>1. CASE Authenticate
  BY <1>1, AuthenticateInv
<1>2. CASE ListArchs
  BY <1>2, CandidateInv, FetchManifestInv, FetchListInv, CollectFoundInv, CollectFailedInv,
     CollectEndInv DEF ListArchs
<1>3. CASE \E m \in Manifest : FetchPointed(m)
  BY <1>3, FetchPointedInv
<1>4. CASE CallerGivesUp
  <2>1. TypeOK' /\ OfferInv'
    BY <1>4 DEF CallerGivesUp, Inv, TypeOK, OfferInv, authVars, callerVars
  <2>2. FetchInv'
    BY <1>4 DEF CallerGivesUp, Inv, FetchInv, Listed, Usable, callerVars
  <2>3. AnswerIsWhatExists' /\ NoCredentialPassedOver'
    BY <1>4 DEF CallerGivesUp, AnswerIsWhatExists, Answered, NoCredentialPassedOver, callerVars
  <2> QED
    BY <2>1, <2>2, <2>3 DEF Inv
<1>5. CASE UNCHANGED vars
  <2> USE <1>5 DEF vars, authVars, callerVars
  <2>1. TypeOK' /\ OfferInv'
    BY DEF Inv, TypeOK, OfferInv
  <2>2. FetchInv'
    BY DEF Inv, FetchInv, Listed, Usable
  <2>3. AnswerIsWhatExists'
    BY DEF Inv, AnswerIsWhatExists, Answered, Available, Listed, Usable
  <2>4. NoCredentialPassedOver'
    BY DEF Inv, NoCredentialPassedOver
  <2> QED
    BY <2>1, <2>2, <2>3, <2>4 DEF Inv
<1> QED
  BY <1>1, <1>2, <1>3, <1>4, <1>5 DEF Next

LEMMA Invariance == Spec => []Inv
BY InitInv, NextInv, PTL DEF Spec

\* Every field keeps its type, for any images and any candidates.
THEOREM TypeCorrect == Spec => []TypeOK
<1>1. Inv => TypeOK
  BY DEF Inv
<1> QED
  BY <1>1, Invariance, PTL

\* registry.go:491-560: whatever the order in which the manifests of a list arrive, and
\* however long the list, the answer is each schedulable platform that exists.
THEOREM AnswersAreWhatExists == Spec => []AnswerIsWhatExists
<1>1. Inv => AnswerIsWhatExists
  BY DEF Inv
<1> QED
  BY <1>1, Invariance, PTL

\* registry.go:588-602: for any number of credentials, ListArchs refuses them one by one
\* in their order, and fails only after the last.
THEOREM CredentialsInOrder == Spec => []NoCredentialPassedOver
<1>1. Inv => NoCredentialPassedOver
  BY DEF Inv
<1> QED
  BY <1>1, Invariance, PTL

-----------------------------------------------------------------------------
(***************************************************************************)
(* ImageNames: patterns, and what a registry is called.                    *)
(***************************************************************************)
\* f starts at first and goes on by step, n times.
Goes(f, S, first, n, step) ==
  f \in [0 .. n -> S] /\ f[0] = first /\ \A i \in 1 .. n : f[i] = step[<<i, f[i - 1]>>]

\* There is such a function: what a definition by recursion over 0 .. n rests on.
LEMMA Recursion ==
  ASSUME NEW S, NEW first \in S, NEW n \in Nat, NEW step \in [(1 .. n) \X S -> S]
  PROVE  \E f : Goes(f, S, first, n, step)
<1> DEFINE Upto(f, k) == f[0] = first /\ \A i \in 1 .. k : f[i] = step[<<i, f[i - 1]>>]
           Short == {k \in 0 .. n : ~\E f \in [0 .. k -> S] : Upto(f, k)}
<1>1. Short = {}
  <2>1. SUFFICES ASSUME Short # {} PROVE FALSE
    OBVIOUS
  <2>2. PICK m \in Short : \A k \in Short : m <= k
    <3>1. Short \in SUBSET Nat
      OBVIOUS
    <3> HIDE DEF Short
    <3> QED
      BY <2>1, <3>1, LeastNumber
  <2>3. m # 0
    <3>1. Upto([i \in 0 .. 0 |-> first], 0) /\ [i \in 0 .. 0 |-> first] \in [0 .. 0 -> S]
      OBVIOUS
    <3> QED
      BY <3>1
  <2>4. m - 1 \in 0 .. n /\ m - 1 \notin Short
    BY <2>2, <2>3
  <2>5. PICK f \in [0 .. m - 1 -> S] : Upto(f, m - 1)
    BY <2>4
  <2> DEFINE g == [i \in 0 .. m |-> IF i = m THEN step[<<m, f[m - 1]>>] ELSE f[i]]
  <2>6. step[<<m, f[m - 1]>>] \in S
    BY <2>3, <2>5
  <2>7. g \in [0 .. m -> S]
    BY <2>6
  <2>8. Upto(g, m)
    <3>1. g[0] = first
      BY <2>3, <2>5
    <3>2. m \in Nat /\ \A i \in 1 .. m : g[i - 1] = f[i - 1]
      OBVIOUS
    <3>3. ASSUME NEW i \in 1 .. m PROVE g[i] = step[<<i, f[i - 1]>>]
      <4>1. CASE i = m
        BY <3>2, <4>1
      <4>2. CASE i # m
        <5>1. i \in 1 .. m - 1 /\ i \in 0 .. m
          BY <3>2, <4>2
        <5>2. g[i] = f[i]
          BY <4>2, <5>1
        <5> HIDE DEF g
        <5> QED
          BY <2>5, <5>1, <5>2
      <4> QED
        BY <4>1, <4>2
    <3> QED
      BY <3>1, <3>2, <3>3
  <2> HIDE DEF g
  <2> QED
    BY <2>7, <2>8
<1>2. n \in 0 .. n
  OBVIOUS
<1>3. n \notin Short
  <2> HIDE DEF Short
  <2> QED
    BY <1>1
<1> QED
  BY <1>2, <1>3 DEF Goes

\* The lengths of matching prefixes, chunk by chunk, of which Matches takes the last.
IsMatched(matched, barriers, pattern, text) ==
  /\ matched \in [0 .. Len(pattern) -> SUBSET (0 .. Len(text))]
  /\ matched[0] = {0}
  /\ \A i \in 1 .. Len(pattern) : matched[i] = Extended(barriers, pattern[i], text, matched[i - 1])

\* Matches computes these lengths and asks whether the whole text is among the last.
LEMMA MatchesByChunk ==
  ASSUME NEW barriers, NEW pattern \in Text, NEW text \in Text
  PROVE  \E matched : /\ IsMatched(matched, barriers, pattern, text)
                      /\ Matches(barriers, pattern, text) <=> Len(text) \in matched[Len(pattern)]
<1> DEFINE S == SUBSET (0 .. Len(text))
           n == Len(pattern)
           step == [ib \in (1 .. n) \X S |-> Extended(barriers, pattern[ib[1]], text, ib[2])]
           Body(f) == [i \in 0 .. n |-> IF i = 0 THEN {0} ELSE Extended(barriers, pattern[i], text, f[i - 1])]
           m == CHOOSE f : f = Body(f)
<1>1. n \in Nat /\ Len(text) \in Nat /\ {0} \in S
  BY LenProperties DEF Text
<1>2. \A i, b : Extended(barriers, pattern[i], text, b) \in S
  BY DEF Extended
<1>3. step \in [(1 .. n) \X S -> S]
  BY <1>2
<1>4. \A i \in 1 .. n, b \in S : step[<<i, b>>] = Extended(barriers, pattern[i], text, b)
  OBVIOUS
<1>5. PICK f : Goes(f, S, {0}, n, step)
  <2> HIDE DEF step, S, n
  <2> QED
    BY <1>1, <1>3, Recursion
<1>6. f = Body(f)
  <2>1. \A i \in 0 .. n : f[i] = IF i = 0 THEN {0} ELSE Extended(barriers, pattern[i], text, f[i - 1])
    <3> HIDE DEF step, S
    <3>1. ASSUME NEW i \in 1 .. n PROVE f[i] = Extended(barriers, pattern[i], text, f[i - 1])
      <4>1. f[i - 1] \in S
        BY <1>1, <1>5 DEF Goes
      <4> QED
        BY <1>4, <1>5, <4>1 DEF Goes
    <3> QED
      BY <1>1, <1>5, <3>1 DEF Goes
  <2> QED
    BY <1>5, <2>1 DEF Goes
<1>7. m = Body(m)
  <2> HIDE DEF Body
  <2> QED
    BY <1>6
<1>8. Matches(barriers, pattern, text) <=> Len(text) \in m[n]
  BY DEF Matches
<1>9. IsMatched(m, barriers, pattern, text)
  <2> HIDE DEF m
  <2>1. \A i \in 0 .. n : m[i] = IF i = 0 THEN {0} ELSE Extended(barriers, pattern[i], text, m[i - 1])
    BY <1>7
  <2>2. \A i \in 0 .. n : m[i] \in S
    <3> SUFFICES ASSUME NEW i \in 0 .. n PROVE m[i] \in S
      OBVIOUS
    <3>1. Extended(barriers, pattern[i], text, m[i - 1]) \in S
      BY <1>2
    <3> HIDE DEF S, n
    <3>2. m[i] = {0} \/ m[i] = Extended(barriers, pattern[i], text, m[i - 1])
      BY <2>1
    <3> QED
      BY <1>1, <3>1, <3>2
  <2>3. m \in [0 .. n -> S]
    <3> HIDE DEF S, n
    <3> QED
      BY <1>7, <2>2
  <2> QED
    BY <1>1, <2>1, <2>3 DEF IsMatched
<1> HIDE DEF m
<1> QED
  BY <1>8, <1>9

\* filepath.Match keeps a "*" out of "/" only, the kubelet out of "." too: in a text
\* without "/", a pattern that matches for the kubelet matches for filepath.Match.
LEMMA GlobsOfHosts ==
  ASSUME NEW pattern \in Text, NEW text \in Text, ~Has(text, "/"),
         Matches({"."}, pattern, text)
  PROVE  FilepathMatch(pattern, text)
<1>1. PICK kubelet : /\ IsMatched(kubelet, {"."}, pattern, text)
                     /\ Len(text) \in kubelet[Len(pattern)]
  BY MatchesByChunk
<1>2. PICK file : /\ IsMatched(file, {"/"}, pattern, text)
                  /\ Matches({"/"}, pattern, text) <=> Len(text) \in file[Len(pattern)]
  BY MatchesByChunk
<1>3. Len(pattern) \in Nat /\ Len(text) \in Nat /\ DOMAIN text = 1 .. Len(text)
  BY LenProperties DEF Text
<1>4. \A l \in 1 .. Len(text) : text[l] # "/"
  BY <1>3 DEF Has, Range
<1> DEFINE More == {i \in 0 .. Len(pattern) : ~(kubelet[i] \subseteq file[i])}
<1>5. More = {}
  <2>1. SUFFICES ASSUME More # {} PROVE FALSE
    OBVIOUS
  <2>2. PICK m \in More : \A k \in More : m <= k
    <3>1. More \in SUBSET Nat
      BY <1>3
    <3> HIDE DEF More
    <3> QED
      BY <2>1, <3>1, LeastNumber
  <2>3. m \in 1 .. Len(pattern)
    BY <1>1, <1>2, <2>2 DEF IsMatched
  <2>4. kubelet[m - 1] \subseteq file[m - 1] /\ kubelet[m - 1] \subseteq 0 .. Len(text)
    BY <1>1, <1>3, <2>2, <2>3 DEF IsMatched
  <2>5. \A k \in Extended({"."}, pattern[m], text, kubelet[m - 1]) :
          k \in Extended({"/"}, pattern[m], text, file[m - 1])
    BY <1>3, <1>4, <2>4 DEF Extended
  <2> QED
    BY <1>1, <1>2, <2>2, <2>3, <2>5 DEF IsMatched
<1>6. kubelet[Len(pattern)] \subseteq file[Len(pattern)]
  <2>1. Len(pattern) \in 0 .. Len(pattern) /\ Len(pattern) \notin More
    <3> HIDE DEF More
    <3> QED
      BY <1>3, <1>5
  <2> QED
    BY <2>1
<1> QED
  BY <1>1, <1>2, <1>6 DEF FilepathMatch

\* strings.SplitN: the first part is a prefix of the text without the separator.
LEMMA SplitTexts ==
  ASSUME NEW text \in Text, NEW sep
  PROVE  /\ Before(text, sep) \in Text /\ After(text, sep) \in Text
         /\ ~Has(Before(text, sep), sep)
         /\ \A c : Has(Before(text, sep), c) => Has(text, c)
         /\ ~Has(text, sep) => Before(text, sep) = text /\ After(text, sep) = Empty
<1>1. Len(text) \in Nat /\ DOMAIN text = 1 .. Len(text)
  BY LenProperties DEF Text
<1>2. CASE ~Has(text, sep)
  <2>1. Empty \in Text
    BY DEF Empty, Text
  <2> QED
    BY <1>2, <2>1 DEF Before, After
<1>3. CASE Has(text, sep)
  <2> DEFINE at == SelectInSeq(text, LAMBDA c : c = sep)
             I  == {i \in 1 .. Len(text) : text[i] = sep}
  <2>1. I \in SUBSET Nat /\ I # {}
    BY <1>1, <1>3 DEF Has, Range
  <2>2. PICK m \in I : \A k \in I : m <= k
    <3> HIDE DEF I
    <3> QED
      BY <2>1, LeastNumber
  <2>3. at = Min(I)
    BY <2>1 DEF SelectInSeq
  <2>4. at \in I /\ \A k \in I : at <= k
    <3> HIDE DEF I, at
    <3> QED
      BY <2>2, <2>3 DEF Min
  <2> HIDE DEF at
  <2>5. at \in 1 .. Len(text) /\ \A k \in 1 .. at - 1 : text[k] # sep
    BY <1>1, <2>4
  <2>6. Before(text, sep) = SubSeq(text, 1, at - 1) /\ After(text, sep) = SubSeq(text, at + 1, Len(text))
    BY <1>3 DEF Before, After, at
  <2>7. SubSeq(text, 1, at - 1) \in Text /\ SubSeq(text, at + 1, Len(text)) \in Text
    BY <1>1, <2>5 DEF Text
  <2>8. /\ DOMAIN SubSeq(text, 1, at - 1) = 1 .. at - 1
        /\ \A k \in 1 .. at - 1 : SubSeq(text, 1, at - 1)[k] = text[k]
    BY <1>1, <2>5 DEF Text
  <2>9. \A c : Has(SubSeq(text, 1, at - 1), c) => \E k \in 1 .. at - 1 : text[k] = c
    BY <2>8 DEF Has, Range
  <2>10. \A k \in 1 .. at - 1 : k \in DOMAIN text
    BY <1>1, <2>5
  <2> QED
    BY <1>3, <2>5, <2>6, <2>7, <2>9, <2>10 DEF Has, Range
<1> QED
  BY <1>2, <1>3

\* What is empty has no separator.
LEMMA NothingToSplit == \A sep : Before(Empty, sep) = Empty
<1>1. Empty \in Text /\ DOMAIN Empty = {}
  BY DEF Empty, Text
<1>2. \A sep : ~Has(Empty, sep)
  <2> HIDE DEF Empty
  <2> QED
    BY <1>1 DEF Has, Range
<1> QED
  BY <1>1, <1>2, SplitTexts

\* registry.go:212-217: through every proxy a host stays a host.  Otherwise there would be
\* a first proxy that led astray, and what it is replaced by is a host.
LEMMA ProxiedHosts ==
  ASSUME NEW host \in Text, ~Has(host, "/")
  PROVE  LET registry == Proxied(ParseRegistryProxies(ProxyEntries), host)
         IN  registry \in Text /\ ~Has(registry, "/")
<1> DEFINE proxies == ParseRegistryProxies(ProxyEntries)
           Hosts == {h \in Text : ~Has(h, "/")}
           n == Len(proxies)
           step == [ir \in (1 .. n) \X Hosts |-> Through(proxies[ir[1]], ir[2])]
           Body(f) == [i \in 0 .. n |-> IF i = 0 THEN host ELSE Through(proxies[i], f[i - 1])]
           t == CHOOSE f : f = Body(f)
<1>1. n \in Nat /\ host \in Hosts /\ \A i \in 1 .. n : proxies[i].Proxy \in Hosts
  <2>1. proxies \in Seq(Range(proxies)) /\ \A p \in Range(proxies) : p.Proxy \in Hosts
    BY ProxiesAssumption
  <2> HIDE DEF proxies
  <2> QED
    BY <2>1, LenProperties DEF Range
<1>2. \A i \in 1 .. n, r \in Hosts : Through(proxies[i], r) \in Hosts
  BY <1>1 DEF Through
<1> HIDE DEF proxies, Hosts
<1>3. step \in [(1 .. n) \X Hosts -> Hosts]
  BY <1>2
<1>4. \A i \in 1 .. n, r \in Hosts : step[<<i, r>>] = Through(proxies[i], r)
  OBVIOUS
<1>5. PICK f : Goes(f, Hosts, host, n, step)
  <2> HIDE DEF step, n
  <2> QED
    BY <1>1, <1>3, Recursion
<1>6. f = Body(f)
  <2>1. \A i \in 0 .. n : f[i] = IF i = 0 THEN host ELSE Through(proxies[i], f[i - 1])
    <3> HIDE DEF step
    <3>1. ASSUME NEW i \in 1 .. n PROVE f[i] = Through(proxies[i], f[i - 1])
      <4>1. f[i - 1] \in Hosts
        BY <1>1, <1>5 DEF Goes
      <4> QED
        BY <1>4, <1>5, <4>1 DEF Goes
    <3> QED
      BY <1>1, <1>5, <3>1 DEF Goes
  <2> QED
    BY <1>5, <2>1 DEF Goes
<1>7. t = Body(t)
  <2> HIDE DEF Body
  <2> QED
    BY <1>6
<1>8. Proxied(proxies, host) = t[n]
  BY DEF Proxied
<1> DEFINE Astray == {i \in 0 .. n : t[i] \notin Hosts}
<1> HIDE DEF t
<1>9. Astray = {}
  <2>1. SUFFICES ASSUME Astray # {} PROVE FALSE
    OBVIOUS
  <2>2. PICK m \in Astray : \A k \in Astray : m <= k
    <3>1. Astray \in SUBSET Nat
      BY <1>1
    <3> HIDE DEF Astray
    <3> QED
      BY <2>1, <3>1, LeastNumber
  <2>3. \A i \in 0 .. n : t[i] = IF i = 0 THEN host ELSE Through(proxies[i], t[i - 1])
    BY <1>7
  <2>4. m \in 1 .. n
    BY <1>1, <2>2, <2>3
  <2>5. t[m - 1] \in Hosts
    BY <1>1, <2>2, <2>4
  <2> QED
    BY <1>1, <1>2, <2>2, <2>3, <2>4, <2>5
<1>10. t[n] \in Hosts
  <2>1. n \in 0 .. n /\ n \notin Astray
    <3> HIDE DEF Astray
    <3> QED
      BY <1>1, <1>9
  <2> QED
    BY <2>1
<1> QED
  BY <1>8, <1>10 DEF proxies, Hosts

\* parseImage: what a registry is called has no path.
LEMMA RegistriesAreHosts ==
  ASSUME NEW ref \in Refs
  PROVE  LET registry == parseImage(ParseRegistryProxies(ProxyEntries), ref).registry
         IN  registry \in Text /\ ~Has(registry, "/")
<1> DEFINE host == IF HasRegistry(ref) THEN Before(ref, "/") ELSE DockerIO
<1>1. ref \in Text
  BY TextsAssumption
<1>2. Before(ref, "/") \in Text /\ ~Has(Before(ref, "/"), "/")
  BY <1>1, SplitTexts
<1>3. DockerIO \in Text /\ ~Has(DockerIO, "/")
  <2>1. DockerIO \in Text
    BY TextsAssumption
  <2>2. DOMAIN DockerIO = 1 .. 3 /\ DockerIO[1] # "/" /\ DockerIO[2] # "/" /\ DockerIO[3] # "/"
    BY DEF DockerIO
  <2>3. \A i \in DOMAIN DockerIO : DockerIO[i] # "/"
    <3> HIDE DEF DockerIO
    <3> QED
      BY <2>2
  <2> QED
    BY <2>1, <2>3 DEF Has, Range
<1>4. host \in Text /\ ~Has(host, "/")
  BY <1>2, <1>3
<1>5. parseImage(ParseRegistryProxies(ProxyEntries), ref).registry
        = Proxied(ParseRegistryProxies(ProxyEntries), host)
  BY DEF parseImage
<1> HIDE DEF host
<1> QED
  BY <1>4, <1>5, ProxiedHosts

\* kubelet_credentials.go:160-182: a pattern without a path that matches by the kubelet's
\* rules matches.
THEOREM KubeletRuleIsEnough ==
  ASSUME NEW registry \in Text, ~Has(registry, "/"), NEW name,
         NEW p \in Text, ~Has(p, "/"),
         KubeletMatches(registry, name, p)
  PROVE  imageMatchesLoginPattern(registry, name, p)
<1>1. Before(p, "/") = p /\ After(p, "/") = Empty
  BY SplitTexts
<1>2. PathMatches(name, p)
  <2>1. Second(p, "/") = Empty
    BY <1>1, NothingToSplit DEF Second
  <2> QED
    BY <2>1 DEF PathMatches
<1>3. FilepathMatch(Before(p, ":"), Before(registry, ":"))
  <2>1. Before(p, ":") \in Text /\ Before(registry, ":") \in Text /\ ~Has(Before(registry, ":"), "/")
    BY SplitTexts
  <2>2. Matches({"."}, Before(p, ":"), Before(registry, ":"))
    BY <1>1 DEF KubeletMatches, KubeletHostMatches
  <2> QED
    BY <2>1, <2>2, GlobsOfHosts
<1>4. Second(p, ":") # Empty => Second(registry, ":") = Second(p, ":")
  <2>1. CASE Has(p, ":")
    <3>1. After(p, ":") = After(registry, ":")
      BY <1>1, <2>1 DEF KubeletMatches, KubeletHostMatches
    <3> QED
      BY <3>1 DEF Second
  <2>2. CASE ~Has(p, ":")
    <3>1. After(p, ":") = Empty
      BY <2>2, SplitTexts
    <3>2. Second(p, ":") = Empty
      BY <3>1, NothingToSplit DEF Second
    <3> QED
      BY <3>2
  <2> QED
    BY <2>1, <2>2
<1> QED
  BY <1>1, <1>2, <1>3, <1>4 DEF imageMatchesLoginPattern, HostMatches

-----------------------------------------------------------------------------
(***************************************************************************)
(* CredentialSources: what is offered, and to whom nothing is.             *)
(***************************************************************************)
\* A range over a map meets every key, whatever the order.
LEMMA RangedMeetsAll ==
  ASSUME NEW map, NEW keys, IsFiniteSet(keys), NEW values \in Ranged(map, keys)
  PROVE  values \in Seq(Range(values)) /\ Range(values) = {map[k] : k \in keys}
<1>1. PICK order \in SetToSeqs(keys) : values = [i \in DOMAIN order |-> map[order[i]]]
  BY DEF Ranged
<1> DEFINE n == Cardinality(keys)
<1>2. n \in Nat
  BY FS_CardinalityType
<1>3. order \in [1 .. n -> keys] /\ \A i, j \in 1 .. n : i # j => order[i] # order[j]
  BY <1>1 DEF SetToSeqs
<1>4. order \in Injection(1 .. n, keys)
  BY <1>3 DEF Injection, IsInjective
<1>5. Cardinality(1 .. n) = n
  BY <1>2, FS_Interval
<1>6. order \in Surjection(1 .. n, keys)
  BY <1>4, <1>5, FS_Injection
<1>7. \A k \in keys : \E i \in 1 .. n : order[i] = k
  BY <1>6 DEF Surjection
<1>8. DOMAIN values = 1 .. n /\ \A i \in 1 .. n : values[i] = map[order[i]]
  BY <1>1, <1>3
<1>9. Range(values) = {map[k] : k \in keys}
  BY <1>3, <1>7, <1>8 DEF Range
<1>10. values \in Seq(Range(values))
  <2>1. values = [i \in 1 .. n |-> values[i]]
    BY <1>1, <1>3
  <2>2. \A i \in 1 .. n : values[i] \in Range(values)
    BY <1>8 DEF Range
  <2> HIDE DEF n
  <2> QED
    BY <1>2, <2>1, <2>2
<1> QED
  BY <1>9, <1>10

\* What two sequences hold together.
LEMMA Concatenated ==
  ASSUME NEW s, s \in Seq(Range(s)), NEW t, t \in Seq(Range(t))
  PROVE  s \o t \in Seq(Range(s \o t)) /\ Range(s \o t) = Range(s) \cup Range(t)
<1> DEFINE both == s \o t
           B == Range(s) \cup Range(t)
<1>1. Len(s) \in Nat /\ DOMAIN s = 1 .. Len(s) /\ Len(t) \in Nat /\ DOMAIN t = 1 .. Len(t)
  BY LenProperties
<1>2. s \in Seq(B) /\ t \in Seq(B)
  <2>1. \A i \in 1 .. Len(s) : s[i] \in B
    BY <1>1 DEF Range
  <2>2. \A i \in 1 .. Len(t) : t[i] \in B
    BY <1>1 DEF Range
  <2> HIDE DEF B
  <2> QED
    BY <1>1, <2>1, <2>2
<1>3. /\ both \in Seq(B) /\ Len(both) = Len(s) + Len(t)
      /\ \A i \in 1 .. Len(s) + Len(t) : both[i] = IF i <= Len(s) THEN s[i] ELSE t[i - Len(s)]
  <2> HIDE DEF B
  <2> QED
    BY <1>2, ConcatProperties
<1> HIDE DEF both
<1>4. DOMAIN both = 1 .. Len(s) + Len(t)
  BY <1>3, LenProperties
<1>5. \A i \in DOMAIN s : s[i] \in Range(both)
  <2>1. \A i \in 1 .. Len(s) : both[i] = s[i] /\ i \in DOMAIN both
    BY <1>1, <1>3, <1>4
  <2> QED
    BY <1>1, <2>1 DEF Range
<1>6. \A i \in DOMAIN t : t[i] \in Range(both)
  <2>1. ASSUME NEW i \in 1 .. Len(t) PROVE both[Len(s) + i] = t[i] /\ Len(s) + i \in DOMAIN both
    <3>1. Len(s) + i \in 1 .. Len(s) + Len(t) /\ ~(Len(s) + i <= Len(s)) /\ (Len(s) + i) - Len(s) = i
      BY <1>1
    <3> QED
      BY <1>3, <1>4, <3>1
  <2> QED
    BY <1>1, <2>1 DEF Range
<1>7. \A i \in DOMAIN both : both[i] \in B
  BY <1>1, <1>3, <1>4 DEF Range
<1>8. Range(both) = B
  <2>1. Range(both) \subseteq B
    BY <1>7 DEF Range
  <2>2. B \subseteq Range(both)
    BY <1>5, <1>6 DEF Range
  <2> QED
    BY <2>1, <2>2
<1> QED
  BY <1>3, <1>8 DEF both

\* At most one element.
LEMMA OneOrNone ==
  ASSUME NEW values, values = <<>> \/ \E a : values = <<a>>
  PROVE  values \in Seq(Range(values))
<1>1. CASE values = <<>>
  BY <1>1 DEF Range
<1>2. CASE \E a : values = <<a>>
  <2>1. PICK a : values = <<a>>
    BY <1>2
  <2>2. a \in Range(values)
    BY <2>1 DEF Range
  <2> QED
    BY <2>1, <2>2
<1> QED
  BY <1>1, <1>2

\* What is sent for a sequence of credentials.
LEMMA Sent ==
  ASSUME NEW name, NEW values, values \in Seq(Range(values))
  PROVE  /\ From(name, values) \in Seq(Range(From(name, values)))
         /\ \A o : o \in Range(From(name, values)) <=> \E v \in Range(values) : o = [provider |-> name, auth |-> v]
<1> DEFINE sent == From(name, values)
<1>1. Len(values) \in Nat /\ DOMAIN values = 1 .. Len(values)
  BY LenProperties
<1>2. DOMAIN sent = 1 .. Len(values) /\ \A i \in 1 .. Len(values) : sent[i] = [provider |-> name, auth |-> values[i]]
  BY <1>1 DEF From
<1>3. \A o : o \in Range(sent) <=> \E v \in Range(values) : o = [provider |-> name, auth |-> v]
  BY <1>1, <1>2 DEF Range
<1>4. sent \in Seq(Range(sent))
  <2>1. sent = [i \in 1 .. Len(values) |-> sent[i]]
    BY <1>1 DEF From
  <2>2. \A i \in 1 .. Len(values) : sent[i] \in Range(sent)
    BY <1>2 DEF Range
  <2> HIDE DEF sent
  <2> QED
    BY <1>1, <2>1, <2>2
<1> QED
  BY <1>3, <1>4

-----------------------------------------------------------------------------
\* The secrets read so far, and of their entries those that no later one replaces.
SecretsRead == {s \in DOMAIN cfg.secrets : /\ source = "secrets" => s < pos
                                           /\ <<"secrets", s>> \notin missed}

Stands(s, key) ==
  /\ s \in SecretsRead /\ key \in DOMAIN cfg.secrets[s]
  /\ \A t \in SecretsRead : t > s => key \notin DOMAIN cfg.secrets[t]

\* The plugins asked so far whose answer came, by the kubelet's rules.
KubeletRule(p) == KubeletMatches(target.registry, target.image, p)

Heard(j) ==
  /\ source = "kubelet" => j < pos
  /\ <<"kubelet", j>> \notin missed
  /\ \E m \in PathFree(cfg.providers[j].matchImages) : KubeletRule(m)

\* Where the walk is, and what failed on the way.
WalkInv ==
  /\ target.registry \in Text /\ ~Has(target.registry, "/")
  /\ offered \in Seq(Range(offered))
  /\ IsFiniteSet(DOMAIN auths)
  /\ source = "secrets" => pos \in 1 .. Len(cfg.secrets) + 1
  /\ source = "kubelet" => pos \in 1 .. Len(cfg.providers) + 1
  /\ \A j : <<"secrets", j>> \in missed /\ source = "secrets" => j < pos
  /\ \A j : <<"kubelet", j>> \in missed => /\ source \notin {"secrets", "pullSecret"}
                                           /\ source = "kubelet" => j < pos

\* What stands is in auths until it is offered.
SecretsInv ==
  \A s, key : Stands(s, key) =>
    IF source \in {"secrets", "pullSecret"}
    THEN key \in DOMAIN auths /\ auths[key] = cfg.secrets[s][key]
    ELSE key \in OwnKeys(cfg.secrets[s]) => cfg.secrets[s][key] \in Offers("ImagePullSecret")

\* What a plugin answered is offered.
PluginsInv ==
  source \notin {"secrets", "pullSecret"} =>
    \A j \in DOMAIN cfg.providers : Heard(j) =>
      \A key \in PathFree(DOMAIN cfg.providers[j].auth) :
        KubeletRule(key) => cfg.providers[j].auth[key] \in Offers("kubelet")

FileInv == source \in {"anonymous", "done"} => FileHolds \subseteq Offers("docker-config")

SourcesInv ==
  /\ SourcesTypeOK /\ WalkInv
  /\ SecretsInv /\ PluginsInv /\ FileInv /\ PrivateRegistryNotAnonymous

-----------------------------------------------------------------------------
\* What surrounds a call is as the assumptions say.
LEMMA Surroundings ==
  ASSUME SourcesTypeOK
  PROVE  /\ Len(cfg.secrets) \in Nat /\ DOMAIN cfg.secrets = 1 .. Len(cfg.secrets)
         /\ Len(cfg.providers) \in Nat /\ DOMAIN cfg.providers = 1 .. Len(cfg.providers)
         /\ \A s \in DOMAIN cfg.secrets : IsFiniteSet(DOMAIN cfg.secrets[s])
         /\ \A j \in DOMAIN cfg.providers :
              /\ cfg.providers[j].matchImages \subseteq Text
              /\ DOMAIN cfg.providers[j].auth \subseteq Text
              /\ IsFiniteSet(DOMAIN cfg.providers[j].auth)
              /\ \A key \in DOMAIN cfg.providers[j].auth : cfg.providers[j].auth[key] # NoAuth
         /\ cfg.private \subseteq Text
<1>1. cfg.secrets \in Secrets /\ cfg.providers \in Providers /\ cfg.private \in Private
  BY DEF SourcesTypeOK
<1>2. cfg.secrets \in Seq(Range(cfg.secrets)) /\ \A map \in Range(cfg.secrets) : Finite(map)
  BY <1>1, SecretsAssumption
<1>3. /\ cfg.providers \in Seq(Range(cfg.providers))
      /\ \A p \in Range(cfg.providers) :
           p.matchImages \subseteq Text /\ Finite(p.auth) /\ NoAuth \notin Range(p.auth)
  BY <1>1, ProvidersAssumption
<1>4. \A j \in DOMAIN cfg.providers : cfg.providers[j] \in Range(cfg.providers)
  BY DEF Range
<1>5. \A s \in DOMAIN cfg.secrets : cfg.secrets[s] \in Range(cfg.secrets)
  BY DEF Range
<1>6. /\ Len(cfg.secrets) \in Nat /\ DOMAIN cfg.secrets = 1 .. Len(cfg.secrets)
      /\ Len(cfg.providers) \in Nat /\ DOMAIN cfg.providers = 1 .. Len(cfg.providers)
  BY <1>2, <1>3, LenProperties
<1>7. \A s \in DOMAIN cfg.secrets : IsFiniteSet(DOMAIN cfg.secrets[s])
  BY <1>2, <1>5 DEF Finite
<1>8. \A j \in DOMAIN cfg.providers :
        /\ cfg.providers[j].matchImages \subseteq Text
        /\ DOMAIN cfg.providers[j].auth \subseteq Text
        /\ IsFiniteSet(DOMAIN cfg.providers[j].auth)
        /\ \A key \in DOMAIN cfg.providers[j].auth : cfg.providers[j].auth[key] # NoAuth
  BY <1>3, <1>4 DEF Finite, Range
<1>9. cfg.private \subseteq Text
  BY <1>1, TextsAssumption
<1> QED
  BY <1>6, <1>7, <1>8, <1>9

\* An authenticator that sends values takes back nothing and leaves the offers of the
\* others alone.
LEMMA Offering ==
  ASSUME offered \in Seq(Range(offered)), NEW name,
         NEW values, values \in Seq(Range(values)),
         offered' = offered \o From(name, values)
  PROVE  /\ (offered \in Seq(Range(offered)))'
         /\ \A p : Offers(p) \subseteq Offers(p)'
         /\ Range(values) \subseteq Offers(name)'
         /\ \A p : p # name => Offers(p)' = Offers(p)
         /\ \A i \in DOMAIN offered' :
              \/ \E j \in DOMAIN offered : offered'[i] = offered[j]
              \/ offered'[i].provider = name /\ offered'[i].auth \in Range(values)
<1> DEFINE sent == From(name, values)
<1>0. /\ sent \in Seq(Range(sent))
      /\ \A o : o \in Range(sent) <=> \E v \in Range(values) : o = [provider |-> name, auth |-> v]
  BY Sent
<1>1. /\ offered' \in Seq(Range(offered'))
      /\ \A o : o \in Range(offered') <=>
               o \in Range(offered) \/ \E v \in Range(values) : o = [provider |-> name, auth |-> v]
  <2>1. offered' = offered \o sent
    OBVIOUS
  <2> HIDE DEF sent
  <2> QED
    BY <1>0, <2>1, Concatenated
<1> HIDE DEF sent
<1>2. \A p, a : a \in Offers(p) <=> \E o \in Range(offered) : o.provider = p /\ o.auth = a
  BY DEF Offers, Range
<1>3. \A p, a : a \in Offers(p)' <=> \E o \in Range(offered') : o.provider = p /\ o.auth = a
  BY DEF Offers, Range
<1>4. \A i \in DOMAIN offered' : offered'[i] \in Range(offered')
  BY DEF Range
<1>5. \A o \in Range(offered) : \E j \in DOMAIN offered : o = offered[j]
  BY DEF Range
<1>6. \A p : Offers(p) \subseteq Offers(p)'
  BY <1>1, <1>2, <1>3
<1>7. Range(values) \subseteq Offers(name)'
  <2> SUFFICES ASSUME NEW v \in Range(values) PROVE v \in Offers(name)'
    OBVIOUS
  <2> DEFINE o == [provider |-> name, auth |-> v]
  <2>1. o.provider = name /\ o.auth = v
    OBVIOUS
  <2>2. o \in Range(offered')
    BY <1>1
  <2> HIDE DEF o
  <2> QED
    BY <1>3, <2>1, <2>2
<1>8. \A p : p # name => Offers(p)' = Offers(p)
  <2> SUFFICES ASSUME NEW p, p # name PROVE Offers(p)' = Offers(p)
    OBVIOUS
  <2>1. \A o \in Range(offered') : o.provider = p => o \in Range(offered)
    BY <1>1
  <2>2. \A a : a \in Offers(p)' => a \in Offers(p)
    BY <1>2, <1>3, <2>1
  <2> QED
    BY <1>6, <2>2
<1>9. \A i \in DOMAIN offered' :
        \/ \E j \in DOMAIN offered : offered'[i] = offered[j]
        \/ offered'[i].provider = name /\ offered'[i].auth \in Range(values)
  BY <1>1, <1>4, <1>5
<1> QED
  BY <1>1, <1>6, <1>7, <1>8, <1>9

\* What the properties say of the surroundings only.
LEMMA SameSurroundings ==
  ASSUME UNCHANGED <<cfg, target>>
  PROVE  /\ FileHolds' = FileHolds
         /\ \A p : KubeletRule(p)' <=> KubeletRule(p)
         /\ \A map : OwnKeys(map)' = OwnKeys(map)
         /\ AnyMatches(cfg.private)' <=> AnyMatches(cfg.private)
<1>1. DockerFile' = DockerFile
  BY DEF DockerFile, SelectInSeq
<1>2. \A map : OwnKeys(map)' = OwnKeys(map)
  BY DEF OwnKeys
<1>3. \A store : HelperName(store)' = HelperName(store)
  BY DEF HelperName
<1>4. FileHolds' = FileHolds
  BY <1>1, <1>2, <1>3 DEF FileHolds
<1>5. \A p : KubeletRule(p)' <=> KubeletRule(p)
  BY DEF KubeletRule
<1>6. AnyMatches(cfg.private)' <=> AnyMatches(cfg.private)
  BY DEF AnyMatches
<1> QED
  BY <1>2, <1>4, <1>5, <1>6

\* Nothing is read or offered yet, and the registry is a host.
LEMMA SourcesInitInv == SourcesInit => SourcesInv
<1> SUFFICES ASSUME SourcesInit PROVE SourcesInv
  OBVIOUS
<1>1. offered = <<>> /\ DOMAIN offered = {} /\ missed = {} /\ source = "secrets" /\ pos = 1 /\ DOMAIN auths = {}
  BY DEF SourcesInit
<1>2. SourcesTypeOK
  BY <1>1 DEF SourcesInit, SourcesTypeOK, Sources
<1>3. Len(cfg.secrets) \in Nat
  BY <1>2, Surroundings
<1>4. target.registry \in Text /\ ~Has(target.registry, "/")
  BY RegistriesAreHosts DEF SourcesInit
<1>5. WalkInv
  <2>1. offered \in Seq(Range(offered))
    BY <1>1
  <2>2. IsFiniteSet(DOMAIN auths)
    BY <1>1, FS_EmptySet
  <2> QED
    BY <1>1, <1>3, <1>4, <2>1, <2>2 DEF WalkInv
<1>6. SecretsInv
  <2>1. SecretsRead = {}
    BY <1>1, <1>2, <1>3, Surroundings DEF SecretsRead
  <2> QED
    BY <2>1 DEF SecretsInv, Stands
<1>7. PluginsInv /\ FileInv
  BY <1>1 DEF PluginsInv, FileInv
<1>8. PrivateRegistryNotAnonymous
  BY <1>1 DEF PrivateRegistryNotAnonymous, Offers
<1> QED
  BY <1>2, <1>5, <1>6, <1>7, <1>8 DEF SourcesInv

-----------------------------------------------------------------------------
\* hook.go:174-213: a secret that is read overrides what it has in common with those
\* before, one that fails overrides nothing.
LEMMA ReadSecretInv == SourcesInv /\ (ReadSecret \/ SecretFails) => SourcesInv'
<1> SUFFICES ASSUME SourcesInv, ReadSecret \/ SecretFails PROVE SourcesInv'
  OBVIOUS
<1> USE DEF SourcesInv
<1>1. /\ source = "secrets" /\ source' = source /\ pos \in DOMAIN cfg.secrets /\ pos' = pos + 1
      /\ UNCHANGED <<cfg, target, offered>>
  BY DEF ReadSecret, SecretFails, NextElement
<1>2. /\ Len(cfg.secrets) \in Nat /\ DOMAIN cfg.secrets = 1 .. Len(cfg.secrets)
      /\ Len(cfg.providers) \in Nat /\ IsFiniteSet(DOMAIN cfg.secrets[pos])
  BY <1>1, Surroundings
<1>3. missed' = missed \/ missed' = missed \cup {<<"secrets", pos>>}
  BY <1>1 DEF ReadSecret, SecretFails
<1>4. SourcesTypeOK'
  <2>1. /\ cfg \in [secrets : Secrets, providers : Providers, containerd : Containerd,
                    docker : DockerFiles, private : Private]
        /\ source \in Sources /\ pos \in Nat \ {0}
        /\ missed \subseteq {"secrets", "kubelet"} \X (1 .. Len(cfg.secrets) + Len(cfg.providers))
        /\ \A i \in DOMAIN offered :
             /\ offered[i].provider \in Names
             /\ offered[i].auth = NoAuth <=> offered[i].provider = "anonymous"
    BY DEF SourcesTypeOK
  <2>2. pos' \in Nat \ {0}
    BY <1>1, <1>2
  <2>3. missed' \subseteq {"secrets", "kubelet"} \X (1 .. Len(cfg.secrets) + Len(cfg.providers))
    BY <1>1, <1>2, <1>3, <2>1
  <2> QED
    BY <1>1, <2>1, <2>2, <2>3 DEF SourcesTypeOK
<1>5. WalkInv'
  <2>1. IsFiniteSet(DOMAIN auths')
    <3>1. CASE ReadSecret
      <4>1. DOMAIN auths' = DOMAIN cfg.secrets[pos] \cup DOMAIN auths
        BY <3>1 DEF ReadSecret, Overlaid
      <4>2. IsFiniteSet(DOMAIN auths)
        BY DEF WalkInv
      <4> QED
        BY <1>2, <4>1, <4>2, FS_Union
    <3>2. CASE SecretFails
      BY <3>2 DEF SecretFails, WalkInv
    <3> QED
      BY <3>1, <3>2
  <2>2. pos' \in 1 .. Len(cfg'.secrets) + 1
    BY <1>1, <1>2
  <2>3. \A j : <<"secrets", j>> \in missed' => j < pos'
    <3>1. \A j : <<"secrets", j>> \in missed => j < pos /\ j \in Nat
      BY <1>1 DEF WalkInv, SourcesTypeOK
    <3> QED
      BY <1>1, <1>2, <1>3, <3>1
  <2>4. \A j : <<"kubelet", j>> \notin missed'
    <3>1. \A j : <<"kubelet", j>> \notin missed
      BY <1>1 DEF WalkInv
    <3> SUFFICES ASSUME NEW j, <<"kubelet", j>> \in missed' PROVE FALSE
      OBVIOUS
    <3>2. <<"kubelet", j>> = <<"secrets", pos>>
      BY <1>3, <3>1
    <3> QED
      BY <3>2
  <2> QED
    BY <1>1, <2>1, <2>2, <2>3, <2>4 DEF WalkInv
<1>6. SecretsInv'
  <2> SUFFICES ASSUME NEW s, NEW key, Stands(s, key)'
               PROVE  key \in DOMAIN auths' /\ auths'[key] = cfg.secrets[s][key]
    BY <1>1 DEF SecretsInv
  <2>1. s \in 1 .. pos /\ key \in DOMAIN cfg.secrets[s]
    BY <1>1, <1>2 DEF Stands, SecretsRead
  <2>2. <<"secrets", pos>> \notin missed
    BY <1>1, <1>2 DEF WalkInv
  <2>3. \A t \in SecretsRead : t < pos /\ t \in SecretsRead'
    BY <1>1, <1>2, <1>3 DEF SecretsRead
  <2>4. CASE ReadSecret
    <3>1. missed' = missed /\ auths' = Overlaid(cfg.secrets[pos], auths)
      BY <2>4 DEF ReadSecret
    <3>2. pos \in SecretsRead'
      BY <1>1, <1>2, <2>2, <3>1 DEF SecretsRead
    <3>3. CASE s = pos
      BY <2>1, <3>1, <3>3 DEF Overlaid
    <3>4. CASE s # pos
      <4>1. s \in SecretsRead
        BY <1>1, <1>2, <2>1, <3>1, <3>4 DEF Stands, SecretsRead
      <4>2. Stands(s, key)
        BY <1>1, <2>1, <2>3, <4>1 DEF Stands
      <4>3. key \in DOMAIN auths /\ auths[key] = cfg.secrets[s][key]
        BY <1>1, <4>2 DEF SecretsInv
      <4>4. key \notin DOMAIN cfg.secrets[pos]
        BY <1>1, <1>2, <2>1, <3>2, <3>4 DEF Stands
      <4> QED
        BY <3>1, <4>3, <4>4 DEF Overlaid
    <3> QED
      BY <3>3, <3>4
  <2>5. CASE SecretFails
    <3>1. missed' = missed \cup {<<"secrets", pos>>} /\ auths' = auths
      BY <1>1, <2>5 DEF SecretFails
    <3>2. s \in SecretsRead
      BY <1>1, <1>2, <2>1, <3>1 DEF Stands, SecretsRead
    <3>3. Stands(s, key)
      BY <1>1, <2>1, <2>3, <3>2 DEF Stands
    <3> QED
      BY <1>1, <3>1, <3>3 DEF SecretsInv
  <2> QED
    BY <2>4, <2>5
<1>7. PluginsInv' /\ FileInv'
  BY <1>1 DEF PluginsInv, FileInv
<1>8. PrivateRegistryNotAnonymous'
  BY <1>1 DEF PrivateRegistryNotAnonymous, Offers
<1> QED
  BY <1>4, <1>5, <1>6, <1>7, <1>8

\* A step of an authenticator leaves what the secrets and the file hold as it was: what
\* is left to show is that its own offers are those its source holds.
LEMMA AfterSecrets ==
  ASSUME SourcesInv, UNCHANGED <<cfg, target>>,
         source \notin {"secrets", "pullSecret"}, source' \notin {"secrets", "pullSecret"},
         \A j : <<"secrets", j>> \in missed' <=> <<"secrets", j>> \in missed,
         Offers("ImagePullSecret") \subseteq Offers("ImagePullSecret")'
  PROVE  SecretsInv'
<1>1. SecretsRead' = SecretsRead
  BY DEF SecretsRead
<1>2. \A s, key : Stands(s, key)' <=> Stands(s, key)
  BY <1>1 DEF Stands
<1>3. \A map : OwnKeys(map)' = OwnKeys(map)
  BY SameSurroundings
<1> SUFFICES ASSUME NEW s, NEW key, Stands(s, key)', key \in OwnKeys(cfg.secrets[s])
             PROVE  cfg.secrets[s][key] \in Offers("ImagePullSecret")'
  BY <1>3 DEF SecretsInv
<1> QED
  BY <1>2 DEF SourcesInv, SecretsInv

\* The last secret, or the last plugin: the next source starts.
LEMMA SourceExhaustedInv == SourcesInv /\ SourceExhausted => SourcesInv'
<1> SUFFICES ASSUME SourcesInv, SourceExhausted PROVE SourcesInv'
  OBVIOUS
<1> USE DEF SourcesInv
<1>1. UNCHANGED <<cfg, target, auths, offered, missed>> /\ pos' = 1
  BY DEF SourceExhausted, NextSource
<1>2. \/ source = "secrets" /\ source' = "pullSecret" /\ pos = Len(cfg.secrets) + 1
      \/ source = "kubelet" /\ source' = "containerd" /\ pos = Len(cfg.providers) + 1
  BY DEF SourceExhausted, NextSource, Following
<1>3. SourcesTypeOK'
  BY <1>1, <1>2 DEF SourcesTypeOK, Sources
<1>4. /\ Len(cfg.secrets) \in Nat /\ DOMAIN cfg.secrets = 1 .. Len(cfg.secrets)
      /\ Len(cfg.providers) \in Nat /\ DOMAIN cfg.providers = 1 .. Len(cfg.providers)
  BY Surroundings
<1>5. WalkInv'
  BY <1>1, <1>2 DEF WalkInv
<1>6. \A p : Offers(p)' = Offers(p)
  BY <1>1 DEF Offers
<1>7. FileInv' /\ PrivateRegistryNotAnonymous'
  BY <1>1, <1>2, <1>6 DEF FileInv, PrivateRegistryNotAnonymous
<1>8. CASE source = "secrets"
  <2>1. SecretsRead' = SecretsRead
    BY <1>1, <1>2, <1>4, <1>8 DEF SecretsRead
  <2>2. \A s, key : Stands(s, key)' <=> Stands(s, key)
    BY <1>1, <2>1 DEF Stands
  <2>3. SecretsInv'
    BY <1>1, <1>2, <1>8, <2>2 DEF SecretsInv
  <2>4. PluginsInv'
    BY <1>2, <1>8 DEF PluginsInv
  <2> QED
    BY <1>3, <1>5, <1>7, <2>3, <2>4
<1>9. CASE source = "kubelet"
  <2>1. SecretsInv'
    BY <1>1, <1>2, <1>6, <1>9, AfterSecrets
  <2>2. \A j \in DOMAIN cfg.providers : Heard(j)' => Heard(j)
    BY <1>1, <1>2, <1>4, <1>9 DEF Heard, KubeletRule
  <2>3. PluginsInv'
    BY <1>1, <1>2, <1>6, <1>9, <2>2 DEF PluginsInv, KubeletRule
  <2> QED
    BY <1>3, <1>5, <1>7, <2>1, <2>3
<1> QED
  BY <1>2, <1>8, <1>9

\* The candidates of the pull secret are what stands in it for the image.
LEMMA TryPullSecretInv == SourcesInv /\ TryPullSecret => SourcesInv'
<1> SUFFICES ASSUME SourcesInv, TryPullSecret PROVE SourcesInv'
  OBVIOUS
<1> USE DEF SourcesInv
<1> DEFINE keys == DockerKeys(target.registry, auths)
<1>1. UNCHANGED <<cfg, target, auths, missed>> /\ source = "pullSecret" /\ source' = "kubelet" /\ pos' = 1
  BY DEF TryPullSecret, NextSource, Following
<1>2. PICK values \in Ranged(auths, keys) : offered' = offered \o From("ImagePullSecret", values)
  BY DEF TryPullSecret
<1>3. IsFiniteSet(keys)
  BY FS_Subset DEF WalkInv, DockerKeys
<1>4. values \in Seq(Range(values)) /\ Range(values) = {auths[k] : k \in keys}
  <2> HIDE DEF keys
  <2> QED
    BY <1>3, RangedMeetsAll
<1>5. /\ (offered \in Seq(Range(offered)))'
      /\ \A p : Offers(p) \subseteq Offers(p)'
      /\ Range(values) \subseteq Offers("ImagePullSecret")'
      /\ \A p : p # "ImagePullSecret" => Offers(p)' = Offers(p)
      /\ \A i \in DOMAIN offered' :
           \/ \E j \in DOMAIN offered : offered'[i] = offered[j]
           \/ offered'[i].provider = "ImagePullSecret" /\ offered'[i].auth \in Range(values)
  BY <1>2, <1>4, Offering DEF WalkInv
<1>6. SourcesTypeOK'
  <2>1. \A v \in Range(values) : v # NoAuth
    BY <1>4 DEF DockerKeys
  <2>2. \A i \in DOMAIN offered' :
          /\ offered'[i].provider \in Names
          /\ offered'[i].auth = NoAuth <=> offered'[i].provider = "anonymous"
    BY <1>5, <2>1 DEF SourcesTypeOK, Names
  <2> QED
    BY <1>1, <2>2 DEF SourcesTypeOK, Sources
<1>7. /\ Len(cfg.providers) \in Nat /\ DOMAIN cfg.providers = 1 .. Len(cfg.providers)
  BY Surroundings
<1>8. \A j : <<"kubelet", j>> \notin missed
  BY <1>1 DEF WalkInv
<1>9. WalkInv'
  BY <1>1, <1>5, <1>7, <1>8 DEF WalkInv
<1>10. SecretsInv'
  <2>1. \A map : OwnKeys(map)' = OwnKeys(map)
    BY <1>1, SameSurroundings
  <2> SUFFICES ASSUME NEW s, NEW key, Stands(s, key)', key \in OwnKeys(cfg.secrets[s])
               PROVE  cfg.secrets[s][key] \in Offers("ImagePullSecret")'
    BY <1>1, <2>1 DEF SecretsInv
  <2>2. SecretsRead' = SecretsRead
    BY <1>1 DEF SecretsRead
  <2>3. Stands(s, key)
    BY <1>1, <2>2 DEF Stands
  <2>4. key \in DOMAIN auths /\ auths[key] = cfg.secrets[s][key]
    BY <1>1, <2>3 DEF SecretsInv
  <2>5. key \in keys
    BY <2>4 DEF OwnKeys, DockerKeys, DockerKeyMatches
  <2> QED
    BY <1>4, <1>5, <2>4, <2>5
<1>11. PluginsInv'
  BY <1>1, <1>7 DEF PluginsInv, Heard
<1>12. FileInv' /\ PrivateRegistryNotAnonymous'
  BY <1>1, <1>5 DEF FileInv, PrivateRegistryNotAnonymous
<1> QED
  BY <1>6, <1>9, <1>10, <1>11, <1>12

\* kubelet_credentials.go:296-305: a plugin that is not asked matches no image of its
\* rules, one that fails is passed over, and any other offers all it holds by them.
LEMMA KubeletInv == SourcesInv /\ (SkipProvider \/ AskProvider \/ ProviderFails) => SourcesInv'
<1> SUFFICES ASSUME SourcesInv, SkipProvider \/ AskProvider \/ ProviderFails PROVE SourcesInv'
  OBVIOUS
<1> USE DEF SourcesInv
<1>1. /\ UNCHANGED <<cfg, target, auths>> /\ source = "kubelet" /\ source' = source
      /\ pos \in DOMAIN cfg.providers /\ pos' = pos + 1
  BY DEF SkipProvider, AskProvider, ProviderFails, NextElement
<1> DEFINE map    == cfg.providers[pos].auth
           keys   == {key \in DOMAIN map : imageMatchesLoginPattern(target.registry, target.image, key)}
<1>2. /\ Len(cfg.secrets) \in Nat
      /\ Len(cfg.providers) \in Nat /\ DOMAIN cfg.providers = 1 .. Len(cfg.providers)
      /\ cfg.providers[pos].matchImages \subseteq Text
      /\ DOMAIN map \subseteq Text /\ IsFiniteSet(DOMAIN map)
      /\ \A key \in DOMAIN map : map[key] # NoAuth
  BY <1>1, Surroundings
<1>3. missed' = missed \/ missed' = missed \cup {<<"kubelet", pos>>}
  BY <1>1 DEF SkipProvider, AskProvider, ProviderFails
<1>4. /\ (offered \in Seq(Range(offered)))'
      /\ \A p : Offers(p) \subseteq Offers(p)'
      /\ \A p : p # "kubelet" => Offers(p)' = Offers(p)
      /\ AskProvider => \A key \in keys : map[key] \in Offers("kubelet")'
      /\ \A i \in DOMAIN offered' :
           \/ \E j \in DOMAIN offered : offered'[i] = offered[j]
           \/ offered'[i].provider = "kubelet" /\ offered'[i].auth # NoAuth
  <2>1. CASE AskProvider
    <3>1. PICK values \in Ranged(map, keys) : offered' = offered \o From("kubelet", values)
      BY <2>1 DEF AskProvider
    <3>2. IsFiniteSet(keys)
      BY <1>2, FS_Subset
    <3>3. values \in Seq(Range(values)) /\ Range(values) = {map[k] : k \in keys}
      <4> HIDE DEF keys, map
      <4> QED
        BY <3>1, <3>2, RangedMeetsAll
    <3>4. /\ (offered \in Seq(Range(offered)))'
          /\ \A p : Offers(p) \subseteq Offers(p)'
          /\ Range(values) \subseteq Offers("kubelet")'
          /\ \A p : p # "kubelet" => Offers(p)' = Offers(p)
          /\ \A i \in DOMAIN offered' :
               \/ \E j \in DOMAIN offered : offered'[i] = offered[j]
               \/ offered'[i].provider = "kubelet" /\ offered'[i].auth \in Range(values)
      BY <3>1, <3>3, Offering DEF WalkInv
    <3>5. \A v \in Range(values) : v # NoAuth
      BY <1>2, <3>3
    <3>6. \A key \in keys : map[key] \in Range(values)
      BY <3>3
    <3> HIDE DEF keys, map
    <3> QED
      BY <3>4, <3>5, <3>6
  <2>2. CASE ~AskProvider
    <3>1. offered' = offered
      BY <2>2 DEF SkipProvider, ProviderFails
    <3>2. \A p : Offers(p)' = Offers(p)
      BY <3>1 DEF Offers
    <3> HIDE DEF keys, map
    <3> QED
      BY <2>2, <3>1, <3>2 DEF WalkInv
  <2> QED
    BY <2>1, <2>2
<1>5. SourcesTypeOK'
  <2>1. \A i \in DOMAIN offered' :
          /\ offered'[i].provider \in Names
          /\ offered'[i].auth = NoAuth <=> offered'[i].provider = "anonymous"
    BY <1>4 DEF SourcesTypeOK, Names
  <2>2. missed' \subseteq {"secrets", "kubelet"} \X (1 .. Len(cfg.secrets) + Len(cfg.providers))
    <3>1. missed \subseteq {"secrets", "kubelet"} \X (1 .. Len(cfg.secrets) + Len(cfg.providers))
      BY DEF SourcesTypeOK
    <3>2. /\ pos \in 1 .. Len(cfg.providers)
          /\ Len(cfg.secrets) \in Nat /\ Len(cfg.providers) \in Nat
      BY <1>1, <1>2
    <3>3. pos \in 1 .. Len(cfg.secrets) + Len(cfg.providers)
      <4> DEFINE m == Len(cfg.secrets)
                 n == Len(cfg.providers)
      <4>1. pos \in 1 .. n /\ m \in Nat /\ n \in Nat
        BY <3>2
      <4> HIDE DEF m, n
      <4>2. pos \in 1 .. m + n
        BY <4>1
      <4> QED
        BY <4>2 DEF m, n
    <3>4. <<"kubelet", pos>> \in {"secrets", "kubelet"} \X (1 .. Len(cfg.secrets) + Len(cfg.providers))
      BY <3>3
    <3>5. CASE missed' = missed
      BY <3>1, <3>5
    <3>6. CASE missed' = missed \cup {<<"kubelet", pos>>}
      BY <3>1, <3>4, <3>6
    <3> QED
      BY <1>3, <3>5, <3>6
  <2>3. pos' \in Nat \ {0}
    BY <1>1, <1>2
  <2> QED
    BY <1>1, <2>1, <2>2, <2>3 DEF SourcesTypeOK
<1>6. \A j : <<"secrets", j>> \in missed' <=> <<"secrets", j>> \in missed
  <2> SUFFICES ASSUME NEW j, <<"secrets", j>> \in missed', <<"secrets", j>> \notin missed PROVE FALSE
    BY <1>3
  <2>1. <<"secrets", j>> = <<"kubelet", pos>>
    BY <1>3
  <2> QED
    BY <2>1
<1>7. \A j : <<"kubelet", j>> \in missed' <=> <<"kubelet", j>> \in missed \/ (j = pos /\ <<"kubelet", pos>> \in missed')
  <2> SUFFICES ASSUME NEW j, <<"kubelet", j>> \in missed', <<"kubelet", j>> \notin missed PROVE j = pos
    BY <1>3
  <2>1. <<"kubelet", j>> = <<"kubelet", pos>>
    BY <1>3
  <2> QED
    BY <2>1
<1>8. \A j : <<"kubelet", j>> \in missed => j < pos /\ j \in Nat
  BY <1>1 DEF WalkInv, SourcesTypeOK
<1>9. WalkInv'
  <2>1. pos' \in 1 .. Len(cfg'.providers) + 1
    BY <1>1, <1>2
  <2>2. \A j : <<"kubelet", j>> \in missed' => j < pos'
    BY <1>1, <1>2, <1>7, <1>8
  <2> QED
    BY <1>1, <1>4, <1>6, <2>1, <2>2 DEF WalkInv
<1>10. SecretsInv'
  BY <1>1, <1>4, <1>6, AfterSecrets
<1>11. \A p : KubeletRule(p)' <=> KubeletRule(p)
  BY <1>1, SameSurroundings
<1>12. \A p \in Text : ~Has(p, "/") /\ KubeletRule(p) => imageMatchesLoginPattern(target.registry, target.image, p)
  BY KubeletRuleIsEnough DEF KubeletRule, WalkInv
<1>13. PluginsInv'
  <2> SUFFICES ASSUME NEW j \in DOMAIN cfg.providers, Heard(j)',
                      NEW key \in PathFree(DOMAIN cfg.providers[j].auth), KubeletRule(key)
               PROVE  cfg.providers[j].auth[key] \in Offers("kubelet")'
    BY <1>1, <1>11 DEF PluginsInv
  <2>1. j < pos + 1 /\ <<"kubelet", j>> \notin missed' /\ \E m \in PathFree(cfg.providers[j].matchImages) : KubeletRule(m)
    BY <1>1, <1>11 DEF Heard
  <2>2. CASE j # pos
    <3>1. j < pos
      BY <1>1, <1>2, <2>1, <2>2
    <3>2. Heard(j)
      BY <1>3, <2>1, <3>1 DEF Heard
    <3> QED
      BY <1>1, <1>4, <3>2 DEF PluginsInv
  <2>3. CASE j = pos
    <3>1. AnyMatches(cfg.providers[pos].matchImages)
      BY <1>2, <1>12, <2>1, <2>3 DEF AnyMatches, PathFree
    <3>2. AskProvider
      BY <1>1, <2>1, <2>3, <3>1 DEF SkipProvider, ProviderFails
    <3>3. key \in keys
      BY <1>2, <1>12, <2>3 DEF PathFree
    <3> QED
      BY <1>4, <2>3, <3>2, <3>3
  <2> QED
    BY <2>2, <2>3
<1>14. FileInv' /\ PrivateRegistryNotAnonymous'
  BY <1>1, <1>4 DEF FileInv, PrivateRegistryNotAnonymous
<1> QED
  BY <1>5, <1>9, <1>10, <1>13, <1>14

\* readDockerConfig: the file that is found is one of those that decode.
LEMMA FileFound ==
  ASSUME SourcesTypeOK, DockerFile # 0
  PROVE  /\ IsFiniteSet(DOMAIN cfg.docker[DockerFile].auths)
         /\ NoAuth \notin Range(cfg.docker[DockerFile].credsStore)
<1> DEFINE file == cfg.docker[DockerFile]
<1>1. cfg.docker \in DockerFiles
  BY DEF SourcesTypeOK
<1>2. /\ cfg.docker \in Seq(Range(cfg.docker))
      /\ \A f \in Range(cfg.docker) : f.readable => Finite(f.auths) /\ NoAuth \notin Range(f.credsStore)
  BY <1>1, DockerFilesAssumption
<1>3. Len(cfg.docker) \in Nat /\ DOMAIN cfg.docker = 1 .. Len(cfg.docker)
  BY <1>2, LenProperties
<1> DEFINE I == {i \in 1 .. Len(cfg.docker) : cfg.docker[i].readable}
<1>4. I # {} /\ DockerFile = Min(I)
  BY DEF DockerFile, SelectInSeq
<1>5. PICK m \in I : \A k \in I : m <= k
  <2>1. I \in SUBSET Nat
    BY <1>3
  <2> HIDE DEF I
  <2> QED
    BY <1>4, <2>1, LeastNumber
<1>6. DockerFile \in I
  <2> HIDE DEF I
  <2> QED
    BY <1>4, <1>5 DEF Min
<1>7. file \in Range(cfg.docker) /\ file.readable
  BY <1>3, <1>6 DEF Range
<1> QED
  BY <1>2, <1>7 DEF Finite

\* docker_credentials.go:135-187: the helper's answer, then what the file holds for the
\* name the helper was asked for.
LEMMA TryDockerConfigInv == SourcesInv /\ TryDockerConfig => SourcesInv'
<1> SUFFICES ASSUME SourcesInv, TryDockerConfig PROVE SourcesInv'
  OBVIOUS
<1> USE DEF SourcesInv
<1> DEFINE file  == cfg.docker[DockerFile]
           keys  == DockerKeys(HelperName(file.credsStore), file.auths)
<1>1. /\ UNCHANGED <<cfg, target, auths, missed>>
      /\ source = "docker" /\ source' = "anonymous" /\ pos' = 1
  BY DEF TryDockerConfig, NextSource, Following
<1>2. DockerFile # 0 => IsFiniteSet(DOMAIN file.auths) /\ NoAuth \notin Range(file.credsStore)
  BY FileFound
<1>3. /\ (offered \in Seq(Range(offered)))'
      /\ \A p : Offers(p) \subseteq Offers(p)'
      /\ \A p : p # "docker-config" => Offers(p)' = Offers(p)
      /\ DockerFile # 0 => \A key \in keys : file.auths[key] \in Offers("docker-config")'
      /\ \A i \in DOMAIN offered' :
           \/ \E j \in DOMAIN offered : offered'[i] = offered[j]
           \/ offered'[i].provider = "docker-config" /\ offered'[i].auth # NoAuth
  <2>1. CASE DockerFile # 0
    <3>1. PICK values \in Ranged(file.auths, keys), helped \in {<<>>} \cup HelperAnswers(file.credsStore) :
            offered' = offered \o From("docker-config", helped \o values)
      BY <2>1 DEF TryDockerConfig
    <3>2. IsFiniteSet(keys)
      <4>1. keys \in SUBSET DOMAIN file.auths
        BY DEF DockerKeys
      <4> HIDE DEF keys
      <4> QED
        BY <1>2, <2>1, <4>1, FS_Subset
    <3>3. values \in Seq(Range(values)) /\ Range(values) = {file.auths[k] : k \in keys}
      <4> HIDE DEF keys, file
      <4> QED
        BY <3>1, <3>2, RangedMeetsAll
    <3>4. helped \in Seq(Range(helped)) /\ \A a \in Range(helped) : a # NoAuth
      <4>1. CASE helped = <<>>
        <5>1. DOMAIN helped = {}
          BY <4>1
        <5> QED
          BY <4>1, <5>1 DEF Range
      <4>2. CASE helped # <<>>
        <5>1. PICK name \in DOMAIN file.credsStore : helped = <<file.credsStore[name]>>
          BY <3>1, <4>2 DEF HelperAnswers
        <5>2. file.credsStore[name] # NoAuth
          BY <1>2, <2>1, <5>1 DEF Range
        <5>3. Range(helped) = {file.credsStore[name]}
          BY <5>1 DEF Range
        <5> HIDE DEF file
        <5> QED
          BY <5>1, <5>2, <5>3
      <4> QED
        BY <4>1, <4>2
    <3> DEFINE both == helped \o values
    <3>5. both \in Seq(Range(both)) /\ Range(both) = Range(helped) \cup Range(values)
      BY <3>3, <3>4, Concatenated
    <3>6. \A v \in Range(values) : v # NoAuth
      BY <3>3 DEF DockerKeys
    <3>7. \A v \in Range(both) : v # NoAuth
      BY <3>4, <3>5, <3>6
    <3>8. \A key \in keys : file.auths[key] \in Range(both)
      BY <3>3, <3>5
    <3>9. offered' = offered \o From("docker-config", both)
      BY <3>1
    <3> HIDE DEF both, keys, file
    <3>10. /\ (offered \in Seq(Range(offered)))'
           /\ \A p : Offers(p) \subseteq Offers(p)'
           /\ Range(both) \subseteq Offers("docker-config")'
           /\ \A p : p # "docker-config" => Offers(p)' = Offers(p)
           /\ \A i \in DOMAIN offered' :
                \/ \E j \in DOMAIN offered : offered'[i] = offered[j]
                \/ offered'[i].provider = "docker-config" /\ offered'[i].auth \in Range(both)
      BY <3>5, <3>9, Offering DEF WalkInv
    <3> QED
      BY <3>7, <3>8, <3>10
  <2>2. CASE DockerFile = 0
    <3>1. offered' = offered
      BY <2>2 DEF TryDockerConfig
    <3>2. \A p : Offers(p)' = Offers(p)
      BY <3>1 DEF Offers
    <3> HIDE DEF keys, file
    <3> QED
      BY <2>2, <3>1, <3>2 DEF WalkInv
  <2> QED
    BY <2>1, <2>2
<1>4. SourcesTypeOK'
  <2>1. \A i \in DOMAIN offered' :
          /\ offered'[i].provider \in Names
          /\ offered'[i].auth = NoAuth <=> offered'[i].provider = "anonymous"
    BY <1>3 DEF SourcesTypeOK, Names
  <2> QED
    BY <1>1, <2>1 DEF SourcesTypeOK, Sources
<1>5. WalkInv'
  BY <1>1, <1>3 DEF WalkInv
<1>6. SecretsInv'
  BY <1>1, <1>3, AfterSecrets
<1>7. PluginsInv'
  BY <1>1, <1>3 DEF PluginsInv, Heard, KubeletRule
<1>8. FileInv'
  <2>1. FileHolds' = FileHolds
    BY <1>1, SameSurroundings
  <2>2. FileHolds \subseteq Offers("docker-config")'
    <3> SUFFICES ASSUME DockerFile # 0, HelperName(file.credsStore) = target.registry
                 PROVE  \A key \in OwnKeys(file.auths) : file.auths[key] \in Offers("docker-config")'
      BY DEF FileHolds
    <3>1. \A key \in OwnKeys(file.auths) : key \in keys
      BY DEF OwnKeys, DockerKeys, DockerKeyMatches
    <3> QED
      BY <1>3, <3>1
  <2> QED
    BY <2>1, <2>2 DEF FileInv
<1>9. PrivateRegistryNotAnonymous'
  BY <1>1, <1>3 DEF PrivateRegistryNotAnonymous
<1> QED
  BY <1>4, <1>5, <1>6, <1>7, <1>8, <1>9

\* containerd_credentials.go:42-59, anonymous_credentials.go:13-29: a host without a header
\* has no candidate, and the anonymous one needs a registry that no pattern makes private.
LEMMA LastSourcesInv == SourcesInv /\ (TryContainerd \/ TryAnonymous) => SourcesInv'
<1> SUFFICES ASSUME SourcesInv, TryContainerd \/ TryAnonymous PROVE SourcesInv'
  OBVIOUS
<1> USE DEF SourcesInv
<1>1. /\ UNCHANGED <<cfg, target, auths, missed>> /\ pos' = 1
      /\ \/ source = "containerd" /\ source' = "docker"
         \/ source = "anonymous" /\ source' = "done"
  BY DEF TryContainerd, TryAnonymous, NextSource, Following
<1> DEFINE Sends(name, values, a) ==
        /\ offered' = offered \o From(name, values)
        /\ values = <<>> \/ values = <<a>>
        /\ \/ name = "containerD" /\ (values # <<>> => a # NoAuth)
           \/ name = "anonymous" /\ a = NoAuth /\ source = "anonymous" /\ (values # <<>> => ~AnyMatches(cfg.private))
<1>2. PICK name, values, a : Sends(name, values, a)
  <2>1. CASE TryContainerd
    <3>1. PICK header : offered' = offered \o From("containerD", IF header = NoAuth THEN <<>> ELSE <<header>>)
      BY <2>1 DEF TryContainerd
    <3>2. CASE header = NoAuth
      <4>1. offered' = offered \o From("containerD", <<>>)
        BY <3>1, <3>2
      <4>2. Sends("containerD", <<>>, header)
        BY <4>1
      <4> HIDE DEF Sends
      <4> QED
        BY <4>2
    <3>3. CASE header # NoAuth
      <4>1. offered' = offered \o From("containerD", <<header>>)
        BY <3>1, <3>3
      <4>2. Sends("containerD", <<header>>, header)
        BY <3>3, <4>1
      <4> HIDE DEF Sends
      <4> QED
        BY <4>2
    <3> QED
      BY <3>2, <3>3
  <2>2. CASE TryAnonymous
    <3>1. CASE AnyMatches(cfg.private)
      <4>1. offered' = offered \o From("anonymous", <<>>) /\ source = "anonymous"
        BY <2>2, <3>1 DEF TryAnonymous
      <4>2. Sends("anonymous", <<>>, NoAuth)
        BY <4>1
      <4> HIDE DEF Sends
      <4> QED
        BY <4>2
    <3>2. CASE ~AnyMatches(cfg.private)
      <4>1. offered' = offered \o From("anonymous", <<NoAuth>>) /\ source = "anonymous"
        BY <2>2, <3>2 DEF TryAnonymous
      <4>2. Sends("anonymous", <<NoAuth>>, NoAuth)
        BY <3>2, <4>1
      <4> HIDE DEF Sends
      <4> QED
        BY <4>2
    <3> QED
      BY <3>1, <3>2
  <2> QED
    BY <2>1, <2>2
<1>3. /\ (offered \in Seq(Range(offered)))'
      /\ \A p : Offers(p) \subseteq Offers(p)'
      /\ \A p : p # name => Offers(p)' = Offers(p)
      /\ values = <<>> => Offers(name)' = Offers(name)
      /\ \A i \in DOMAIN offered' :
           \/ \E j \in DOMAIN offered : offered'[i] = offered[j]
           \/ offered'[i].provider = name /\ offered'[i].auth = a /\ values # <<>>
  <2>1. offered' = offered \o From(name, values) /\ (values = <<>> \/ values = <<a>>)
    BY <1>2
  <2> HIDE DEF Sends
  <2>2. values \in Seq(Range(values)) /\ (values = <<>> => Range(values) = {}) /\ (values # <<>> => Range(values) = {a})
    <3>1. CASE values = <<>>
      BY <3>1 DEF Range
    <3>2. CASE values # <<>>
      <4>1. values = <<a>>
        BY <2>1, <3>2
      <4>2. Range(values) = {a}
        BY <4>1 DEF Range
      <4> QED
        BY <3>2, <4>1, <4>2
    <3> QED
      BY <3>1, <3>2
  <2>3. /\ (offered \in Seq(Range(offered)))'
        /\ \A p : Offers(p) \subseteq Offers(p)'
        /\ \A p : p # name => Offers(p)' = Offers(p)
        /\ \A i \in DOMAIN offered' :
             \/ \E j \in DOMAIN offered : offered'[i] = offered[j]
             \/ offered'[i].provider = name /\ offered'[i].auth \in Range(values)
    BY <2>1, <2>2, Offering DEF WalkInv
  <2>4. values = <<>> => Offers(name)' = Offers(name)
    <3> SUFFICES ASSUME values = <<>> PROVE \A v : v \in Offers(name)' => v \in Offers(name)
      BY <2>3
    <3>1. \A i \in DOMAIN offered' : \E j \in DOMAIN offered : offered'[i] = offered[j]
      BY <2>2, <2>3
    <3> QED
      BY <3>1 DEF Offers
  <2> QED
    BY <2>2, <2>3, <2>4
<1>4. SourcesTypeOK'
  <2>1. \A i \in DOMAIN offered' :
          /\ offered'[i].provider \in Names
          /\ offered'[i].auth = NoAuth <=> offered'[i].provider = "anonymous"
    BY <1>2, <1>3 DEF SourcesTypeOK, Names
  <2> QED
    BY <1>1, <2>1 DEF SourcesTypeOK, Sources
<1>5. WalkInv'
  BY <1>1, <1>3 DEF WalkInv
<1>6. SecretsInv'
  BY <1>1, <1>3, AfterSecrets
<1>7. PluginsInv'
  BY <1>1, <1>3 DEF PluginsInv, Heard, KubeletRule
<1>8. FileInv'
  <2>1. FileHolds' = FileHolds
    BY <1>1, SameSurroundings
  <2> QED
    BY <1>1, <1>3, <2>1 DEF FileInv
<1>9. PrivateRegistryNotAnonymous'
  <2> SUFFICES ASSUME NEW p \in PathFree(cfg.private), KubeletRule(p)
               PROVE  Offers("anonymous")' = {}
    BY <1>1 DEF PrivateRegistryNotAnonymous, KubeletRule
  <2>1. p \in Text /\ ~Has(p, "/") /\ p \in cfg.private
    BY Surroundings DEF PathFree
  <2>2. imageMatchesLoginPattern(target.registry, target.image, p)
    BY <2>1, KubeletRuleIsEnough DEF KubeletRule, WalkInv
  <2>3. AnyMatches(cfg.private)
    BY <2>1, <2>2 DEF AnyMatches
  <2>4. Offers("anonymous") = {}
    BY DEF PrivateRegistryNotAnonymous, KubeletRule
  <2> QED
    BY <1>2, <1>3, <2>3, <2>4
<1> QED
  BY <1>4, <1>5, <1>6, <1>7, <1>8, <1>9

LEMMA SourcesStutterInv == SourcesInv /\ UNCHANGED sourceVars => SourcesInv'
<1> SUFFICES ASSUME SourcesInv, UNCHANGED sourceVars PROVE SourcesInv'
  OBVIOUS
<1> USE DEF SourcesInv, sourceVars
<1>1. \A p : Offers(p)' = Offers(p)
  BY DEF Offers
<1>2. SourcesTypeOK' /\ WalkInv'
  BY DEF SourcesTypeOK, WalkInv
<1>3. SecretsRead' = SecretsRead
  BY DEF SecretsRead
<1>4. \A s, key : Stands(s, key)' <=> Stands(s, key)
  BY <1>3 DEF Stands
<1>5. /\ \A map : OwnKeys(map)' = OwnKeys(map)
      /\ FileHolds' = FileHolds
  BY SameSurroundings
<1>6. SecretsInv'
  BY <1>1, <1>4, <1>5 DEF SecretsInv
<1>7. PluginsInv' /\ FileInv' /\ PrivateRegistryNotAnonymous'
  BY <1>1, <1>5 DEF PluginsInv, Heard, KubeletRule, FileInv, PrivateRegistryNotAnonymous
<1> QED
  BY <1>2, <1>6, <1>7

\* Every step of the walk.
LEMMA SourcesNextInv == SourcesInv /\ [SourcesNext]_sourceVars => SourcesInv'
BY ReadSecretInv, SourceExhaustedInv, TryPullSecretInv, KubeletInv, TryDockerConfigInv,
   LastSourcesInv, SourcesStutterInv DEF SourcesNext

LEMMA SourcesInvariant == SourcesSpec => []SourcesInv
BY SourcesInitInv, SourcesNextInv, PTL DEF SourcesSpec

\* docker_credentials.go:80, containerd_credentials.go:45: through any surroundings, only the
\* anonymous candidate is empty, and only secrets and plugins of the call are given up.
THEOREM SourcesTypeCorrect == SourcesSpec => []SourcesTypeOK
<1>1. SourcesInv => SourcesTypeOK
  BY DEF SourcesInv
<1> QED
  BY <1>1, SourcesInvariant, PTL

\* hook.go:187, kubelet_credentials.go:245: for any secrets, plugins and docker configuration,
\* and whichever of them fail, every credential for the image's registry that the secrets
\* read, the plugins that answered and the node's file hold has been offered in the end.
THEOREM OwnCredentialsAreOffered == SourcesSpec => []OwnCredentialsOffered
<1>1. SourcesInv => OwnCredentialsOffered
  <2> SUFFICES ASSUME SourcesInv, source = "done"
               PROVE  /\ SecretsHold \subseteq Offers("ImagePullSecret")
                      /\ PluginsHold \subseteq Offers("kubelet")
                      /\ FileHolds \subseteq Offers("docker-config")
    BY DEF OwnCredentialsOffered
  <2>1. SecretsHold \subseteq Offers("ImagePullSecret")
    <3>1. SecretsRead = {s \in DOMAIN cfg.secrets : <<"secrets", s>> \notin missed}
      BY DEF SecretsRead
    <3> SUFFICES ASSUME NEW value \in SecretsHold PROVE value \in Offers("ImagePullSecret")
      OBVIOUS
    <3>2. PICK s, key :
            /\ s \in SecretsRead /\ key \in OwnKeys(cfg.secrets[s])
            /\ value = cfg.secrets[s][key]
            /\ \A t \in SecretsRead : t > s => key \notin DOMAIN cfg.secrets[t]
      <4> HIDE DEF SecretsRead
      <4> QED
        BY <3>1 DEF SecretsHold
    <3>3. Stands(s, key)
      BY <3>2 DEF Stands, OwnKeys
    <3> QED
      BY <3>2, <3>3 DEF SourcesInv, SecretsInv
  <2>2. PluginsHold \subseteq Offers("kubelet")
    <3> SUFFICES ASSUME NEW value \in PluginsHold PROVE value \in Offers("kubelet")
      OBVIOUS
    <3>1. PICK j, key :
            /\ j \in DOMAIN cfg.providers /\ key \in PathFree(DOMAIN cfg.providers[j].auth)
            /\ value = cfg.providers[j].auth[key]
            /\ KubeletMatches(target.registry, target.image, key)
            /\ <<"kubelet", j>> \notin missed
            /\ \E m \in PathFree(cfg.providers[j].matchImages) : KubeletMatches(target.registry, target.image, m)
      BY DEF PluginsHold
    <3>2. Heard(j) /\ KubeletRule(key)
      BY <3>1 DEF Heard, KubeletRule
    <3> QED
      BY <3>1, <3>2 DEF SourcesInv, PluginsInv
  <2>3. FileHolds \subseteq Offers("docker-config")
    BY DEF SourcesInv, FileInv
  <2> QED
    BY <2>1, <2>2, <2>3
<1> QED
  BY <1>1, SourcesInvariant, PTL

\* cmd/noe/main.go:52: for any patterns and proxies, a registry that one of them makes private
\* by the kubelet's rules is never asked without a credential.
THEOREM PrivateRegistriesNotAnonymous == SourcesSpec => []PrivateRegistryNotAnonymous
<1>1. SourcesInv => PrivateRegistryNotAnonymous
  BY DEF SourcesInv
<1> QED
  BY <1>1, SourcesInvariant, PTL

-----------------------------------------------------------------------------
(***************************************************************************)
(* The seam: what ArchListing takes for granted of its candidates.         *)
(***************************************************************************)
\* The place of an authenticator in NewAuthenticator (login.go:44-59), by the name it gives
\* its candidates, and the last place whose authenticator may have sent some.
Place(name) == CASE name = "ImagePullSecret" -> 1
                 [] name = "kubelet"         -> 2
                 [] name = "containerD"      -> 3
                 [] name = "docker-config"   -> 4
                 [] name = "anonymous"       -> 5

Reached(s) == CASE s \in {"secrets", "pullSecret"}    -> 0
                [] s \in {"kubelet", "containerd"}    -> 2
                [] s = "docker"                       -> 3
                [] s = "anonymous"                    -> 4
                [] s = "done"                         -> 5

\* The authenticators in the terms of ArchListing, and the candidates as it has them.
Authenticator == <<"secret", "kubelet", "containerd", "docker", "anonymous">>
AsCandidates  == [i \in DOMAIN offered |-> Authenticator[Place(offered[i].provider)]]

\* The candidates of an authenticator come after those of every earlier one.
BestFirst ==
  \A i, j \in DOMAIN offered : i < j => Place(offered[i].provider) <= Place(offered[j].provider)

PlaceInv == BestFirst /\ \A i \in DOMAIN offered : Place(offered[i].provider) <= Reached(source)

\* What is sent by an authenticator that is not before any other that has sent.
LEMMA Appended ==
  ASSUME offered \in Seq(Range(offered)), BestFirst, NEW name \in Names,
         NEW values, values \in Seq(Range(values)),
         offered' = offered \o From(name, values),
         \A i \in DOMAIN offered : Place(offered[i].provider) <= Place(name)
  PROVE  BestFirst' /\ \A i \in DOMAIN offered' : Place(offered'[i].provider) <= Place(name)
<1> DEFINE sent == From(name, values)
<1>1. /\ Len(offered) \in Nat /\ DOMAIN offered = 1 .. Len(offered)
      /\ Len(values) \in Nat /\ DOMAIN values = 1 .. Len(values)
  BY LenProperties
<1>2. /\ sent \in Seq(Range(sent)) /\ DOMAIN sent = 1 .. Len(values)
      /\ \A i \in 1 .. Len(values) : sent[i].provider = name
  BY <1>1, Sent DEF From
<1>3. Len(sent) = Len(values)
  <2> HIDE DEF sent
  <2> QED
    BY <1>1, <1>2, LenProperties
<1> DEFINE both == offered \o sent
           All  == Range(offered) \cup Range(sent)
<1>4. offered \in Seq(All) /\ sent \in Seq(All)
  <2>1. \A i \in 1 .. Len(offered) : offered[i] \in All
    BY <1>1 DEF Range
  <2>2. \A i \in 1 .. Len(values) : sent[i] \in All
    BY <1>2 DEF Range
  <2> HIDE DEF All, sent
  <2> QED
    BY <1>1, <1>2, <1>3, <2>1, <2>2
<1>5. /\ DOMAIN both = 1 .. Len(offered) + Len(values)
      /\ \A i \in 1 .. Len(offered) + Len(values) :
           both[i] = IF i <= Len(offered) THEN offered[i] ELSE sent[i - Len(offered)]
  <2> HIDE DEF All, sent
  <2>1. /\ both \in Seq(All) /\ Len(both) = Len(offered) + Len(sent)
        /\ \A i \in 1 .. Len(offered) + Len(sent) :
             both[i] = IF i <= Len(offered) THEN offered[i] ELSE sent[i - Len(offered)]
    BY <1>4, ConcatProperties
  <2>2. DOMAIN both = 1 .. Len(both)
    BY <2>1, LenProperties
  <2> QED
    BY <1>3, <2>1, <2>2
<1>6. offered' = both
  OBVIOUS
<1> HIDE DEF both, All, sent
<1>7. ASSUME NEW i \in DOMAIN offered'
      PROVE  \/ i \in DOMAIN offered /\ offered'[i] = offered[i]
             \/ i > Len(offered) /\ offered'[i].provider = name
  <2>1. i \in 1 .. Len(offered) + Len(values)
    BY <1>5, <1>6
  <2>2. CASE i <= Len(offered)
    BY <1>1, <1>5, <1>6, <2>1, <2>2
  <2>3. CASE ~(i <= Len(offered))
    <3>1. i - Len(offered) \in 1 .. Len(values)
      BY <1>1, <2>1, <2>3
    <3> QED
      BY <1>1, <1>2, <1>5, <1>6, <2>1, <2>3, <3>1
  <2> QED
    BY <2>2, <2>3
<1>8. \A i \in DOMAIN offered' : i \in Nat
  BY <1>1, <1>5, <1>6
<1>9. Place(name) <= Place(name)
  BY DEF Place, Names
<1>10. \A i \in DOMAIN offered' : Place(offered'[i].provider) <= Place(name)
  BY <1>7, <1>9
<1>11. BestFirst'
  <2> SUFFICES ASSUME NEW i \in DOMAIN offered', NEW j \in DOMAIN offered', i < j
               PROVE  Place(offered'[i].provider) <= Place(offered'[j].provider)
    BY DEF BestFirst
  <2>1. CASE j \in DOMAIN offered /\ offered'[j] = offered[j]
    <3>1. i \in DOMAIN offered /\ offered'[i] = offered[i]
      BY <1>1, <1>7, <1>8, <2>1
    <3> QED
      BY <2>1, <3>1 DEF BestFirst
  <2>2. CASE offered'[j].provider = name
    BY <1>10, <2>2
  <2> QED
    BY <1>7, <2>1, <2>2
<1> QED
  BY <1>10, <1>11

LEMMA PlaceInvariance == SourcesInv /\ PlaceInv /\ [SourcesNext]_sourceVars => PlaceInv'
<1> SUFFICES ASSUME SourcesInv, PlaceInv, [SourcesNext]_sourceVars PROVE PlaceInv'
  OBVIOUS
<1>1. /\ offered \in Seq(Range(offered))
      /\ \A i \in DOMAIN offered : Place(offered[i].provider) \in 1 .. 5
  BY DEF SourcesInv, WalkInv, SourcesTypeOK, Names, Place
<1> DEFINE Sends(name, values) ==
             /\ values \in Seq(Range(values)) /\ offered' = offered \o From(name, values)
             /\ name \in Names
             /\ Reached(source) \in Nat /\ Reached(source') \in Nat
             /\ Reached(source) <= Place(name) /\ Place(name) <= Reached(source')
<1>2. ASSUME NEW name, NEW values, Sends(name, values) PROVE PlaceInv'
  <2>1. /\ name \in Names /\ values \in Seq(Range(values)) /\ offered' = offered \o From(name, values)
        /\ Reached(source) \in Nat /\ Reached(source') \in Nat
        /\ Reached(source) <= Place(name) /\ Place(name) <= Reached(source')
    BY <1>2
  <2> HIDE DEF Sends
  <2>2. Place(name) \in 1 .. 5
    BY <2>1 DEF Names, Place
  <2>3. \A i \in DOMAIN offered : Place(offered[i].provider) <= Place(name)
    <3> SUFFICES ASSUME NEW i \in DOMAIN offered PROVE Place(offered[i].provider) <= Place(name)
      OBVIOUS
    <3>1. Place(offered[i].provider) <= Reached(source) /\ Place(offered[i].provider) \in 1 .. 5
      BY <1>1 DEF PlaceInv
    <3> QED
      BY <2>1, <2>2, <3>1
  <2>4. SourcesInv'
    BY SourcesNextInv
  <2>5. \A i \in DOMAIN offered' : Place(offered'[i].provider) \in 1 .. 5
    BY <2>4 DEF SourcesInv, SourcesTypeOK, Names, Place
  <2>6. BestFirst' /\ \A i \in DOMAIN offered' : Place(offered'[i].provider) <= Place(name)
    BY <1>1, <2>1, <2>3, Appended DEF PlaceInv
  <2>7. \A i \in DOMAIN offered' : Place(offered'[i].provider) <= Reached(source')
    <3> SUFFICES ASSUME NEW i \in DOMAIN offered' PROVE Place(offered'[i].provider) <= Reached(source')
      OBVIOUS
    <3>1. Place(offered'[i].provider) \in 1 .. 5 /\ Place(offered'[i].provider) <= Place(name)
      BY <2>5, <2>6
    <3> QED
      BY <2>1, <2>2, <3>1
  <2> QED
    BY <2>6, <2>7 DEF PlaceInv
<1>3. CASE offered' = offered /\ source' \in Sources /\ Reached(source) <= Reached(source')
  BY <1>1, <1>3 DEF PlaceInv, BestFirst, Reached, Sources, SourcesInv, SourcesTypeOK
<1>4. CASE ReadSecret \/ SecretFails \/ SkipProvider \/ ProviderFails \/ UNCHANGED sourceVars
  <2>1. offered' = offered /\ source' = source /\ source \in Sources
    BY <1>4 DEF ReadSecret, SecretFails, SkipProvider, ProviderFails, NextElement, sourceVars,
                SourcesInv, SourcesTypeOK
  <2>2. Reached(source) <= Reached(source)
    BY <2>1 DEF Reached, Sources
  <2> QED
    BY <1>3, <2>1, <2>2
<1>5. CASE SourceExhausted
  <2>1. offered' = offered /\ source \in {"secrets", "kubelet"} /\ source' = Following(source)
    BY <1>5 DEF SourceExhausted, NextSource
  <2>2. source' \in Sources /\ Reached(source) <= Reached(source')
    BY <2>1 DEF Following, Sources, Reached
  <2> QED
    BY <1>3, <2>1, <2>2
<1>6. CASE TryPullSecret
  <2> DEFINE keys == DockerKeys(target.registry, auths)
  <2>1. PICK values \in Ranged(auths, keys) : offered' = offered \o From("ImagePullSecret", values)
    BY <1>6 DEF TryPullSecret
  <2>2. IsFiniteSet(keys)
    BY FS_Subset DEF DockerKeys, SourcesInv, WalkInv
  <2>3. values \in Seq(Range(values))
    <3> HIDE DEF keys
    <3> QED
      BY <2>1, <2>2, RangedMeetsAll
  <2>4. source = "pullSecret" /\ source' = "kubelet"
    BY <1>6 DEF TryPullSecret, NextSource, Following
  <2>5. Sends("ImagePullSecret", values)
    BY <2>1, <2>3, <2>4 DEF Place, Reached, Names
  <2> HIDE DEF Sends
  <2> QED
    BY <1>2, <2>5
<1>7. CASE AskProvider
  <2> DEFINE map  == cfg.providers[pos].auth
             keys == {key \in DOMAIN map : imageMatchesLoginPattern(target.registry, target.image, key)}
  <2>1. PICK values \in Ranged(map, keys) : offered' = offered \o From("kubelet", values)
    BY <1>7 DEF AskProvider
  <2>2. IsFiniteSet(keys)
    <3>1. pos \in DOMAIN cfg.providers
      BY <1>7 DEF AskProvider
    <3>2. IsFiniteSet(DOMAIN map)
      BY <3>1, Surroundings DEF SourcesInv
    <3> QED
      BY <3>2, FS_Subset
  <2>3. values \in Seq(Range(values))
    <3> HIDE DEF keys, map
    <3> QED
      BY <2>1, <2>2, RangedMeetsAll
  <2>4. source = "kubelet" /\ source' = "kubelet"
    BY <1>7 DEF AskProvider, NextElement
  <2>5. Sends("kubelet", values)
    <3> HIDE DEF keys, map
    <3> QED
      BY <2>1, <2>3, <2>4 DEF Place, Reached, Names
  <2> HIDE DEF Sends
  <2> QED
    BY <1>2, <2>5
<1>8. CASE TryContainerd
  <2>1. PICK header : offered' = offered \o From("containerD", IF header = NoAuth THEN <<>> ELSE <<header>>)
    BY <1>8 DEF TryContainerd
  <2> DEFINE values == IF header = NoAuth THEN <<>> ELSE <<header>>
  <2>2. values \in Seq(Range(values))
    BY OneOrNone
  <2>3. source = "containerd" /\ source' = "docker"
    BY <1>8 DEF TryContainerd, NextSource, Following
  <2>4. Sends("containerD", values)
    <3>1. offered' = offered \o From("containerD", values)
      BY <2>1
    <3> HIDE DEF values
    <3> QED
      BY <3>1, <2>2, <2>3 DEF Place, Reached, Names
  <2> HIDE DEF Sends, values
  <2> QED
    BY <1>2, <2>4
<1>9. CASE TryDockerConfig
  <2>1. source = "docker" /\ source' = "anonymous"
    BY <1>9 DEF TryDockerConfig, NextSource, Following
  <2>2. CASE DockerFile = 0
    <3>1. offered' = offered
      BY <1>9, <2>2 DEF TryDockerConfig
    <3>2. source' \in Sources /\ Reached(source) <= Reached(source')
      BY <2>1 DEF Sources, Reached
    <3> QED
      BY <1>3, <3>1, <3>2
  <2>3. CASE DockerFile # 0
    <3> DEFINE file == cfg.docker[DockerFile]
               keys == DockerKeys(HelperName(file.credsStore), file.auths)
    <3>1. PICK found \in Ranged(file.auths, keys), helped \in {<<>>} \cup HelperAnswers(file.credsStore) :
            offered' = offered \o From("docker-config", helped \o found)
      BY <1>9, <2>3 DEF TryDockerConfig
    <3>2. IsFiniteSet(keys)
      BY <2>3, FileFound, FS_Subset DEF DockerKeys, SourcesInv
    <3>3. found \in Seq(Range(found))
      <4> HIDE DEF keys, file
      <4> QED
        BY <3>1, <3>2, RangedMeetsAll
    <3>4. helped \in Seq(Range(helped))
      <4>1. helped = <<>> \/ \E a : helped = <<a>>
        BY <3>1 DEF HelperAnswers
      <4> QED
        BY <4>1, OneOrNone
    <3>5. helped \o found \in Seq(Range(helped \o found))
      BY <3>3, <3>4, Concatenated
    <3>6. Sends("docker-config", helped \o found)
      <4> HIDE DEF keys, file
      <4> QED
        BY <2>1, <3>1, <3>5 DEF Place, Reached, Names
    <3> HIDE DEF Sends
    <3> QED
      BY <1>2, <3>6
  <2> QED
    BY <2>2, <2>3
<1>10. CASE TryAnonymous
  <2> DEFINE values == IF AnyMatches(cfg.private) THEN <<>> ELSE <<NoAuth>>
  <2>1. offered' = offered \o From("anonymous", values)
    BY <1>10 DEF TryAnonymous
  <2>2. values \in Seq(Range(values))
    BY OneOrNone
  <2>3. source = "anonymous" /\ source' = "done"
    BY <1>10 DEF TryAnonymous, NextSource, Following
  <2> HIDE DEF values
  <2>4. Sends("anonymous", values)
    BY <2>1, <2>2, <2>3 DEF Place, Reached, Names
  <2> HIDE DEF Sends
  <2> QED
    BY <1>2, <2>4
<1> QED
  BY <1>4, <1>5, <1>6, <1>7, <1>8, <1>9, <1>10 DEF SourcesNext

\* login.go:44-59: in any surroundings the candidates come from the five authenticators in
\* their order, as ArchListing assumes (CandidatesAssumption): none turns up after one of
\* a later source, and the request without a credential comes last.
THEOREM OffersAreCandidates ==
  SourcesSpec => [](BestFirst /\ AsCandidates \in Seq({"secret", "kubelet", "containerd", "docker", "anonymous"}))
<1>1. SourcesInit => PlaceInv
  BY DEF SourcesInit, PlaceInv, BestFirst
<1>2. SourcesInv /\ PlaceInv
        => BestFirst /\ AsCandidates \in Seq({"secret", "kubelet", "containerd", "docker", "anonymous"})
  <2> SUFFICES ASSUME SourcesInv
               PROVE  AsCandidates \in Seq({"secret", "kubelet", "containerd", "docker", "anonymous"})
    BY DEF PlaceInv
  <2>1. Len(offered) \in Nat /\ DOMAIN offered = 1 .. Len(offered)
    BY LenProperties DEF SourcesInv, WalkInv
  <2>2. \A i \in DOMAIN offered :
          Authenticator[Place(offered[i].provider)] \in {"secret", "kubelet", "containerd", "docker", "anonymous"}
    BY DEF SourcesInv, SourcesTypeOK, Names, Place, Authenticator
  <2> HIDE DEF Authenticator
  <2> QED
    BY <2>1, <2>2 DEF AsCandidates
<1> QED
  BY <1>1, <1>2, SourcesInitInv, SourcesInvariant, PlaceInvariance, PTL DEF SourcesSpec

=============================================================================
