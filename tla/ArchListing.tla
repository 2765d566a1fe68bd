----------------------------- MODULE ArchListing -----------------------------
(***************************************************************************)
(* pkg/registry/registry.go: one call of PlainRegistry.ListArchs.          *)
(*                                                                         *)
(* The authenticators run in a goroutine of their own and hand candidate   *)
(* credentials, best first, over an unbuffered channel.  The caller tries  *)
(* each in turn (listArchsWithAuth): it fetches the manifest the tag names *)
(* and, when that is a list, fetches every listed manifest in a goroutine  *)
(* that reports over a second unbuffered channel.                          *)
(***************************************************************************)
EXTENDS Sequences, Integers, FiniteSets

CONSTANTS
  Candidates,        \* the credentials, in the order of NewAuthenticator; each
                     \* is the name of the authenticator that finds it
  Manifest,          \* slots of a manifest list
  Images,            \* what the tag may name
  SchedulableArchs   \* --cluster-schedulable-archs, {} for no restriction

ASSUME CandidatesAssumption == Candidates \in Seq({"secret", "kubelet", "containerd", "docker", "anonymous"})
ASSUME ImagesAssumption == \A i \in Images : DOMAIN i.platforms \subseteq Manifest

VARIABLES
  image,     \* [list, arch, platforms, missing]
  ctxDone,   \* the context of the call is cancelled
  offer,     \* the candidate the authenticators are at
  apc,       \* their goroutine: "preparing", "offering", "closed"
  pc,        \* the caller: "receiving", "fetching", "collecting", "returned"
  auth,      \* the candidate it tries
  fetch,     \* the goroutine of each listed manifest
  platforms, \* platforms of the list, so far
  answer,    \* what ListArchs returned
  refused,   \* history: candidates whose listing failed
  expired    \* history: the caller of ListArchs gave up

authVars   == <<offer, apc>>
callerVars == <<pc, auth, fetch, platforms, answer, refused>>
vars == <<image, ctxDone, authVars, callerVars, expired>>

NoAnswer == [platforms |-> {}, err |-> FALSE]
Failed   == [platforms |-> {}, err |-> TRUE]
Default  == [arch |-> "amd64", os |-> "linux"]

Provider(i) == Candidates[i]

\* The first candidate of the next authenticator.
NextProvider(i) ==
  CHOOSE j \in i + 1 .. Len(Candidates) + 1 :
    /\ \A k \in i + 1 .. j - 1 : Provider(k) = Provider(i)
    /\ j \in DOMAIN Candidates => Provider(j) # Provider(i)

\* The kubelet's credential plugin runs before the first of its credentials.
NeedsExec(i) == Provider(i) = "kubelet" /\ (i = 1 \/ Provider(i - 1) # "kubelet")

-----------------------------------------------------------------------------
(***************************************************************************)
(* Authenticators.Authenticate and the implementations.                    *)
(***************************************************************************)
Move(i) ==
  /\ offer' = i
  /\ apc' = "preparing"

Offer ==
  /\ apc = "preparing" /\ offer \in DOMAIN Candidates
  /\ apc' = "offering"
  /\ UNCHANGED <<image, ctxDone, offer, callerVars, expired>>

\* exec.CommandContext fails under a cancelled context.
ExecFails ==
  /\ apc = "preparing" /\ offer \in DOMAIN Candidates
  /\ ctxDone /\ NeedsExec(offer)
  /\ Move(NextProvider(offer))
  /\ UNCHANGED <<image, ctxDone, callerVars, expired>>

\* Mutant: the send does not look at the context.
AbandonNever == FALSE /\ UNCHANGED vars

\* The select on ctx.Done(): the authenticator returns, the next one starts.
\* The kubelet's has no such select.
Abandon ==
  /\ apc = "offering" /\ ctxDone
  /\ Provider(offer) # "kubelet"
  /\ Move(NextProvider(offer))
  /\ UNCHANGED <<image, ctxDone, callerVars, expired>>

CloseCandidates ==
  /\ apc = "preparing" /\ offer = Len(Candidates) + 1
  /\ apc' = "closed"
  /\ UNCHANGED <<image, ctxDone, offer, callerVars, expired>>

-----------------------------------------------------------------------------
(***************************************************************************)
(* ListArchs.                                                              *)
(***************************************************************************)
\* Mutant: the authenticator goes on with the next one after its first credential.
ReceiveOnePerProvider ==
  /\ pc = "receiving" /\ apc = "offering"
  /\ auth' = offer
  /\ Move(NextProvider(offer))
  /\ pc' = "fetching"
  /\ UNCHANGED <<image, ctxDone, fetch, platforms, answer, refused, expired>>

Receive ==
  /\ pc = "receiving" /\ apc = "offering"
  /\ auth' = offer
  /\ Move(offer + 1)
  /\ pc' = "fetching"
  /\ UNCHANGED <<image, ctxDone, fetch, platforms, answer, refused, expired>>

\* Leaving ListArchs runs the deferred cancel().
Return(a) ==
  /\ answer' = a
  /\ pc' = "returned"
  /\ ctxDone' = TRUE

\* listArchsWithAuth returned no error.
Succeed(ps) == Return([platforms |-> IF ps = {} THEN {Default} ELSE ps, err |-> FALSE])

NoMoreCandidates ==
  /\ pc = "receiving" /\ apc = "closed"
  /\ Return(Failed)
  /\ UNCHANGED <<image, authVars, auth, fetch, platforms, refused, expired>>

(***************************************************************************)
(* listArchsWithAuth.  The first request fails for lack of access, a       *)
(* registry or network error, a cancelled context or an unreadable body.   *)
(***************************************************************************)
FetchFails ==
  /\ pc = "fetching"
  /\ refused' = refused \cup {auth}
  /\ pc' = "receiving"
  /\ UNCHANGED <<image, ctxDone, authVars, auth, fetch, platforms, answer, expired>>

\* Mutant: the architecture of a lone manifest is reported with a made-up OS.
FetchManifestAsLinux ==
  /\ pc = "fetching" /\ ~ctxDone /\ ~image.list
  /\ Succeed({[arch |-> image.arch, os |-> "linux"]})
  /\ UNCHANGED <<image, authVars, auth, fetch, platforms, refused, expired>>

FetchManifest ==
  /\ pc = "fetching" /\ ~ctxDone /\ ~image.list
  /\ Succeed(IF image.arch = "" THEN {} ELSE {[arch |-> image.arch, os |-> ""]})
  /\ UNCHANGED <<image, authVars, auth, fetch, platforms, refused, expired>>

Usable(p) == p.arch # "unknown" /\ (SchedulableArchs = {} \/ p.arch \in SchedulableArchs)

Listed == {m \in DOMAIN image.platforms : Usable(image.platforms[m])}

FetchList ==
  /\ pc = "fetching" /\ ~ctxDone /\ image.list
  /\ fetch' = [m \in Manifest |-> IF m \in Listed THEN "fetching" ELSE "none"]
  /\ platforms' = {}
  /\ pc' = "collecting"
  /\ UNCHANGED <<image, ctxDone, authVars, auth, answer, refused, expired>>

\* The goroutine of a listed manifest: 200, 404, anything else or an error.
Report(m, state) ==
  /\ fetch[m] = "fetching"
  /\ fetch' = [fetch EXCEPT ![m] = state]
  /\ UNCHANGED <<image, ctxDone, authVars, pc, auth, platforms, answer, refused, expired>>

ManifestFound(m)   == ~ctxDone /\ m \notin image.missing /\ Report(m, "found")
\* Mutant: no wg.Done() for a manifest that is missing.
ManifestMissingSilent(m) == ~ctxDone /\ m \in image.missing /\ Report(m, "lost")

ManifestMissing(m) == ~ctxDone /\ m \in image.missing /\ Report(m, "skipped")

ManifestFails(m)   == Report(m, "failed")

\* The receiving loop.  A failed manifest makes it return the err of the list
\* request, which is nil, and no platforms.
CollectFound(m) ==
  /\ pc = "collecting" /\ fetch[m] = "found"
  /\ platforms' = platforms \cup {image.platforms[m]}
  /\ fetch' = [fetch EXCEPT ![m] = "delivered"]
  /\ UNCHANGED <<image, ctxDone, authVars, pc, auth, answer, refused, expired>>

CollectFailed(m) ==
  /\ pc = "collecting" /\ fetch[m] = "failed"
  /\ fetch' = [fetch EXCEPT ![m] = "rejected"]
  /\ Succeed({})
  /\ UNCHANGED <<image, authVars, auth, platforms, refused, expired>>

\* Mutant: the channel is closed while a goroutine is fetching.
CollectEndEarly ==
  /\ pc = "collecting"
  /\ \E m \in Manifest : fetch[m] \in {"skipped", "delivered"}
  /\ Succeed(platforms)
  /\ UNCHANGED <<image, authVars, auth, fetch, platforms, refused, expired>>

\* wg.Wait() has returned and the channel is closed.
CollectEnd ==
  /\ pc = "collecting"
  /\ \A m \in Manifest : fetch[m] \in {"none", "skipped", "delivered"}
  /\ Succeed(platforms)
  /\ UNCHANGED <<image, authVars, auth, fetch, platforms, refused, expired>>

-----------------------------------------------------------------------------
\* The webhook's client gives up, or the manager stops: the context given to
\* ListArchs is cancelled.
CallerGivesUp ==
  /\ ~expired /\ pc # "returned"
  /\ expired' = TRUE
  /\ ctxDone' = TRUE
  /\ UNCHANGED <<image, authVars, callerVars>>

Init ==
  /\ image \in Images
  /\ ctxDone = FALSE
  /\ offer = 1 /\ apc = "preparing"
  /\ pc = "receiving"
  /\ auth = 0
  /\ fetch = [m \in Manifest |-> "none"]
  /\ platforms = {}
  /\ answer = NoAnswer
  /\ refused = {}
  /\ expired = FALSE

Authenticate == Offer \/ ExecFails \/ Abandon \/ CloseCandidates

ListArchs ==
  \/ Receive \/ NoMoreCandidates
  \/ FetchFails \/ FetchManifest \/ FetchList
  \/ \E m \in Manifest : CollectFound(m) \/ CollectFailed(m)
  \/ CollectEnd

FetchPointed(m) == ManifestFound(m) \/ ManifestMissing(m) \/ ManifestFails(m)

Next == Authenticate \/ ListArchs \/ (\E m \in Manifest : FetchPointed(m)) \/ CallerGivesUp

(***************************************************************************)
(* Goroutines keep running and every HTTP request ends.  The context does  *)
(* not see to that: WWWAuthenticateTransport sends its HEAD and its token  *)
(* request without one (registry.go:249), so it takes a registry that      *)
(* answers or a connection that breaks.                                    *)
(***************************************************************************)
Fairness ==
  /\ WF_vars(Authenticate)
  /\ WF_vars(ListArchs)
  /\ \A m \in Manifest : WF_vars(FetchPointed(m))

Spec     == Init /\ [][Next]_vars
FairSpec == Spec /\ Fairness

-----------------------------------------------------------------------------
(***************************************************************************)
(* Properties.                                                             *)
(***************************************************************************)
OfLists     == UNION {{i.platforms[m] : m \in DOMAIN i.platforms} : i \in Images}
OfManifests == {[arch |-> i.arch, os |-> ""] : i \in Images}
Known       == {Default} \cup OfLists \cup OfManifests

\* The state of ListArchs, of its authenticators and of the fetching goroutines.
TypeOK ==
  /\ image \in Images
  /\ ctxDone \in BOOLEAN /\ expired \in BOOLEAN
  /\ offer \in 1 .. Len(Candidates) + 1
  /\ apc \in {"preparing", "offering", "closed"}
  /\ pc \in {"receiving", "fetching", "collecting", "returned"}
  /\ auth \in 0 .. Len(Candidates)
  /\ fetch \in [Manifest -> {"none", "fetching", "found", "failed",
                         "skipped", "delivered", "rejected"}]
  /\ platforms \subseteq Known
  /\ answer.err \in BOOLEAN /\ answer.platforms \subseteq Known
  /\ refused \subseteq DOMAIN Candidates

Answered == pc = "returned" /\ ~answer.err

\* What the registry holds for the image, for the architectures of the cluster.
Available == {image.platforms[m] : m \in Listed \ image.missing}

\* However the manifests of a list arrive (registry.go:491-560), and however many
\* credentials were refused before, the answer is every platform of the list that
\* is schedulable and exists, the default when there is none; a platform is lost
\* only when a failed manifest ends the loop.
AnswerIsWhatExists ==
  (Answered /\ image.list /\ \A m \in Manifest : fetch[m] # "rejected")
  => answer.platforms = IF Available = {} THEN {Default} ELSE Available

\* Credentials are tried strictly in the authenticators' order, none twice, and
\* none is passed over (registry.go:588-602): ListArchs fails, or moves on to a
\* less specific credential, only after all those before were refused.
NoCredentialPassedOver ==
  ~expired =>
    /\ refused = IF pc = "receiving" \/ answer.err THEN 1 .. auth ELSE 1 .. auth - 1
    /\ answer.err => auth = Len(Candidates)

\* ListArchs returns, whatever the registry and the caller do.
ListArchsReturns == <>(pc = "returned")

\* What ListArchs started ends with it, except where the code forgets it: the
\* authenticators' goroutine, unless it is offering a credential of the kubelet's
\* plugin (kubelet_credentials.go:262 sends without looking at the context), and the
\* goroutines of listed manifests, unless one of them fails, after which the others
\* are never received from (registry.go:556).
GoroutinesEnd ==
  /\ pc = "returned" ~> apc = "closed" \/ (apc = "offering" /\ Provider(offer) = "kubelet")
  /\ [](\A m \in Manifest : fetch[m] \notin {"failed", "rejected"}) =>
       \A m \in Manifest : fetch[m] = "fetching" ~> fetch[m] \in {"skipped", "delivered"}

\* registry.go:520 and :540 "failed to get pointed manifest [...] Skipping": the
\* manifests that could be fetched are answered, those that failed are skipped.
FailedManifestIsSkipped ==
  Answered => \A m \in Manifest :
    fetch[m] \in {"found", "delivered"} => image.platforms[m] \in answer.platforms

=============================================================================
