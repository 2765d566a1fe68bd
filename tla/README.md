# Noe in TLA+

Noe is a Kubernetes mutating webhook that constrains pods to nodes of an
architecture all of their images support, and a controller that deletes pods
which ended up on the wrong node all the same. This directory holds models of
its core in TLA+, TLC configurations that check them on small instances, and
TLAPS proofs of the properties that matter most. File references are to the
repository (`pkg/...`, `cmd/...`, `charts/...`).

## 1. Inventory

### Components

| Component | Code | State | Operations | Interacts with |
|---|---|---|---|---|
| Admission webhook | `pkg/arch/hook.go` | none of its own between requests; per request: the accumulated architectures, one goroutine per image, a channel | `Handle`, `updatePodSpec`, `addPodNodeMatchingLabels` | API server (HTTP), registry cache (calls), Kubernetes events |
| Pull secrets of a pod | `pkg/arch/hook.go` | none | `GetImagePullSecretFromPodSpec` | API server |
| Injection and deletion events | `hook.go`, `pkg/controllers/pod.go` | Kubernetes `Event` objects with a count | `CreateOrUpdate` | API server |
| Registry cache | `pkg/registry/cache.go` | entries with an expiry, a mutex per key, the time of the last clean-up | `LoadOrCall`, `Load`, `Store`, `CleanUp` | called by webhook and controller from many goroutines, calls the listing |
| Listing of architectures | `pkg/registry/registry.go` | per call: a channel of credentials, one goroutine per listed manifest and their channel | `ListArchs`, `listArchsWithAuth` | credential sources, token transport, registries |
| Credential sources | `login.go`, `kubelet_credentials.go`, `docker_credentials.go`, `containerd_credentials.go`, `anonymous_credentials.go` | configuration files; a plugin process | `Authenticate`, `imageMatchesLoginPattern` | listing (channel) |
| Token transport | `registry.go` (`WWWAuthenticateTransport`), `www_authenticate.go` | a cache of tokens | `RoundTrip` | registries and their token servers |
| Image references and proxies | `registry.go` (`parseImage`, `ParseRegistryProxies`) | none | pure functions | listing |
| Pod controller | `pkg/controllers/pod.go` | images of every pod, per image its platforms and a reference count, the metric series | `Reconcile`, `podScheduledOnMatchingNode`, increments and decrements, `deletePodAndNotifyUser` | informer cache (reads), API server (deletes), registry cache |
| Rate limited round tripper | `pkg/httputils/rate_limiter.go` | a worker pool and a user count per key | `RoundTrip` | HTTP; wired into neither command |
| HTTP instrumentation, rate limit metrics, logging | `pkg/httputils`, `registry.go`, `pkg/log` | counters | wrappers | - |
| Commands, chart | `cmd/noe`, `cmd/report`, `charts/noe` | flags | wiring | - |

`cmd/noe/main.go` wires it up: one `CachedRegistry` (entries live one hour) is
shared by the webhook's handlers, which run concurrently, and by the controller's
single worker. The chart runs two replicas with leader election: both serve the
webhook, one reconciles. It registers the webhook for pods with
`failurePolicy: Ignore`.

### What is hard

* *Concurrency.* Lookups of a pod's images race with each other; requests for one
  key race with each other and with the clean-ups they leave behind; manifest
  goroutines race with the loop that collects them and may abandon them;
  authenticators produce credentials while earlier ones are being tried.
* *Stale state.* The controller reads a lagging cache, waits for a registry, then
  acts by name. The clean-up acts on an entry it looked at before, with the time
  its request ended at.
* *Partial failure.* One lookup of several fails (the pod is constrained by the
  others); one manifest of several fails; a pod is counted half.
* *Time-outs.* The API server gives up and stores the pod as submitted; the
  context of a lookup ends between two steps.
* *Restarts.* The controller's memory is lost, the cluster is not.

### What makes each component correct

| Component | Properties |
|---|---|
| Webhook | A pod runs where its images run; it is denied only if nothing could run it; the constraint takes no node away that suits the pod, but for an imposed preference; preferences are honoured; answering twice changes nothing; every request is answered |
| Registry cache | One request per key at a time; one fetch per key while fresh; keys do not block each other; answers never go back in time; clean-ups are spaced; everybody gets an answer |
| Listing | The answer is what the registry has; credentials are tried in order and none is passed over; the call and its goroutines end |
| Controller | It deletes only pods that cannot run where they are; it deletes all of those; reference counts and series agree with the pods it knows; the metric counts the images of the cluster |
| Credential sources, pull secrets, references | What is held for the image's registry is offered, whatever else fails; a private registry is not asked anonymously |
| Token transport | A token is used where it is good; a request it has seen accepted is refused only for an expiry |
| Events | No occurrence that was recorded is overwritten by a writer that did not know of it |
| Rate limiter | No send on a closed channel; the limit is kept per key; no worker is lost, no key waits for another; everything ends |
| Webhook and controller together | A pod the webhook missed ends up where it runs all the same, and the two do not fight over it |

All the hazards, each at its line, are in `PROJECT.json` under `hazards`, with
the properties aimed at them.

## 2. Modules

| Module | Models | Used by |
|---|---|---|
| `PodLifecycle` | webhook and controller around one pod of a StatefulSet, as `cmd/noe/main.go` wires them: instances of `AdmissionHook` and `PodReconciler` | `MCPodLifecycle`, `PodLifecycleProofs` |
| `NodeSelection` | the part of a pod specification that decides where it may run, the hook's helpers on it, and the scheduler's reading of it | `AdmissionHook` |
| `AdmissionHook` | one admission request at a time, from submission to the node the pod is bound to | `MCAdmissionHook`, `AdmissionHookProofs`, `PodLifecycle` |
| `ReadThroughCache` | what the cache promises: the abstract specification, with no mutex and no clean-up goroutine | `RegistryCache` |
| `RegistryCache` | `Cache[T]` under `CachedRegistry.ListArchs` | `MCRegistryCache`, `RegistryCacheProofs` |
| `ArchListing` | one `PlainRegistry.ListArchs` with all its goroutines | `MCArchListing`, `ListArchsProofs` |
| `ImageNames` | references, proxies and login patterns, as operators | `CredentialSources`, `ListArchsProofs` |
| `CredentialSources` | the sources of credentials one after the other, for one image | `MCCredentialSources`, `ListArchsProofs` |
| `TokenTransport` | `WWWAuthenticateTransport` and its cache of tokens | `MCTokenTransport`, `TokenTransportProofs` |
| `PodReconciler` | the controller, its worker, the informer and the cluster | `MCPodReconciler`, `PodReconcilerProofs`, `PodLifecycle` |
| `EventRecorder` | the upserts of events by the threads of two replicas | `MCEventRecorder`, `EventRecorderProofs` |
| `RateLimiter` | `RateLimitedRoundTripper`, its channels and workers | `RateLimiterProofs` |

The `MC*` modules only give constants their values. `*Proofs` hold theorems about the
module they are named after, `ListArchsProofs` about the two sides of one `ListArchs`;
`PodLifecycleProofs` has instances of
`AdmissionHookProofs` and `PodReconcilerProofs`, so that what is proved of each side alone
holds of both together.
Definitions bear the names of the code where they can; `map` in `PROJECT.json`
gives the lines each stands for. Definitions marked *Mutant* in a comment are
plausible errors in the code, used to see that a property is violated by one;
no behaviour includes them.

### NodeSelection, AdmissionHook (`pkg/arch/hook.go`)

State: `req` is the request in hand; `call[c]` the goroutine of container `c`
(`calling` the registry, `sending` on `imagePlatforms`, `failed`, `received`);
`common` and `firstImage` are `commonArchitectures` and `firstImage`; `resp` is
what `Handle` returns. `supports` is what the registry says of
an image. `api`, `stored`, `hooked`, `node` are the API server's side: the object
waits for an answer, is persisted (as the hook answered or as submitted), and is
bound to a node its specification admits.

Actions: `Handle` is the code up to the first blocking call, with a disjunct per
way out (`Skip`, `DecodeFails`, `AlreadyPlaced`) and `StartLookups`.
`LookupSucceeds`/`LookupFails` end a goroutine's registry call. `Collect` is the
rendezvous on the unbuffered channel and one turn of the loop. `Decide` is
everything after `close(imagePlatforms)`: deny, select the preferred architecture,
or append the term; then the matched labels, and the patch. `Create` and
`Update` submit objects, `Reply` and `GiveUp` end an admission at the API server,
`Bind` is the scheduler.

Abstractions. A node is a function from label keys to values, a node selector term
a set of requirements, and `metadata.name` a key like the others. Only one request
is followed at a time: handlers share nothing but the registry cache, which has a
model of its own. The chart registers the webhook for pods only; `DaemonSet`
requests are handled by the code and modelled as such. Warnings are a flag. The events
it records are in `EventRecorder`. The number of times
the code appends a term for a label it already appended is kept, since terms are a
sequence. An image appears once per container slot, as in the code. The loop over
`--match-node-labels` is given by what it adds: `MatchingTerms`, a term per configured key
the pod is labelled with, in the order they are configured, or the entries of
`MatchedKeys` in a map that is there.

### RegistryCache (`pkg/registry/cache.go`)

State: `cache` and `serialize` are the two `sync.Map`s. Mutexes are numbered as
they are allocated, since the same key may get several; `mutex[r]` is the pointer
request `r` found. Who holds a mutex follows from `pc`. `cleaner` is the state of the
only clean-up that can be under way, that of the holder of `cleanupAccess`; `at[r]`
is the `time.Now()` passed to `r`'s clean-up. `dropped` is a history variable: keys
whose mutex was deleted while a request had it.

Actions: `Call` (`LoadOrStore`), `Lock`, `Hit`, `Miss`, `RegistryAnswers`,
`RegistryFails`, `Store` are the steps of `LoadOrCall`. `Visit` hands a key to the
callback of `Range` with its entry of that moment; `DeleteEntry` and `DeleteMutex` are
the two deletions, each a step of its own that looks at nothing again.
`SkipCleanUp` and `EndCleanUp` leave `CleanUp`. Time passes in `Tick`.

Abstractions. An answer is represented by the time it was given at, all that
freshness depends on. The deferred unlock is one step with what precedes it:
between the two a request does nothing others can see, except that it holds the
mutex a little longer. Time passes between any two steps, so that the `time.Now()` in
`Load` and in `Store` are those of their steps. The default of `CleanUpPeriod` is set
by the first clean-up and constant from then on.

### ReadThroughCache

The specification the cache is held to. A request asks, and is answered from what is
`kept` for its key, or asks the registry, whose answer is kept for `Duration`; the others
for that key wait meanwhile (`Turn`). That is all, until something was kept for longer
than `Duration`: then `Forget` may drop anything, and `Part` may part the requests for a
key, so that later ones no longer wait for those under way. These two are the weakest
the code allows: `CleanUp` deletes an entry it looked at before (which may have been
renewed since) and the mutex of a key in use.

`RegistryCache` implements it under the mapping `Promise`: `kept` is `cache`, `parted`
the keys of `dropped`, and `Phase` makes one state of those the abstract specification
does not tell apart: queueing for the mutex is asking, storing is having fetched, and a
request that cleans up after itself is answered. Locking, visiting entries and leaving a
clean-up are stuttering steps.

### ArchListing (`pkg/registry/registry.go`, credentials)

State: `Candidates` is what the authenticators find, best first, each named by the
one that finds it. `offer` and `apc` are the authenticators' goroutine, `pc` and `auth`
the caller, `fetch[m]` the goroutine of a listed manifest; `platforms` is what the
loop collected. `ctxDone` is the context `ListArchs` derives, cancelled when it returns
or when its caller gives up.

Actions: `Offer`, `Abandon`, `ExecFails`, `CloseCandidates` are `Authenticate` under
a live and a cancelled context (the kubelet's authenticator sends without a
`select`, `kubelet_credentials.go:262`). `Receive` is the rendezvous. `FetchFails`,
`FetchManifest`, `FetchList` are the outcomes of the first request of
`listArchsWithAuth`; `ManifestFound`, `ManifestMissing`, `ManifestFails` end a goroutine's
request; `CollectFound`, `CollectFailed`, `CollectEnd` are the loop.

Abstractions. How candidates are found is in `CredentialSources`. An HTTP request ends
with what its caller tells apart: found, missing, failed. What happens inside a request
is in `TokenTransport`.

### ImageNames, CredentialSources (`registry.go`, `login.go`, `*_credentials.go`, `hook.go`)

`ImageNames` has `ParseRegistryProxies`, `parseImage`, `imageMatchesLoginPattern` and the
keys of a docker configuration. A text is a sequence of chunks: separators and the
wildcard are chunks of their own, everything else is a run of letters that matters as a
whole. `Matches` is a glob as a recursive function over the pattern's chunks: after each,
the lengths of the prefixes of the text that match so far (`Extended`). `Proxied` takes a
registry through the proxies one by one (`Through`), in the order of the list.

State of `CredentialSources`: `cfg` is what surrounds one call (pull secrets, plugins,
containerd hosts, docker files, private patterns), `target` what `parseImage` made of the
reference, `source` and `pos` the source and its element whose turn it is, `auths` what
`GetImagePullSecretFromPodSpec` has gathered, `offered` the candidates sent, in order.
Each source has an action per element and per way an element fails (`missed` remembers
which did). Go ranges over maps in any order: so does the model.

What the code does, kept as it is: a later pull secret replaces the keys of an earlier
one; a digest is looked up as the tag `latest`; a `*` in a pattern also stands for dots,
of a pattern's path only the first element is looked at, and the test of the prefix is
inverted (`kubelet_credentials.go:183`); a credentials helper renames `docker.io` for the
file's entries too. The properties say what is right of all but these.

Abstractions. Credentials are model values; how files, plugin output and secrets are
decoded is left out. `ListArchs` takes every candidate here; that it may stop is in
`ArchListing`.

### TokenTransport (`WWWAuthenticateTransport`, `www_authenticate.go`)

State: `want[r]` is a request for a manifest, `header[r]` its `Authorization` header,
`cache` the tokens by `CacheKey` (path and credential, *not* the registry), `doomed` the
keys a clean-up has seen expired and has yet to delete. `untold[r]` is a history
variable: the HEAD was answered by something (429, 5xx) that does not tell whether the header
is good.

Actions: `Load`, the outcomes of the HEAD, of the token request and of the GET, the
storing of a token, the visit and the deletion of a clean-up; each call of the transport
may fail. Time passes in between.

Kept as it is: the token request carries no credential; the key of the cache names no
host; a token's time counts from its receipt; any status of a HEAD other than 401 counts
as acceptance. Abstractions. Registries and token servers are external: what they accept
(`Accepts`) is a constant of each registry. The locks of the clean-up are in
`RegistryCache`; here a clean-up may see and delete entries whenever it likes. A path
too short for `registry.go:254` does not occur, since only manifests are requested.

### EventRecorder (`hook.go`, `pkg/controllers/pod.go`)

State: `events` at the API server, with a version; `view[p]` what the informer of replica
`p` shows; of each thread, `done` counts the reports it is through with, `target` says which
event of the next one it is at (`Report`, `Current`), `pc` and `read` where it is in that
upsert. `recorded` is a history
variable: the upserts that went through since the event was created. A thread reports its
pods one after the other, for the pod and for its controller, and each upsert is `Get`
and then a create or an update, which the API server refuses when the event exists or
the version is not the latest; the error is logged and that is all. `Stop` ends a
replica between two steps, `Expire` lets an event go, `Sync` lets an informer catch up.

Kept as it is: the webhook passes the event's type where the name of the pod is
expected (`hook.go:562`), which shows in the text only, and a pod whose name is to be
generated gives an event without a valid name. Abstractions. Of an event, its message
and its count are kept. An informer only syncs events that its threads still have to
read; the others cannot make a difference.

### RateLimiter (`pkg/httputils/rate_limiter.go`)

State: `requestsChans` and `inFlights` are the two maps, `idle[c]` the workers of channel
`c` that receive, `closed` the channels that were closed, `chan[r]` what `getRequestChan`
returned to request `r`. Channels are numbered as they are made, since a key may get
several. `GetRequestChan`, `Send` (the rendezvous with a worker), `Respond` (the
transport's answer, and the worker back at its channel), `Done`
and `WorkerEnds` are the steps. A send on a closed channel is a
state of its own, `panicked`. The round tripper is wired into neither command.

### PodLifecycle (`cmd/noe/main.go`)

`AdmissionHook` (as `Hook`) and `PodReconciler` (as `Controller`) share the registry
`holds` and one pod of a StatefulSet. `Submit` creates it whenever it is missing. What
`Reply` or `GiveUp` stores becomes the pod that the controller sees: `Store` computes from
the stored specification whether it `selects` an architecture. `Bind` is the step of both
sides in which the scheduler binds what was stored. `misses` counts the admissions that
were given up and the webhook's lookups that failed, `statuses` the status updates of a pod
that the controller would question (`Questioned`: bound, and selecting no architecture).
Every other action is one of one side that leaves the other's variables alone.

Abstractions. Images are not pushed again and the user deletes nothing: what the sides
do then is in their own runs. The containers of the pod are listed in some order (`Slots`),
the same for every pod. The registry is asked, not the cache between: an answer
may be an hour old in the program, which matters only if images change.

### PodReconciler (`pkg/controllers/pod.go`)

State: `pods`, `holds` are the API server and the registry; `feed` the API server's watch,
the versions of each pod that the informer has yet to take, in order; `seen` the informer's
cache, `queue` the work queue; `pc`, `cur`, `todo`, `matching` the worker in
`podScheduledOnMatchingNode`; `podImages`, `imagePlatforms` the reconciler's maps;
`gauge` the series of `ImageCount`; `failed` the names with an event for a failed
deletion.

Actions: `ReconcileGone`, `ReconcileProcessed`, `ReconcileStarts` are `Reconcile` up
to the first lookup, by its early returns. `ImageListed` is one turn of the loop
(lookup, `incrementPlatformStatistics`, comparison) and, on the last image, the rest of
`Reconcile` up to the deletion; `ImageListFails` its error return. `DeletePod` is
`deletePodAndNotifyUser`. `Restart` is a restart or a change of leader. Pods are
created, scheduled, reported on (`UpdateStatus`, made ready among others, also on their way
out), deleted and terminated, images pushed, by `Cluster`. Every one of these writes is a
version of the pod on its watch. `Observe` lets the informer take the next one, and enqueues
the name.

Abstractions. An image that a pod names several times is given back that often at once
(`Decremented`); nobody looks at the counts between. The informer takes every version of a
pod, in order; only the queue, which holds names, merges them. A new leader starts from the
latest versions, as its informer lists them. Every series of a gauge that is absent is 0:
the code deletes series where the model assigns 0. Reading the node may fail before anything
changed; that is a reconciliation that has not happened yet, and is left out.

## 3. Runs

### Passing

| Run | Question | Instance |
|---|---|---|
| `AdmissionHook_admission` | Does the webhook only ever do good to placement, is the intersection right in every interleaving, and does it always answer? | Two containers, two images over five registry answers each (another OS, no OS, an architecture that is not schedulable, several), three nodes (amd64; arm64 in two zones), pods and daemon sets over four label sets and six specifications, two updates |
| `RegistryCache_safety` | What is promised before the first expiry, across keys, and when mutexes are deleted in use, and is it what a read-through cache promises? | Three requests, two keys, expiry 2, clean-up period 1, time to 4: two generations of entries |
| `RegistryCache_liveness` | Does every request and every clean-up end? | Three requests, one key |
| `ArchListing_listing` | Is the answer right, in the order of credentials, and what is left running? | Six credentials of four sources, lists of up to three manifests with every subset missing, images without architecture, cancellation at any point |
| `PodReconciler_counting` | Are counts and series consistent? | Two pods of one image, which one of them names twice, a watch that lags by any number of versions, a push, a failing lookup, a restart |
| `PodLifecycle_repair` | Do webhook and controller bring a pod of a StatefulSet to a node that runs it, without fighting each other? | A pod of two images that have amd64 only or both architectures, two nodes, a miss of the webhook, status updates of the pod, a change of the leader |
| `CredentialSources_sources` | Is every credential held for the image's registry offered, and is a private one spared anonymous requests? | Five references (with and without registry, port, digest, proxy) against every combination of secrets, plugins, containerd hosts, docker files and private patterns, any secret, plugin or helper failing |
| `TokenTransport_tokens` | What can a cached token do wrong? | Three requests for one path over three registries (two that issue tokens of different lifetimes, one that takes a login), time to 3 |
| `EventRecorder_upserts` | Is an occurrence ever lost? | A worker that deletes two pods, the worker that succeeds it and a handler on the other replica, all of one owner |
| `RateLimiter_pool` | Do the channels open and close with their users? | Four requests, two keys, limit 2 |

Why the bounds are enough. In the webhook nothing depends on the number of nodes or images
beyond two that differ; that the intersection is right for any number of images is proved.
In the cache, three requests over two keys are the fewest that make a mutex be deleted under
its holder: one fills the entry, one for another key returns late enough to clean it up, one
holds the mutex meanwhile; for any number everything about safety is proved. The run without
symmetry, for liveness, has one key. In the listing, three manifests give found, missing and
failed at once. In the controller one worker runs, so two names give every interference
between pods, and the bounds on pushes, failures and restarts (`MaxUpdates`, `MaxFailures`,
`MaxRestarts`) each let the event happen at any point once. There `MaxPods` is 1 and
`MaxVersions` 1: a name is used once and its pod's only status update says that it is ready;
that counts and series are right when pods come back under their names is proved, and names
do come back in the composition. `MaxUpdates` of the webhook bounds repeated admissions.
`MaxTime` stops the clock. In the composition `MaxMisses` is 1, and `MaxPods` is 5 and never
reached, since `RepairsAreFew` holds: the first pod (`MaxReporting` is 1) has room for one
status update, at any point until its third version (`MaxVersions`), so that the bound is 4,
and four versions of one pod can be under way to the controller while its successors come
and go. The controller's lookups do not fail there (`MaxFailures` is 0: a failed one is
repeated, as the controller's own run has it). That several misses, failed lookups and any
number of status updates change nothing is proved. Three requests for tokens are one that
fills the cache, one that uses what it finds and one that renews it; two of another registry
share the key. Four requests of the rate limiter over two workers leave two that wait, and
let a key's channel be closed and made again; for any number its safety is proved. Two
replicas with three writers of one event give a stale read, a conflict and a writer that
stops half-way.

`CHECK_DEADLOCK FALSE` appears where the modelled system really stops: all requests
answered and clean-ups done with the clock at its bound, a returned `ListArchs`, a
cluster in which all that the bounds allow has happened.

### Violations: where the code and what is said of it part

| Run | Property | What TLC shows |
|---|---|---|
| `AdmissionHook_terms` | `ScheduledWhereImagesRun` | The architecture is appended as one more node selector *term*, and terms are alternatives: a pod with a term of its own is bound where its images do not run |
| `CredentialSources_private` | `PrivateImageNotAnonymous` | A private pattern with a path excludes the images below that path, which are then asked for anonymously (`kubelet_credentials.go:183`) |

More configurations end in a counterexample and are kept beside the runs, one for each
further deviation met while modelling:

| Configuration | Property | What TLC shows |
|---|---|---|
| `AdmissionHook_archlabel.cfg` | `ScheduledWhereImagesRun` | With `kubernetes.io/arch` among the matched labels, as in the example of the repository's README, the pod's label overwrites the selected architecture |
| `AdmissionHook_labels.cfg` | `MatchedLabelsConstrain` | Next to the architecture term, the term for a label of `--match-node-labels` is one more alternative and constrains nothing |
| `RegistryCache_serialize.cfg` | `SerializedPerKey` | A clean-up deletes the mutex of a key in use, and two requests for it ask the registry at once |
| `ArchListing_skipping.cfg` | `FailedManifestIsSkipped` | A failing manifest is logged as skipped but ends the listing with a nil error and no platforms, which is answered as amd64/linux |
| `TokenTransport_private.cfg` | `CredentialGivesAccess` | The token request carries no credential, so that a credential for a registry that issues tokens gives access to nothing the anonymous candidate would not |
| `EventRecorder_visible.cfg` | `EveryDeletionVisible` | "give visibility to the user that the pod has been deleted" (`pod.go:292`): the second of two deletions reads the event before its informer has it, and its report is refused and dropped |
| `PodReconciler_unscheduled.cfg` | `MismatchesEnd` | A pod reconciled before it was scheduled is never compared with its node |
| `PodReconciler_successor.cfg` | `DeletedPodsMismatch` | The pod that meanwhile took the name is deleted in place of the one examined |
| `PodReconciler_noos.cfg` | `DeletedPodsMismatch` | A platform without an OS matches no node, and the pod is deleted though the webhook takes it to mean any OS |
| `PodReconciler_negative.cfg` | `ImageCountNotNegative` | Counted under one set of platforms, discounted under another |
| `PodReconciler_toohigh.cfg` | `ImageCountNotTooHigh` | A lookup that fails half-way makes the first images be counted twice |
| `PodReconciler_toolow.cfg` | `ImageCountNotTooLow` | Pods that are ready when first seen, all of them after a restart, are not counted |
| `PodLifecycle_half.cfg` | `PlacedInTheEndWhateverFails` | A lookup of the webhook fails, the pod is constrained by its other image and bound where the first does not run; the controller sees that it selects an architecture and leaves it there |

The passing runs state what holds in spite of these, and their premises say where the line
is: `OnlyArchTerm` (nothing but the hook writes terms and no matched label replaces the
architecture) in `ScheduledWhereInspectedImagesRun`, `dropped` in `SingleFlight` and
`ReadsNeverGoBack`, no rejected manifest in `AnswerIsWhatExists`, the pod that was examined
and images with an OS in `DeletesOnlyMisplaced`, `HalfInspected` and a failed deletion in
`PlacedInTheEnd`, public images and an answer to the HEAD that is not `untold` in
`RefusedOnlyForExpiry`, `PathFree` and `FileHolds` in the properties of the sources.

`RepairsAreFew` says two re-creations per miss, and one more per status update of the pod that
was missed, and these there are: every version of a pod enqueues its name (`pod.go:124`), a
pod of a StatefulSet is judged again each time, also on its way out, and the deletion by name
(`pod.go:277`) hits whatever pod has the name by then. An informer that lags thus lets several
versions of a pod that is gone delete a successor each. What bounds it is that no version
deletes twice, and that pods which select an architecture have no version that deletes.

## 4. Fairness

* *Goroutines keep running* (weak fairness of a goroutine's next step): the Go
  scheduler. It covers `Collect`, `Decide`, the steps of `LoadOrCall` and `CleanUp`, the
  authenticators, the caller of the listing, the reconciler's worker.
* *Lookups and HTTP requests end* (weak fairness of their outcomes, success and
  failure alike). This is an assumption on registries: the HEAD and token requests
  of `WWWAuthenticateTransport` have no context (`registry.go:249`), so no deadline of
  the caller ends them.
* *Locks.* Only finitely many requests are ever ahead of one that waits, so weak
  fairness suffices for `Lock`: the mutex ends up free for good.
* *The work queue* is first in first out and the worker comes back to it; since it is
  busy in between, a name's turn needs strong fairness (`Take`).
* *Lookups do not fail for ever* in the controller: `MaxFailures` bounds the failures.
* *The rate limiter*: goroutines run and the transport returns. A worker is free again
  after each of the finitely many requests ahead of one that waits, so weak fairness
  suffices for `Send`.
* *The cluster of the composition*: the StatefulSet creates its pod when it is missing,
  the scheduler binds what it can bind, the kubelet lets go of a deleted pod. Without
  these no pod ends up anywhere.

Elsewhere nothing obliges a client to submit; nowhere the API server to give up, a lookup to
fail, a leader to change, a pod to become ready or the clock to advance.

## 5. Proofs

All theorems hold for every value of the constants that satisfies the named
assumptions: any number of requests, pods, images, nodes, credentials, threads and
replicas, and no bound on time. The bounds of the runs (`MaxTime`, `MaxPods`,
`MaxMisses` and the like) are arbitrary there.

Every module has the same argument in outline. What is to be shown is not inductive, so it is
strengthened by named invariants that say what a goroutine or a request knows of the
state it looked at before; a lemma per action shows that they are kept; the theorem
follows.

### RegistryCacheProofs

From `TimesAssumption` (durations are positive) and `NoneAssumption` (the sentinel is
neither a request nor a key):

| Theorem | Property | |
|---|---|---|
| `TypeCorrect` | `TypeOK` | |
| `SerializedUnlessDropped` | `SingleFlight` | one request per key past its mutex, until a mutex is deleted in use |
| `KeysAreIndependent` | `BlockedOnlyBySameKey` | a slow image holds up no other |
| `DroppedOnlyAfterExpiry` | `NothingDroppedWhileFresh` | when that deletion can happen at all |
| `CleanUpsAreSpaced` | `CleanUpsSpaced` | an action property |
| `FetchedOnce` | `FetchedOnceWhileFresh` | one registry answer per key before the first expiry |
| `AnswersMoveForward` | `ReadsNeverGoBack` | an action property |
| `ImplementsReadThroughCache` | `IsReadThroughCache` | the refinement |

The argument is a stack of invariants, each inductive given those below it. `MutexInv`
says which requests can share a mutex: those that found one in the map hold the one
their key has there, unless it was deleted, and no two keys ever share one. Mutual
exclusion per *mutex* then becomes serialization per *key*. `CleanInv` carries what
`CleanUp` knew when it started (`at` is not in the future and a period after the last
clean-up) to when it acts, and that an expired entry means that `CacheDuration` has
passed. `FreshInv` follows an answer into the cache: while nothing is deleted, whoever
is past the mutex with no entry is the first. `OrderInv` compares the cache with what
was returned: an answer on its way into the cache was given after all those returned
before, since its request has been alone past the mutex.

The refinement goes action by action (`StepRefines`), given `TypeInv`, `MutexInv` and
`CleanInv`. Two steps need an argument. A request that finds nothing in the cache has a
`Turn` because whoever else asks the registry about its key holds another mutex, and two
mutexes of one key mean that one was dropped. A clean-up that deletes an entry or a
mutex in use does so after an expiry, which `CleanInv` carries from the entry it looked
at; a mutex that nobody uses goes unseen.

### AdmissionHookProofs

From `KeysAssumption`, `NoSelectorAssumption`, `MatchNodeLabelsAssumption` and
`NodesAssumption` of `NodeSelection` (the label keys Kubernetes knows are keys, a nil
map is none of the maps, every node has a name of its own and the labels of its
platform, as the kubelet gives them), from `RequestsAssumption` and `PlatformsAssumption`
(requests and the registry's answers are well formed, some request exists) and
`SystemOSAssumption` (the nodes run the one OS given as `--system-os`, "Sole OS supported by
the system", `cmd/noe/main.go:43`):

| Theorem | Property | |
|---|---|---|
| `TypeCorrect` | `TypeOK` | |
| `IntersectionOfReceived` | `CommonIsIntersection` | whatever the order and the failures |
| `DeniedOnlyIfNotRunnable` | `RunnablePodIsAdmitted` | a denial means that no node fits |
| `AdmittedPodsRun` | `ScheduledWhereInspectedImagesRun` | what the project is for |
| `StrandedOnlyByPreference` | `OnlyPreferenceTakesNodes` | of the nodes that suit a pod without a label to match, just those are taken away that an imposed preference excludes |
| `PreferenceIsHonoured` | `PreferenceHonoured` | the pod's, else the operator's, else a warning |
| `AdmittedAgainAsBefore` | `ReadmissionKeepsPlacement` | an update of what was answered |
| `AdmittedPodsSelect` | | an admitted pod that is not pinned selects an architecture, unless all its lookups failed |
| `ImagesAreKept` | | an admitted pod runs the images that were submitted |

`CallInv` ties goroutines to the containers of the request in hand, `DenialInv` a
denial to an empty intersection of images that were received; a node that executes
all images has its architecture in every set, hence in the intersection. For
placement, `AnswerInv` says what the answer of `Handle` can be: the specification as it
came, with the matched labels, or injected from a non-empty intersection; `HookedInv`
that what was answered before carries its labels, so that answering again adds nothing
to it that changes its placement; `PlacementInv` that wherever the stored
specification admits a node, or the pod is bound, every image that was received supports
the node's architecture. The lemmas they rest on are about the operators of
`NodeSelection`, for any pod specification: a further term only adds nodes to those
admitted (`MoreTerms`), the matched labels added a second time change nothing
(`CarriedLabelsChangeNothing`), and the injection into a specification with no term but
the hook's confines it to the architectures chosen (`InjectionConfines`), prefers what is
to be preferred (`InjectionPrefers`) and keeps what the user asked for (`InjectionKeeps`).

`AdmittedPodsSelect` needs that every image in use has its goroutine (`SelectionInv`), so
that nothing received means that all failed.

### ListArchsProofs

Of `ArchListing`, from `ImagesAssumption` (a list names manifests) and `CandidatesAssumption`
(each candidate comes from one of the five authenticators):

| Theorem | Property | |
|---|---|---|
| `TypeCorrect` | `TypeOK` | |
| `AnswersAreWhatExists` | `AnswerIsWhatExists` | for lists of any length, in whatever order their goroutines end |
| `CredentialsInOrder` | `NoCredentialPassedOver` | for any number of credentials |

`FetchInv` says that what the loop has collected is what those goroutines found that it
heard of; a list is left only when each of its goroutines was heard. `OfferInv` keeps the
authenticators one candidate ahead of the caller, which is what an unbuffered channel is
for; that the one at work is the first that is left takes a least element
(`LeastNumber`).

Of `CredentialSources`, from `TextsAssumption` (references and patterns are sequences of
chunks), `ProxiesAssumption` (a proxy is replaced by a host, which has no `/`: the form
`docker.io=docker-proxy.company.corp` of `cmd/noe/main.go:48`), `SecretsAssumption`
(finite maps), `ProvidersAssumption` and `DockerFilesAssumption` (what a plugin or a helper
answers is never empty: the code encodes `user:password`, `kubelet_credentials.go:262`,
`docker_credentials.go:66`):

| Theorem | Property | |
|---|---|---|
| `SourcesTypeCorrect` | `SourcesTypeOK` | only the anonymous candidate is empty |
| `OwnCredentialsAreOffered` | `OwnCredentialsOffered` | for any surroundings, any order of the maps and whatever fails |
| `PrivateRegistriesNotAnonymous` | `PrivateRegistryNotAnonymous` | for any patterns, proxies and references |
| `OffersAreCandidates` | | what is offered is what `ArchListing` assumes of its candidates, in the order of `NewAuthenticator` |
| `KubeletRuleIsEnough` | | for any host and any pattern without a path, `imageMatchesLoginPattern` matches what the kubelet's rules match |

The last one carries the second and the third where patterns are concerned. `filepath.Match`
keeps a `*` out of `/`, the kubelet keeps it out of `.`, and neither rule is weaker than the
other on texts at large; a host has no `/`, though, and there every length matched by the
kubelet's rule is matched by the code's, chunk by chunk (`GlobsOfHosts`). That a registry is a
host is `RegistriesAreHosts`, through `Before` (what `SplitN` cuts off) and through every
proxy (`ProxiedHosts`). Both are inductions over a sequence, and are argued by the least
counterexample (`LeastNumber`): the induction theorems of the library take an operator. What
`Matches` and `Proxied` compute is known from `Recursion`: there is a function that satisfies
their recursive definitions, so that the one defined does.

`SourcesInv` follows each credential to its offer. Of the secrets, an entry *stands* when no
secret read later has its key: it is in `auths` until the pull secret's turn, offered after
it (`SecretsInv`). A plugin that was asked and did not fail has offered what it holds by the
kubelet's rules (`PluginsInv`), the file what it holds (`FileInv`). A source goes over a map
in any order, as `Ranged` says by sequences without repetition; that all of the map is met
is that an injection between sets of the same size is onto (`RangedMeetsAll`).

`OffersAreCandidates` is where the two modules meet. `ArchListing` takes its candidates as
given, best first (`CandidatesAssumption`), and reads where an authenticator ends from
where the next one's candidates start; so it has to be known that no authenticator's
candidates are scattered. `PlaceInv` says that nothing offered so far belongs to a source
whose turn is still to come.

### TokenTransportProofs

From `RegistriesAssumption` (a token's lifetime is a number) and `CredentialAssumption`
(credentials, tokens and no header at all are told apart):

| Theorem | Property | |
|---|---|---|
| `TypeCorrect` | `TypeOK` | |
| `RefusalsAreExpiries` | `RefusedOnlyForExpiry` | for any registries, even those that share a key of the cache |

`CheckedInv` says that a header past the HEAD, unless the HEAD left it `untold`, is good for
what it is sent to but for the clock, and stays so whatever happens to the cache entry it came from.

### PodReconcilerProofs

From `NamesAssumption` (the names in use are finitely many), `TemplatesAssumption` (a pod
has a container) and `MaxPodsAssumption`:

| Theorem | Property | |
|---|---|---|
| `TypeCorrect` | `TypeOK` | |
| `NothingCountedIsForgotten` | `CountedPodsAreHeld` | the reference count of an image is never less than its mentions by the pods that were counted |
| `SeriesAreRemoved` | `NoStaleSeries` | no series outlives its image |
| `OnlyMisplacedAreDeleted` | `DeletesOnlyMisplaced` | an action property, which the run of `PodLifecycle` checks |

A pod is counted image by image, with lookups in between that may fail, and enters the cache
of pods afterwards. `CountInv` therefore has the images already counted of the pod being
listed in excess of those of the pods cached: `refcount >= References(i) + Counted(i)`. It
is not an equation: a lookup that fails leaves its excess behind
(`PodReconciler_toohigh.cfg`). `VersionInv` says that what the watch, the informer and the
worker have of a pod is an earlier version of it, or of one that had its name before;
`JudgementInv` that the worker decides to delete only after an image that does not run on
the node. `OnlyMisplacedAreDeleted` has two hypotheses, each of them where the property
fails otherwise: no image is pushed again (the worker's answer would be outdated) and every
platform says its OS (`PodReconciler_noos.cfg`).

### EventRecorderProofs

From `UpsertsAssumption` (what each thread reports) and `NoneAssumption`:

| Theorem | Property | |
|---|---|---|
| `TypeCorrect` | `TypeOK` | |
| `OccurrencesAreKept` | `NothingRecordedIsLost` | for any number of writers, replicas and reports |

`CopyInv`: a copy of an event, in an informer or in a thread's hands, is never newer than
the event's version, and one of the version that is stored is what is stored. Versions go
on counting after an event expires, so that a copy of the expired one is not taken for its
successor.

### RateLimiterProofs

From `RequestsAssumption` (the requests are finitely many) and `LimitAssumption` (the limit
is an integer; the code makes 1 of anything smaller):

| Theorem | Property | |
|---|---|---|
| `TypeCorrect` | `TypeOK` | a key is in both maps or in neither |
| `NoSendOnClosed` | `NoSendOnClosedChannel` | although the mutex is released between the map and the send |
| `LimitKept` | `AtMostLimitInFlight` | across the channels a key gets in turn |
| `QueuedBehindOwnKey` | `QueuedOnlyBehindOwnKey` | no worker is lost, no key waits for another |

`PoolInv` says that the count of a key is the number of requests that took its channel
and are not done (`Users`), that they all took the one the map has, and that no channel in
the map is closed or another key's: closing needs a count of 1, so that the last user is
alone. `WorkerInv` says that the workers of an open channel receive or serve:
`idle[c] + Cardinality(Served(c)) = Limit`. Since all requests of a key in flight are
served through its one open channel, the limit per channel is a limit per key.

### PodLifecycleProofs

From `HookAssumption` (the webhook's own assumptions), `SubmissionAssumption` (what a
StatefulSet submits: the creation of a pod with images and without a node),
`ContainerAssumption` (a pod has finitely many containers) and `BoundsAssumption`:

| Theorem | Property | |
|---|---|---|
| `WebhookAsAlone` | | the composition refines `AdmissionHook`: next to the controller the webhook takes no other steps |
| `AdmittedAsAlone` | | hence `RunnablePodIsAdmitted`, `ScheduledWhereInspectedImagesRun` and `OnlyPreferenceTakesNodes` hold in the composition |
| `ControllerAsAlone` | | the composition refines `PodReconciler`, with pods of the submitted images that select an architecture or do not |
| `CountedAsAlone` | | hence `CountedPodsAreHeld` and `NoStaleSeries` hold in the composition |
| `RepairsAreOfMisplaced` | `DeletesOnlyMisplaced` | hence this holds there as well, if every platform says its OS |
| `TheTwoDoNotFight` | `RepairsAreFew` | for any number of misses, status updates, pods and changes of the leader |

That the webhook is what it is alone is seen step by step. For the controller it takes what
`ImagesAreKept` says of the webhook: the pod that is stored runs the images that were
submitted, so that it is one of those the controller may be given.

`TheTwoDoNotFight` is an argument of accounts. `Account` adds up the pods that were created,
the one to be created when none is there, and the deletions that are still to come of a pod
that does not select an architecture: of the one that stands (`Standing`: one for itself,
one more on its way out), and of each outdated version that was bound (`Risk`): on the watch
(`Backlog`), in the informer's cache while its name is queued (`Queued`), in the worker's
hands (`Taken`). `Watching` says that the watch ends with the pod as it is and that nothing
before it, nor what the informer has, is that version; `Working` that the worker holds what
the informer has, unless that has changed and its name is queued again. Each version is so
counted in one place, moves from the watch to the cache and to the worker, and is gone when
the worker is through with it, be it that it has deleted a successor. A version becomes
outdated by the write of the next, which costs nothing when the pod is marked for deletion
or gone (`Standing` paid for it) and 1 when its status is updated, for which `statuses`
pays. Every other step of the controller and the cluster keeps the account or lowers it;
only a pod stored without a selection raises it, by 2. That takes a miss:
`AdmittedPodsSelect`, proved of the webhook alone and carried over by `WebhookAsAlone`, says
that an answer selects an architecture unless a lookup failed, and a failed lookup of the
request in hand (`Missed`) has paid its 2 before.

### Only model-checked

* What does not hold, `PrivateImageNotAnonymous` and the like: a counterexample is TLC's to find.
* Liveness under fairness (`PlacedInTheEnd`, `InspectionEnds`, `EverythingEnds` and their like), and
  absence of deadlock, which is `ENABLED`: out of the prover's reach.

## 6. Not modelled, and the plan

Not modelled, and not planned, since they keep no state that decides anything: metrics
other than `ImageCount`, log lines, HTTP instrumentation (`monitored.go`), the parsing of
rate limit headers, `cmd/report` (a one-shot table), flags. The failure of `toJson`
(`hook.go:480`) is left out: a decoded object encodes.

Planned, in this order:

1. Registry cache and listing in the composition: a default answer born of a failing
   manifest served to other pods for an hour, and pushes answered from the cache.
2. The success event of an answer that the API server gave up on.
