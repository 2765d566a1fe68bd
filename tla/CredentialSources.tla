------------------------- MODULE CredentialSources -------------------------
(***************************************************************************)
(* Which credentials Noe tries for an image, and in what order: from the   *)
(* pod's pull secrets (GetImagePullSecretFromPodSpec, pkg/arch/hook.go)    *)
(* through the authenticators of pkg/registry/login.go, one after the      *)
(* other.  Each hands its candidates to ListArchs, whose side of the       *)
(* channel is ArchListing; here ListArchs takes every one of them.         *)
(*                                                                         *)
(* A set of credentials maps keys, which are texts of ImageNames, to       *)
(* credentials.  Go ranges over a map in any order.                        *)
(***************************************************************************)
EXTENDS ImageNames, FiniteSets

CONSTANTS
  Chunk,         \* what texts are made of
  Refs,          \* image references
  ProxyEntries,  \* --registry-proxies
  Secrets,       \* the pull secrets a pod may name: sequences of maps
  Providers,     \* the kubelet's configurations: sequences of [matchImages, auth];
                 \* empty when there is none, or none that can be read
  Containerd,    \* what decodes under /etc/containerd: sequences of [server, headers]
  DockerFiles,   \* the docker configurations on the path of readDockerConfig
  Private,       \* --private-registries: sets of patterns
  NoAuth         \* the empty credential

Text == Seq(Chunk)
Finite(map) == DOMAIN map \subseteq Text /\ IsFiniteSet(DOMAIN map)

ASSUME TextsAssumption ==
  DockerIO \in Text /\ Refs \subseteq Text /\ \A patterns \in Private : patterns \subseteq Text

\* What a proxy is replaced by is a host (cmd/noe/main.go:48).
ASSUME ProxiesAssumption ==
  LET proxies == ParseRegistryProxies(ProxyEntries) IN
  /\ proxies \in Seq(Range(proxies))
  /\ \A p \in Range(proxies) : p.Registry \in Text /\ p.Proxy \in Text /\ ~Has(p.Proxy, "/")

ASSUME SecretsAssumption ==
  \A secrets \in Secrets : secrets \in Seq(Range(secrets)) /\ \A map \in Range(secrets) : Finite(map)

\* A plugin answers with a name and a password (kubelet_credentials.go:262).
ASSUME ProvidersAssumption ==
  \A providers \in Providers :
    /\ providers \in Seq(Range(providers))
    /\ \A p \in Range(providers) :
         p.matchImages \subseteq Text /\ Finite(p.auth) /\ NoAuth \notin Range(p.auth)

\* So does a credentials helper (docker_credentials.go:66).
ASSUME DockerFilesAssumption ==
  \A files \in DockerFiles :
    /\ files \in Seq(Range(files))
    /\ \A f \in Range(files) : f.readable => Finite(f.auths) /\ NoAuth \notin Range(f.credsStore)

VARIABLES
  cfg,      \* the surroundings of one call: [secrets, providers, containerd, docker, private]
  target,   \* what parseImage made of the reference
  source,   \* the source whose turn it is
  pos,      \* its next element
  auths,    \* dockerCfg.Auths of GetImagePullSecretFromPodSpec
  offered,  \* the candidates sent so far: [provider, auth]
  missed    \* history: secrets and plugins that failed, as <<source, pos>>

sourceVars == <<cfg, target, source, pos, auths, offered, missed>>

Following(s) == CASE s = "secrets"    -> "pullSecret"
                [] s = "pullSecret" -> "kubelet"
                [] s = "kubelet"    -> "containerd"
                [] s = "containerd" -> "docker"
                [] s = "docker"     -> "anonymous"
                [] s = "anonymous"  -> "done"

NextElement ==
  /\ pos' = pos + 1
  /\ UNCHANGED source

NextSource ==
  /\ source' = Following(source)
  /\ pos' = 1

From(provider, values) == [i \in DOMAIN values |-> [provider |-> provider, auth |-> values[i]]]

\* The values of map under keys, in the order of a range over map.
Ranged(map, keys) == {[i \in DOMAIN order |-> map[order[i]]] : order \in SetToSeqs(keys)}

\* The entries of map over those of earlier.
Overlaid(map, earlier) ==
  [key \in DOMAIN map \cup DOMAIN earlier |-> IF key \in DOMAIN map THEN map[key] ELSE earlier[key]]

-----------------------------------------------------------------------------
(***************************************************************************)
(* GetImagePullSecretFromPodSpec: a later secret replaces the keys of an   *)
(* earlier one, and one that cannot be read or decoded is passed over.     *)
(***************************************************************************)
ReadSecret ==
  /\ source = "secrets" /\ pos \in DOMAIN cfg.secrets
  /\ auths' = Overlaid(cfg.secrets[pos], auths)
  /\ NextElement
  /\ UNCHANGED <<cfg, target, offered, missed>>

SecretFails ==
  /\ source = "secrets" /\ pos \in DOMAIN cfg.secrets
  /\ missed' = missed \cup {<<source, pos>>}
  /\ NextElement
  /\ UNCHANGED <<cfg, target, auths, offered>>

SourceExhausted ==
  /\ source \in {"secrets", "kubelet"}
  /\ pos = Len(IF source = "secrets" THEN cfg.secrets ELSE cfg.providers) + 1
  /\ NextSource
  /\ UNCHANGED <<cfg, target, auths, offered, missed>>

-----------------------------------------------------------------------------
(***************************************************************************)
(* DockerConfigAuthenticator, for the pull secret and for the node's file. *)
(***************************************************************************)
\* Mutant: an empty entry is a candidate.
DockerKeysEmptyToo(registry, map) ==
  {key \in DOMAIN map : DockerKeyMatches(registry, target.image, key)}

DockerKeys(registry, map) ==
  {key \in DOMAIN map : map[key] # NoAuth /\ DockerKeyMatches(registry, target.image, key)}

TryPullSecret ==
  /\ source = "pullSecret"
  /\ \E values \in Ranged(auths, DockerKeys(target.registry, auths)) :
       offered' = offered \o From("ImagePullSecret", values)
  /\ NextSource
  /\ UNCHANGED <<cfg, target, auths, missed>>

\* The name a credentials helper has for the registry; store is empty without a helper.
\* The entries of its file are then looked up under that name, too.
HelperName(store) ==
  IF store # <<>> /\ target.registry = DockerIO
  THEN <<"index", ".", "docker", ".", "io">>
  ELSE target.registry

HelperAnswers(store) == {<<store[name]>> : name \in DOMAIN store \cap {HelperName(store)}}

\* readDockerConfig: the first file that opens and decodes, 0 when there is none.
DockerFile == SelectInSeq(cfg.docker, LAMBDA f : f.readable)

\* The credentials helper a file may name is asked before, and may have no answer.
TryDockerConfig ==
  LET store == cfg.docker[DockerFile].credsStore
      map   == cfg.docker[DockerFile].auths
  IN
  /\ source = "docker"
  /\ IF DockerFile = 0
     THEN UNCHANGED offered
     ELSE \E values \in Ranged(map, DockerKeys(HelperName(store), map)),
             helped \in {<<>>} \cup HelperAnswers(store) :
            offered' = offered \o From("docker-config", helped \o values)
  /\ NextSource
  /\ UNCHANGED <<cfg, target, auths, missed>>

-----------------------------------------------------------------------------
(***************************************************************************)
(* KubeletAuthenticator                                                    *)
(***************************************************************************)
AnyMatches(patterns) == \E p \in patterns : imageMatchesLoginPattern(target.registry, target.image, p)

SkipProvider ==
  /\ source = "kubelet" /\ pos \in DOMAIN cfg.providers
  /\ ~AnyMatches(cfg.providers[pos].matchImages)
  /\ NextElement
  /\ UNCHANGED <<cfg, target, auths, offered, missed>>

AskProvider ==
  LET map  == cfg.providers[pos].auth
      keys == {key \in DOMAIN map : imageMatchesLoginPattern(target.registry, target.image, key)}
  IN
  /\ source = "kubelet" /\ pos \in DOMAIN cfg.providers
  /\ AnyMatches(cfg.providers[pos].matchImages)
  /\ \E values \in Ranged(map, keys) : offered' = offered \o From("kubelet", values)
  /\ NextElement
  /\ UNCHANGED <<cfg, target, auths, missed>>

\* Mutant: a failing plugin ends the authenticator.
ProviderFailsAll ==
  /\ source = "kubelet" /\ pos \in DOMAIN cfg.providers
  /\ AnyMatches(cfg.providers[pos].matchImages)
  /\ missed' = missed \cup {<<source, pos>>}
  /\ NextSource
  /\ UNCHANGED <<cfg, target, auths, offered>>

\* Its request cannot be encoded, it cannot be executed, its answer not be parsed.
ProviderFails ==
  /\ source = "kubelet" /\ pos \in DOMAIN cfg.providers
  /\ AnyMatches(cfg.providers[pos].matchImages)
  /\ missed' = missed \cup {<<source, pos>>}
  /\ NextElement
  /\ UNCHANGED <<cfg, target, auths, offered>>

-----------------------------------------------------------------------------
(***************************************************************************)
(* ContainerDAuthenticator, AnonymousAuthenticator                         *)
(***************************************************************************)
\* regexp.MatchString(registry, server), which is not anchored, and where "." is any letter.
OccursIn(registry, server) ==
  \E i \in 0 .. Len(server) - Len(registry) :
    \A j \in DOMAIN registry :
      \/ server[i + j] = registry[j]
      \/ registry[j] = "." /\ server[i + j] \in {"/", ":"}

\* The last file that matches and has a host counts, even when that host has no header.
ContainerdHeaders(files, registry) ==
  LET last == SelectLastInSeq(files, LAMBDA f : f.headers # {} /\ OccursIn(registry, f.server))
  IN IF last = 0 THEN {NoAuth} ELSE files[last].headers

TryContainerd ==
  /\ source = "containerd"
  /\ \E header \in ContainerdHeaders(cfg.containerd, target.registry) :
       offered' = offered \o From("containerD", IF header = NoAuth THEN <<>> ELSE <<header>>)
  /\ NextSource
  /\ UNCHANGED <<cfg, target, auths, missed>>

TryAnonymous ==
  /\ source = "anonymous"
  /\ offered' = offered \o From("anonymous", IF AnyMatches(cfg.private) THEN <<>> ELSE <<NoAuth>>)
  /\ NextSource
  /\ UNCHANGED <<cfg, target, auths, missed>>

-----------------------------------------------------------------------------
SourcesInit ==
  /\ cfg \in [secrets : Secrets, providers : Providers, containerd : Containerd,
              docker : DockerFiles, private : Private]
  /\ target \in {parseImage(ParseRegistryProxies(ProxyEntries), ref) : ref \in Refs}
  /\ source = "secrets"
  /\ pos = 1
  /\ auths = <<>>
  /\ offered = <<>>
  /\ missed = {}

SourcesNext ==
  \/ ReadSecret \/ SecretFails \/ SourceExhausted
  \/ TryPullSecret \/ TryDockerConfig
  \/ SkipProvider \/ AskProvider \/ ProviderFails
  \/ TryContainerd \/ TryAnonymous

SourcesSpec == SourcesInit /\ [][SourcesNext]_sourceVars

-----------------------------------------------------------------------------
(***************************************************************************)
(* Properties.                                                             *)
(***************************************************************************)
Sources == {"secrets", "pullSecret", "kubelet", "containerd", "docker", "anonymous", "done"}
Names   == {"ImagePullSecret", "kubelet", "containerD", "docker-config", "anonymous"}

Offers(provider) == {offered[i].auth : i \in {j \in DOMAIN offered : offered[j].provider = provider}}

\* The walk through the sources, and that only the anonymous candidate is empty
\* (docker_credentials.go:80, containerd_credentials.go:45).
SourcesTypeOK ==
  /\ cfg \in [secrets : Secrets, providers : Providers, containerd : Containerd,
               docker : DockerFiles, private : Private]
  /\ source \in Sources
  /\ pos \in Nat \ {0}
  /\ missed \subseteq {"secrets", "kubelet"} \X (1 .. Len(cfg.secrets) + Len(cfg.providers))
  /\ \A i \in DOMAIN offered :
       /\ offered[i].provider \in Names
       /\ offered[i].auth = NoAuth <=> offered[i].provider = "anonymous"

PathFree(patterns) == {p \in patterns : ~Has(p, "/")}

\* The keys of map for the registry itself that hold something.
OwnKeys(map) == {key \in DOMAIN map : map[key] # NoAuth /\ DockerKey(key) = target.registry}

\* Of the secrets that were read, the entries no later one replaces.
SecretsHold ==
  LET read == {s \in DOMAIN cfg.secrets : <<"secrets", s>> \notin missed} IN
  UNION {{cfg.secrets[s][key] :
            key \in {k \in OwnKeys(cfg.secrets[s]) :
                       \A t \in read : t > s => k \notin DOMAIN cfg.secrets[t]}} : s \in read}

\* What the plugins that did not fail hold by the kubelet's rules, paths left aside.
PluginsHold ==
  LET kubeletRule(p) == KubeletMatches(target.registry, target.image, p) IN
  UNION {{p.auth[key] : key \in {k \in PathFree(DOMAIN p.auth) : kubeletRule(k)}} :
           p \in {cfg.providers[i] : i \in {j \in DOMAIN cfg.providers :
                     /\ <<"kubelet", j>> \notin missed
                     /\ \E m \in PathFree(cfg.providers[j].matchImages) : kubeletRule(m)}}}

\* What the node's file holds; with a helper what it has for docker.io is not found.
FileHolds ==
  LET map == cfg.docker[DockerFile].auths IN
  IF DockerFile = 0 \/ HelperName(cfg.docker[DockerFile].credsStore) # target.registry
  THEN {}
  ELSE {map[key] : key \in OwnKeys(map)}

\* The sources are walked in an order, several may hold a credential for the image's
\* registry and any may fail (hook.go:187, kubelet_credentials.go:245): what fails takes
\* nothing with it, and every other credential for that registry gets its turn.
OwnCredentialsOffered ==
  source = "done" =>
    /\ SecretsHold \subseteq Offers("ImagePullSecret")
    /\ PluginsHold \subseteq Offers("kubelet")
    /\ FileHolds \subseteq Offers("docker-config")

\* cmd/noe/main.go:52: "Any image matching those patterns will be considered as private
\* and anonymous pull will be disabled", by the kubelet's rules, for the registry the
\* request goes to (a proxy, if there is one), whatever its port.
PrivateRegistryNotAnonymous ==
  (\E p \in PathFree(cfg.private) : KubeletMatches(target.registry, target.image, p)) =>
    Offers("anonymous") = {}

\* The same of all patterns.  Does not hold: a pattern with a path excludes the images
\* below it (kubelet_credentials.go:183).
PrivateImageNotAnonymous ==
  (\E p \in cfg.private : KubeletMatches(target.registry, target.image, p)) =>
    Offers("anonymous") = {}

=============================================================================
