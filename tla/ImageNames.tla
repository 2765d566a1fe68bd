----------------------------- MODULE ImageNames -----------------------------
(***************************************************************************)
(* What Noe reads out of image references, and the patterns it matches     *)
(* them with: parseImage and ParseRegistryProxies (pkg/registry/           *)
(* registry.go), imageMatchesLoginPattern (kubelet_credentials.go) and the *)
(* keys of a docker configuration (docker_credentials.go).                 *)
(*                                                                         *)
(* A text is a sequence of chunks.  The separators "/", ".", ":" and "@"   *)
(* and the wildcard "*" are chunks of their own; any other chunk is a run  *)
(* of letters that only ever matters as a whole.                           *)
(***************************************************************************)
EXTENDS SequencesExt, Integers

Empty == <<>>

\* strings.Contains of a separator
Has(text, sep) == sep \in Range(text)

\* The two parts of strings.SplitN(text, sep, 2); the second is empty when there is one.
Before(text, sep) == IF Has(text, sep) THEN SubSeq(text, 1, SelectInSeq(text, LAMBDA c : c = sep) - 1) ELSE text
After(text, sep)  == IF Has(text, sep) THEN SubSeq(text, SelectInSeq(text, LAMBDA c : c = sep) + 1, Len(text)) ELSE Empty

\* strings.Split(text, sep)[1], or empty
Second(text, sep) == Before(After(text, sep), sep)

-----------------------------------------------------------------------------
(***************************************************************************)
(* Globs.                                                                  *)
(***************************************************************************)
\* The prefixes of text, by their length, that match once chunk follows what those of
\* matched did.  A "*" stands for any chunks but those of barriers.
Extended(barriers, chunk, text, matched) ==
  {k \in 0 .. Len(text) :
     IF chunk = "*"
     THEN \E j \in matched : j <= k /\ \A l \in j + 1 .. k : text[l] \notin barriers
     ELSE k - 1 \in matched /\ text[k] = chunk}

Matches(barriers, pattern, text) ==
  LET matched[i \in 0 .. Len(pattern)] ==
        IF i = 0 THEN {0} ELSE Extended(barriers, pattern[i], text, matched[i - 1])
  IN Len(text) \in matched[Len(pattern)]

FilepathMatch(pattern, text) == Matches({"/"}, pattern, text)

-----------------------------------------------------------------------------
(***************************************************************************)
(* parseImage                                                              *)
(***************************************************************************)
DockerIO == <<"docker", ".", "io">>

\* ParseRegistryProxies: entries without a "=" are ignored.
ParseRegistryProxies(entries) ==
  LET pairs == SelectSeq(entries, LAMBDA e : Has(e, "="))
  IN [i \in DOMAIN pairs |-> [Registry |-> Before(pairs[i], "="), Proxy |-> After(pairs[i], "=")]]

HasRegistry(ref) == Has(ref, "/") /\ (Has(Before(ref, "/"), ".") \/ Has(Before(ref, "/"), ":"))

Through(proxy, registry) ==
  IF FilepathMatch(proxy.Registry, registry) THEN proxy.Proxy ELSE registry

\* Every proxy sees what the ones before it made of the registry.
Proxied(proxies, registry) ==
  LET through[i \in 0 .. Len(proxies)] ==
        IF i = 0 THEN registry ELSE Through(proxies[i], through[i - 1])
  IN through[Len(proxies)]

parseImage(proxies, ref) ==
  LET registry == IF HasRegistry(ref) THEN Before(ref, "/") ELSE DockerIO
      noDigest == Before(IF HasRegistry(ref) THEN After(ref, "/") ELSE ref, "@")
      name     == Before(noDigest, ":")
  IN [registry |-> Proxied(proxies, registry),
      image    |-> IF registry = DockerIO /\ ~Has(name, "/") THEN <<"library", "/">> \o name ELSE name,
      tag      |-> IF Has(noDigest, ":") THEN After(noDigest, ":") ELSE <<"latest">>]

-----------------------------------------------------------------------------
(***************************************************************************)
(* imageMatchesLoginPattern                                                *)
(***************************************************************************)
\* Mutant: the port is required of the registry even when the pattern has none.
HostMatchesExactPort(registry, pattern) ==
  LET reg == Before(pattern, "/") IN
  /\ FilepathMatch(Before(reg, ":"), Before(registry, ":"))
  /\ Second(registry, ":") = Second(reg, ":")

HostMatches(registry, pattern) ==
  LET reg == Before(pattern, "/") IN
  /\ FilepathMatch(Before(reg, ":"), Before(registry, ":"))
  /\ Second(reg, ":") # Empty => Second(registry, ":") = Second(reg, ":")

\* Of the pattern's path the first element is looked at, and an image below it is refused.
PathMatches(image, pattern) == Second(pattern, "/") # Empty => ~IsPrefix(Second(pattern, "/"), image)

imageMatchesLoginPattern(registry, image, pattern) ==
  HostMatches(registry, pattern) /\ PathMatches(image, pattern)

-----------------------------------------------------------------------------
(***************************************************************************)
(* The rules the comment of imageMatchesLoginPattern states, lines 116 to  *)
(* 119, and 113 and 114 of globs: the reference for the above.             *)
(***************************************************************************)
KubeletHostMatches(registry, pattern) ==
  LET reg == Before(pattern, "/") IN
  /\ Matches({"."}, Before(reg, ":"), Before(registry, ":"))
  /\ Has(reg, ":") => After(reg, ":") = After(registry, ":")

KubeletMatches(registry, image, pattern) ==
  /\ KubeletHostMatches(registry, pattern)
  /\ IsPrefix(After(pattern, "/"), image)

-----------------------------------------------------------------------------
(***************************************************************************)
(* Keys of a docker configuration (getAuthCandidates).                     *)
(***************************************************************************)
\* https://index.docker.io/v1/
IndexDockerIO == <<"https", ":", "/", "/", "index", ".", "docker", ".", "io", "/", "v1", "/">>

DockerKey(key) == IF key = IndexDockerIO THEN DockerIO ELSE key

DockerKeyMatches(registry, image, key) ==
  \/ FilepathMatch(DockerKey(key), registry \o <<"/">> \o image)
  \/ DockerKey(key) = registry

=============================================================================
