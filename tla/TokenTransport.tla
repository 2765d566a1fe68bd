--------------------------- MODULE TokenTransport ---------------------------
(***************************************************************************)
(* pkg/registry/registry.go: WWWAuthenticateTransport.  Every GET of a     *)
(* manifest is preceded by a HEAD of it, to learn whether the credential   *)
(* in hand is good; if it is not, a token is requested from the server the *)
(* registry points at, and kept for the time it says it is good for.       *)
(*                                                                         *)
(* The cache of tokens is shared by all registries, but its keys name no   *)
(* registry.  Registries and their token servers are external: they are    *)
(* modelled by what they answer.                                           *)
(***************************************************************************)
EXTENDS Integers, FiniteSets

CONSTANTS
  Request,     \* calls of RoundTrip
  Registries,  \* registry -> [takesBasic, public, credential, lifetime, expiresIn]
  Path,        \* image paths
  Credential,  \* what an authenticator may have found
  NoAuth,      \* no Authorization header; no cache entry
  MaxTime      \* bound on the clock

Host  == DOMAIN Registries
Key   == Path \X (Credential \cup {NoAuth})
Token == [host : Host, path : Path, exp : Nat]

ASSUME RegistriesAssumption ==
  \A h \in Host : Registries[h].lifetime \in Nat /\ Registries[h].expiresIn \in Int

\* A Basic credential is not a Bearer token, and neither is no header at all.
ASSUME CredentialAssumption == NoAuth \notin Credential \cup Token /\ Credential \cap Token = {}

VARIABLES
  now,
  want,    \* the request: [host, path, auth]
  cache,   \* authenticateCache: key -> [token, expiry], or NoAuth
  doomed,  \* keys whose entry a CleanUp saw expired and has yet to delete
  pc,
  header,  \* its Authorization header: of the HEAD, then of the GET
  untold   \* history: the HEAD was answered, but not whether the header is good

vars == <<now, want, cache, doomed, pc, header, untold>>

CacheKey(r) == <<want[r].path, want[r].auth>>

\* The registry's view of a header.  A token requested without a credential gives access
\* to public images.
IsToken(auth) == auth # NoAuth /\ auth \notin Credential

Accepts(host, path, auth) ==
  LET reg == Registries[host] IN
  \/ auth \in Credential /\ reg.takesBasic /\ auth = reg.credential
  \/ IsToken(auth) /\ reg.public /\ auth.host = host /\ auth.path = path /\ now < auth.exp

-----------------------------------------------------------------------------
(***************************************************************************)
(* RoundTrip, one call at a time to the transport.                         *)
(***************************************************************************)
\* cache.Load: the HEAD goes with a cached token, or else with the request's own header.
Load(r) ==
  LET entry == cache[CacheKey(r)] IN
  /\ pc[r] = "new"
  /\ header' = [header EXCEPT ![r] = IF entry # NoAuth /\ now < entry.expiry THEN entry.token ELSE want[r].auth]
  /\ pc' = [pc EXCEPT ![r] = "head"]
  /\ UNCHANGED <<now, want, cache, doomed, untold>>

Accepted(r) == Accepts(want[r].host, want[r].path, header[r])

\* Any answer but 401 to the HEAD lets the GET follow, with the same header.
HeadAnswered(r) ==
  /\ pc[r] = "head"
  /\ \/ /\ Accepted(r)
        /\ UNCHANGED untold
     \/ untold' = [untold EXCEPT ![r] = TRUE]          \* 429, 5xx
  /\ pc' = [pc EXCEPT ![r] = "get"]
  /\ UNCHANGED <<now, want, cache, doomed, header>>

\* Mutant: where there is a cached token the GET follows whatever the HEAD says.
HeadUnauthorizedUsesCache(r) ==
  /\ pc[r] = "head" /\ ~Accepted(r)
  /\ pc' = [pc EXCEPT ![r] = IF IsToken(header[r]) THEN "get" ELSE "asking"]
  /\ UNCHANGED <<now, want, cache, doomed, header, untold>>

HeadUnauthorized(r) ==
  /\ pc[r] = "head" /\ ~Accepted(r)
  /\ pc' = [pc EXCEPT ![r] = "asking"]
  /\ UNCHANGED <<now, want, cache, doomed, header, untold>>

\* The token request carries no credential.  What it returns replaces the header.
TokenAnswered(r) ==
  /\ pc[r] = "asking"
  /\ header' = [header EXCEPT ![r] = [host |-> want[r].host, path |-> want[r].path,
                                  exp |-> now + Registries[want[r].host].lifetime]]
  /\ pc' = [pc EXCEPT ![r] = "storing"]
  /\ UNCHANGED <<now, want, cache, doomed, untold>>

\* Mutant: the token is kept even when the server does not say for how long.
StoreTokenAlways(r) ==
  /\ pc[r] = "storing"
  /\ cache' = [cache EXCEPT ![CacheKey(r)] =
       [token |-> header[r], expiry |-> now + Registries[want[r].host].expiresIn]]
  /\ pc' = [pc EXCEPT ![r] = "get"]
  /\ UNCHANGED <<now, want, doomed, header, untold>>

\* The entry lives expires_in from now on, not from when the token was issued.
StoreToken(r) ==
  LET expiresIn == Registries[want[r].host].expiresIn IN
  /\ pc[r] = "storing"
  /\ cache' = [cache EXCEPT ![CacheKey(r)] =
       IF expiresIn > 0 THEN [token |-> header[r], expiry |-> now + expiresIn] ELSE @]
  /\ pc' = [pc EXCEPT ![r] = "get"]
  /\ UNCHANGED <<now, want, doomed, header, untold>>

\* No usable www-authenticate header, no token: the 401 of the HEAD is the answer.
NoToken(r) ==
  /\ pc[r] = "asking"
  /\ pc' = [pc EXCEPT ![r] = "unauthorized"]
  /\ UNCHANGED <<now, want, cache, doomed, header, untold>>

Get(r) ==
  /\ pc[r] = "get"
  /\ pc' = [pc EXCEPT ![r] = IF Accepted(r) THEN "accepted" ELSE "refused"]
  /\ UNCHANGED <<now, want, cache, doomed, header, untold>>

TransportFails(r) ==
  /\ pc[r] \in {"head", "get"}
  /\ pc' = [pc EXCEPT ![r] = "failed"]
  /\ UNCHANGED <<now, want, cache, doomed, header, untold>>

-----------------------------------------------------------------------------
(***************************************************************************)
(* The clean-up every RoundTrip leaves behind (RegistryCache has its locks *)
(* and its period): it looks at an entry and then deletes by key.          *)
(***************************************************************************)
Visit(k) ==
  /\ \E r \in Request : pc[r] \in {"accepted", "refused", "unauthorized", "failed"}
  /\ k \notin doomed /\ cache[k] # NoAuth /\ now > cache[k].expiry
  /\ doomed' = doomed \cup {k}
  /\ UNCHANGED <<now, want, cache, pc, header, untold>>

DeleteEntry(k) ==
  /\ k \in doomed
  /\ doomed' = doomed \ {k}
  /\ cache' = [cache EXCEPT ![k] = NoAuth]
  /\ UNCHANGED <<now, want, pc, header, untold>>

Tick ==
  /\ now < MaxTime
  /\ now' = now + 1
  /\ UNCHANGED <<want, cache, doomed, pc, header, untold>>

-----------------------------------------------------------------------------
Init ==
  /\ now = 0
  /\ want \in [Request -> [host : Host, path : Path, auth : Credential \cup {NoAuth}]]
  /\ cache = [k \in Key |-> NoAuth]
  /\ doomed = {}
  /\ pc = [r \in Request |-> "new"]
  /\ header = [r \in Request |-> NoAuth]
  /\ untold = [r \in Request |-> FALSE]

Next ==
  \/ \E r \in Request :
       \/ Load(r) \/ HeadAnswered(r) \/ HeadUnauthorized(r)
       \/ TokenAnswered(r) \/ StoreToken(r) \/ NoToken(r)
       \/ Get(r) \/ TransportFails(r)
  \/ \E k \in Key : Visit(k) \/ DeleteEntry(k)
  \/ Tick

Spec == Init /\ [][Next]_vars

-----------------------------------------------------------------------------
(***************************************************************************)
(* Properties.                                                             *)
(***************************************************************************)
\* The cache holds tokens that were worth keeping (registry.go:316), and requests are
\* where RoundTrip can be.
TypeOK ==
  /\ \A k \in Key : cache[k] # NoAuth =>
       /\ cache[k].token \in Token /\ cache[k].token.path = k[1]
       /\ Registries[cache[k].token.host].expiresIn > 0
  /\ pc \in [Request -> {"new", "head", "asking", "storing", "get",
                         "accepted", "refused", "unauthorized", "failed"}]
  /\ \A r \in Request : header[r] \in Credential \cup {NoAuth} \/ header[r] \in Token

\* A cached token can expire between Load, the HEAD and the GET, be another registry's
\* (the key names none, registry.go:256-259) or be deleted under a new one's name
\* (cache.go:88).  The HEAD finds out (registry.go:287): a public image is refused to a GET
\* only because a token of its own registry has expired since, or because the HEAD was
\* answered with something else than whether the token is good.
RefusedOnlyForExpiry ==
  \A r \in Request :
    pc[r] = "refused" /\ ~untold[r] /\ Registries[want[r].host].public =>
      IsToken(header[r]) /\ header[r].host = want[r].host /\ header[r].exp <= now

\* README.md:116-119, "Configuring accesses to private images": Noe authenticates
\* "requests to private registries".  Does not hold where a token is needed, since the
\* token request does not carry the credential.
CredentialGivesAccess ==
  \A r \in Request :
    /\ pc[r] = "refused" /\ ~untold[r]
    /\ want[r].auth = Registries[want[r].host].credential
    => IsToken(header[r]) /\ header[r].exp <= now

=============================================================================
