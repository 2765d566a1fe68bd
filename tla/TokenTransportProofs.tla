------------------------- MODULE TokenTransportProofs -------------------------
(***************************************************************************)
(* What TokenTransport says of any number of requests, registries and      *)
(* paths, and of a clock without bound: a header that the HEAD found good  *)
(* stays what it was, whatever happens to the cache it may have come from. *)
(***************************************************************************)
EXTENDS TokenTransport, TLAPS

\* The clock and the requests; what is about to be stored was issued for the request.
RequestInv ==
  /\ now \in Nat
  /\ want \in [Request -> [host : Host, path : Path, auth : Credential \cup {NoAuth}]]
  /\ untold \in [Request -> BOOLEAN]
  /\ DOMAIN cache = Key
  /\ DOMAIN header = Request
  /\ \A r \in Request : pc[r] = "storing" =>
       header[r] \in Token /\ header[r].host = want[r].host /\ header[r].path = want[r].path

\* A header that was found good: it is the registry's own credential, or a token
\* for what the request wants.
Good(r) ==
  \/ /\ header[r] \in Credential /\ header[r] = Registries[want[r].host].credential
     /\ Registries[want[r].host].takesBasic
  \/ header[r] \in Token /\ header[r].host = want[r].host /\ header[r].path = want[r].path

\* Past the HEAD, and the token request if there was one.
Past == {"storing", "get", "accepted", "refused"}

CheckedInv == \A r \in Request : pc[r] \in Past /\ ~untold[r] => Good(r)

Inv == TypeOK /\ RequestInv /\ CheckedInv /\ RefusedOnlyForExpiry

-----------------------------------------------------------------------------
\* A header is a credential, a token or none, and never two of these.
LEMMA Headers ==
  ASSUME TypeOK, NEW r \in Request
  PROVE  IsToken(header[r]) <=> header[r] \in Token
BY CredentialAssumption DEF TypeOK, IsToken

LEMMA InitInv == Init => Inv
BY CredentialAssumption
   DEF Init, Inv, TypeOK, RequestInv, CheckedInv, Past, RefusedOnlyForExpiry, Host

\* A step of one request: it alone moves, and its header and what is known of it are
\* those of before unless it says otherwise.
LEMMA LoadInv == ASSUME Inv, NEW r \in Request, Load(r) PROVE Inv'
<1> USE DEF Inv, Past
<1>1. CacheKey(r) \in Key
  BY DEF CacheKey, Key, RequestInv
<1>2. header'[r] \in Credential \cup {NoAuth} \/ header'[r] \in Token
  BY <1>1 DEF Load, TypeOK, RequestInv
<1>3. TypeOK'
  BY <1>2 DEF Load, TypeOK, RequestInv
<1>4. pc[r] = "new" /\ pc' = [pc EXCEPT ![r] = "head"]
  BY DEF Load
<1>5. RequestInv'
  BY DEF Load, TypeOK, RequestInv
<1>6. CheckedInv'
  BY <1>4 DEF Load, CheckedInv, Good, RequestInv, TypeOK
<1>7. RefusedOnlyForExpiry'
  BY <1>4 DEF Load, RefusedOnlyForExpiry, IsToken, RequestInv, TypeOK
<1> QED
  BY <1>3, <1>5, <1>6, <1>7

\* The HEAD: what the registry accepts is its credential or a token for this request.
LEMMA HeadInv ==
  ASSUME Inv, NEW r \in Request, HeadAnswered(r) \/ HeadUnauthorized(r)
  PROVE  Inv'
<1> USE DEF Inv, Past
<1>1. /\ pc[r] = "head"
      /\ UNCHANGED <<now, want, cache, doomed, header>>
      /\ \/ pc' = [pc EXCEPT ![r] = "asking"] /\ UNCHANGED untold
         \/ pc' = [pc EXCEPT ![r] = "get"] /\ Accepted(r) /\ UNCHANGED untold
         \/ pc' = [pc EXCEPT ![r] = "get"] /\ untold' = [untold EXCEPT ![r] = TRUE]
  BY DEF HeadAnswered, HeadUnauthorized
<1>2. TypeOK'
  BY <1>1 DEF TypeOK
<1>3. RequestInv'
  BY <1>1 DEF RequestInv, TypeOK
<1>4. CheckedInv'
  <2>1. Accepted(r) => Good(r)
    BY Headers DEF Accepted, Accepts, Good
  <2>2. \A q \in Request : Good(q)' <=> Good(q)
    BY <1>1 DEF Good
  <2> QED
    BY <1>1, <2>1, <2>2 DEF CheckedInv, RequestInv, TypeOK
<1>5. RefusedOnlyForExpiry'
  BY <1>1 DEF RefusedOnlyForExpiry, IsToken, RequestInv, TypeOK
<1> QED
  BY <1>2, <1>3, <1>4, <1>5

\* The token request: the answer is a token for what was asked.
LEMMA TokenInv ==
  ASSUME Inv, NEW r \in Request, TokenAnswered(r) \/ NoToken(r)
  PROVE  Inv'
<1> USE DEF Inv, Past
<1>1. CASE NoToken(r)
  <2>1. UNCHANGED <<now, want, cache, header, untold>> /\ pc' = [pc EXCEPT ![r] = "unauthorized"]
    BY <1>1 DEF NoToken
  <2> QED
    BY <2>1 DEF TypeOK, RequestInv, CheckedInv, Good, RefusedOnlyForExpiry, IsToken
<1>2. CASE TokenAnswered(r)
  <2> DEFINE token == [host |-> want[r].host, path |-> want[r].path,
                       exp |-> now + Registries[want[r].host].lifetime]
  <2>1. token \in Token
    BY RegistriesAssumption DEF RequestInv, Token
  <2>2. /\ header' = [header EXCEPT ![r] = token]
        /\ pc' = [pc EXCEPT ![r] = "storing"]
        /\ UNCHANGED <<now, want, cache, untold>>
    BY <1>2 DEF TokenAnswered
  <2>3. TypeOK'
    BY <2>1, <2>2 DEF TypeOK, RequestInv
  <2>4. RequestInv'
    BY <2>1, <2>2 DEF RequestInv, TypeOK
  <2>5. CheckedInv'
    <3>1. Good(r)'
      BY <2>1, <2>2 DEF Good, RequestInv
    <3>2. \A q \in Request : q # r => (Good(q)' <=> Good(q))
      BY <2>2 DEF Good, RequestInv
    <3> QED
      BY <2>2, <3>1, <3>2 DEF CheckedInv, RequestInv, TypeOK
  <2>6. RefusedOnlyForExpiry'
    BY <2>2 DEF RefusedOnlyForExpiry, IsToken, RequestInv, TypeOK
  <2> QED
    BY <2>3, <2>4, <2>5, <2>6
<1> QED
  BY <1>1, <1>2

\* Only what was issued for the path of the key, by a server that says for how long, is kept.
LEMMA StoreInv == ASSUME Inv, NEW r \in Request, StoreToken(r) PROVE Inv'
<1> USE DEF Inv, Past
<1>1. CacheKey(r) \in Key /\ CacheKey(r)[1] = want[r].path /\ want[r].host \in Host
  BY DEF CacheKey, Key, RequestInv
<1>2. header[r] \in Token /\ header[r].host = want[r].host /\ header[r].path = want[r].path
  BY DEF StoreToken, RequestInv
<1>3. /\ pc[r] = "storing" /\ pc' = [pc EXCEPT ![r] = "get"]
      /\ UNCHANGED <<now, want, header, untold>>
  BY DEF StoreToken
<1>4. \A k \in Key : cache'[k] # NoAuth =>
        /\ cache'[k].token \in Token /\ cache'[k].token.path = k[1]
        /\ Registries[cache'[k].token.host].expiresIn > 0
  BY <1>1, <1>2 DEF StoreToken, TypeOK, RequestInv
<1>5. TypeOK'
  BY <1>3, <1>4 DEF TypeOK
<1>6. RequestInv'
  BY <1>3 DEF StoreToken, RequestInv, TypeOK
<1>7. CheckedInv'
  BY <1>3 DEF CheckedInv, Good, TypeOK
<1>8. RefusedOnlyForExpiry'
  BY <1>3 DEF RefusedOnlyForExpiry, IsToken, TypeOK
<1> QED
  BY <1>5, <1>6, <1>7, <1>8

\* The GET: a good header is refused only when it is a token that has expired.
LEMMA GetInv ==
  ASSUME Inv, NEW r \in Request, Get(r) \/ TransportFails(r)
  PROVE  Inv'
<1> USE DEF Inv, Past
<1>1. /\ pc[r] \in {"head", "get"}
      /\ \E p \in {"accepted", "refused", "failed"} :
           /\ pc' = [pc EXCEPT ![r] = p]
           /\ p # "failed" => pc[r] = "get"
           /\ p = "refused" => ~Accepted(r)
      /\ UNCHANGED <<now, want, cache, header, untold>>
  BY DEF Get, TransportFails
<1>2. TypeOK'
  BY <1>1 DEF TypeOK
<1>3. RequestInv'
  BY <1>1 DEF RequestInv, TypeOK
<1>4. CheckedInv'
  <2>1. ASSUME NEW q \in Request, pc'[q] \in Past, ~untold[q] PROVE Good(q)
    BY <1>1, <2>1 DEF CheckedInv, TypeOK
  <2> QED
    BY <1>1, <2>1 DEF CheckedInv, Good
<1>5. RefusedOnlyForExpiry'
  <2>1. ASSUME pc[r] = "get", ~Accepted(r), ~untold[r], Registries[want[r].host].public
        PROVE  IsToken(header[r]) /\ header[r].host = want[r].host /\ header[r].exp <= now
    <3>1. header[r] \in Token /\ header[r].host = want[r].host /\ header[r].path = want[r].path
      BY <2>1 DEF CheckedInv, Good, Accepted, Accepts
    <3>2. ~(now < header[r].exp)
      BY <2>1, <3>1, Headers DEF Accepted, Accepts
    <3> QED
      BY <3>1, <3>2, Headers DEF Token, RequestInv
  <2> QED
    BY <1>1, <2>1 DEF RefusedOnlyForExpiry, IsToken, TypeOK
<1> QED
  BY <1>2, <1>3, <1>4, <1>5

\* A clean-up only takes away, whatever is kept under the key by then.
LEMMA CleanUpInv ==
  ASSUME Inv, NEW k \in Key, Visit(k) \/ DeleteEntry(k)
  PROVE  Inv'
<1> USE DEF Inv, Past
<1>1. /\ UNCHANGED <<now, want, pc, header, untold>>
      /\ cache' = cache \/ cache' = [cache EXCEPT ![k] = NoAuth]
  BY DEF Visit, DeleteEntry
<1> QED
  BY <1>1 DEF TypeOK, RequestInv, CheckedInv, Good, RefusedOnlyForExpiry, IsToken

\* What has expired stays so.
LEMMA TickInv == ASSUME Inv, Tick PROVE Inv'
<1> USE DEF Inv, Past
<1>1. now' \in Nat /\ now' >= now /\ UNCHANGED <<want, cache, pc, header, untold>>
  BY DEF Tick, RequestInv
<1>2. \A r \in Request : IsToken(header[r]) => header[r].exp \in Nat
  BY Headers DEF Token
<1>3. RefusedOnlyForExpiry'
  BY <1>1, <1>2 DEF RefusedOnlyForExpiry, IsToken, RequestInv
<1> QED
  BY <1>1, <1>3 DEF TypeOK, RequestInv, CheckedInv, Good

LEMMA NextInv == Inv /\ [Next]_vars => Inv'
<1> SUFFICES ASSUME Inv, [Next]_vars PROVE Inv'
  OBVIOUS
<1>1. CASE UNCHANGED vars
  BY <1>1 DEF vars, Inv, TypeOK, RequestInv, CheckedInv, Past, Good, RefusedOnlyForExpiry, IsToken
<1> QED
  BY <1>1, LoadInv, HeadInv, TokenInv, StoreInv, GetInv, CleanUpInv, TickInv DEF Next

LEMMA Invariant == Spec => []Inv
BY InitInv, NextInv, PTL DEF Spec

-----------------------------------------------------------------------------
\* registry.go:316: what the cache holds under a path is a token for that path, from a
\* server that said how long it is good for.
THEOREM TypeCorrect == Spec => []TypeOK
<1>1. Inv => TypeOK
  BY DEF Inv
<1> QED
  BY <1>1, Invariant, PTL

\* registry.go:244-275: whatever registries share a key, whatever expires or is cleaned up
\* meanwhile, a public image is refused only for the expiry of a token of its own registry,
\* unless the HEAD was answered with something else than whether the token is good.
THEOREM RefusalsAreExpiries == Spec => []RefusedOnlyForExpiry
<1>1. Inv => RefusedOnlyForExpiry
  BY DEF Inv
<1> QED
  BY <1>1, Invariant, PTL
=============================================================================
