---------------------------- MODULE RegistryCache ----------------------------
(***************************************************************************)
(* pkg/registry/cache.go: Cache[T] as CachedRegistry uses it.  Webhook     *)
(* handlers and the pod reconciler ask it concurrently for the platforms   *)
(* of an image.  Requests for one key are serialized by a mutex found in a *)
(* map next to the cache; every request leaves behind a goroutine that     *)
(* cleans the cache up, and with it the map of mutexes.                    *)
(*                                                                         *)
(* A request is a goroutine running CachedRegistry.ListArchs once.  What   *)
(* the registry answers is represented by the time it answered at.         *)
(***************************************************************************)
EXTENDS Integers, FiniteSets

CONSTANTS
  Request,       \* the calls of CachedRegistry.ListArchs
  Key,           \* pull secret and image
  CacheDuration,
  CleanUpPeriod,
  None,          \* no request, no key
  MaxTime        \* bound: the clock stops here

ASSUME TimesAssumption ==
  /\ CacheDuration \in Nat \ {0}
  /\ CleanUpPeriod \in Nat \ {0}
  /\ MaxTime \in Nat

ASSUME NoneAssumption == None \notin Request /\ None \notin Key

VARIABLES
  now,
  cache,        \* key -> [asOf, expiry], or NoEntry
  serialize,    \* key -> the mutex of the key, or NoMutex
  mutexes,      \* mutexes allocated so far; they are numbered from 1
  pc,           \* where each request is
  key,          \* its cache key
  mutex,        \* the mutex it found
  result,       \* what it got: how, and the time of the answer
  cleaning,     \* its CleanUp goroutine: "none", "waiting", "running", "done"
  at,           \* the time that goroutine was started with
  cleaner,      \* who holds cleanupAccess, the keys ranged over, the key in hand
  lastCleanup,
  dropped       \* history: keys whose mutex was deleted while in use

requestVars == <<pc, key, mutex, result>>
cleanVars   == <<cleaning, at, cleaner, lastCleanup>>
vars == <<now, cache, serialize, mutexes, requestVars, cleanVars, dropped>>

NoMutex == 0
NoEntry == [asOf |-> -1, expiry |-> -1]
Nothing == [how |-> "none", asOf |-> -1]

Idle == [by |-> None, seen |-> {}, key |-> None, step |-> "range"]

\* A goroutine that holds the mutex it found, and one that has found one.
Holds(r)  == pc[r] \in {"locked", "calling", "storing"}
InUse(r)  == pc[r] = "locking" \/ Holds(r)
\* Mutant: no unlock on the error path.
HeldAfterError(m) ==
  \E r \in Request : (Holds(r) \/ result[r].how = "error") /\ mutex[r] = m

Held(m)   == \E r \in Request : Holds(r) /\ mutex[r] = m

-----------------------------------------------------------------------------
\* Mutants: Store in place of LoadOrStore; one mutex for all the keys.
CallNewMutex(r, k) ==
  /\ pc[r] = "new"
  /\ pc' = [pc EXCEPT ![r] = "locking"]
  /\ key' = [key EXCEPT ![r] = k]
  /\ mutexes' = mutexes + 1
  /\ serialize' = [serialize EXCEPT ![k] = mutexes']
  /\ mutex' = [mutex EXCEPT ![r] = mutexes']
  /\ UNCHANGED <<now, cache, result, cleanVars, dropped>>
CallOneMutex(r, k) ==
  /\ pc[r] = "new"
  /\ pc' = [pc EXCEPT ![r] = "locking"]
  /\ key' = [key EXCEPT ![r] = k]
  /\ mutexes' = 1
  /\ serialize' = [serialize EXCEPT ![k] = 1]
  /\ mutex' = [mutex EXCEPT ![r] = 1]
  /\ UNCHANGED <<now, cache, result, cleanVars, dropped>>

\* CachedRegistry.ListArchs, and LoadOrCall up to the mutex.
Call(r, k) ==
  /\ pc[r] = "new"
  /\ pc' = [pc EXCEPT ![r] = "locking"]
  /\ key' = [key EXCEPT ![r] = k]
  /\ \/ /\ serialize[k] = NoMutex
        /\ mutexes' = mutexes + 1
        /\ serialize' = [serialize EXCEPT ![k] = mutexes']
     \/ /\ serialize[k] # NoMutex
        /\ UNCHANGED <<mutexes, serialize>>
  /\ mutex' = [mutex EXCEPT ![r] = serialize'[k]]
  /\ UNCHANGED <<now, cache, result, cleanVars, dropped>>

\* Mutant: the mutex is not taken.
LockNothing(r) ==
  /\ pc[r] = "locking"
  /\ pc' = [pc EXCEPT ![r] = "locked"]
  /\ UNCHANGED <<now, cache, serialize, mutexes, key, mutex, result, cleanVars, dropped>>

Lock(r) ==
  /\ pc[r] = "locking"
  /\ ~Held(mutex[r])
  /\ pc' = [pc EXCEPT ![r] = "locked"]
  /\ UNCHANGED <<now, cache, serialize, mutexes, key, mutex, result, cleanVars, dropped>>

(***************************************************************************)
(* Returning: the deferred unlock, and the deferred start of CleanUp with  *)
(* the time of the return.                                                 *)
(***************************************************************************)
Return(r, res) ==
  /\ pc' = [pc EXCEPT ![r] = "done"]
  /\ result' = [result EXCEPT ![r] = res]
  /\ cleaning' = [cleaning EXCEPT ![r] = "waiting"]
  /\ at' = [at EXCEPT ![r] = now]
  /\ UNCHANGED <<key, mutex, cleaner, lastCleanup>>

\* Load
Fresh(k) == cache[k] # NoEntry /\ now < cache[k].expiry

Hit(r) ==
  /\ pc[r] = "locked"
  /\ Fresh(key[r])
  /\ Return(r, [how |-> "hit", asOf |-> cache[key[r]].asOf])
  /\ UNCHANGED <<now, cache, serialize, mutexes, dropped>>

Miss(r) ==
  /\ pc[r] = "locked"
  /\ ~Fresh(key[r])
  /\ pc' = [pc EXCEPT ![r] = "calling"]
  /\ UNCHANGED <<now, cache, serialize, mutexes, key, mutex, result, cleanVars, dropped>>

\* miss() returns.  Errors are not cached.
RegistryAnswers(r) ==
  /\ pc[r] = "calling"
  /\ pc' = [pc EXCEPT ![r] = "storing"]
  /\ result' = [result EXCEPT ![r] = [how |-> "miss", asOf |-> now]]
  /\ UNCHANGED <<now, cache, serialize, mutexes, key, mutex, cleanVars, dropped>>

\* Mutant: errors are stored like answers.
RegistryFailsCached(r) ==
  /\ pc[r] = "calling"
  /\ pc' = [pc EXCEPT ![r] = "storing"]
  /\ result' = [result EXCEPT ![r] = [how |-> "error", asOf |-> -1]]
  /\ UNCHANGED <<now, cache, serialize, mutexes, key, mutex, cleanVars, dropped>>

RegistryFails(r) ==
  /\ pc[r] = "calling"
  /\ Return(r, [how |-> "error", asOf |-> -1])
  /\ UNCHANGED <<now, cache, serialize, mutexes, dropped>>

Store(r) ==
  /\ pc[r] = "storing"
  /\ cache' = [cache EXCEPT ![key[r]] =
                 [asOf |-> result[r].asOf, expiry |-> now + CacheDuration]]
  /\ Return(r, result[r])
  /\ UNCHANGED <<now, serialize, mutexes, dropped>>

-----------------------------------------------------------------------------
(***************************************************************************)
(* CleanUp(at[r]), under cleanupAccess.  Range hands each key to the       *)
(* callback with the entry it had at that moment; the two deletions are    *)
(* steps of their own and look at nothing.                                 *)
(***************************************************************************)
\* Mutant: the check uses the clock, lastCleanup the time of the start.
TooSoonByClock(r) == now < lastCleanup + CleanUpPeriod

TooSoon(r) == at[r] < lastCleanup + CleanUpPeriod

\* Mutant: the early return keeps cleanupAccess.
SkipCleanUpLocked(r) ==
  /\ cleaning[r] = "waiting" /\ cleaner = Idle
  /\ TooSoon(r)
  /\ cleaning' = [cleaning EXCEPT ![r] = "done"]
  /\ cleaner' = [Idle EXCEPT !.by = r, !.step = "kept"]
  /\ UNCHANGED <<now, cache, serialize, mutexes, requestVars, at, lastCleanup, dropped>>

SkipCleanUp(r) ==
  /\ cleaning[r] = "waiting" /\ cleaner = Idle
  /\ TooSoon(r)
  /\ cleaning' = [cleaning EXCEPT ![r] = "done"]
  /\ UNCHANGED <<now, cache, serialize, mutexes, requestVars, at, cleaner, lastCleanup, dropped>>

StartCleanUp(r) ==
  /\ cleaning[r] = "waiting" /\ cleaner = Idle
  /\ ~TooSoon(r)
  /\ cleaning' = [cleaning EXCEPT ![r] = "running"]
  /\ cleaner' = [Idle EXCEPT !.by = r]
  /\ UNCHANGED <<now, cache, serialize, mutexes, requestVars, at, lastCleanup, dropped>>

\* Mutant: the entry expires at its expiry instead of after it.
ExpiredAt(r, k) == cache[k] # NoEntry /\ at[r] >= cache[k].expiry

Expired(r, k) == cache[k] # NoEntry /\ at[r] > cache[k].expiry

Visit(r, k) ==
  /\ cleaner.by = r /\ cleaner.step = "range"
  /\ k \notin cleaner.seen
  /\ cleaner' = IF Expired(r, k)
                THEN [by |-> r, seen |-> cleaner.seen \cup {k}, key |-> k, step |-> "entry"]
                ELSE [cleaner EXCEPT !.seen = @ \cup {k}]
  /\ UNCHANGED <<now, cache, serialize, mutexes, requestVars, cleaning, at, lastCleanup, dropped>>

DeleteEntry(r) ==
  /\ cleaner.by = r /\ cleaner.step = "entry"
  /\ cache' = [cache EXCEPT ![cleaner.key] = NoEntry]
  /\ cleaner' = [cleaner EXCEPT !.step = "mutex"]
  /\ UNCHANGED <<now, serialize, mutexes, requestVars, cleaning, at, lastCleanup, dropped>>

DeleteMutex(r) ==
  /\ cleaner.by = r /\ cleaner.step = "mutex"
  /\ serialize' = [serialize EXCEPT ![cleaner.key] = NoMutex]
  /\ dropped' = IF \E q \in Request : InUse(q) /\ mutex[q] = serialize[cleaner.key]
                THEN dropped \cup {cleaner.key}
                ELSE dropped
  /\ cleaner' = [cleaner EXCEPT !.key = None, !.step = "range"]
  /\ UNCHANGED <<now, cache, mutexes, requestVars, cleaning, at, lastCleanup>>

EndCleanUp(r) ==
  /\ cleaner.by = r /\ cleaner.step = "range" /\ cleaner.seen = Key
  /\ cleaner' = Idle
  /\ lastCleanup' = at[r]
  /\ cleaning' = [cleaning EXCEPT ![r] = "done"]
  /\ UNCHANGED <<now, cache, serialize, mutexes, requestVars, at, dropped>>

Tick ==
  /\ now < MaxTime
  /\ now' = now + 1
  /\ UNCHANGED <<cache, serialize, mutexes, requestVars, cleanVars, dropped>>

-----------------------------------------------------------------------------
\* lastCleanup is the zero time: long enough ago.
Init ==
  /\ now = 0
  /\ cache = [k \in Key |-> NoEntry]
  /\ serialize = [k \in Key |-> NoMutex]
  /\ mutexes = 0
  /\ pc = [r \in Request |-> "new"]
  /\ key = [r \in Request |-> None]
  /\ mutex = [r \in Request |-> NoMutex]
  /\ result = [r \in Request |-> Nothing]
  /\ cleaning = [r \in Request |-> "none"]
  /\ at = [r \in Request |-> 0]
  /\ cleaner = Idle
  /\ lastCleanup = -CleanUpPeriod
  /\ dropped = {}

Lookup(r) ==
  Lock(r) \/ Hit(r) \/ Miss(r) \/ RegistryAnswers(r) \/ RegistryFails(r) \/ Store(r)

CleanUp(r) ==
  \/ SkipCleanUp(r) \/ StartCleanUp(r)
  \/ \E k \in Key : Visit(r, k)
  \/ DeleteEntry(r) \/ DeleteMutex(r) \/ EndCleanUp(r)

Next ==
  \/ \E r \in Request : (\E k \in Key : Call(r, k)) \/ Lookup(r) \/ CleanUp(r)
  \/ Tick

(***************************************************************************)
(* Goroutines keep running and a registry call ends (see ArchListing).  A  *)
(* mutex is free again after each of the finitely many requests before     *)
(* this one, so weak fairness is enough for Lock.                          *)
(***************************************************************************)
Fairness == \A r \in Request : WF_vars(Lookup(r)) /\ WF_vars(CleanUp(r))

Spec     == Init /\ [][Next]_vars
FairSpec == Spec /\ Fairness

-----------------------------------------------------------------------------
(***************************************************************************)
(* Properties.                                                             *)
(***************************************************************************)
Times   == 0 .. MaxTime
Results == [how : {"none", "hit", "miss", "error"}, asOf : Times \cup {-1}]
Entries == {NoEntry} \cup
           [asOf : Times, expiry : CacheDuration .. MaxTime + CacheDuration]

\* The state of Cache[T] (cache.go:14-26) and of the goroutines using it.
TypeOK ==
  /\ now \in Times
  /\ cache \in [Key -> Entries]
  /\ mutexes \in Nat
  /\ serialize \in [Key -> 0 .. mutexes]
  /\ pc \in [Request -> {"new", "locking", "locked", "calling", "storing", "done"}]
  /\ key \in [Request -> Key \cup {None}]
  /\ mutex \in [Request -> 0 .. mutexes]
  /\ result \in [Request -> Results]
  /\ cleaning \in [Request -> {"none", "waiting", "running", "done"}]
  /\ at \in [Request -> Times]
  /\ cleaner \in [by : Request \cup {None}, seen : SUBSET Key,
                  key : Key \cup {None}, step : {"range", "entry", "mutex"}]
  /\ lastCleanup \in Times \cup {-CleanUpPeriod}
  /\ dropped \subseteq Key

\* cache.go:48 "Serialize requests for the same key": as long as CleanUp has not
\* deleted the mutex of the key from under a request, at most one request for it
\* is past the mutex and asking the registry.
SingleFlight ==
  \A r, q \in Request :
    Holds(r) /\ Holds(q) /\ key[r] = key[q] /\ key[r] \notin dropped => r = q

\* cache_test.go:73, ten concurrent calls and one registry call: before the first
\* entry expires a key is fetched successfully once, CleanUp or not.
FetchedOnceWhileFresh ==
  now < CacheDuration =>
    \A r, q \in Request :
      result[r].how = "miss" /\ result[q].how = "miss" /\ key[r] = key[q] => r = q

\* CleanUp deletes the mutex of a key under a request (cache.go:91) only once an
\* entry has expired.
NothingDroppedWhileFresh == now <= CacheDuration => dropped = {}

\* cache_test.go:106, "concurrent calls with the different arguments are made in
\* parallel": a request waits only for a request with its own key.
BlockedOnlyBySameKey ==
  \A r \in Request :
    pc[r] = "locking" /\ Held(mutex[r]) =>
      \E q \in Request : Holds(q) /\ key[q] = key[r]

\* Requests for one key see the registry move forward only: an answer that is
\* older than one already returned for the key is never returned, whatever
\* LoadOrCall and CleanUp do meanwhile (cache.go:44-62), until the mutex of the key
\* is deleted from under a request.
Returned(r)  == pc[r] = "done" /\ result[r].how \in {"hit", "miss"}
ReadsNeverGoBack ==
  [][\A r, q \in Request :
       (/\ pc[r] # "done" /\ Returned(r)'
        /\ Returned(q) /\ key[q] = key[r] /\ key[r] \notin dropped)
       => result'[r].asOf >= result[q].asOf]_vars

\* However late the goroutines of finished requests get cleanupAccess, two
\* clean-ups are CleanUpPeriod apart and lastCleanup never moves back
\* (cache.go:76-85, 95).
CleanUpsSpaced ==
  [][lastCleanup' # lastCleanup => lastCleanup' >= lastCleanup + CleanUpPeriod]_vars

\* Every request is answered, after an error of the registry for a request ahead of
\* it as well (the deferred unlock of cache.go:50), and no clean-up goroutine is left
\* behind (the deferred unlock of cache.go:77).
EverythingEnds ==
  \A r \in Request : pc[r] = "locking" ~> pc[r] = "done" /\ cleaning[r] = "done"

\* Cache[T] is a read-through cache: the mutexes and the clean-ups of cache.go:44-95
\* show to a caller only as what ReadThroughCache allows, an early forgetting and a
\* parting of the requests for a key, and these only after an expiry.
Phase(r) ==
  CASE pc[r] = "new" -> "new"
    [] pc[r] \in {"locking", "locked"} -> "asked"
    [] pc[r] = "calling" -> "fetching"
    [] pc[r] = "storing" -> "fetched"
    [] OTHER -> "answered"
Promise ==
  INSTANCE ReadThroughCache WITH
    Duration <- CacheDuration, kept <- cache, parted <- dropped,
    state <- [r \in Request |-> Phase(r)], answer <- result
IsReadThroughCache == Promise!Spec

\* cache.go:48 as written.
SerializedPerKey ==
  \A r, q \in Request : pc[r] = "calling" /\ pc[q] = "calling" /\ key[r] = key[q] => r = q

=============================================================================
