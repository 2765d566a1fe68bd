------------------------- MODULE RegistryCacheProofs -------------------------
(***************************************************************************)
(* Every safety property of RegistryCache, for any number of requests and  *)
(* keys and any durations.  The invariants are stacked: each is inductive  *)
(* given the ones before it.                                               *)
(*                                                                         *)
(*   TypeInv     types, and where a value is the interesting one           *)
(*   MutexInv    which requests share a mutex: serialization per key       *)
(*   CleanInv    the clock of the clean-ups, and what they may delete      *)
(*   FreshInv    before the first expiry nothing is deleted, so a stored   *)
(*               answer is found by everyone who comes later               *)
(*   OrderInv    the cache is at least as recent as what was returned      *)
(***************************************************************************)
EXTENDS RegistryCache, TLAPS

-----------------------------------------------------------------------------
TypeInv ==
  /\ TypeOK
  /\ \A r \in Request : pc[r] # "new" => key[r] \in Key
  /\ \A r \in Request : pc[r] = "storing" => result[r].how = "miss" /\ result[r].asOf \in Times
  /\ \A r \in Request : pc[r] = "done" => result[r].how # "none"
  /\ cleaner.step # "range" => cleaner.key \in Key

MutexInv ==
  /\ \A k, l \in Key : serialize[k] # NoMutex /\ serialize[k] = serialize[l] => k = l
  /\ \A r \in Request : InUse(r) => mutex[r] # NoMutex
  /\ \A r \in Request : InUse(r) /\ key[r] \notin dropped => mutex[r] = serialize[key[r]]
  /\ \A r \in Request, k \in Key : InUse(r) /\ serialize[k] = mutex[r] => key[r] = k
  /\ \A r, q \in Request : InUse(r) /\ InUse(q) /\ mutex[r] = mutex[q] => key[r] = key[q]
  /\ \A r, q \in Request : Holds(r) /\ Holds(q) /\ mutex[r] = mutex[q] => r = q

CleanInv ==
  /\ \A r \in Request : at[r] <= now
  /\ \A r \in Request : cleaning[r] # "none" => pc[r] = "done"
  /\ \A r \in Request : cleaner.by = r =>
       cleaning[r] = "running" /\ at[r] >= lastCleanup + CleanUpPeriod
  /\ cleaner.step # "range" => now > CacheDuration
  /\ NothingDroppedWhileFresh

FreshInv ==
  now < CacheDuration =>
    /\ \A r \in Request : pc[r] \in {"calling", "storing"} => cache[key[r]] = NoEntry
    /\ \A r \in Request : result[r].how = "miss" =>
         \/ pc[r] = "storing"
         \/ pc[r] = "done" /\ cache[key[r]] # NoEntry
    /\ FetchedOnceWhileFresh

\* What was returned for k is not younger than t.
ReturnedBefore(k, t) ==
  \A q \in Request : Returned(q) /\ key[q] = k => result[q].asOf <= t

OrderInv ==
  /\ \A k \in Key : cache[k].asOf <= now
  /\ \A r \in Request : result[r].asOf <= now
  /\ \A k \in Key : k \notin dropped /\ cache[k] # NoEntry => ReturnedBefore(k, cache[k].asOf)
  /\ \A r \in Request : pc[r] = "storing" /\ key[r] \notin dropped =>
       ReturnedBefore(key[r], result[r].asOf)

-----------------------------------------------------------------------------
(***************************************************************************)
(* Types.                                                                  *)
(***************************************************************************)
LEMMA InitTypeInv == Init => TypeInv
BY TimesAssumption
   DEF Init, TypeInv, TypeOK, Times, Results, Entries, NoEntry, NoMutex, Nothing, Idle

\* What Return assigns is well typed.
LEMMA ReturnType ==
  ASSUME TypeInv, NEW r \in Request, NEW res \in Results, res.how # "none", Return(r, res)
  PROVE  /\ pc' \in [Request -> {"new", "locking", "locked", "calling", "storing", "done"}]
         /\ result' \in [Request -> Results]
         /\ cleaning' \in [Request -> {"none", "waiting", "running", "done"}]
         /\ at' \in [Request -> Times]
         /\ \A q \in Request : pc'[q] = "storing" =>
              result'[q].how = "miss" /\ result'[q].asOf \in Times
         /\ \A q \in Request : pc'[q] = "done" => result'[q].how # "none"
         /\ \A q \in Request : pc'[q] # "new" => pc[q] # "new" \/ q = r
BY DEF TypeInv, TypeOK, Return

LEMMA NextTypeInv == TypeInv /\ [Next]_vars => TypeInv'
<1> SUFFICES ASSUME TypeInv, [Next]_vars PROVE TypeInv'
  OBVIOUS
<1> USE DEF TypeInv, TypeOK
<1>1. ASSUME NEW r \in Request, NEW k \in Key, Call(r, k) PROVE TypeInv'
  BY <1>1 DEF Call, cleanVars, NoMutex
<1>2. ASSUME NEW r \in Request, Lock(r) PROVE TypeInv'
  BY <1>2 DEF Lock, cleanVars
<1>3. ASSUME NEW r \in Request, Hit(r) PROVE TypeInv'
  <2>1. cache[key[r]].asOf \in Times
    BY <1>3 DEF Hit, Fresh, Entries
  <2>2. [how |-> "hit", asOf |-> cache[key[r]].asOf] \in Results
    BY <2>1 DEF Results
  <2> QED
    BY <1>3, <2>2, ReturnType DEF Hit, Return
<1>4. ASSUME NEW r \in Request, Miss(r) PROVE TypeInv'
  BY <1>4 DEF Miss, cleanVars
<1>5. ASSUME NEW r \in Request, RegistryAnswers(r) PROVE TypeInv'
  <2>1. [how |-> "miss", asOf |-> now] \in Results
    BY DEF Results
  <2> QED
    BY <1>5, <2>1 DEF RegistryAnswers, cleanVars
<1>6. ASSUME NEW r \in Request, RegistryFails(r) PROVE TypeInv'
  <2>1. [how |-> "error", asOf |-> -1] \in Results
    BY DEF Results
  <2> QED
    BY <1>6, <2>1, ReturnType DEF RegistryFails, Return
<1>7. ASSUME NEW r \in Request, Store(r) PROVE TypeInv'
  <2>1. [asOf |-> result[r].asOf, expiry |-> now + CacheDuration] \in Entries
    BY <1>7, TimesAssumption DEF Store, Entries, Times
  <2>2. result[r] \in Results /\ result[r].how # "none"
    BY <1>7 DEF Store
  <2> QED
    BY <1>7, <2>1, <2>2, ReturnType DEF Store, Return
<1>8. ASSUME NEW r \in Request, SkipCleanUp(r) PROVE TypeInv'
  BY <1>8 DEF SkipCleanUp, requestVars
<1>9. ASSUME NEW r \in Request, StartCleanUp(r) PROVE TypeInv'
  BY <1>9 DEF StartCleanUp, requestVars, Idle
<1>10. ASSUME NEW r \in Request, NEW k \in Key, Visit(r, k) PROVE TypeInv'
  BY <1>10 DEF Visit, requestVars
<1>11. ASSUME NEW r \in Request, DeleteEntry(r) PROVE TypeInv'
  BY <1>11 DEF DeleteEntry, requestVars, Entries
<1>12. ASSUME NEW r \in Request, DeleteMutex(r) PROVE TypeInv'
  <2>1. cleaner' = [by |-> cleaner.by, seen |-> cleaner.seen, key |-> None, step |-> "range"]
    BY <1>12 DEF DeleteMutex
  <2> QED
    BY <1>12, <2>1 DEF DeleteMutex, requestVars, NoMutex
<1>13. ASSUME NEW r \in Request, EndCleanUp(r) PROVE TypeInv'
  BY <1>13 DEF EndCleanUp, requestVars, Idle
<1>14. ASSUME Tick PROVE TypeInv'
  BY <1>14, TimesAssumption DEF Tick, requestVars, cleanVars, Times
<1>15. ASSUME UNCHANGED vars PROVE TypeInv'
  BY <1>15 DEF vars, requestVars, cleanVars
<1> QED
  BY <1>1, <1>2, <1>3, <1>4, <1>5, <1>6, <1>7, <1>8, <1>9, <1>10, <1>11, <1>12,
     <1>13, <1>14, <1>15 DEF Next, Lookup, CleanUp

LEMMA TypeInvariant == Spec => []TypeInv
BY InitTypeInv, NextTypeInv, PTL DEF Spec

\* Nothing in cache.go puts a value of the wrong kind in the cache, its maps or
\* the clean-up's bookkeeping.
THEOREM TypeCorrect == Spec => []TypeOK
<1>1. TypeInv => TypeOK
  BY DEF TypeInv
<1> QED
  BY <1>1, TypeInvariant, PTL

-----------------------------------------------------------------------------
(***************************************************************************)
(* Mutexes.                                                                *)
(***************************************************************************)
LEMMA InitMutexInv == Init => MutexInv
BY DEF Init, MutexInv, InUse, Holds, NoMutex

\* Requests that only move on while they use their mutex, or leave it, keep
\* MutexInv: nobody new holds a mutex.
LEMMA MutexInvKept ==
  ASSUME TypeInv, MutexInv,
         UNCHANGED <<serialize, mutex, key, dropped>>,
         \A r \in Request : InUse(r)' => InUse(r),
         \A r \in Request : Holds(r)' => Holds(r)
  PROVE  MutexInv'
BY DEF MutexInv

LEMMA NextMutexInv == TypeInv /\ MutexInv /\ [Next]_vars => MutexInv'
<1> SUFFICES ASSUME TypeInv, MutexInv, [Next]_vars PROVE MutexInv'
  OBVIOUS
<1> USE DEF InUse, Holds
<1>1. ASSUME NEW r \in Request, NEW k \in Key, Call(r, k) PROVE MutexInv'
  <2>1. ~InUse(r) /\ (\A q \in Request : (Holds(q)' => Holds(q)) /\ (InUse(q)' => InUse(q) \/ q = r))
    BY <1>1 DEF Call, TypeInv, TypeOK
  <2>2. /\ key'[r] = k /\ mutex'[r] = serialize'[k]
        /\ \A q \in Request : q # r => key'[q] = key[q] /\ mutex'[q] = mutex[q]
        /\ dropped' = dropped
    BY <1>1 DEF Call, TypeInv, TypeOK
  <2>3. CASE serialize[k] = NoMutex
    <3>1. serialize'[k] = mutexes + 1 /\ \A l \in Key : l # k => serialize'[l] = serialize[l]
      BY <1>1, <2>3 DEF Call, TypeInv, TypeOK
    <3>2. /\ \A l \in Key : serialize[l] \in 0 .. mutexes
          /\ \A q \in Request : mutex[q] \in 0 .. mutexes
          /\ mutexes \in Nat
      BY DEF TypeInv, TypeOK
    <3>3. \A q \in Request : InUse(q) => key[q] \in Key
      BY DEF TypeInv
    <3> QED
      BY <2>1, <2>2, <2>3, <3>1, <3>2, <3>3 DEF MutexInv, NoMutex
  <2>4. CASE serialize[k] # NoMutex
    <3>1. serialize' = serialize
      BY <1>1, <2>4 DEF Call
    <3> QED
      BY <2>1, <2>2, <2>4, <3>1 DEF MutexInv
  <2> QED
    BY <2>3, <2>4
<1>2. ASSUME NEW r \in Request, Lock(r) PROVE MutexInv'
  <2>1. /\ InUse(r) /\ \A q \in Request : Holds(q) => mutex[q] # mutex[r]
        /\ \A q \in Request : (Holds(q)' => Holds(q) \/ q = r) /\ (InUse(q)' => InUse(q))
    BY <1>2 DEF Lock, Held, TypeInv, TypeOK
  <2> QED
    BY <1>2, <2>1 DEF Lock, MutexInv
<1>3. ASSUME NEW r \in Request, Hit(r) PROVE MutexInv'
  BY <1>3, MutexInvKept DEF Hit, Return, TypeInv, TypeOK
<1>4. ASSUME NEW r \in Request, Miss(r) PROVE MutexInv'
  BY <1>4, MutexInvKept DEF Miss, TypeInv, TypeOK
<1>5. ASSUME NEW r \in Request, RegistryAnswers(r) PROVE MutexInv'
  BY <1>5, MutexInvKept DEF RegistryAnswers, TypeInv, TypeOK
<1>6. ASSUME NEW r \in Request, RegistryFails(r) PROVE MutexInv'
  BY <1>6, MutexInvKept DEF RegistryFails, Return, TypeInv, TypeOK
<1>7. ASSUME NEW r \in Request, Store(r) PROVE MutexInv'
  BY <1>7, MutexInvKept DEF Store, Return, TypeInv, TypeOK
<1>8. ASSUME NEW r \in Request, DeleteMutex(r) PROVE MutexInv'
  <2> DEFINE c == cleaner.key
  <2>1. c \in Key
    BY <1>8 DEF DeleteMutex, TypeInv
  <2>2. serialize'[c] = NoMutex /\ \A l \in Key : l # c => serialize'[l] = serialize[l]
    BY <1>8, <2>1 DEF DeleteMutex, TypeInv, TypeOK
  <2>3. \A q \in Request :
          /\ key'[q] = key[q] /\ mutex'[q] = mutex[q]
          /\ InUse(q)' <=> InUse(q)
          /\ Holds(q)' <=> Holds(q)
          /\ InUse(q) => key[q] \in Key
    BY <1>8 DEF DeleteMutex, requestVars, TypeInv
  <2>4. \A k \in Key : k \notin dropped' =>
          k \notin dropped /\ (k = c => ~ \E q \in Request : InUse(q) /\ mutex[q] = serialize[c])
    BY <1>8 DEF DeleteMutex
  <2> QED
    BY <2>1, <2>2, <2>3, <2>4 DEF MutexInv
<1>9. CASE UNCHANGED <<requestVars, serialize, dropped>>
  BY <1>9 DEF MutexInv, requestVars
<1> QED
  BY <1>1, <1>2, <1>3, <1>4, <1>5, <1>6, <1>7, <1>8, <1>9
     DEF Next, Lookup, CleanUp, SkipCleanUp, StartCleanUp, Visit, DeleteEntry, EndCleanUp,
         Tick, vars

LEMMA MutexInvariant == Spec => []MutexInv
BY InitMutexInv, TypeInvariant, NextMutexInv, PTL DEF Spec

LEMMA SingleFlightLemma == TypeInv /\ MutexInv => SingleFlight
BY DEF MutexInv, SingleFlight, InUse

\* cache.go:48: requests for a key are serialized for as long as CleanUp has not
\* deleted the mutex of the key from under one of them, whatever the number of
\* requests, keys and clean-ups.
THEOREM SerializedUnlessDropped == Spec => []SingleFlight
BY TypeInvariant, MutexInvariant, SingleFlightLemma, PTL

\* cache_test.go:106: the mutex a request waits for is held for its own key, so
\* that a slow registry call never blocks the requests for another image.
THEOREM KeysAreIndependent == Spec => []BlockedOnlyBySameKey
<1>1. MutexInv => BlockedOnlyBySameKey
  BY DEF MutexInv, BlockedOnlyBySameKey, Held, InUse
<1> QED
  BY <1>1, MutexInvariant, PTL

-----------------------------------------------------------------------------
(***************************************************************************)
(* Clean-ups.                                                              *)
(***************************************************************************)
LEMMA InitCleanInv == Init => CleanInv
BY NoneAssumption, TimesAssumption DEF Init, CleanInv, NothingDroppedWhileFresh, Idle

\* A request that returns is not the one that cleans up.
LEMMA ReturnClean ==
  ASSUME TypeInv, CleanInv, NEW r \in Request, NEW res, pc[r] # "done", Return(r, res),
         UNCHANGED <<now, dropped>>
  PROVE  CleanInv'
BY DEF TypeInv, TypeOK, CleanInv, Return, NothingDroppedWhileFresh, Times

LEMMA NextCleanInv == TypeInv /\ CleanInv /\ [Next]_vars => CleanInv'
<1> SUFFICES ASSUME TypeInv, CleanInv, [Next]_vars PROVE CleanInv'
  OBVIOUS
<1> USE DEF CleanInv, NothingDroppedWhileFresh
<1>1. ASSUME UNCHANGED <<now, dropped, cleanVars>>,
             \A q \in Request : pc[q] = "done" => pc'[q] = "done"
      PROVE  CleanInv'
  BY <1>1 DEF cleanVars
<1>2. ASSUME NEW r \in Request, NEW k \in Key, Call(r, k) PROVE CleanInv'
  BY <1>1, <1>2 DEF Call, TypeInv, TypeOK
<1>3. ASSUME NEW r \in Request, Lock(r) \/ Miss(r) \/ RegistryAnswers(r) PROVE CleanInv'
  BY <1>1, <1>3 DEF Lock, Miss, RegistryAnswers, TypeInv, TypeOK
<1>4. ASSUME NEW r \in Request, Hit(r) \/ RegistryFails(r) \/ Store(r) PROVE CleanInv'
  BY <1>4, ReturnClean DEF Hit, RegistryFails, Store
<1>5. ASSUME NEW r \in Request, SkipCleanUp(r) PROVE CleanInv'
  BY <1>5, NoneAssumption DEF SkipCleanUp, requestVars, Idle, TypeInv, TypeOK
<1>6. ASSUME NEW r \in Request, StartCleanUp(r) PROVE CleanInv'
  <2>1. at[r] \in Int /\ lastCleanup + CleanUpPeriod \in Int
    BY TimesAssumption DEF TypeInv, TypeOK, Times
  <2>2. cleaner' = [by |-> r, seen |-> {}, key |-> None, step |-> "range"]
    BY <1>6 DEF StartCleanUp, Idle
  <2> QED
    BY <1>6, <2>1, <2>2 DEF StartCleanUp, TooSoon, requestVars, TypeInv, TypeOK
<1>7. ASSUME NEW r \in Request, NEW k \in Key, Visit(r, k) PROVE CleanInv'
  <2>1. Expired(r, k) => now > CacheDuration
    <3>1. cache[k] # NoEntry => cache[k].expiry \in CacheDuration .. MaxTime + CacheDuration
      BY DEF TypeInv, TypeOK, Entries
    <3> QED
      BY <3>1, TimesAssumption DEF Expired, TypeInv, TypeOK, Times
  <2>2. cleaner'.by = cleaner.by /\ (cleaner'.step # "range" => Expired(r, k))
    BY <1>7 DEF Visit, TypeInv, TypeOK
  <2> QED
    BY <1>7, <2>1, <2>2 DEF Visit, requestVars
<1>8. ASSUME NEW r \in Request, DeleteEntry(r) PROVE CleanInv'
  <2>1. cleaner'.by = cleaner.by
    BY <1>8 DEF DeleteEntry, TypeInv, TypeOK
  <2> QED
    BY <1>8, <2>1 DEF DeleteEntry, requestVars
<1>9. ASSUME NEW r \in Request, DeleteMutex(r) PROVE CleanInv'
  <2>1. cleaner' = [by |-> cleaner.by, seen |-> cleaner.seen, key |-> None, step |-> "range"]
    BY <1>9 DEF DeleteMutex, TypeInv, TypeOK
  <2>2. ~(now <= CacheDuration)
    BY <1>9, TimesAssumption DEF DeleteMutex, TypeInv, TypeOK, Times
  <2> QED
    BY <1>9, <2>1, <2>2 DEF DeleteMutex, requestVars
<1>10. ASSUME NEW r \in Request, EndCleanUp(r) PROVE CleanInv'
  BY <1>10, NoneAssumption DEF EndCleanUp, requestVars, Idle, TypeInv, TypeOK
<1>11. ASSUME Tick PROVE CleanInv'
  BY <1>11, TimesAssumption DEF Tick, requestVars, cleanVars, TypeInv, TypeOK, Times
<1>12. ASSUME UNCHANGED vars PROVE CleanInv'
  BY <1>12 DEF vars, requestVars, cleanVars
<1> QED
  BY <1>2, <1>3, <1>4, <1>5, <1>6, <1>7, <1>8, <1>9, <1>10, <1>11, <1>12
     DEF Next, Lookup, CleanUp

LEMMA CleanInvariant == Spec => []CleanInv
BY InitCleanInv, TypeInvariant, NextCleanInv, PTL DEF Spec

\* cache.go:88-91: the mutex of a key is not deleted before an entry has expired,
\* so that up to then serialization per key is unconditional.
THEOREM DroppedOnlyAfterExpiry == Spec => []NothingDroppedWhileFresh
<1>1. CleanInv => NothingDroppedWhileFresh
  BY DEF CleanInv
<1> QED
  BY <1>1, CleanInvariant, PTL

\* cache.go:83-95: two clean-ups are CleanUpPeriod apart, in whatever order the
\* goroutines of finished requests come by cleanupAccess.
THEOREM CleanUpsAreSpaced == Spec => CleanUpsSpaced
<1>1. TypeInv /\ CleanInv /\ [Next]_vars =>
        (lastCleanup' # lastCleanup => lastCleanup' >= lastCleanup + CleanUpPeriod)
  <2> SUFFICES ASSUME TypeInv, CleanInv, [Next]_vars, lastCleanup' # lastCleanup
               PROVE  lastCleanup' >= lastCleanup + CleanUpPeriod
    OBVIOUS
  <2>1. PICK r \in Request : EndCleanUp(r)
    BY DEF Next, Lookup, CleanUp, vars, cleanVars, Call, Lock, Hit, Miss, RegistryAnswers,
           RegistryFails, Store, Return, SkipCleanUp, StartCleanUp, Visit, DeleteEntry,
           DeleteMutex, Tick
  <2> QED
    BY <2>1 DEF EndCleanUp, CleanInv
<1> QED
  BY <1>1, TypeInvariant, CleanInvariant, PTL DEF Spec, CleanUpsSpaced

-----------------------------------------------------------------------------
(***************************************************************************)
(* Before the first entry expires.                                         *)
(***************************************************************************)
LEMMA InitFreshInv == Init => FreshInv
BY DEF Init, FreshInv, FetchedOnceWhileFresh, Nothing

\* The request that is past the mutex of its key is alone there.
LEMMA Alone ==
  ASSUME TypeInv, MutexInv, NEW r \in Request, NEW q \in Request,
         Holds(r), Holds(q), key[r] = key[q], key[r] \notin dropped
  PROVE  r = q
BY SingleFlightLemma DEF SingleFlight

LEMMA NextFreshInv ==
  TypeInv /\ MutexInv /\ CleanInv /\ FreshInv /\ [Next]_vars => FreshInv'
<1> SUFFICES ASSUME TypeInv, MutexInv, CleanInv, FreshInv, [Next]_vars, now' < CacheDuration
             PROVE  FreshInv'
  BY DEF FreshInv
<1>1. /\ now < CacheDuration /\ now <= CacheDuration
      /\ dropped = {} /\ cleaner.step = "range"
  <2>1. now' = now \/ now' = now + 1
    <3>1. CASE Tick
      BY <3>1 DEF Tick
    <3>2. CASE UNCHANGED now
      BY <3>2
    <3> QED
      BY <3>1, <3>2
         DEF Next, Lookup, CleanUp, vars, Call, Lock, Hit, Miss, RegistryAnswers,
             RegistryFails, Store, SkipCleanUp, StartCleanUp, Visit, DeleteEntry,
             DeleteMutex, EndCleanUp
  <2>2. now \in Int /\ now' \in Int /\ CacheDuration \in Int
    BY NextTypeInv, TimesAssumption DEF TypeInv, TypeOK, Times
  <2>3. now < CacheDuration /\ now <= CacheDuration /\ ~(now > CacheDuration)
    BY <2>1, <2>2
  <2> QED
    BY <2>3 DEF CleanInv, NothingDroppedWhileFresh
<1> USE DEF FreshInv, FetchedOnceWhileFresh
<1>2. ASSUME NEW r \in Request, NEW k \in Key, Call(r, k) PROVE FreshInv'
  <2>1. result[r].how # "miss"
    BY <1>1, <1>2 DEF Call
  <2> QED
    BY <1>1, <1>2, <2>1 DEF Call, TypeInv, TypeOK
<1>3. ASSUME NEW r \in Request, Lock(r) PROVE FreshInv'
  BY <1>1, <1>3 DEF Lock, TypeInv, TypeOK
<1>4. ASSUME NEW r \in Request, Hit(r) PROVE FreshInv'
  <2>1. result'[r].how = "hit" /\ \A q \in Request \ {r} : result'[q] = result[q] /\ pc'[q] = pc[q]
    BY <1>4 DEF Hit, Return, TypeInv, TypeOK
  <2>2. pc'[r] = "done" /\ UNCHANGED <<now, cache, key>>
    BY <1>4 DEF Hit, Return, TypeInv, TypeOK
  <2> QED
    BY <1>1, <2>1, <2>2
<1>5. ASSUME NEW r \in Request, Miss(r) PROVE FreshInv'
  <2>1. cache[key[r]] = NoEntry
    <3>1. key[r] \in Key /\ cache[key[r]] \in Entries
      BY <1>5 DEF Miss, TypeInv, TypeOK
    <3> QED
      BY <1>1, <1>5, <3>1, TimesAssumption DEF Miss, Fresh, Entries, TypeInv, TypeOK, Times
  <2> QED
    BY <1>1, <1>5, <2>1 DEF Miss, TypeInv, TypeOK
<1>6. ASSUME NEW r \in Request, RegistryAnswers(r) PROVE FreshInv'
  <2>1. pc[r] = "calling" /\ cache[key[r]] = NoEntry
    BY <1>1, <1>6 DEF RegistryAnswers
  <2>2. ASSUME NEW q \in Request, result[q].how = "miss", key[q] = key[r] PROVE FALSE
    <3>1. pc[q] = "storing"
      BY <1>1, <2>1, <2>2
    <3>2. q = r
      BY <1>1, <2>1, <2>2, <3>1, Alone DEF Holds
    <3> QED
      BY <2>1, <3>1, <3>2
  <2>3. /\ pc' = [pc EXCEPT ![r] = "storing"]
        /\ \A q \in Request \ {r} : result'[q] = result[q]
        /\ UNCHANGED <<now, cache, key>>
    BY <1>6 DEF RegistryAnswers, TypeInv, TypeOK
  <2> QED
    BY <1>1, <2>1, <2>2, <2>3 DEF TypeInv, TypeOK
<1>7. ASSUME NEW r \in Request, RegistryFails(r) PROVE FreshInv'
  <2>1. result'[r].how = "error" /\ \A q \in Request \ {r} : result'[q] = result[q] /\ pc'[q] = pc[q]
    BY <1>7 DEF RegistryFails, Return, TypeInv, TypeOK
  <2>2. pc'[r] = "done" /\ UNCHANGED <<now, cache, key>>
    BY <1>7 DEF RegistryFails, Return, TypeInv, TypeOK
  <2> QED
    BY <1>1, <2>1, <2>2
<1>8. ASSUME NEW r \in Request, Store(r) PROVE FreshInv'
  <2>1. pc[r] = "storing" /\ key[r] \in Key
    BY <1>8 DEF Store, TypeInv
  <2>2. cache'[key[r]] # NoEntry /\ \A k \in Key \ {key[r]} : cache'[k] = cache[k]
    BY <1>8, <2>1 DEF Store, TypeInv, TypeOK, NoEntry, Times
  <2>3. \A q \in Request \ {r} : pc[q] \in {"calling", "storing"} => key[q] # key[r]
    BY <1>1, <2>1, Alone DEF Holds
  <2>4. /\ pc' = [pc EXCEPT ![r] = "done"]
        /\ \A q \in Request : result'[q] = result[q]
        /\ UNCHANGED <<now, key>>
    BY <1>8 DEF Store, Return, TypeInv, TypeOK
  <2>5. \A q \in Request : pc[q] # "new" => key[q] \in Key
    BY DEF TypeInv
  <2> QED
    BY <1>1, <2>1, <2>2, <2>3, <2>4, <2>5 DEF TypeInv, TypeOK
<1>9. CASE UNCHANGED <<cache, requestVars>>
  BY <1>1, <1>9 DEF requestVars
<1> QED
  BY <1>1, <1>2, <1>3, <1>4, <1>5, <1>6, <1>7, <1>8, <1>9
     DEF Next, Lookup, CleanUp, SkipCleanUp, StartCleanUp, Visit, DeleteEntry, DeleteMutex,
         EndCleanUp, Tick, vars

LEMMA FreshInvariant == Spec => []FreshInv
BY InitFreshInv, TypeInvariant, MutexInvariant, CleanInvariant, NextFreshInv, PTL DEF Spec

\* cache_test.go:73: until the first entry can expire the registry answers for a
\* key once, however many requests are made and whatever CleanUp does.
THEOREM FetchedOnce == Spec => []FetchedOnceWhileFresh
<1>1. FreshInv => FetchedOnceWhileFresh
  BY DEF FreshInv, FetchedOnceWhileFresh
<1> QED
  BY <1>1, FreshInvariant, PTL

-----------------------------------------------------------------------------
(***************************************************************************)
(* Order.                                                                  *)
(***************************************************************************)
LEMMA InitOrderInv == Init => OrderInv
BY DEF Init, OrderInv, ReturnedBefore, Returned, NoEntry, Nothing

\* What the cache and the requests hold are times, or the -1 of nothing.
LEMMA AsOfTypes ==
  ASSUME TypeInv
  PROVE  /\ now \in Int
         /\ \A k \in Key : cache[k].asOf \in Int
         /\ \A r \in Request : result[r].asOf \in Int
         /\ \A r \in Request : pc[r] # "new" => key[r] \in Key
BY TimesAssumption DEF TypeInv, TypeOK, Times, Results, Entries, NoEntry

LEMMA NextOrderInv == TypeInv /\ MutexInv /\ OrderInv /\ [Next]_vars => OrderInv'
<1> SUFFICES ASSUME TypeInv, MutexInv, OrderInv, [Next]_vars PROVE OrderInv'
  OBVIOUS
<1> USE AsOfTypes DEF OrderInv, ReturnedBefore, Returned
<1>1. ASSUME UNCHANGED <<now, cache, result, dropped>>,
             \A q \in Request : (pc[q] = "done" <=> pc'[q] = "done") /\ (pc'[q] # "new" => pc'[q] # "storing" \/ pc[q] = "storing"),
             \A q \in Request : pc[q] # "new" => key'[q] = key[q]
      PROVE  OrderInv'
  BY <1>1
<1>2. ASSUME NEW r \in Request, NEW k \in Key, Call(r, k) PROVE OrderInv'
  BY <1>1, <1>2 DEF Call, TypeInv, TypeOK
<1>3. ASSUME NEW r \in Request, Lock(r) \/ Miss(r) PROVE OrderInv'
  BY <1>1, <1>3 DEF Lock, Miss, TypeInv, TypeOK
<1>4. ASSUME NEW r \in Request, Hit(r) PROVE OrderInv'
  <2>1. /\ pc[r] = "locked" /\ cache[key[r]] # NoEntry /\ key[r] \in Key
        /\ pc' = [pc EXCEPT ![r] = "done"]
        /\ result'[r] = [how |-> "hit", asOf |-> cache[key[r]].asOf]
        /\ \A q \in Request \ {r} : result'[q] = result[q]
        /\ UNCHANGED <<now, cache, key, dropped>>
    BY <1>4 DEF Hit, Fresh, Return, TypeInv, TypeOK
  <2>2. ASSUME NEW q \in Request, pc[q] = "storing", key[q] = key[r], key[r] \notin dropped
        PROVE  FALSE
    BY <2>1, <2>2, Alone DEF Holds
  <2> QED
    BY <2>1, <2>2 DEF TypeInv, TypeOK
<1>5. ASSUME NEW r \in Request, RegistryAnswers(r) PROVE OrderInv'
  <2>1. /\ pc[r] = "calling"
        /\ pc' = [pc EXCEPT ![r] = "storing"]
        /\ result'[r] = [how |-> "miss", asOf |-> now]
        /\ \A q \in Request \ {r} : result'[q] = result[q]
        /\ UNCHANGED <<now, cache, key, dropped>>
    BY <1>5 DEF RegistryAnswers, TypeInv, TypeOK
  <2> QED
    BY <2>1 DEF TypeInv, TypeOK
<1>6. ASSUME NEW r \in Request, RegistryFails(r) PROVE OrderInv'
  <2>1. /\ pc[r] = "calling"
        /\ pc' = [pc EXCEPT ![r] = "done"]
        /\ result'[r] = [how |-> "error", asOf |-> -1]
        /\ \A q \in Request \ {r} : result'[q] = result[q]
        /\ UNCHANGED <<now, cache, key, dropped>>
    BY <1>6 DEF RegistryFails, Return, TypeInv, TypeOK
  <2>2. -1 <= now
    BY TimesAssumption DEF TypeInv, TypeOK, Times
  <2> QED
    BY <2>1, <2>2 DEF TypeInv, TypeOK
<1>7. ASSUME NEW r \in Request, Store(r) PROVE OrderInv'
  <2>1. /\ pc[r] = "storing" /\ key[r] \in Key
        /\ pc' = [pc EXCEPT ![r] = "done"]
        /\ result' = result
        /\ cache'[key[r]].asOf = result[r].asOf
        /\ \A k \in Key \ {key[r]} : cache'[k] = cache[k]
        /\ UNCHANGED <<now, key, dropped>>
    BY <1>7 DEF Store, Return, TypeInv, TypeOK
  <2>2. \A k \in Key : cache'[k].asOf <= now'
    BY <2>1
  <2>3. ASSUME NEW k \in Key, k \notin dropped, cache'[k] # NoEntry
        PROVE  ReturnedBefore(k, cache[k].asOf)'
    BY <2>1, <2>3 DEF TypeInv, TypeOK
  <2>4. ASSUME NEW q \in Request, pc'[q] = "storing", key[q] \notin dropped
        PROVE  ReturnedBefore(key[q], result[q].asOf)'
    <3>1. q # r /\ pc[q] = "storing" /\ key[q] # key[r]
      BY <2>1, <2>4, Alone DEF Holds, TypeInv, TypeOK
    <3> QED
      BY <2>1, <2>4, <3>1 DEF TypeInv, TypeOK
  <2> QED
    BY <2>1, <2>2, <2>3, <2>4
<1>8. ASSUME NEW r \in Request, DeleteEntry(r) PROVE OrderInv'
  <2>1. /\ \A k \in Key : cache'[k] = cache[k] \/ cache'[k] = NoEntry
        /\ UNCHANGED <<now, pc, key, result, dropped>>
    BY <1>8 DEF DeleteEntry, requestVars, TypeInv, TypeOK
  <2>2. NoEntry.asOf <= now
    BY TimesAssumption DEF NoEntry, TypeInv, TypeOK, Times
  <2> QED
    BY <2>1, <2>2
<1>9. ASSUME NEW r \in Request, DeleteMutex(r) PROVE OrderInv'
  <2>1. dropped \subseteq dropped' /\ UNCHANGED <<now, cache, pc, key, result>>
    BY <1>9 DEF DeleteMutex, requestVars
  <2> QED
    BY <2>1
<1>10. ASSUME Tick PROVE OrderInv'
  <2>1. now' = now + 1 /\ UNCHANGED <<cache, pc, key, result, dropped>>
    BY <1>10 DEF Tick, requestVars
  <2> QED
    BY <2>1
<1>11. CASE UNCHANGED <<now, cache, requestVars, dropped>>
  BY <1>11 DEF requestVars
<1> QED
  BY <1>2, <1>3, <1>4, <1>5, <1>6, <1>7, <1>8, <1>9, <1>10, <1>11
     DEF Next, Lookup, CleanUp, SkipCleanUp, StartCleanUp, Visit, EndCleanUp, vars

LEMMA OrderInvariant == Spec => []OrderInv
BY InitOrderInv, TypeInvariant, MutexInvariant, NextOrderInv, PTL DEF Spec

\* cache.go:44-62: for a key the mutex of which was not deleted in use, an answer
\* older than one already returned is never returned.  A hit is as recent as the
\* cache, and a miss asked the registry when every earlier answer had been given.
THEOREM AnswersMoveForward == Spec => ReadsNeverGoBack
<1> DEFINE Forward ==
      \A r, q \in Request :
        (/\ pc[r] # "done" /\ Returned(r)'
         /\ Returned(q) /\ key[q] = key[r] /\ key[r] \notin dropped)
        => result'[r].asOf >= result[q].asOf
<1>1. TypeInv /\ MutexInv /\ OrderInv /\ [Next]_vars => Forward
  <2> SUFFICES ASSUME TypeInv, MutexInv, OrderInv, [Next]_vars,
                      NEW r \in Request, NEW q \in Request,
                      pc[r] # "done", Returned(r)',
                      Returned(q), key[q] = key[r], key[r] \notin dropped
               PROVE  result'[r].asOf >= result[q].asOf
    OBVIOUS
  <2> USE AsOfTypes
  <2>1. CASE Hit(r)
    <3>1. key[r] \in Key /\ cache[key[r]] # NoEntry /\ result'[r].asOf = cache[key[r]].asOf
      BY <2>1 DEF Hit, Fresh, Return, TypeInv, TypeOK
    <3> QED
      BY <3>1 DEF OrderInv, ReturnedBefore
  <2>2. CASE Store(r)
    <3>1. pc[r] = "storing" /\ result'[r] = result[r]
      BY <2>2 DEF Store, Return, TypeInv, TypeOK
    <3> QED
      BY <3>1 DEF OrderInv, ReturnedBefore
  <2>3. CASE RegistryFails(r)
    <3>1. result'[r].how = "error"
      BY <2>3 DEF RegistryFails, Return, TypeInv, TypeOK
    <3> QED
      BY <3>1 DEF Returned
  <2>4. CASE pc'[r] # "done"
    BY <2>4 DEF Returned
  <2> QED
    BY <2>1, <2>2, <2>3, <2>4
       DEF Next, Lookup, CleanUp, vars, requestVars, Call, Lock, Hit, Miss, RegistryAnswers,
           RegistryFails, Store, Return, SkipCleanUp, StartCleanUp, Visit, DeleteEntry,
           DeleteMutex, EndCleanUp, Tick, TypeInv, TypeOK
<1> QED
  BY <1>1, TypeInvariant, MutexInvariant, OrderInvariant, PTL DEF Spec, ReadsNeverGoBack

-----------------------------------------------------------------------------
(***************************************************************************)
(* What callers see: every step is one of ReadThroughCache, or none.       *)
(***************************************************************************)
LEMMA InitRefines == Init => Promise!Init
BY DEF Init, Promise!Init, Phase, NoEntry, Promise!NoEntry, Nothing

\* The request that holds the mutex of its key is the one whose turn it is.
LEMMA TurnOfHolder ==
  ASSUME TypeInv, MutexInv, NEW r \in Request, pc[r] = "locked"
  PROVE  Promise!Turn(r)
BY Alone DEF Promise!Turn, Promise!Asking, Phase, Holds

\* A request that moves on is the only one whose phase changes.
LEMMA PhaseStep ==
  ASSUME TypeInv, NEW r \in Request, NEW p, pc' = [pc EXCEPT ![r] = p]
  PROVE  [q \in Request |-> Phase(q)]' =
           [[q \in Request |-> Phase(q)] EXCEPT ![r] = Phase(r)']
BY DEF Phase, TypeInv, TypeOK

LEMMA StepRefines ==
  TypeInv /\ MutexInv /\ CleanInv /\ [Next]_vars => [Promise!Next]_(Promise!vars)
<1> SUFFICES ASSUME TypeInv, MutexInv, CleanInv, [Next]_vars
             PROVE  Promise!Next \/ UNCHANGED Promise!vars
  BY DEF Promise!vars
<1> USE DEF Phase
<1>1. ASSUME NEW r \in Request, NEW k \in Key, Call(r, k) PROVE Promise!Ask(r, k)
  BY <1>1, PhaseStep DEF Call, Promise!Ask, TypeInv, TypeOK
<1>2. ASSUME NEW r \in Request, Lock(r) PROVE UNCHANGED Promise!vars
  BY <1>2, PhaseStep DEF Lock, Promise!vars, TypeInv, TypeOK
<1>3. ASSUME NEW r \in Request, Hit(r) PROVE Promise!AnswerFromKept(r)
  BY <1>3, PhaseStep, TurnOfHolder
     DEF Hit, Fresh, Return, Promise!AnswerFromKept, Promise!Kept, NoEntry, Promise!NoEntry,
         TypeInv, TypeOK
<1>4. ASSUME NEW r \in Request, Miss(r) PROVE Promise!Fetch(r)
  BY <1>4, PhaseStep, TurnOfHolder
     DEF Miss, Fresh, Promise!Fetch, Promise!Kept, NoEntry, Promise!NoEntry, TypeInv, TypeOK
<1>5. ASSUME NEW r \in Request, RegistryAnswers(r) PROVE Promise!Fetched(r)
  BY <1>5, PhaseStep DEF RegistryAnswers, Promise!Fetched, TypeInv, TypeOK
<1>6. ASSUME NEW r \in Request, RegistryFails(r) PROVE Promise!AnswerError(r)
  BY <1>6, PhaseStep DEF RegistryFails, Return, Promise!AnswerError, TypeInv, TypeOK
<1>7. ASSUME NEW r \in Request, Store(r) PROVE Promise!KeepAndAnswer(r)
  <2>1. result' = result
    BY <1>7 DEF Store, Return, TypeInv, TypeOK
  <2> QED
    BY <1>7, <2>1, PhaseStep DEF Store, Return, Promise!KeepAndAnswer, TypeInv, TypeOK
<1>8. ASSUME NEW r \in Request, DeleteEntry(r) PROVE Promise!Forget(cleaner.key)
  BY <1>8
     DEF DeleteEntry, Promise!Forget, requestVars, NoEntry, Promise!NoEntry, CleanInv, TypeInv
<1>9. ASSUME NEW r \in Request, DeleteMutex(r)
      PROVE  Promise!Part(cleaner.key) \/ UNCHANGED Promise!vars
  <2>1. UNCHANGED <<now, cache, [q \in Request |-> Phase(q)], key, result>>
    BY <1>9 DEF DeleteMutex, requestVars
  <2>2. cleaner.key \in Key /\ now > CacheDuration
    BY <1>9 DEF DeleteMutex, TypeInv, CleanInv
  <2>3. CASE \E q \in Request : InUse(q) /\ mutex[q] = serialize[cleaner.key]
    <3>1. PICK q \in Request : InUse(q) /\ mutex[q] = serialize[cleaner.key]
      BY <2>3
    <3>2. key[q] = cleaner.key
      BY <2>2, <3>1 DEF MutexInv
    <3>3. Phase(q) \in {"asked", "fetching", "fetched"}
      BY <3>1 DEF InUse, Holds
    <3>4. dropped' = dropped \cup {cleaner.key}
      BY <1>9, <2>3 DEF DeleteMutex
    <3> QED
      BY <2>1, <2>2, <3>2, <3>3, <3>4 DEF Promise!Part
  <2>4. CASE ~ \E q \in Request : InUse(q) /\ mutex[q] = serialize[cleaner.key]
    BY <1>9, <2>1, <2>4 DEF DeleteMutex, Promise!vars
  <2> QED
    BY <2>3, <2>4
<1>10. ASSUME Tick PROVE Promise!Tick
  BY <1>10 DEF Tick, Promise!Tick, requestVars
<1>11. CASE UNCHANGED <<now, cache, requestVars, dropped>>
  BY <1>11 DEF requestVars, Promise!vars
<1>12. \A r \in Request : DeleteEntry(r) \/ DeleteMutex(r) => cleaner.key \in Key
  BY DEF DeleteEntry, DeleteMutex, TypeInv
<1> QED
  BY <1>1, <1>2, <1>3, <1>4, <1>5, <1>6, <1>7, <1>8, <1>9, <1>10, <1>11, <1>12
     DEF Next, Lookup, CleanUp, SkipCleanUp, StartCleanUp, Visit, EndCleanUp, vars,
         Promise!Next

\* cache.go:44-95: with its mutexes and its clean-ups, which run when they get to it,
\* the cache answers as a read-through cache does.
THEOREM ImplementsReadThroughCache == Spec => IsReadThroughCache
<1>1. Init => Promise!Init
  BY InitRefines
<1> QED
  BY <1>1, StepRefines, TypeInvariant, MutexInvariant, CleanInvariant, PTL
     DEF Spec, IsReadThroughCache, Promise!Spec

=============================================================================
