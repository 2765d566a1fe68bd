--------------------------- MODULE ReadThroughCache ---------------------------
(***************************************************************************)
(* What CachedRegistry promises its callers (pkg/registry/cache.go), with  *)
(* no mutex and no clean-up goroutine in it: a request is answered from    *)
(* what is kept for its key, or else by the registry, whose answer is kept *)
(* for Duration; while somebody asks the registry about a key the others   *)
(* wait.  Once something has been kept for longer than Duration, anything  *)
(* kept may be forgotten, and the requests for a key may be parted: those  *)
(* that come later no longer wait for those under way.                     *)
(***************************************************************************)
EXTENDS Integers

CONSTANTS Request, Key, Duration, MaxTime, None

VARIABLES
  now,
  kept,      \* key -> the answer kept for it and until when, or NoEntry
  parted,    \* the keys the requests for which were parted
  state,     \* "new", "asked", "fetching", "fetched", "answered"
  key,       \* what a request is about
  answer     \* what it got: how, and the time of the registry's answer

vars == <<now, kept, parted, state, key, answer>>

NoEntry == [asOf |-> -1, expiry |-> -1]

Asking(r) == state[r] \in {"fetching", "fetched"}

\* Nobody else is asking the registry about r's key, or its requests were parted.
Turn(r) == \A q \in Request : q # r /\ Asking(q) /\ key[q] = key[r] => key[r] \in parted

Kept(k) == kept[k] # NoEntry /\ now < kept[k].expiry

-----------------------------------------------------------------------------
Ask(r, k) ==
  /\ state[r] = "new"
  /\ state' = [state EXCEPT ![r] = "asked"]
  /\ key' = [key EXCEPT ![r] = k]
  /\ UNCHANGED <<now, kept, parted, answer>>

AnswerFromKept(r) ==
  /\ state[r] = "asked" /\ Turn(r) /\ Kept(key[r])
  /\ state' = [state EXCEPT ![r] = "answered"]
  /\ answer' = [answer EXCEPT ![r] = [how |-> "hit", asOf |-> kept[key[r]].asOf]]
  /\ UNCHANGED <<now, kept, parted, key>>

Fetch(r) ==
  /\ state[r] = "asked" /\ Turn(r) /\ ~Kept(key[r])
  /\ state' = [state EXCEPT ![r] = "fetching"]
  /\ UNCHANGED <<now, kept, parted, key, answer>>

Fetched(r) ==
  /\ state[r] = "fetching"
  /\ state' = [state EXCEPT ![r] = "fetched"]
  /\ answer' = [answer EXCEPT ![r] = [how |-> "miss", asOf |-> now]]
  /\ UNCHANGED <<now, kept, parted, key>>

AnswerError(r) ==
  /\ state[r] = "fetching"
  /\ state' = [state EXCEPT ![r] = "answered"]
  /\ answer' = [answer EXCEPT ![r] = [how |-> "error", asOf |-> -1]]
  /\ UNCHANGED <<now, kept, parted, key>>

KeepAndAnswer(r) ==
  /\ state[r] = "fetched"
  /\ state' = [state EXCEPT ![r] = "answered"]
  /\ kept' = [kept EXCEPT ![key[r]] = [asOf |-> answer[r].asOf, expiry |-> now + Duration]]
  /\ UNCHANGED <<now, parted, key, answer>>

Forget(k) ==
  /\ now > Duration
  /\ kept' = [kept EXCEPT ![k] = NoEntry]
  /\ UNCHANGED <<now, parted, state, key, answer>>

Part(k) ==
  /\ now > Duration
  /\ \E r \in Request : key[r] = k /\ state[r] \in {"asked", "fetching", "fetched"}
  /\ parted' = parted \cup {k}
  /\ UNCHANGED <<now, kept, state, key, answer>>

Tick ==
  /\ now < MaxTime
  /\ now' = now + 1
  /\ UNCHANGED <<kept, parted, state, key, answer>>

-----------------------------------------------------------------------------
Init ==
  /\ now = 0
  /\ kept = [k \in Key |-> NoEntry]
  /\ parted = {}
  /\ state = [r \in Request |-> "new"]
  /\ key = [r \in Request |-> None]
  /\ answer = [r \in Request |-> [how |-> "none", asOf |-> -1]]

Next ==
  \/ \E r \in Request :
       \/ \E k \in Key : Ask(r, k)
       \/ AnswerFromKept(r) \/ Fetch(r) \/ Fetched(r) \/ AnswerError(r) \/ KeepAndAnswer(r)
  \/ \E k \in Key : Forget(k) \/ Part(k)
  \/ Tick

Spec == Init /\ [][Next]_vars
=============================================================================
