------------------------------ MODULE RateLimiter ------------------------------
(***************************************************************************)
(* pkg/httputils/rate_limiter.go: RateLimitedRoundTripper.  Requests with  *)
(* the same key go through an unbuffered channel served by as many worker  *)
(* goroutines as may call the transport at once.  The channel and its      *)
(* workers are made by the first request that needs them; the last one to  *)
(* finish closes the channel, whereupon the workers end.                   *)
(*                                                                         *)
(* A request is a goroutine in RoundTrip.  Channels are numbered as they   *)
(* are made, since a key may get several, one after the other.             *)
(***************************************************************************)
EXTENDS Integers, Sequences, FiniteSets

CONSTANTS
  Request,               \* the calls of RoundTrip
  Key,                   \* what KeyFunc returns
  ConcurrentCallsLimit

ASSUME RequestsAssumption == IsFiniteSet(Request)
ASSUME LimitAssumption == ConcurrentCallsLimit \in Int

VARIABLES
  requestsChans,  \* key -> channel, or NoChan
  inFlights,      \* key -> users of that channel
  closed,         \* the channels that were closed
  idle,           \* of each channel ever made, the workers receiving from it
  pc,             \* where each request is
  key,            \* its key
  chan            \* the channel getRequestChan returned to it

poolVars    == <<requestsChans, inFlights, closed, idle>>
requestVars == <<pc, key, chan>>
vars == <<poolVars, requestVars>>

NoChan == 0

Limit == IF ConcurrentCallsLimit < 1 THEN 1 ELSE ConcurrentCallsLimit

-----------------------------------------------------------------------------
\* Mutant: only the request that makes the channel is counted.
GetRequestChanUncounted(r) ==
  LET k == key[r] IN
  /\ pc[r] = "new"
  /\ IF requestsChans[k] = NoChan
     THEN /\ idle' = Append(idle, Limit)
          /\ requestsChans' = [requestsChans EXCEPT ![k] = Len(idle')]
          /\ inFlights' = [inFlights EXCEPT ![k] = 1]
     ELSE UNCHANGED <<idle, requestsChans, inFlights>>
  /\ pc' = [pc EXCEPT ![r] = "sending"]
  /\ chan' = [chan EXCEPT ![r] = requestsChans'[k]]
  /\ UNCHANGED <<closed, key>>

\* getRequestChan, all of it under the mutex t.access.
GetRequestChan(r) ==
  LET k == key[r] IN
  /\ pc[r] = "new"
  /\ IF requestsChans[k] = NoChan
     THEN /\ idle' = Append(idle, Limit)
          /\ requestsChans' = [requestsChans EXCEPT ![k] = Len(idle')]
     ELSE UNCHANGED <<idle, requestsChans>>
  /\ inFlights' = [inFlights EXCEPT ![k] = @ + 1]
  /\ pc' = [pc EXCEPT ![r] = "sending"]
  /\ chan' = [chan EXCEPT ![r] = requestsChans'[k]]
  /\ UNCHANGED <<closed, key>>

\* The rendezvous of RoundTrip and a worker, which calls the transport.  Sending on
\* a closed channel panics.
Send(r) ==
  /\ pc[r] = "sending"
  /\ chan[r] \in closed \/ idle[chan[r]] > 0
  /\ IF chan[r] \in closed
     THEN /\ pc' = [pc EXCEPT ![r] = "panicked"]
          /\ UNCHANGED idle
     ELSE /\ pc' = [pc EXCEPT ![r] = "waiting"]
          /\ idle' = [idle EXCEPT ![chan[r]] = @ - 1]
  /\ UNCHANGED <<requestsChans, inFlights, closed, key, chan>>

\* Mutant: the worker serves one request and ends.
RespondOnce(r) ==
  /\ pc[r] = "waiting"
  /\ pc' = [pc EXCEPT ![r] = "answered"]
  /\ UNCHANGED <<poolVars, key, chan>>

\* The transport returns a response or an error; the worker releases the
\* request and receives the next one.
Respond(r) ==
  /\ pc[r] = "waiting"
  /\ pc' = [pc EXCEPT ![r] = "answered"]
  /\ idle' = [idle EXCEPT ![chan[r]] = @ + 1]
  /\ UNCHANGED <<requestsChans, inFlights, closed, key, chan>>

\* Mutants: the channel is forgotten without being closed; the count is not looked at.
DoneWithoutClose(r) ==
  LET k == key[r] IN
  /\ pc[r] = "answered"
  /\ pc' = [pc EXCEPT ![r] = "returned"]
  /\ inFlights' = [inFlights EXCEPT ![k] = @ - 1]
  /\ requestsChans' = [requestsChans EXCEPT ![k] = IF inFlights'[k] = 0 THEN NoChan ELSE @]
  /\ UNCHANGED <<closed, idle, key, chan>>
DoneForgetsEarly(r) ==
  LET k == key[r] IN
  /\ pc[r] = "answered"
  /\ pc' = [pc EXCEPT ![r] = "returned"]
  /\ inFlights' = [inFlights EXCEPT ![k] = @ - 1]
  /\ requestsChans' = [requestsChans EXCEPT ![k] = NoChan]
  /\ UNCHANGED <<closed, idle, key, chan>>

\* The deferred done(key), all of it under the mutex.
Done(r) ==
  LET k  == key[r]
      ok == requestsChans[k] # NoChan
  IN
  /\ pc[r] = "answered"
  /\ pc' = [pc EXCEPT ![r] = "returned"]
  /\ inFlights' = [inFlights EXCEPT ![k] = IF ok THEN @ - 1 ELSE @]
  /\ IF inFlights'[k] = 0
     THEN /\ closed' = IF ok THEN closed \cup {requestsChans[k]} ELSE closed
          /\ requestsChans' = [requestsChans EXCEPT ![k] = NoChan]
     ELSE UNCHANGED <<closed, requestsChans>>
  /\ UNCHANGED <<idle, key, chan>>

\* The range over a closed channel ends, and with it a worker.
WorkerEnds(c) ==
  /\ c \in closed /\ idle[c] > 0
  /\ idle' = [idle EXCEPT ![c] = @ - 1]
  /\ UNCHANGED <<requestsChans, inFlights, closed, requestVars>>

-----------------------------------------------------------------------------
Init ==
  /\ requestsChans = [k \in Key |-> NoChan]
  /\ inFlights = [k \in Key |-> 0]
  /\ closed = {}
  /\ idle = <<>>
  /\ pc = [r \in Request |-> "new"]
  /\ key \in [Request -> Key]
  /\ chan = [r \in Request |-> NoChan]

RoundTrip(r) == Send(r) \/ Respond(r) \/ Done(r)

Next ==
  \/ \E r \in Request : GetRequestChan(r) \/ RoundTrip(r)
  \/ \E c \in DOMAIN idle : WorkerEnds(c)

(***************************************************************************)
(* Goroutines keep running and the transport returns.  A worker is idle    *)
(* again after each of the finitely many requests ahead of one that waits  *)
(* to send, so weak fairness is enough for Send.  Nobody has to call.      *)
(***************************************************************************)
Fairness ==
  /\ \A r \in Request : WF_vars(RoundTrip(r))
  /\ WF_vars(\E c \in DOMAIN idle : WorkerEnds(c))

Spec     == Init /\ [][Next]_vars
FairSpec == Spec /\ Fairness

-----------------------------------------------------------------------------
(***************************************************************************)
(* Properties.                                                             *)
(***************************************************************************)
\* The requests of key k that were counted by getRequestChan and not yet by done.
Users(k)   == {r \in Request : pc[r] \in {"sending", "waiting", "answered"} /\ key[r] = k}
\* The requests a channel's workers are calling the transport for.
Served(c)  == {r \in Request : pc[r] = "waiting" /\ chan[r] = c}
InFlight(k) == {r \in Request : pc[r] = "waiting" /\ key[r] = k}

\* The two maps of the round tripper (rate_limiter.go:26-28), which have the same
\* keys, its goroutines and their workers.
TypeOK ==
  /\ idle \in Seq(0 .. Limit)
  /\ requestsChans \in [Key -> 0 .. Len(idle)]
  /\ inFlights \in [Key -> Nat]
  /\ \A k \in Key : requestsChans[k] = NoChan <=> inFlights[k] = 0
  /\ closed \subseteq 1 .. Len(idle)
  /\ pc \in [Request -> {"new", "sending", "waiting", "answered", "returned", "panicked"}]
  /\ key \in [Request -> Key]
  /\ chan \in [Request -> 0 .. Len(idle)]

\* Between getRequestChan and the send the request holds no lock
\* (rate_limiter.go:93), and another may finish and close the channel (:74): the
\* count taken under the mutex keeps the channel open until every request that was
\* given it has been answered.
NoSendOnClosedChannel == \A r \in Request : pc[r] # "panicked"

\* rate_limiter_test.go:128: never more calls of the transport for one key than
\* ConcurrentCallsLimit, also while the workers of a former channel of the key are
\* still about.
AtMostLimitInFlight == \A k \in Key : Cardinality(InFlight(k)) <= Limit

\* A request that cannot hand itself to a worker is behind Limit requests with the
\* very same key (rate_limiter_test.go:53, "does not serialize different
\* requests"): no worker is lost, and no other key's request is waited for.
QueuedOnlyBehindOwnKey ==
  \A r \in Request :
    pc[r] = "sending" /\ idle[chan[r]] = 0 => Cardinality(InFlight(key[r])) = Limit

\* Every request that gets a channel gets its answer (wg.Done in handleRequests,
\* rate_limiter.go:33), and no worker outlives the requests it was made for
\* (rate_limiter.go:71-79).
EverythingEnds ==
  <>[](/\ \A r \in Request : pc[r] \in {"new", "returned"}
       /\ \A c \in DOMAIN idle : idle[c] = 0)

=============================================================================
