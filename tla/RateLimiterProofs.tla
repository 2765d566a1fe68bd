--------------------------- MODULE RateLimiterProofs ---------------------------
(***************************************************************************)
(* The safety properties of RateLimiter, for any number of requests and    *)
(* keys and any limit.  The maps are tied to the requests (PoolInv), and   *)
(* the workers of a channel to those they serve (WorkerInv).               *)
(***************************************************************************)
EXTENDS RateLimiter, FiniteSetTheorems, SequenceTheorems, TLAPS

Active(r) == pc[r] \in {"sending", "waiting", "answered"}

\* A request that was counted has the channel its key has in the map, which is open
\* and no other key's.
PoolInv ==
  /\ \A r \in Request : Active(r) =>
       chan[r] # NoChan /\ chan[r] = requestsChans[key[r]]
  /\ \A k \in Key : inFlights[k] = Cardinality(Users(k))
  /\ \A k \in Key : requestsChans[k] \notin closed
  /\ \A k, l \in Key : requestsChans[k] # NoChan /\ requestsChans[k] = requestsChans[l] => k = l
  /\ NoSendOnClosedChannel

\* The workers of an open channel receive or serve.
WorkerInv ==
  \A c \in 1 .. Len(idle) : c \notin closed => idle[c] + Cardinality(Served(c)) = Limit

Inv == TypeOK /\ PoolInv /\ WorkerInv

-----------------------------------------------------------------------------
LEMMA LimitType == Limit \in Nat /\ Limit >= 1
BY LimitAssumption DEF Limit

\* Sets of requests are finite; adding or taking away one changes their size by one.
LEMMA RequestSets ==
  /\ \A k : IsFiniteSet(Users(k)) /\ Cardinality(Users(k)) \in Nat
  /\ \A c : IsFiniteSet(Served(c)) /\ Cardinality(Served(c)) \in Nat
<1>1. \A S \in SUBSET Request : IsFiniteSet(S) /\ Cardinality(S) \in Nat
  BY RequestsAssumption, FS_Subset, FS_CardinalityType
<1> QED
  BY <1>1 DEF Users, Served

LEMMA InitInv == Init => Inv
<1> SUFFICES ASSUME Init PROVE Inv
  OBVIOUS
<1>1. \A k : Users(k) = {}
  BY DEF Init, Users
<1>2. idle \in Seq(0 .. Limit) /\ Len(idle) = 0
  BY EmptySeq DEF Init
<1>3. TypeOK
  BY <1>2 DEF Init, TypeOK, NoChan
<1>4. PoolInv
  BY <1>1, FS_EmptySet DEF Init, PoolInv, NoChan, Active, NoSendOnClosedChannel
<1>5. WorkerInv
  BY <1>2 DEF WorkerInv
<1> QED
  BY <1>3, <1>4, <1>5 DEF Inv

-----------------------------------------------------------------------------
LEMMA GetRequestChanInv ==
  ASSUME Inv, NEW r \in Request, GetRequestChan(r)
  PROVE  Inv'
<1> USE DEF Inv
<1> DEFINE k == key[r]
<1>1. k \in Key /\ pc[r] = "new" /\ r \notin Users(k)
  BY DEF TypeOK, GetRequestChan, Users
<1>2. /\ Len(idle) \in Nat
      /\ \A c \in 1 .. Len(idle) : idle[c] \in 0 .. Limit
      /\ \A l \in Key : requestsChans[l] \in 0 .. Len(idle) /\ inFlights[l] \in Nat
  BY LenProperties, ElementOfSeq DEF TypeOK
<1>3. /\ pc' = [pc EXCEPT ![r] = "sending"] /\ key' = key /\ closed' = closed
      /\ inFlights' = [inFlights EXCEPT ![k] = @ + 1]
      /\ chan' = [chan EXCEPT ![r] = requestsChans'[k]]
  BY DEF GetRequestChan
<1>4. /\ Users(k)' = Users(k) \cup {r}
      /\ \A l : l # k => Users(l)' = Users(l)
      /\ \A c : Served(c)' = Served(c)
  BY <1>1, <1>3 DEF Users, Served, TypeOK
<1>5. \A l \in Key : inFlights'[l] = Cardinality(Users(l)')
  <2>1. Cardinality(Users(k)') = Cardinality(Users(k)) + 1
    BY <1>1, <1>4, FS_AddElement, RequestSets
  <2> QED
    BY <1>1, <1>3, <1>4, <2>1 DEF TypeOK, PoolInv
<1>6. CASE requestsChans[k] = NoChan
  <2>1. /\ idle' = Append(idle, Limit)
        /\ requestsChans' = [requestsChans EXCEPT ![k] = Len(idle')]
    BY <1>6 DEF GetRequestChan
  <2>2. /\ idle' \in Seq(0 .. Limit) /\ Len(idle') = Len(idle) + 1
        /\ idle'[Len(idle) + 1] = Limit
        /\ \A c \in 1 .. Len(idle) : idle'[c] = idle[c]
    BY <2>1, LimitType DEF TypeOK
  <2>3. requestsChans'[k] = Len(idle) + 1 /\ \A l \in Key : l # k => requestsChans'[l] = requestsChans[l]
    BY <1>1, <2>1, <2>2 DEF TypeOK
  <2>4. Users(k) = {}
    <3>1. \A q \in Users(k) : chan[q] # NoChan /\ chan[q] = NoChan
      BY <1>6 DEF Users, PoolInv, Active
    <3> QED
      BY <3>1
  <2>5. TypeOK'
    <3>1. \A l \in Key : requestsChans'[l] \in 0 .. Len(idle')
      BY <1>2, <2>2, <2>3
    <3>2. \A l \in Key : requestsChans'[l] = NoChan <=> inFlights'[l] = 0
      BY <1>1, <1>2, <1>3, <2>3 DEF TypeOK, NoChan
    <3>3. closed' \subseteq 1 .. Len(idle')
      BY <1>2, <1>3, <2>2 DEF TypeOK
    <3>4. chan' \in [Request -> 0 .. Len(idle')]
      BY <1>1, <1>2, <1>3, <2>2, <3>1 DEF TypeOK
    <3>5. requestsChans' \in [Key -> 0 .. Len(idle')]
      BY <2>1, <3>1 DEF TypeOK
    <3>6. inFlights' \in [Key -> Nat] /\ key' \in [Request -> Key]
      BY <1>1, <1>3 DEF TypeOK
    <3>7. pc' \in [Request -> {"new", "sending", "waiting", "answered", "returned", "panicked"}]
      BY <1>3 DEF TypeOK
    <3> QED
      BY <2>2, <3>2, <3>3, <3>4, <3>5, <3>6, <3>7 DEF TypeOK
  <2>6. PoolInv'
    <3>1. \A q \in Request : Active(q)' =>
            chan'[q] # NoChan /\ chan'[q] = requestsChans'[key'[q]]
      <4>1. \A q \in Request : q # r /\ Active(q) => key[q] # k
        BY <2>4 DEF Users, Active
      <4> QED
        BY <1>1, <1>2, <1>3, <2>3, <4>1 DEF PoolInv, Active, TypeOK, NoChan
    <3>2. \A l \in Key : requestsChans'[l] \notin closed'
      <4>1. closed \subseteq 1 .. Len(idle) /\ \A l \in Key : requestsChans[l] \notin closed
        BY DEF TypeOK, PoolInv
      <4>2. requestsChans'[k] \notin closed
        BY <1>2, <2>3, <4>1
      <4> QED
        BY <1>3, <2>3, <4>1, <4>2
    <3>3. \A l, m \in Key : requestsChans'[l] # NoChan /\ requestsChans'[l] = requestsChans'[m] => l = m
      BY <1>2, <2>3 DEF PoolInv
    <3>4. NoSendOnClosedChannel'
      BY <1>3 DEF PoolInv, NoSendOnClosedChannel, TypeOK
    <3> QED
      BY <1>5, <3>1, <3>2, <3>3, <3>4 DEF PoolInv
  <2>7. WorkerInv'
    <3>1. Served(Len(idle) + 1) = {}
      BY <1>2 DEF Served, TypeOK
    <3>2. Cardinality(Served(Len(idle) + 1)) = 0
      BY <3>1, FS_EmptySet
    <3> QED
      BY <1>2, <1>3, <1>4, <2>2, <3>2, LimitType DEF WorkerInv
  <2> QED
    BY <2>5, <2>6, <2>7
<1>7. CASE requestsChans[k] # NoChan
  <2>1. UNCHANGED <<idle, requestsChans>>
    BY <1>7 DEF GetRequestChan
  <2>2. TypeOK'
    <3>1. \A l \in Key : requestsChans'[l] = NoChan <=> inFlights'[l] = 0
      BY <1>1, <1>2, <1>3, <1>7, <2>1 DEF TypeOK
    <3>2. chan' \in [Request -> 0 .. Len(idle)]
      BY <1>1, <1>2, <1>3, <2>1 DEF TypeOK
    <3> QED
      BY <1>3, <2>1, <3>1, <3>2 DEF TypeOK
  <2>3. PoolInv'
    <3>1. \A q \in Request : Active(q)' =>
            chan'[q] # NoChan /\ chan'[q] = requestsChans'[key'[q]]
      BY <1>1, <1>3, <1>7, <2>1 DEF PoolInv, Active, TypeOK
    <3>2. NoSendOnClosedChannel'
      BY <1>3 DEF PoolInv, NoSendOnClosedChannel, TypeOK
    <3> QED
      BY <1>3, <1>5, <2>1, <3>1, <3>2 DEF PoolInv
  <2>4. WorkerInv'
    BY <1>3, <1>4, <2>1 DEF WorkerInv
  <2> QED
    BY <2>2, <2>3, <2>4
<1> QED
  BY <1>6, <1>7

\* What the invariant says of a request that was counted.
LEMMA ActiveRequest ==
  ASSUME Inv, NEW r \in Request, Active(r)
  PROVE  /\ key[r] \in Key /\ chan[r] = requestsChans[key[r]]
         /\ chan[r] # NoChan /\ chan[r] \in 1 .. Len(idle) /\ chan[r] \notin closed
         /\ idle[chan[r]] \in 0 .. Limit
         /\ idle[chan[r]] + Cardinality(Served(chan[r])) = Limit
<1>1. Len(idle) \in Nat /\ \A c \in 1 .. Len(idle) : idle[c] \in 0 .. Limit
  BY LenProperties, ElementOfSeq DEF Inv, TypeOK
<1>2. key[r] \in Key /\ chan[r] = requestsChans[key[r]] /\ chan[r] # NoChan
  BY DEF Inv, TypeOK, PoolInv
<1>3. chan[r] \in 1 .. Len(idle) /\ chan[r] \notin closed
  BY <1>1, <1>2 DEF Inv, TypeOK, PoolInv, NoChan
<1> QED
  BY <1>1, <1>2, <1>3 DEF Inv, WorkerInv

\* Steps of a counted request that stays one leave the maps alone.
LEMMA PoolInvKept ==
  ASSUME Inv, NEW r \in Request, Active(r), NEW p \in {"waiting", "answered"},
         pc' = [pc EXCEPT ![r] = p],
         UNCHANGED <<requestsChans, inFlights, closed, key, chan>>
  PROVE  PoolInv'
<1>1. \A q \in Request : Active(q)' <=> Active(q)
  BY DEF Active, Inv, TypeOK
<1>2. \A k : Users(k)' = Users(k)
  BY DEF Users, Active, Inv, TypeOK
<1>3. NoSendOnClosedChannel'
  BY DEF NoSendOnClosedChannel, Inv, TypeOK, PoolInv
<1> QED
  BY <1>1, <1>2, <1>3 DEF Inv, PoolInv

LEMMA SendInv ==
  ASSUME Inv, NEW r \in Request, Send(r)
  PROVE  Inv'
<1>0. PICK c : c = chan[r]
  OBVIOUS
<1>1. pc[r] = "sending" /\ Active(r) /\ r \notin Served(c)
  BY <1>0 DEF Send, Active, Served
<1>2. /\ c \in 1 .. Len(idle) /\ c \notin closed
      /\ idle[c] \in 0 .. Limit /\ idle[c] + Cardinality(Served(c)) = Limit
  BY <1>0, <1>1, ActiveRequest
<1>3. /\ idle[c] > 0
      /\ pc' = [pc EXCEPT ![r] = "waiting"]
      /\ idle' = [idle EXCEPT ![c] = @ - 1]
      /\ UNCHANGED <<requestsChans, inFlights, closed, key, chan>>
  BY <1>0, <1>2 DEF Send
<1>4. idle[c] - 1 \in 0 .. Limit
  BY <1>2, <1>3, LimitType
<1>5. /\ idle' \in Seq(0 .. Limit) /\ Len(idle') = Len(idle)
      /\ idle'[c] = idle[c] - 1
      /\ \A d \in 1 .. Len(idle) : d # c => idle'[d] = idle[d]
  BY <1>2, <1>3, <1>4, ExceptSeq DEF Inv, TypeOK
<1>6. /\ Served(c)' = Served(c) \cup {r}
      /\ \A d : d # c => Served(d)' = Served(d)
  BY <1>0, <1>1, <1>3 DEF Served, Inv, TypeOK
<1>7. Cardinality(Served(c)') = Cardinality(Served(c)) + 1
  BY <1>1, <1>6, RequestSets, FS_AddElement
<1>8. TypeOK'
  <2>1. pc' \in [Request -> {"new", "sending", "waiting", "answered", "returned", "panicked"}]
    BY <1>3 DEF Inv, TypeOK
  <2> QED
    BY <1>3, <1>5, <2>1 DEF Inv, TypeOK
<1>9. PoolInv'
  BY <1>1, <1>3, PoolInvKept
<1>10. WorkerInv'
  <2>1. idle'[c] + Cardinality(Served(c)') = Limit
    <3>1. Cardinality(Served(c)) \in Nat
      BY RequestSets
    <3> QED
      BY <1>2, <1>5, <1>7, <3>1, LimitType
  <2>2. ASSUME NEW d \in 1 .. Len(idle), d # c, d \notin closed
        PROVE  idle'[d] + Cardinality(Served(d)') = Limit
    BY <2>2, <1>5, <1>6 DEF Inv, WorkerInv
  <2> QED
    BY <1>3, <1>5, <2>1, <2>2 DEF WorkerInv
<1> QED
  BY <1>8, <1>9, <1>10 DEF Inv

LEMMA RespondInv ==
  ASSUME Inv, NEW r \in Request, Respond(r)
  PROVE  Inv'
<1>0. PICK c : c = chan[r]
  OBVIOUS
<1>1. pc[r] = "waiting" /\ Active(r) /\ r \in Served(c)
  BY <1>0 DEF Respond, Active, Served
<1>2. /\ c \in 1 .. Len(idle) /\ c \notin closed
      /\ idle[c] \in 0 .. Limit /\ idle[c] + Cardinality(Served(c)) = Limit
  BY <1>0, <1>1, ActiveRequest
<1>3. /\ pc' = [pc EXCEPT ![r] = "answered"]
      /\ idle' = [idle EXCEPT ![c] = @ + 1]
      /\ UNCHANGED <<requestsChans, inFlights, closed, key, chan>>
  BY <1>0 DEF Respond
<1>4. /\ Served(c)' = Served(c) \ {r}
      /\ \A d : d # c => Served(d)' = Served(d)
  BY <1>0, <1>1, <1>3 DEF Served, Inv, TypeOK
<1>5. /\ Cardinality(Served(c)') = Cardinality(Served(c)) - 1
      /\ Cardinality(Served(c)) \in Nat /\ Cardinality(Served(c)') \in Nat
  BY <1>1, <1>4, RequestSets, FS_RemoveElement, FS_CardinalityType
<1>6. idle[c] + 1 \in 0 .. Limit
  BY <1>2, <1>5, LimitType
<1>7. /\ idle' \in Seq(0 .. Limit) /\ Len(idle') = Len(idle)
      /\ idle'[c] = idle[c] + 1
      /\ \A d \in 1 .. Len(idle) : d # c => idle'[d] = idle[d]
  BY <1>2, <1>3, <1>6, ExceptSeq DEF Inv, TypeOK
<1>8. TypeOK'
  <2>1. pc' \in [Request -> {"new", "sending", "waiting", "answered", "returned", "panicked"}]
    BY <1>3 DEF Inv, TypeOK
  <2> QED
    BY <1>3, <1>7, <2>1 DEF Inv, TypeOK
<1>9. PoolInv'
  BY <1>1, <1>3, PoolInvKept
<1>10. WorkerInv'
  <2>1. idle'[c] + Cardinality(Served(c)') = Limit
    BY <1>2, <1>5, <1>7, LimitType
  <2>2. ASSUME NEW d \in 1 .. Len(idle), d # c, d \notin closed
        PROVE  idle'[d] + Cardinality(Served(d)') = Limit
    BY <2>2, <1>7, <1>4 DEF Inv, WorkerInv
  <2> QED
    BY <1>3, <1>7, <2>1, <2>2 DEF WorkerInv
<1> QED
  BY <1>8, <1>9, <1>10 DEF Inv

LEMMA DoneInv ==
  ASSUME Inv, NEW r \in Request, Done(r)
  PROVE  Inv'
<1>0. PICK k : k = key[r]
  OBVIOUS
<1> DEFINE c == requestsChans[k]
<1>1. pc[r] = "answered" /\ Active(r) /\ r \in Users(k)
  BY <1>0 DEF Done, Active, Users
<1>2. k \in Key /\ c # NoChan /\ c \in 1 .. Len(idle) /\ c \notin closed
  BY <1>0, <1>1, ActiveRequest
<1>3. /\ pc' = [pc EXCEPT ![r] = "returned"]
      /\ inFlights' = [inFlights EXCEPT ![k] = @ - 1]
      /\ UNCHANGED <<idle, key, chan>>
  BY <1>0, <1>2 DEF Done
<1>4. /\ Users(k)' = Users(k) \ {r}
      /\ \A l : l # k => Users(l)' = Users(l)
      /\ \A d : Served(d)' = Served(d)
  BY <1>0, <1>1, <1>3 DEF Users, Served, Inv, TypeOK
<1>5. \A l \in Key : inFlights'[l] = Cardinality(Users(l)') /\ inFlights'[l] \in Nat
  <2>1. /\ Cardinality(Users(k)') = Cardinality(Users(k)) - 1
        /\ Cardinality(Users(k)') \in Nat
    BY <1>1, <1>4, RequestSets, FS_RemoveElement, FS_CardinalityType
  <2>2. \A l \in Key : inFlights[l] = Cardinality(Users(l)) /\ inFlights[l] \in Nat
    BY DEF Inv, TypeOK, PoolInv
  <2>3. inFlights'[k] = inFlights[k] - 1 /\ \A l \in Key : l # k => inFlights'[l] = inFlights[l]
    BY <1>2, <1>3 DEF Inv, TypeOK
  <2> QED
    BY <1>2, <1>4, <2>1, <2>2, <2>3
<1>6. pc' \in [Request -> {"new", "sending", "waiting", "answered", "returned", "panicked"}]
  BY <1>3 DEF Inv, TypeOK
<1>7. inFlights' \in [Key -> Nat]
  BY <1>3, <1>5 DEF Inv, TypeOK
<1>8. NoSendOnClosedChannel'
  BY <1>3 DEF Inv, PoolInv, NoSendOnClosedChannel, TypeOK
<1>9. \A q \in Request : Active(q)' => Active(q) /\ (key[q] = k => q \in Users(k)')
  BY <1>0, <1>1, <1>3 DEF Active, Users, Inv, TypeOK
<1>10. CASE inFlights'[k] = 0
  <2>1. /\ closed' = closed \cup {c}
        /\ requestsChans' = [requestsChans EXCEPT ![k] = NoChan]
    BY <1>0, <1>2, <1>10 DEF Done
  <2>2. requestsChans'[k] = NoChan /\ \A l \in Key : l # k => requestsChans'[l] = requestsChans[l]
    BY <1>2, <2>1 DEF Inv, TypeOK
  <2>3. Users(k)' = {}
    <3>1. IsFiniteSet(Users(k)')
      BY <1>4, RequestSets, FS_RemoveElement
    <3> QED
      BY <1>2, <1>5, <1>10, <3>1, FS_EmptySet
  <2>4. TypeOK'
    <3>1. \A l \in Key : requestsChans'[l] = NoChan <=> inFlights'[l] = 0
      BY <1>2, <1>3, <1>10, <2>2 DEF Inv, TypeOK
    <3>2. requestsChans' \in [Key -> 0 .. Len(idle')]
      <4>1. Len(idle) \in Nat
        BY LenProperties DEF Inv, TypeOK
      <4>2. NoChan \in 0 .. Len(idle)
        BY <4>1 DEF NoChan
      <4> QED
        BY <1>3, <2>1, <4>2 DEF Inv, TypeOK
    <3>3. closed' \subseteq 1 .. Len(idle')
      BY <1>2, <1>3, <2>1 DEF Inv, TypeOK
    <3> QED
      BY <1>3, <1>6, <1>7, <3>1, <3>2, <3>3 DEF Inv, TypeOK
  <2>5. PoolInv'
    <3>1. \A q \in Request : Active(q)' =>
            chan'[q] # NoChan /\ chan'[q] = requestsChans'[key'[q]]
      <4>1. \A q \in Request : Active(q)' => key[q] # k /\ key[q] \in Key
        BY <1>9, <2>3 DEF Inv, TypeOK
      <4> QED
        BY <1>3, <1>9, <2>2, <4>1 DEF Inv, PoolInv
    <3>2. \A l \in Key : requestsChans'[l] \notin closed'
      <4>1. NoChan \notin closed'
        BY <1>2, <2>1 DEF Inv, TypeOK, NoChan
      <4>2. \A l \in Key : l # k => requestsChans[l] # c /\ requestsChans[l] \notin closed
        BY <1>2 DEF Inv, PoolInv
      <4> QED
        BY <2>1, <2>2, <4>1, <4>2
    <3>3. \A l, m \in Key : requestsChans'[l] # NoChan /\ requestsChans'[l] = requestsChans'[m] => l = m
      BY <2>2 DEF Inv, PoolInv
    <3> QED
      BY <1>5, <1>8, <3>1, <3>2, <3>3 DEF PoolInv
  <2>6. WorkerInv'
    BY <1>3, <1>4, <2>1 DEF Inv, WorkerInv
  <2> QED
    BY <2>4, <2>5, <2>6 DEF Inv
<1>11. CASE inFlights'[k] # 0
  <2>1. UNCHANGED <<closed, requestsChans>>
    BY <1>0, <1>11 DEF Done
  <2>2. TypeOK'
    <3>1. \A l \in Key : requestsChans'[l] = NoChan <=> inFlights'[l] = 0
      BY <1>2, <1>3, <1>11, <2>1 DEF Inv, TypeOK
    <3> QED
      BY <1>3, <1>6, <1>7, <2>1, <3>1 DEF Inv, TypeOK
  <2>3. PoolInv'
    <3>1. \A q \in Request : Active(q)' =>
            chan'[q] # NoChan /\ chan'[q] = requestsChans'[key'[q]]
      BY <1>3, <1>9, <2>1 DEF Inv, PoolInv
    <3> QED
      BY <1>5, <1>8, <2>1, <3>1 DEF Inv, PoolInv
  <2>4. WorkerInv'
    BY <1>3, <1>4, <2>1 DEF Inv, WorkerInv
  <2> QED
    BY <2>2, <2>3, <2>4 DEF Inv
<1> QED
  BY <1>10, <1>11

LEMMA WorkerEndsInv ==
  ASSUME Inv, NEW c \in DOMAIN idle, WorkerEnds(c)
  PROVE  Inv'
<1>1. /\ c \in closed /\ idle[c] > 0
      /\ idle' = [idle EXCEPT ![c] = @ - 1]
      /\ UNCHANGED <<requestsChans, inFlights, closed, pc, key, chan>>
  BY DEF WorkerEnds, requestVars
<1>2. c \in 1 .. Len(idle) /\ idle[c] \in 0 .. Limit
  BY <1>1, ElementOfSeq DEF Inv, TypeOK
<1>3. idle[c] - 1 \in 0 .. Limit
  BY <1>1, <1>2, LimitType
<1>4. /\ idle' \in Seq(0 .. Limit) /\ Len(idle') = Len(idle)
      /\ \A d \in 1 .. Len(idle) : d # c => idle'[d] = idle[d]
  BY <1>1, <1>2, <1>3, ExceptSeq DEF Inv, TypeOK
<1>5. \A S : Users(S)' = Users(S) /\ Served(S)' = Served(S)
  BY <1>1 DEF Users, Served
<1>6. TypeOK'
  BY <1>1, <1>4 DEF Inv, TypeOK
<1>7. PoolInv'
  BY <1>1, <1>5 DEF Inv, PoolInv, Active, NoSendOnClosedChannel
<1>8. WorkerInv'
  BY <1>1, <1>4, <1>5 DEF Inv, WorkerInv
<1> QED
  BY <1>6, <1>7, <1>8 DEF Inv

LEMMA NextInv == Inv /\ [Next]_vars => Inv'
<1> SUFFICES ASSUME Inv, [Next]_vars PROVE Inv'
  OBVIOUS
<1>1. ASSUME NEW r \in Request, GetRequestChan(r) PROVE Inv'
  BY <1>1, GetRequestChanInv
<1>2. ASSUME NEW r \in Request, Send(r) PROVE Inv'
  BY <1>2, SendInv
<1>3. ASSUME NEW r \in Request, Respond(r) PROVE Inv'
  BY <1>3, RespondInv
<1>4. ASSUME NEW r \in Request, Done(r) PROVE Inv'
  BY <1>4, DoneInv
<1>5. ASSUME NEW c \in DOMAIN idle, WorkerEnds(c) PROVE Inv'
  BY <1>5, WorkerEndsInv
<1>6. CASE UNCHANGED vars
  BY <1>6 DEF vars, poolVars, requestVars, Inv, TypeOK, PoolInv, WorkerInv, Active, Users,
              Served, NoSendOnClosedChannel
<1> QED
  BY <1>1, <1>2, <1>3, <1>4, <1>5, <1>6 DEF Next, RoundTrip

LEMMA AlwaysInv == Spec => []Inv
BY InitInv, NextInv, PTL DEF Spec

-----------------------------------------------------------------------------
\* The channel of a key is in both maps or in neither (rate_limiter.go:26-28), and no
\* channel has more than Limit workers receiving.
THEOREM TypeCorrect == Spec => []TypeOK
BY AlwaysInv, PTL DEF Inv

\* Between getRequestChan and its send a request holds no lock (rate_limiter.go:93);
\* the channel it was given is not closed before it has been answered.
THEOREM NoSendOnClosed == Spec => []NoSendOnClosedChannel
<1>1. Inv => NoSendOnClosedChannel
  BY DEF Inv, PoolInv
<1> QED
  BY <1>1, AlwaysInv, PTL

\* One key's calls of the transport are all made by the workers of its present channel,
\* of which there are ConcurrentCallsLimit (rate_limiter.go:61-68).
THEOREM LimitKept == Spec => []AtMostLimitInFlight
<1>1. ASSUME Inv, NEW k \in Key PROVE Cardinality(InFlight(k)) <= Limit
  <2>1. CASE InFlight(k) = {}
    BY <2>1, FS_EmptySet, LimitType
  <2>2. CASE InFlight(k) # {}
    <3>1. PICK r \in Request : pc[r] = "waiting" /\ key[r] = k
      BY <2>2 DEF InFlight
    <3>2. Active(r)
      BY <3>1 DEF Active
    <3>3. /\ chan[r] = requestsChans[k]
          /\ idle[chan[r]] \in 0 .. Limit
          /\ idle[chan[r]] + Cardinality(Served(chan[r])) = Limit
      BY <1>1, <3>1, <3>2, ActiveRequest
    <3>4. InFlight(k) \subseteq Served(chan[r])
      BY <1>1, <3>3 DEF InFlight, Served, Active, Inv, PoolInv
    <3>5. Cardinality(InFlight(k)) <= Cardinality(Served(chan[r])) /\ Cardinality(InFlight(k)) \in Nat
      BY <3>4, RequestSets, FS_Subset, FS_CardinalityType
    <3> QED
      BY <3>3, <3>5, RequestSets, LimitType
  <2> QED
    BY <2>1, <2>2
<1>2. Inv => AtMostLimitInFlight
  BY <1>1 DEF AtMostLimitInFlight
<1> QED
  BY <1>2, AlwaysInv, PTL

\* No worker is lost and no channel is shared by two keys (rate_limiter.go:51-82): with
\* no worker to receive from it, a channel has Limit requests of the same key in flight.
THEOREM QueuedBehindOwnKey == Spec => []QueuedOnlyBehindOwnKey
<1>1. ASSUME Inv, NEW r \in Request, pc[r] = "sending", idle[chan[r]] = 0
      PROVE  Cardinality(InFlight(key[r])) = Limit
  <2>1. Active(r)
    BY <1>1 DEF Active
  <2>2. /\ key[r] \in Key /\ chan[r] = requestsChans[key[r]] /\ chan[r] # NoChan
        /\ Cardinality(Served(chan[r])) = Limit
    BY <1>1, <2>1, ActiveRequest, RequestSets, LimitType
  <2>3. Served(chan[r]) = InFlight(key[r])
    <3>1. \A q \in Request : pc[q] = "waiting" =>
            key[q] \in Key /\ chan[q] # NoChan /\ chan[q] = requestsChans[key[q]]
      BY <1>1 DEF Active, Inv, TypeOK, PoolInv
    <3>2. \A q \in Request : pc[q] = "waiting" => (chan[q] = chan[r] <=> key[q] = key[r])
      BY <1>1, <2>2, <3>1 DEF Inv, PoolInv
    <3> QED
      BY <3>2 DEF Served, InFlight
  <2> QED
    BY <2>2, <2>3
<1>2. Inv => QueuedOnlyBehindOwnKey
  BY <1>1 DEF QueuedOnlyBehindOwnKey
<1> QED
  BY <1>2, AlwaysInv, PTL

=============================================================================
