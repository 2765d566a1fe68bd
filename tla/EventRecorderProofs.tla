------------------------- MODULE EventRecorderProofs -------------------------
(***************************************************************************)
(* What EventRecorder says of any number of threads, replicas and reports: *)
(* the version that the API server compares is enough, although informers  *)
(* lag, events expire and nothing is retried.  A copy of an event, in an   *)
(* informer or in the hands of a thread, is never newer than its version,  *)
(* and one of the version that is stored is what is stored.                *)
(***************************************************************************)
EXTENDS EventRecorder, SequenceTheorems, TLAPS

\* The two parts of TypeOK: what is stored or copied, and where the threads are.
StoreTypes ==
  /\ version \in [Event -> Nat]
  /\ events \in [Event -> Record \cup {None}]
  /\ \A e \in Event : events[e] # None => events[e].version = version[e] /\ Valid(e)
  /\ view \in [Replica -> [Event -> Record \cup {None}]]
  /\ recorded \in [Event -> Seq(Pod)]

ThreadTypes ==
  /\ pc \in [Thread -> {"get", "write", "stopped"}]
  /\ read \in [Thread -> Record \cup {None}]
  /\ done \in [Thread -> Nat] /\ target \in [Thread -> {1, 2}]
  /\ \A t \in Thread : /\ done[t] <= Len(Upserts[t])
                       /\ done[t] < Len(Upserts[t]) => target[t] \in DOMAIN Targets(Report(t))

\* x was stored under e at some time, and is what is stored now if the versions agree.
Copy(x, e) ==
  x # None =>
    /\ x \in Record /\ x.version <= version[e]
    /\ events[e] # None /\ events[e].version = x.version => x = events[e]

CopyInv ==
  /\ \A p \in Replica : \A e \in Event : Copy(view[p][e], e)
  /\ \A t \in Thread : Busy(t) => Copy(read[t], Current(t))

\* The history of an event begins when it is created and ends when it expires.
HistoryInv == \A e \in Event : events[e] = None <=> recorded[e] = <<>>

Inv == StoreTypes /\ ThreadTypes /\ CopyInv /\ HistoryInv /\ NothingRecordedIsLost

-----------------------------------------------------------------------------
LEMMA Types == TypeOK <=> StoreTypes /\ ThreadTypes
BY DEF TypeOK, StoreTypes, ThreadTypes

\* A report has one event or two.
LEMMA TargetsOf ==
  ASSUME NEW report
  PROVE  /\ Len(Targets(report)) \in {1, 2}
         /\ DOMAIN Targets(report) = 1 .. Len(Targets(report))
<1> DEFINE Of(object) == [object |-> object, kind |-> report.kind]
<1>1. Targets(report) = <<Of(report.name)>> \/ Targets(report) = <<Of(report.name), Of(report.owner)>>
  BY DEF Targets
<1> HIDE DEF Of
<1> QED
  BY <1>1

\* What a thread is at: a report of its list, and one of that report's events.
LEMMA AtReport ==
  ASSUME ThreadTypes, NEW t \in Thread, Busy(t)
  PROVE  /\ done[t] \in Nat /\ Len(Upserts[t]) \in Nat /\ done[t] + 1 <= Len(Upserts[t])
         /\ Report(t) \in Reports /\ Report(t).pod \in Pod
         /\ target[t] \in 1 .. Len(Targets(Report(t)))
         /\ Current(t) \in Event
<1>1. done[t] \in Nat /\ done[t] < Len(Upserts[t]) /\ Upserts[t] \in Seq(Reports)
  BY UpsertsAssumption DEF ThreadTypes, Busy
<1>2. done[t] + 1 \in DOMAIN Upserts[t]
  BY <1>1
<1>3. Report(t) \in Reports
  BY <1>1, <1>2 DEF Report
<1>4. target[t] \in DOMAIN Targets(Report(t))
  BY <1>1 DEF ThreadTypes
<1>5. Current(t) \in TargetSet(Report(t))
  BY <1>4 DEF Current, TargetSet
<1>6. Current(t) \in Event
  BY <1>3, <1>5 DEF Event
<1> QED
  BY <1>1, <1>3, <1>4, <1>6, TargetsOf DEF Pod

LEMMA InitInv == Init => Inv
<1> SUFFICES ASSUME Init PROVE Inv
  OBVIOUS
<1>1. StoreTypes
  BY DEF Init, StoreTypes
<1>2. ThreadTypes
  <2>1. \A t \in Thread : Len(Upserts[t]) \in Nat
    BY UpsertsAssumption
  <2>2. \A t \in Thread : target[t] \in DOMAIN Targets(Report(t))
    BY TargetsOf DEF Init
  <2> QED
    BY <2>1, <2>2 DEF Init, ThreadTypes
<1>3. CopyInv
  <2>1. \A p \in Replica : \A e \in Event : view[p][e] = None
    BY DEF Init
  <2> QED
    BY <2>1 DEF Init, CopyInv, Copy
<1> QED
  BY <1>1, <1>2, <1>3 DEF Inv, Init, HistoryInv, NothingRecordedIsLost

-----------------------------------------------------------------------------
\* Leaving an event: one more of the report, or one more report; the other threads are
\* where they were.
LEMMA LeaveTypes ==
  ASSUME ThreadTypes, NEW t \in Thread, Busy(t), Leave(t)
  PROVE  /\ ThreadTypes'
         /\ read'[t] = None
         /\ \A u \in Thread \ {t} : (Busy(u))' => Busy(u) /\ Current(u)' = Current(u) /\ read'[u] = read[u]
<1> DEFINE n == Len(Upserts[t])
<1>1. /\ done[t] \in Nat /\ n \in Nat /\ done[t] + 1 <= n
      /\ target[t] \in 1 .. Len(Targets(Report(t)))
  BY AtReport
<1>2. \A u \in Thread \ {t} : /\ done'[u] = done[u] /\ target'[u] = target[u]
                              /\ pc'[u] = pc[u] /\ read'[u] = read[u]
  BY DEF Leave, ThreadTypes
<1>3. \A u \in Thread \ {t} : Report(u)' = Report(u)
  BY <1>2 DEF Report
<1>4. /\ pc' \in [Thread -> {"get", "write", "stopped"}]
      /\ read' \in [Thread -> Record \cup {None}] /\ read'[t] = None
  BY DEF Leave, ThreadTypes
<1>5. /\ done' \in [Thread -> Nat] /\ target' \in [Thread -> {1, 2}]
      /\ done'[t] <= n
      /\ done'[t] < n => target'[t] \in DOMAIN (Targets(Report(t))')
  <2>1. CASE target[t] < Len(Targets(Report(t)))
    <3>1. done' = done /\ target' = [target EXCEPT ![t] = @ + 1]
      BY <2>1, <1>1, TargetsOf DEF Leave
    <3>2. Report(t)' = Report(t)
      BY <3>1 DEF Report
    <3>3. target'[t] \in DOMAIN Targets(Report(t)) /\ target[t] = 1
      <4> DEFINE many == Len(Targets(Report(t)))
      <4>1. many \in {1, 2} /\ DOMAIN Targets(Report(t)) = 1 .. many
        BY TargetsOf
      <4>2. target'[t] = target[t] + 1 /\ target[t] \in 1 .. many /\ target[t] < many
        BY <2>1, <3>1, <1>1 DEF ThreadTypes
      <4> HIDE DEF many
      <4> QED
        BY <4>1, <4>2
    <3> QED
      BY <3>1, <3>2, <3>3, <1>1 DEF ThreadTypes
  <2>2. CASE target[t] = Len(Targets(Report(t)))
    <3>1. done' = [done EXCEPT ![t] = @ + 1] /\ target' = [target EXCEPT ![t] = 1]
      BY <2>2, <1>1, TargetsOf DEF Leave
    <3>2. 1 \in DOMAIN (Targets(Report(t))')
      BY TargetsOf
    <3> QED
      BY <3>1, <3>2, <1>1 DEF ThreadTypes
  <2> QED
    BY <2>1, <2>2 DEF Leave
<1>6. ThreadTypes'
  BY <1>2, <1>3, <1>4, <1>5 DEF ThreadTypes
<1> QED
  BY <1>2, <1>3, <1>4, <1>6 DEF Busy, Current

-----------------------------------------------------------------------------
\* A copy remains one for as long as its event and the version of it do.
LEMMA CopiesStay ==
  ASSUME UNCHANGED <<events, version>>, NEW x, NEW e \in Event, Copy(x, e)
  PROVE  Copy(x, e)'
BY DEF Copy

LEMMA GetInv == ASSUME Inv, NEW t \in Thread, Get(t) PROVE Inv'
<1> USE DEF Inv
<1>1. Busy(t) /\ Current(t) \in Event /\ Home[t] \in Replica
  BY AtReport DEF Get, Replica
<1>2. Copy(view[Home[t]][Current(t)], Current(t)) /\ view[Home[t]][Current(t)] \in Record \cup {None}
  BY <1>1 DEF CopyInv, StoreTypes
<1>3. /\ UNCHANGED <<events, version, view, done, target, recorded>>
      /\ pc' = [pc EXCEPT ![t] = "write"]
      /\ read' = [read EXCEPT ![t] = view[Home[t]][Current(t)]]
  BY DEF Get
<1>4. StoreTypes'
  BY <1>3 DEF StoreTypes
<1>5. \A u \in Thread : Report(u)' = Report(u) /\ Current(u)' = Current(u)
  BY <1>3 DEF Report, Current
<1>6. ThreadTypes'
  BY <1>2, <1>3, <1>5 DEF ThreadTypes
<1>7. \A p \in Replica : \A e \in Event : Copy(view[p][e], e)'
  BY <1>3, CopiesStay DEF CopyInv
<1>8. ASSUME NEW u \in Thread, Busy(u)' PROVE Copy(read[u], Current(u))'
  <2>1. Busy(u) /\ Current(u) \in Event
    BY <1>1, <1>3, <1>8, AtReport DEF Busy, ThreadTypes
  <2>2. Copy(read'[u], Current(u))
    BY <1>2, <1>3, <2>1 DEF CopyInv, ThreadTypes
  <2> QED
    BY <1>3, <1>5, <2>1, <2>2 DEF Copy
<1> QED
  BY <1>3, <1>4, <1>6, <1>7, <1>8 DEF CopyInv, HistoryInv, NothingRecordedIsLost

LEMMA WriteFailsInv == ASSUME Inv, NEW t \in Thread, WriteFails(t) PROVE Inv'
<1> USE DEF Inv
<1>1. /\ UNCHANGED <<events, version, view, recorded>>
      /\ Busy(t) /\ Leave(t)
  BY DEF WriteFails
<1>2. StoreTypes'
  BY <1>1 DEF StoreTypes
<1>3. ThreadTypes'
  BY <1>1, LeaveTypes
<1>4. \A p \in Replica : \A e \in Event : Copy(view[p][e], e)'
  BY <1>1, CopiesStay DEF CopyInv
<1>5. ASSUME NEW u \in Thread, Busy(u)' PROVE Copy(read[u], Current(u))'
  <2>1. CASE u = t
    BY <2>1, <1>1, LeaveTypes DEF Copy
  <2>2. CASE u # t
    <3>1. Busy(u) /\ Current(u)' = Current(u) /\ read'[u] = read[u]
      BY <2>2, <1>1, <1>5, LeaveTypes
    <3> QED
      BY <3>1, <1>1 DEF Copy, CopyInv
  <2> QED
    BY <2>1, <2>2
<1> QED
  BY <1>1, <1>2, <1>3, <1>4, <1>5 DEF CopyInv, HistoryInv, NothingRecordedIsLost

-----------------------------------------------------------------------------
\* What a write that is taken adds to is the event and its history as they are: the copy
\* it was made from has the version that is stored, or there is no event and no history.
LEMMA Written ==
  ASSUME Inv, NEW t \in Thread, Busy(t), Taken(t)
  PROVE  /\ Valid(Current(t))
         /\ read[t] = events[Current(t)]
         /\ Message(t) \in Seq(Pod) /\ Count(t) \in Nat
         /\ Count(t) = Len(Append(recorded[Current(t)], Report(t).pod))
         /\ Message(t) = IF Current(t).kind = "deletion"
                          THEN Append(recorded[Current(t)], Report(t).pod) ELSE <<Report(t).pod>>
<1> USE DEF Inv
<1>1. Current(t) \in Event /\ Report(t).pod \in Pod
  BY AtReport
<1>2. recorded[Current(t)] \in Seq(Pod)
  BY <1>1 DEF StoreTypes
<1>3. CASE read[t] = None
  <2>1. events[Current(t)] = None /\ Valid(Current(t)) /\ recorded[Current(t)] = <<>>
    BY <1>1, <1>3 DEF Taken, HistoryInv
  <2>2. Message(t) = <<Report(t).pod>> /\ Count(t) = 1
    BY <1>3 DEF Message, Count
  <2>3. Append(<<>>, Report(t).pod) = <<Report(t).pod>> /\ Len(<<Report(t).pod>>) = 1
    OBVIOUS
  <2> QED
    BY <1>1, <1>3, <2>1, <2>2, <2>3
<1>4. CASE read[t] # None
  <2>1. events[Current(t)] # None /\ events[Current(t)].version = read[t].version
    BY <1>4 DEF Taken
  <2>2. read[t] = events[Current(t)]
    BY <1>4, <2>1 DEF CopyInv, Copy
  <2>3. Valid(Current(t)) /\ events[Current(t)] \in Record
    BY <1>1, <2>1 DEF StoreTypes
  <2>4. /\ read[t].count = Len(recorded[Current(t)])
        /\ Current(t).kind = "deletion" => read[t].message = recorded[Current(t)]
    BY <1>1, <2>1, <2>2 DEF NothingRecordedIsLost
  <2>5. /\ Append(recorded[Current(t)], Report(t).pod) \in Seq(Pod)
        /\ Len(Append(recorded[Current(t)], Report(t).pod)) = Len(recorded[Current(t)]) + 1
        /\ Len(recorded[Current(t)]) \in Nat
    BY <1>1, <1>2
  <2>6. Count(t) = Len(recorded[Current(t)]) + 1
    BY <1>4, <2>4 DEF Count
  <2>7. Message(t) = IF Current(t).kind = "deletion"
                     THEN Append(recorded[Current(t)], Report(t).pod) ELSE <<Report(t).pod>>
    BY <1>4, <2>4 DEF Message
  <2> QED
    BY <1>1, <2>2, <2>3, <2>5, <2>6, <2>7
<1> QED
  BY <1>3, <1>4

LEMMA WriteInv == ASSUME Inv, NEW t \in Thread, Write(t) PROVE Inv'
<1> USE DEF Inv
<1> DEFINE e == Current(t)
           history == Append(recorded[e], Report(t).pod)
           stored == [message |-> Message(t), count |-> Count(t), version |-> version[e] + 1]
<1>1. e \in Event /\ Report(t).pod \in Pod /\ version[e] \in Nat /\ recorded[e] \in Seq(Pod)
  BY AtReport DEF Write, StoreTypes
<1>2. /\ Busy(t) /\ Taken(t) /\ Leave(t) /\ UNCHANGED view
      /\ version' = [version EXCEPT ![e] = @ + 1]
      /\ recorded' = [recorded EXCEPT ![e] = history]
  BY DEF Write
<1>3. events' = [events EXCEPT ![e] = stored]
  BY <1>1, <1>2 DEF Write, StoreTypes
<1>4. /\ history \in Seq(Pod) /\ history # <<>> /\ Len(history) > 0
      /\ history[Len(history)] = Report(t).pod
  BY <1>1
<1>5. /\ Valid(e) /\ Count(t) = Len(history)
      /\ Message(t) = IF e.kind = "deletion" THEN history ELSE <<history[Len(history)]>>
      /\ Message(t) \in Seq(Pod) /\ Count(t) \in Nat
  BY <1>2, <1>4, Written
<1>6. stored \in Record /\ stored # None /\ stored.version = version[e] + 1
  <2>1. ASSUME NEW m \in Seq(Pod), NEW c \in Nat, NEW v \in Nat
        PROVE  [message |-> m, count |-> c, version |-> v] \in Record
    BY DEF Record
  <2>2. Message(t) \in Seq(Pod) /\ Count(t) \in Nat /\ version[e] + 1 \in Nat
    BY <1>1, <1>5
  <2> HIDE DEF e
  <2>3. stored \in Record
    BY <2>1, <2>2
  <2> QED
    BY <2>3, NoneAssumption
<1> HIDE DEF e, history, stored
<1>7. /\ events'[e] = stored /\ version'[e] = version[e] + 1 /\ recorded'[e] = history
      /\ \A f \in Event \ {e} : /\ events'[f] = events[f] /\ version'[f] = version[f]
                               /\ recorded'[f] = recorded[f]
  BY <1>1, <1>2, <1>3 DEF StoreTypes
<1>8. StoreTypes'
  <2>1. /\ version' \in [Event -> Nat] /\ events' \in [Event -> Record \cup {None}]
        /\ recorded' \in [Event -> Seq(Pod)] /\ view' \in [Replica -> [Event -> Record \cup {None}]]
    BY <1>1, <1>2, <1>3, <1>4, <1>6 DEF StoreTypes
  <2> QED
    BY <2>1, <1>5, <1>6, <1>7 DEF StoreTypes, Valid
<1>9. ThreadTypes'
  BY <1>2, LeaveTypes
<1>10. ASSUME NEW x, NEW f \in Event, Copy(x, f) PROVE Copy(x, f)'
  <2>1. CASE f = e
    <3>1. x # None => x \in Record /\ x.version \in Nat /\ x.version <= version[e]
      BY <2>1, <1>10 DEF Copy, Record
    <3> QED
      BY <2>1, <3>1, <1>1, <1>6, <1>7 DEF Copy
  <2>2. CASE f # e
    BY <2>2, <1>7, <1>10 DEF Copy
  <2> QED
    BY <2>1, <2>2
<1>11. CopyInv'
  <2>1. \A p \in Replica : \A f \in Event : Copy(view[p][f], f)'
    BY <1>2, <1>10 DEF CopyInv, Copy
  <2>2. ASSUME NEW u \in Thread, Busy(u)' PROVE Copy(read[u], Current(u))'
    <3>1. CASE u = t
      BY <3>1, <1>2, LeaveTypes DEF Copy
    <3>2. CASE u # t
      <4>1. Busy(u) /\ Current(u)' = Current(u) /\ read'[u] = read[u] /\ Current(u) \in Event
        BY <3>2, <1>2, <2>2, LeaveTypes, AtReport
      <4> QED
        BY <4>1, <1>10 DEF Copy, CopyInv
    <3> QED
      BY <3>1, <3>2
  <2> QED
    BY <2>1, <2>2 DEF CopyInv
<1>12. HistoryInv'
  BY <1>4, <1>6, <1>7 DEF HistoryInv
<1>13. NothingRecordedIsLost'
  <2>1. stored.count = Count(t) /\ stored.message = Message(t)
    BY DEF stored
  <2> QED
    BY <2>1, <1>5, <1>7 DEF NothingRecordedIsLost
<1> QED
  BY <1>8, <1>9, <1>11, <1>12, <1>13

-----------------------------------------------------------------------------
\* Informers that catch up, events that expire, replicas that go away.
LEMMA SyncInv == ASSUME Inv, NEW p \in Replica, NEW event \in Event, Sync(p, event) PROVE Inv'
<1> USE DEF Inv
<1>1. /\ UNCHANGED <<events, version, pc, done, target, read, recorded>>
      /\ view' = [view EXCEPT ![p][event] = events[event]]
  BY DEF Sync
<1>2. StoreTypes'
  BY <1>1 DEF StoreTypes
<1>3. \A u \in Thread : Report(u)' = Report(u) /\ Current(u)' = Current(u) /\ Busy(u)' = Busy(u)
  BY <1>1 DEF Report, Current, Busy
<1>4. ThreadTypes'
  BY <1>1, <1>3 DEF ThreadTypes
<1>5. ASSUME NEW q \in Replica, NEW e \in Event PROVE Copy(view[q][e], e)'
  <2>1. Copy(events[e], e)
    BY DEF StoreTypes, Copy
  <2>2. view'[q][e] = events[e] \/ view'[q][e] = view[q][e]
    BY <1>1 DEF StoreTypes
  <2>3. Copy(view'[q][e], e)
    BY <2>1, <2>2 DEF CopyInv
  <2> QED
    BY <1>1, <2>3 DEF Copy
<1>6. ASSUME NEW u \in Thread, Busy(u)' PROVE Copy(read[u], Current(u))'
  BY <1>1, <1>3, <1>6 DEF Copy, CopyInv
<1> QED
  BY <1>1, <1>2, <1>4, <1>5, <1>6 DEF CopyInv, HistoryInv, NothingRecordedIsLost

LEMMA ExpireInv == ASSUME Inv, NEW event \in Event, Expire(event) PROVE Inv'
<1> USE DEF Inv
<1>1. /\ UNCHANGED <<version, view, pc, done, target, read>>
      /\ events' = [events EXCEPT ![event] = None]
      /\ recorded' = [recorded EXCEPT ![event] = <<>>]
  BY DEF Expire
<1>2. StoreTypes'
  BY <1>1 DEF StoreTypes, Valid
<1>3. \A u \in Thread : Report(u)' = Report(u) /\ Current(u)' = Current(u) /\ Busy(u)' = Busy(u)
  BY <1>1 DEF Report, Current, Busy
<1>4. ThreadTypes'
  BY <1>1, <1>3 DEF ThreadTypes
<1>5. ASSUME NEW x, NEW e \in Event, Copy(x, e) PROVE Copy(x, e)'
  BY <1>1, <1>5 DEF Copy, StoreTypes
<1>6. CopyInv'
  <2>1. \A q \in Replica : \A e \in Event : Copy(view[q][e], e)'
    BY <1>1, <1>5 DEF CopyInv, Copy
  <2>2. ASSUME NEW u \in Thread, Busy(u)' PROVE Copy(read[u], Current(u))'
    <3>1. Copy(read[u], Current(u)) /\ Current(u) \in Event
      BY <1>3, <2>2, AtReport DEF CopyInv
    <3> QED
      BY <3>1, <1>1, <1>3, <1>5 DEF Copy
  <2> QED
    BY <2>1, <2>2 DEF CopyInv
<1> QED
  BY <1>1, <1>2, <1>4, <1>6 DEF HistoryInv, NothingRecordedIsLost, StoreTypes

LEMMA StopInv == ASSUME Inv, NEW p \in Replica, Stop(p) PROVE Inv'
<1> USE DEF Inv
<1>1. /\ UNCHANGED <<events, version, view, done, target, read, recorded>>
      /\ pc' = [t \in Thread |-> IF Home[t] = p THEN "stopped" ELSE pc[t]]
  BY DEF Stop
<1>2. StoreTypes'
  BY <1>1 DEF StoreTypes
<1>3. \A u \in Thread : Report(u)' = Report(u) /\ Current(u)' = Current(u)
  BY <1>1 DEF Report, Current
<1>4. \A u \in Thread : Busy(u)' => Busy(u)
  BY <1>1 DEF Busy
<1>5. ThreadTypes'
  BY <1>1, <1>3 DEF ThreadTypes
<1>6. CopyInv'
  BY <1>1, <1>3, <1>4 DEF CopyInv, Copy
<1> QED
  BY <1>1, <1>2, <1>5, <1>6 DEF HistoryInv, NothingRecordedIsLost

\* The invariant is inductive.
LEMMA NextInv == Inv /\ [Next]_vars => Inv'
<1> SUFFICES ASSUME Inv, [Next]_vars PROVE Inv'
  OBVIOUS
<1>1. ASSUME NEW t \in Thread, Get(t) \/ Write(t) \/ WriteFails(t) PROVE Inv'
  BY <1>1, GetInv, WriteInv, WriteFailsInv
<1>2. ASSUME NEW p \in Replica, Stop(p) PROVE Inv'
  BY <1>2, StopInv
<1>3. ASSUME NEW p \in Replica, NEW e \in Event, Sync(p, e) PROVE Inv'
  BY <1>3, SyncInv
<1>4. ASSUME NEW e \in Event, Expire(e) PROVE Inv'
  BY <1>4, ExpireInv
<1>5. ASSUME UNCHANGED vars PROVE Inv'
  <2>1. \A u \in Thread : Report(u)' = Report(u) /\ Current(u)' = Current(u) /\ Busy(u)' = Busy(u)
    BY <1>5 DEF vars, Report, Current, Busy
  <2> QED
    BY <1>5, <2>1 DEF vars, Inv, StoreTypes, ThreadTypes, CopyInv, Copy, HistoryInv, NothingRecordedIsLost
<1> QED
  BY <1>1, <1>2, <1>3, <1>4, <1>5 DEF Next

LEMMA SpecInv == Spec => []Inv
BY InitInv, NextInv, PTL DEF Spec

-----------------------------------------------------------------------------
\* What the API server stores and the informers have is well-formed, an event that is
\* stored has a name, and every thread is at an event of its reports, through all
\* conflicts, refusals, expiries and stops (pkg/arch/hook.go:665-702).
THEOREM TypeCorrect == Spec => []TypeOK
BY SpecInv, Types, PTL DEF Inv

\* However many workers and handlers read and write one event, through however stale
\* informers, what is stored counts every write that went through since it was created
\* and lists their pods (pkg/arch/hook.go:679, pkg/controllers/pod.go:371-376).
THEOREM OccurrencesAreKept == Spec => []NothingRecordedIsLost
BY SpecInv, PTL DEF Inv

=============================================================================
