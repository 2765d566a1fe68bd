---------------------------- MODULE EventRecorder ----------------------------
(***************************************************************************)
(* How Noe tells users what it did: upsertNodeSelectorInjectionEvent       *)
(* (pkg/arch/hook.go) and upsertPodDeletionEvent (pkg/controllers/pod.go). *)
(* Each reads an Event of the pod or of its controller and writes it back  *)
(* with one more occurrence.  The handlers of all replicas and the worker  *)
(* of the controller do so at once; an error is logged and that is all.    *)
(*                                                                         *)
(* External, modelled by how it is used: CreateOrUpdate and the client of  *)
(* the manager, which reads from the replica's informer and writes to the  *)
(* API server, which refuses to create what exists and to update a version *)
(* that is not the latest, and lets events expire.                         *)
(***************************************************************************)
EXTENDS Integers, Sequences, FiniteSets

CONSTANTS
  Thread,     \* handlers and controller workers
  Home,       \* thread -> its replica
  Upserts,    \* thread -> the pods it reports, in order: [kind, pod, name, owner]
  Unnamed,    \* the name of a pod that is to be generated
  None        \* no controller; no event

Replica == {Home[t] : t \in Thread}
Reports == UNION {{Upserts[t][i] : i \in DOMAIN Upserts[t]} : t \in Thread}
Pod     == {report.pod : report \in Reports}

\* The events of a report: the pod's and, if it has one, its controller's.
Targets(report) ==
  LET Of(object) == [object |-> object, kind |-> report.kind]
  IN  IF report.owner = None THEN <<Of(report.name)>> ELSE <<Of(report.name), Of(report.owner)>>

TargetSet(report) == {Targets(report)[k] : k \in DOMAIN Targets(report)}

Event  == UNION {TargetSet(report) : report \in Reports}
Record == [message : Seq(Pod), count : Nat, version : Nat]

ASSUME UpsertsAssumption == \A t \in Thread : Upserts[t] \in Seq(Reports)
ASSUME NoneAssumption    == None \notin Record

VARIABLES
  events,    \* the API server's: [object, kind] -> [message, count, version], or None
  version,   \* the latest version the API server has given to an event of that name
  view,      \* replica -> what its informer has of events
  pc,        \* "get" or "write" of an upsert, "stopped" with its replica
  done,      \* how many reports a thread is through with
  target,    \* the event of the current report that it upserts
  read,      \* what CreateOrUpdate read
  recorded   \* history: the pods whose upsert went through since the event was created

vars == <<events, version, view, pc, done, target, read, recorded>>

Busy(t)    == pc[t] # "stopped" /\ done[t] < Len(Upserts[t])
Report(t)  == Upserts[t][done[t] + 1]
Current(t) == Targets(Report(t))[target[t]]

\* The events that a thread is going to upsert.
Ahead(t) ==
  (IF done[t] < Len(Upserts[t]) THEN {Targets(Report(t))[k] : k \in target[t] .. Len(Targets(Report(t)))} ELSE {})
    \cup UNION {TargetSet(Upserts[t][i]) : i \in done[t] + 2 .. Len(Upserts[t])}

-----------------------------------------------------------------------------
Get(t) ==
  /\ Busy(t) /\ pc[t] = "get"
  /\ read' = [read EXCEPT ![t] = view[Home[t]][Current(t)]]
  /\ pc' = [pc EXCEPT ![t] = "write"]
  /\ UNCHANGED <<events, version, view, done, target, recorded>>

\* Mutant: the object that the event is stored for instead of the pod it is about.
MessageOfObject(t) ==
  IF Current(t).kind = "deletion" /\ read[t] # None
  THEN Append(read[t].message, Current(t).object)
  ELSE <<Current(t).object>>

\* The callback: a deletion is appended to the message, an injection replaces it.
Message(t) ==
  IF Current(t).kind = "deletion" /\ read[t] # None
  THEN Append(read[t].message, Report(t).pod)
  ELSE <<Report(t).pod>>

Count(t) == IF read[t] = None THEN 1 ELSE read[t].count + 1

\* An event's name starts with its object's.
Valid(event) == event.object # Unnamed

\* Mutant: an update that does not look at the version.
TakenAnyVersion(t) ==
  LET event == Current(t) IN
  IF read[t] = None THEN events[event] = None /\ Valid(event) ELSE events[event] # None

\* Does the API server take the create or the update?
Taken(t) ==
  LET event == Current(t) IN
  IF read[t] = None
  THEN events[event] = None /\ Valid(event)
  ELSE events[event] # None /\ events[event].version = read[t].version

\* On to the next event or, after the last, to the next report.
Leave(t) ==
  /\ \/ /\ target[t] < Len(Targets(Report(t)))
        /\ target' = [target EXCEPT ![t] = @ + 1]
        /\ UNCHANGED done
     \/ /\ target[t] = Len(Targets(Report(t)))
        /\ target' = [target EXCEPT ![t] = 1]
        /\ done' = [done EXCEPT ![t] = @ + 1]
  /\ pc' = [pc EXCEPT ![t] = "get"]
  /\ read' = [read EXCEPT ![t] = None]

Write(t) ==
  LET event == Current(t) IN
  /\ Busy(t) /\ pc[t] = "write" /\ Taken(t)
  /\ version' = [version EXCEPT ![event] = @ + 1]
  /\ events' = [events EXCEPT ![event] =
       [message |-> Message(t), count |-> Count(t), version |-> version'[event]]]
  /\ recorded' = [recorded EXCEPT ![event] = Append(@, Report(t).pod)]
  /\ Leave(t)
  /\ UNCHANGED view

\* Already exists, conflict, not found, invalid, or no answer: logged, not tried again.
WriteFails(t) ==
  /\ Busy(t) /\ pc[t] = "write"
  /\ Leave(t)
  /\ UNCHANGED <<events, version, view, recorded>>

-----------------------------------------------------------------------------
\* The informer of a replica catches up with an event it is still going to be asked for.
Sync(p, event) ==
  /\ \E t \in Thread : Home[t] = p /\ event \in Ahead(t)
  /\ view[p][event] # events[event]
  /\ view' = [view EXCEPT ![p][event] = events[event]]
  /\ UNCHANGED <<events, version, pc, done, target, read, recorded>>

\* Events live for an hour.
Expire(event) ==
  /\ events[event] # None
  /\ events' = [events EXCEPT ![event] = None]
  /\ recorded' = [recorded EXCEPT ![event] = <<>>]
  /\ UNCHANGED <<version, view, pc, done, target, read>>

\* A replica goes away between any two steps of its threads.
Stop(p) ==
  /\ \E t \in Thread : Home[t] = p /\ Busy(t)
  /\ pc' = [t \in Thread |-> IF Home[t] = p THEN "stopped" ELSE pc[t]]
  /\ UNCHANGED <<events, version, view, done, target, read, recorded>>

Init ==
  /\ events = [e \in Event |-> None]
  /\ version = [e \in Event |-> 0]
  /\ view = [p \in Replica |-> events]
  /\ pc = [t \in Thread |-> "get"]
  /\ done = [t \in Thread |-> 0]
  /\ target = [t \in Thread |-> 1]
  /\ read = [t \in Thread |-> None]
  /\ recorded = [e \in Event |-> <<>>]

Next ==
  \/ \E t \in Thread : Get(t) \/ Write(t) \/ WriteFails(t)
  \/ \E p \in Replica : Stop(p) \/ \E e \in Event : Sync(p, e)
  \/ \E e \in Event : Expire(e)

Spec == Init /\ [][Next]_vars

-----------------------------------------------------------------------------
(***************************************************************************)
(* Properties.                                                             *)
(***************************************************************************)
\* An event tells of pods, whatever object it is stored for (pod.go:292-312, 371), and has a
\* name the API server accepts; informers lag, they do not invent.
TypeOK ==
  /\ version \in [Event -> Nat]
  /\ events \in [Event -> Record \cup {None}]
  /\ \A e \in Event : events[e] # None => events[e].version = version[e] /\ Valid(e)
  /\ view \in [Replica -> [Event -> Record \cup {None}]]
  /\ pc \in [Thread -> {"get", "write", "stopped"}]
  /\ read \in [Thread -> Record \cup {None}]
  /\ done \in [Thread -> Nat] /\ target \in [Thread -> {1, 2}]
  /\ \A t \in Thread : /\ done[t] <= Len(Upserts[t])
                       /\ done[t] < Len(Upserts[t]) => target[t] \in DOMAIN Targets(Report(t))
  /\ recorded \in [Event -> Seq(Pod)]

\* Writers of one event (the owner's of many pods) read, from caches that lag, and write
\* at once, from several replicas, and may stop half-way.  No occurrence that was
\* recorded is overwritten by one that did not know of it (hook.go:679, pod.go:371-376):
\* the count is that of the writes that went through, and the message of a deletion
\* event lists their pods, that of an injection event the last one.
NothingRecordedIsLost ==
  \A e \in Event : events[e] # None =>
    /\ events[e].count = Len(recorded[e])
    /\ events[e].message = IF e.kind = "deletion" THEN recorded[e] ELSE <<recorded[e][Len(recorded[e])]>>

\* pod.go:292: "give visibility to the user that the pod has been deleted for both the
\* pod and its owner".  Does not hold even of one worker with an API server that never
\* fails: its next read may not show its last write yet.
EveryDeletionVisible ==
  \A t \in Thread : \A i \in 1 .. done[t] : \A e \in TargetSet(Upserts[t][i]) :
    e.kind = "deletion" /\ events[e] # None =>
      \E j \in DOMAIN recorded[e] : recorded[e][j] = Upserts[t][i].pod

=============================================================================
