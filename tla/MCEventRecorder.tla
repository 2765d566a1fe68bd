-------------------------- MODULE MCEventRecorder --------------------------
(***************************************************************************)
(* Instances of EventRecorder: a controller, the one that takes over from  *)
(* it and a handler report on pods of one owner.                           *)
(***************************************************************************)
EXTENDS EventRecorder, TLC

CONSTANTS worker, successor, handler, owner

MCHome == worker :> "a" @@ successor :> "b" @@ handler :> "b"

Deleted(pod)  == [kind |-> "deletion", pod |-> pod, name |-> pod, owner |-> owner]
Injected(pod) == [kind |-> "injection", pod |-> pod, name |-> Unnamed, owner |-> owner]

MCUpserts ==
  worker    :> <<Deleted("p1"), Deleted("p2")>> @@
  successor :> <<Deleted("p3")>> @@
  handler   :> <<Injected("p4"), Injected("p5")>>

=============================================================================
