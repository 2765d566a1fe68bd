--------------------------- MODULE MCRegistryCache ---------------------------
(***************************************************************************)
(* Requests are interchangeable: symmetry for the runs without liveness.   *)
(***************************************************************************)
EXTENDS RegistryCache, TLC

Symmetric == Permutations(Request) \cup Permutations(Key)
=============================================================================
