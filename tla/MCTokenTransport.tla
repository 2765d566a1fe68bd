-------------------------- MODULE MCTokenTransport --------------------------
(***************************************************************************)
(* Instances of TokenTransport.                                            *)
(***************************************************************************)
EXTENDS TokenTransport, TLC

Registry(basic, public, lifetime, expiresIn) ==
  [takesBasic |-> basic, public |-> public, credential |-> CHOOSE c \in Credential : TRUE,
   lifetime |-> lifetime, expiresIn |-> expiresIn]

\* Two that issue tokens and say for how long, and one that takes a login, whose tokens
\* are of no use to a private image and do not say how long they live.
MCRegistries ==
  "hub"  :> Registry(FALSE, TRUE, 2, 2) @@
  "quay" :> Registry(FALSE, TRUE, 1, 1) @@
  "ecr"  :> Registry(TRUE, FALSE, 1, 0)

MCPrivateHub == "hub" :> Registry(FALSE, FALSE, 2, 2)

Symmetric == Permutations(Request)

=============================================================================
