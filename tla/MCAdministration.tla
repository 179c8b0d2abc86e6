--------------------------- MODULE MCAdministration ---------------------------
(* Model-checking instance of Administration.                              *)
EXTENDS Administration, TLC

CONSTANTS u1, u2, e1, e2

Holders == e1 :> u1 @@ e2 :> u2

Interchangeable ==
  Permutations(SignIns) \cup Permutations(Requests) \cup Permutations(Invites) \cup Permutations(Plans)
=============================================================================
