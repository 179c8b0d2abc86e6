------------------------------- MODULE MCSignIn -------------------------------
(***************************************************************************)
(* Instance of SignIn for TLC.                                              *)
(***************************************************************************)
EXTENDS SignIn, TLC

CONSTANTS n1, e1, t1, t2, i1, i2

(* Every token proves the one number; Google accounts share one address,    *)
(* as they may over time.                                                   *)
OneNumber  == [t \in Tokens |-> n1]
OneAddress == [g \in Subjects |-> e1]

(* Each of two browsers presents its own token, so two requests with one    *)
(* token share an address and two with both do not.                         *)
OneAddressEach == t1 :> {i1} @@ t2 :> {i2}

OtherBrowser == t1 :> t2 @@ t2 :> t1 @@ i1 :> i2 @@ i2 :> i1

Symmetry == Permutations(Users) \cup Permutations(Challenges) \cup Permutations(Sessions)
            \cup Permutations(Requests) \cup {OtherBrowser}
=============================================================================
