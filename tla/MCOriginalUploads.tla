-------------------------- MODULE MCOriginalUploads --------------------------
(* Model-checking instance of OriginalUploads.                             *)
EXTENDS OriginalUploads, TLC

(* Concurrent requests of one kind are interchangeable.                    *)
Interchangeable ==
  Permutations(Commits) \cup Permutations(Removals) \cup Permutations(Cleaners)
=============================================================================
