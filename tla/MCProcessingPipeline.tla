------------------------ MODULE MCProcessingPipeline ------------------------
(* Model-checking instance of ProcessingPipeline.                          *)
EXTENDS ProcessingPipeline, TLC

(* Handlings, dispatcher runs and queue slots are interchangeable.         *)
Interchangeable ==
  Permutations(Workers) \cup Permutations(Dispatchers) \cup Permutations(Messages)
=============================================================================
