--------------------------- MODULE MCVehicleWizard ---------------------------
(* VehicleWizard for TLC: uploads, calls and new photos are interchangeable. *)
EXTENDS VehicleWizard, TLC

Interchangeable == Permutations(Uploads) \cup Permutations(Calls)
                     \cup Permutations(Photos \ Originals)
=============================================================================
