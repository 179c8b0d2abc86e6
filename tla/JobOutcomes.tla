----------------------------- MODULE JobOutcomes -----------------------------
(***************************************************************************)
(* What the processing pipeline promises for one batch, without its        *)
(* machinery: each job is settled once, delivered and billed together or   *)
(* failed and never billed, and the vehicle is settled by the last of them. *)
(***************************************************************************)
CONSTANT Jobs

VARIABLES outcome,   \* what became of each job
          billed,    \* the jobs charged to the account
          vehicle    \* what the owner of the vehicle sees

vars == <<outcome, billed, vehicle>>

Init == /\ outcome = [j \in Jobs |-> "pending"]
        /\ billed = {}
        /\ vehicle = "PROCESSING"

(* The vehicle's status once a job's outcome is known.                     *)
Seen(outcomes) ==
  IF \E j \in Jobs : outcomes[j] = "pending" THEN "PROCESSING"
  ELSE IF \E j \in Jobs : outcomes[j] = "failed" THEN "PARTIALLY_FAILED"
  ELSE "READY"

Settle(j, result) ==
  /\ outcome[j] = "pending"
  /\ outcome' = [outcome EXCEPT ![j] = result]
  /\ vehicle' = Seen(outcome')

Deliver(j) == Settle(j, "delivered") /\ billed' = billed \cup {j}

Fail(j) == Settle(j, "failed") /\ UNCHANGED billed

Next == \E j \in Jobs : Deliver(j) \/ Fail(j)

Spec == Init /\ [][Next]_vars
=============================================================================
