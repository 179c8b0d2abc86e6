----------------------- MODULE OriginalUploadsLiveness -----------------------
(***************************************************************************)
(* The storage cleanup is scheduled for ever.  Once no run dies and no new  *)
(* request arrives, every abandoned upload is deleted and every deletion is *)
(* done or given up as FAILED, where an operator can see it.                *)
(***************************************************************************)
EXTENDS OriginalUploads

Finishing(r) == WriteRemoval(r) \/ DeleteForRemoval(r) \/ CompleteRemoval(r)

(* The claim of a run that died; a live run of a calm system ends within    *)
(* its lease (two runs that keep outliving theirs could alternate for ever).*)
DeadClaimExpires(a) ==
  /\ \A k \in Cleaners : deletion[a].owner = k => a \notin cleaner[k].todo
  /\ ClaimExpires(a)

CalmNext ==
  \/ \E k \in Cleaners : CleanerSteps(k)
  \/ \E r \in Removals : Finishing(r)
  \/ \E a \in Assets : DeadClaimExpires(a)

(* The scheduler calls the cleanup again and again, a run goes on through   *)
(* its messages, and a lease of a dead run reaches its expiry.              *)
Fairness == /\ \A k \in Cleaners : WF_vars(CleanerSteps(k))
            /\ \A a \in Assets : WF_vars(DeadClaimExpires(a))

LiveSpec == Spec /\ Fairness

(* What is left when nothing more has to be cleaned up.                    *)
Clean == \A a \in Assets : ~Abandoned(a) /\ deletion[a].status # "PENDING"

(* Claims of dead runs are taken over, a failed delete is retried at most   *)
(* maximumAttempts times, and neither hides another message for ever.       *)
CleanupSettles == <>[][CalmNext]_vars => <>[]Clean
=============================================================================
