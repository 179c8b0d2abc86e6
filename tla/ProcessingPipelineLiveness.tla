--------------------- MODULE ProcessingPipelineLiveness ---------------------
(***************************************************************************)
(* Recovery: from any state the pipeline reached through crashes and lost  *)
(* answers, once they stop every job is settled, or its message is in the  *)
(* dead-letter queue where README "A job stuck on Processing" expects it.  *)
(***************************************************************************)
EXTENDS ProcessingPipeline

(* Steps that need no fault.                                               *)
CalmDispatch(d) == \/ ClaimOutbox(d) \/ MarkPublished(d)
                   \/ \E j \in Jobs : PublishAccepted(d, j) \/ Release(d, j)

CalmNext ==
  \/ \E d \in Dispatchers : CalmDispatch(d)
  \/ \E j \in Jobs : OutboxLeaseExpires(j) \/ LeaseExpires(j)
  \/ \E m \in Messages : VisibilityTimeout(m) \/ \E w \in Workers : Receive(w, m)
  \/ \E w \in Workers : WorkerNext(w)

(* The fairness of a healthy system: the scheduled dispatcher runs, the      *)
(* queue delivers and times out, workers advance, and clocks reach expiry.  *)
Fairness ==
  /\ \A d \in Dispatchers : WF_vars(CalmDispatch(d))
  /\ \A w \in Workers : WF_vars(WorkerNext(w))
  /\ \A m \in Messages : /\ SF_vars(\E w \in Workers : Receive(w, m))
                         /\ WF_vars(VisibilityTimeout(m))
  /\ \A j \in Jobs : WF_vars(LeaseExpires(j)) /\ WF_vars(OutboxLeaseExpires(j))

LiveSpec == Spec /\ Fairness

Settled == \A j \in Jobs : job[j].status \in Terminal \/ j \in dlq

(* If the faults stop, no job stays active for ever without a message in  *)
(* the dead-letter queue: expired claims are taken over, lost               *)
(* acknowledgements are published again and unacknowledged messages return. *)
RecoversAfterFaults == <>[][CalmNext]_vars => <>[]Settled
=============================================================================
