--------------------------- MODULE RolloutClaims ----------------------------
(***************************************************************************)
(* What comments of the rollout code claim and the code does not keep,     *)
(* stated over PrimaryRollout.                                             *)
(***************************************************************************)
EXTENDS PrimaryRollout

\* "the operator deletes stale-revision REPLICA pods one at a time ... The primary
\* is left alone - its master-aware recreation is handled separately, gated by
\* SENTINEL FAILOVER first" (reconcilePodRollout): the pod Phase 9 deletes does not
\* carry role=primary when the delete is issued.
LabelledPrimaryLeftAlone ==
    [][pc = "rollout" /\ pc' = "dispatch" => pods.role[victim] # "primary"]_vars

\* "Skip when any pod is currently NotReady (a delete is already in flight; wait for the
\* recreate to finish before deleting the next)" (reconcilePodRollout): as long as nothing
\* else fails, at most one pod at a time is down.
RollOneAtATime == faults = 0 => Cardinality({p \in Pods : pods.phase[p] # "ready"}) <= 1

\* "On the next reconcile the suppression latch is rehydrated from this marker, so
\* role=primary is not re-stamped on the pre-strip primary mid-election"
\* (FailoverDispatchStatus): not by any rule, the bootstrap rule included.
WindowHeldAlways ==
    [][SectionOpen /\ SectionOpen' => Labelled(pods') \subseteq Labelled(pods)]_vars
=============================================================================
