---------------------------- MODULE SentinelRoll ----------------------------
(***************************************************************************)
(* The roll of the sentinel StatefulSet.  Phase 3 of a reconcile applies   *)
(* the pod template together with rollingUpdate.partition; the partition   *)
(* is to let one pod go at a time, the next when the last one rolled has   *)
(* found its peers again.  The StatefulSet controller, outside the         *)
(* operator, replaces the highest pod of the old revision whenever the     *)
(* partition allows and the others are Ready, which a sentinel is before   *)
(* it has any peer.  Status is read through a cache.                       *)
(***************************************************************************)
EXTENDS Integers, FiniteSets, FiniteSetsExt

CONSTANTS
    NumSentinels,     \* spec.sentinel.replicas
    RollQuorum,       \* spec.sentinel.quorum
    MaxRevisions,     \* bound: pod templates
    MaxRollTroubles   \* bound: failed reads, and failovers or valkey rolls in flight

ASSUME RollAssumption ==
    /\ NumSentinels \in Nat \ {0} /\ RollQuorum \in 1 .. NumSentinels
    /\ MaxRevisions \in Nat \ {0} /\ MaxRollTroubles \in Nat

Ordinals  == 0 .. NumSentinels - 1
Revisions == 1 .. MaxRevisions

VARIABLES
    want,         \* the revision of the template the CR renders to
    tmpl, part,   \* the StatefulSet's template and partition
    update, cur,  \* status.updateRevision, status.currentRevision
    seen,         \* the status the operator's cache holds
    podRev, pod,  \* each pod's revision; "down", "ready" or "joined"
    busy,         \* a failover or a valkey roll is in flight
    vouched,      \* history: pods of this revision the operator saw joined
    pinned,       \* history: the partition holds the roll: it was computed for the revision
                  \* that rolls, or is at the top
    rollTroubles

stsVars  == <<tmpl, part>>
statVars == <<update, cur>>
podsVars == <<podRev, pod>>
histVars == <<vouched, pinned>>
rollVars == <<want, stsVars, statVars, seen, podsVars, busy, histVars, rollTroubles>>

RollTypeOK ==
    /\ want \in Revisions /\ tmpl \in Revisions /\ part \in 0 .. NumSentinels
    /\ update \in Revisions /\ cur \in Revisions /\ seen \in Revisions \X Revisions
    /\ podRev \in [Ordinals -> Revisions]
    /\ pod \in [Ordinals -> {"down", "ready", "joined"}]
    /\ busy \in BOOLEAN /\ vouched \subseteq Ordinals /\ pinned \in BOOLEAN
    /\ rollTroubles \in 0 .. MaxRollTroubles

RollInit ==
    /\ want = 1 /\ tmpl = 1 /\ part = 0 /\ update = 1 /\ cur = 1 /\ seen = <<1, 1>>
    /\ podRev = [i \in Ordinals |-> 1] /\ pod = [i \in Ordinals |-> "joined"]
    /\ busy = FALSE /\ vouched = {} /\ pinned = FALSE /\ rollTroubles = 0

RollTrouble == rollTroubles < MaxRollTroubles /\ rollTroubles' = rollTroubles + 1
-----------------------------------------------------------------------------
(* Phase 3. *)

Rolled(rev) == {i \in Ordinals : podRev[i] = rev}
Rejoined(i) == pod[i] = "joined"

\* Mutants of Advance: no floor; no wait for the peers; no advance.
AdvanceUnclamped(low) == IF Rejoined(low) THEN low - 1 ELSE low
AdvanceAtOnce(low) == Max({low - 1, 0})
AdvanceNever(low) == low

\* The partition below the pod rolled last, once it is back with its peers.
Advance(low) == IF RollQuorum <= 1 \/ Rejoined(low) THEN Max({low - 1, 0}) ELSE low

\* computeSentinelRollPartition.
ComputePartition ==
    LET rolled == Rolled(seen[1])
    IN  IF seen[1] = seen[2] \/ rolled = Ordinals THEN 0
        ELSE IF rolled = {} THEN NumSentinels - 1
        ELSE Advance(Min(rolled))

\* reconcileSentinelSTS: one apply carries template and partition.
Applies(p) ==
    /\ tmpl' = want /\ part' = p
    /\ UNCHANGED <<want, statVars, seen, podsVars, busy>>

\* reconcileSentinelInfra with its window clear.
ReconcileInfra ==
    /\ ~busy
    /\ <<want, ComputePartition>> # stsVars
    /\ Applies(ComputePartition)
    /\ IF seen[1] = want /\ seen[1] # seen[2]
       THEN pinned' = TRUE /\ vouched' = vouched \cup {i \in Rolled(want) : Rejoined(i)}
       ELSE pinned' = FALSE /\ vouched' = {}
    /\ UNCHANGED rollTroubles

\* The same when a read fails, whose partition is applied all the same: 0 when it is the
\* Get of the StatefulSet, which lets every pod go; the top when it is the List of the pods,
\* which holds them all.
ReadFails(p) ==
    /\ ~busy /\ RollTrouble
    /\ p \in {0, NumSentinels} /\ (p = NumSentinels => seen[1] # seen[2])
    /\ Applies(p) /\ pinned' = (p = NumSentinels)
    /\ vouched' = IF tmpl = want THEN vouched ELSE {}

\* The window closes: the apply is deferred, and the partition stays as it is.
Window ==
    /\ IF busy THEN UNCHANGED rollTroubles ELSE RollTrouble
    /\ busy' = ~busy
    /\ UNCHANGED <<want, stsVars, statVars, seen, podsVars, histVars>>

EditTemplate ==
    /\ want < MaxRevisions /\ want' = want + 1
    /\ UNCHANGED <<stsVars, statVars, seen, podsVars, busy, histVars, rollTroubles>>
-----------------------------------------------------------------------------
(* The StatefulSet controller, the pods and the cache (external). *)

StatusUpdate ==
    LET done == (\A i \in Ordinals : podRev[i] = tmpl /\ pod[i] # "down")
        s    == <<tmpl, IF done THEN tmpl ELSE cur>>
    IN  /\ s # statVars /\ update' = s[1] /\ cur' = s[2]
        /\ UNCHANGED <<want, stsVars, seen, podsVars, busy, histVars, rollTroubles>>

RollPod(i) ==
    /\ update = tmpl /\ i >= part /\ podRev[i] # tmpl
    /\ \A j \in Ordinals : pod[j] # "down" /\ (j > i => podRev[j] = tmpl)
    /\ podRev' = [podRev EXCEPT ![i] = tmpl] /\ pod' = [pod EXCEPT ![i] = "down"]
    /\ UNCHANGED <<want, stsVars, statVars, seen, busy, histVars, rollTroubles>>

PodComesUp(i) ==
    /\ pod[i] = "down" /\ pod' = [pod EXCEPT ![i] = "ready"]
    /\ UNCHANGED <<want, stsVars, statVars, seen, podRev, busy, histVars, rollTroubles>>
PodRejoins(i) ==
    /\ pod[i] = "ready" /\ pod' = [pod EXCEPT ![i] = "joined"]
    /\ UNCHANGED <<want, stsVars, statVars, seen, podRev, busy, histVars, rollTroubles>>

StatusCached ==
    /\ seen # statVars /\ seen' = statVars
    /\ UNCHANGED <<want, stsVars, statVars, podsVars, busy, histVars, rollTroubles>>
-----------------------------------------------------------------------------
PodStep(i) == RollPod(i) \/ PodComesUp(i) \/ PodRejoins(i)
RollNext ==
    \/ ReconcileInfra \/ (\E p \in {0, NumSentinels} : ReadFails(p)) \/ Window \/ EditTemplate
    \/ StatusUpdate \/ StatusCached \/ (\E i \in Ordinals : PodStep(i))

RollFairness ==
    /\ WF_rollVars(ReconcileInfra) /\ WF_rollVars(busy /\ Window)
    /\ WF_rollVars(StatusUpdate) /\ WF_rollVars(StatusCached)
    /\ \A i \in Ordinals : WF_rollVars(PodStep(i))

RollSpec == RollInit /\ [][RollNext]_rollVars /\ RollFairness
-----------------------------------------------------------------------------
(* Properties. *)

\* While the partition in force is one computed for the revision that rolls, or one a failed
\* List of the pods left at the top, the next pod is replaced only after the operator has
\* seen the one replaced last back with its peers (computeSentinelRollPartition,
\* sentinelPodRejoined).  It says nothing of the two partitions 0 that the code applies in
\* the middle of a roll: with the new template itself, when the status read still shows no
\* roll, and on a failed Get of the StatefulSet; until a later pass corrects either, nothing
\* but Readiness paces the roll.
RollGated ==
    [][\A i \in Ordinals :
          pinned /\ podRev'[i] # podRev[i] /\ Rolled(tmpl) # {} /\ RollQuorum > 1
              => Min(Rolled(tmpl)) \in vouched]_rollVars

\* Why: revisions are reached in order, the pods of the template's revision are the highest
\* ordinals, and once the partition was set for this revision only the pod at the partition
\* itself can be old and due, which it is after the one above was vouched for.
RollInv ==
    /\ RollTypeOK
    /\ seen[1] <= update /\ update <= tmpl /\ tmpl <= want
    /\ \A i \in Ordinals : podRev[i] <= tmpl
    /\ \A i, j \in Ordinals : i < j /\ podRev[i] = tmpl => podRev[j] = tmpl
    /\ vouched \subseteq Rolled(tmpl)
    /\ pinned => /\ \A j \in Ordinals : j > part => podRev[j] = tmpl
                 /\ RollQuorum > 1 /\ part + 1 \in Ordinals /\ podRev[part] # tmpl
                       => part + 1 \in vouched

\* Every pod ends up on the template the CR asks for, whatever was deferred or failed
\* on the way (sentinelRollDeferRequeue, sentinelRejoinRequeue).
RollCompletes == <>[](\A i \in Ordinals : podRev[i] = want)
=============================================================================
