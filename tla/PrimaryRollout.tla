--------------------------- MODULE PrimaryRollout ---------------------------
(***************************************************************************)
(* The master-aware rolling update of one sentinel-mode Valkey CR          *)
(* (internal/controller: primary_rollout.go, derive_state.go and Phases 7, *)
(* 9 and 11 of valkey_controller.go).                                      *)
(*                                                                         *)
(* Replicas are recreated one at a time (Phase 9).  When only the primary  *)
(* is left at the old revision the operator records the intent durably     *)
(* (the FailoverDispatch marker in the CR status), arms an in-memory       *)
(* latch, strips the role=primary label and issues SENTINEL FAILOVER       *)
(* (Phase 11).  Until the observer reports another primary or the deadline *)
(* passes, Phase 7 must not stamp role=primary again, even when the        *)
(* operator process dies in between and only the marker survives.          *)
(*                                                                         *)
(* One reconcile pass is a sequence of steps (pc), one per API or sentinel *)
(* call, so that the observer's goroutines, the sentinels, the StatefulSet *)
(* controller, the informer cache, time and process crashes interleave     *)
(* with it.  The per-CR mutex makes passes sequential.                     *)
(***************************************************************************)
EXTENDS Integers, FiniteSets, Sequences

CONSTANTS
    Replicas,        \* spec.valkey.replicas
    LatchTTL,        \* failoverInFlightLatchTTL, in ticks
    CooldownTTL,     \* nogoodslaveCooldownTTL, in ticks
    MaxSnapshotAge,  \* maxRolloutSnapshotAge, in ticks
    Subs,            \* the observer's pub/sub subscriptions
    LaggingCaches,   \* the informer caches that may trail the API server
    SpontaneousFailover, \* whether sentinels may fail over a master that is alive
    MaxGen,          \* bound: how often one pod is recreated
    MaxEpoch,        \* bound: elections the sentinels hold
    MaxCrashes,      \* bound: operator restarts
    MaxFaults        \* bound: failed calls, lost polls and evictions

ASSUME RolloutAssumption ==
    /\ Replicas \in Nat \ {0}
    /\ LatchTTL \in Nat /\ CooldownTTL \in Nat /\ MaxSnapshotAge \in Nat
    /\ CooldownTTL < LatchTTL
    /\ LaggingCaches \subseteq {"pods", "cr"} /\ SpontaneousFailover \in BOOLEAN
    /\ MaxGen \in Nat \ {0}
    /\ MaxEpoch \in Nat /\ MaxCrashes \in Nat /\ MaxFaults \in Nat

Pods  == 0 .. Replicas - 1
NoPod == -1
Roles == {"primary", "replica", "none"}

(***************************************************************************)
(* A recreated pod gets a new IP and the target revision, so <<pod, gen>>  *)
(* is both the address and (gen > 0) the revision of an incarnation.  An   *)
(* absent pod, gone and not yet recreated, has the gen it will come with.  *)
(***************************************************************************)
Addrs  == Pods \X (0 .. MaxGen)
NoAddr == <<NoPod, 0>>
AddrOf(g, p) == <<p, g[p]>>

PodLists == [role : [Pods -> Roles], gen : [Pods -> 0 .. MaxGen],
             phase : [Pods -> {"ready", "terminating", "absent", "starting"}]]

(***************************************************************************)
(* The latch, and the FailoverDispatch marker it mirrors, hold the         *)
(* pre-strip address, the pre-strip epoch and the ticks left until the     *)
(* deadline: 0 is the deadline itself, -1 is past it.                      *)
(***************************************************************************)
Dispatches == [addr : Addrs \cup {NoAddr}, epoch : 0 .. MaxEpoch, rem : -1 .. LatchTTL]
NoDispatch == [addr |-> NoAddr, epoch |-> 0, rem |-> -1]

Snapshots == [present : BOOLEAN, ok : BOOLEAN, addr : Addrs \cup {NoAddr},
              epoch : 0 .. MaxEpoch, age : 0 .. MaxSnapshotAge + 1]
NoSnapshot == [present |-> FALSE, ok |-> FALSE, addr |-> NoAddr, epoch |-> 0,
               age |-> MaxSnapshotAge + 1]

PollResults == [ok : BOOLEAN, addr : Addrs \cup {NoAddr}, epoch : 0 .. MaxEpoch]
NoPoll      == [ok |-> FALSE, addr |-> NoAddr, epoch |-> 0]

\* +switch-master names the address it switches from; +failover-end, which the
\* sentinel that led the failover sends as well, names none (old = NoAddr).
Frames == [old : Addrs \cup {NoAddr}, new : Addrs]

Steps == {"idle", "maintain", "desired", "promote", "demote", "rollout",
          "dispatch", "persist", "strip", "failover", "rollback", "unmark"}

VARIABLES
    pods,       \* API server: role label, incarnation and phase of each pod
    marker,     \* API server: Status.Rollout.FailoverDispatch
    podCache,   \* informer cache of the pods
    crCache,    \* informer cache of the marker
    master,     \* sentinels: the agreed master
    epoch,      \* sentinels: the config epoch
    election,   \* sentinels: a failover the operator asked for is running
    frames,     \* pub/sub frames under way on each subscription
    snap,       \* observer: the published snapshot
    polling,    \* observer: a poll has read the sentinels and not yet published
    poll,       \* observer: what that poll read
    latch,      \* operator memory: the failover latch
    stab,       \* operator memory: primaryStability (address and fresh count)
    freshPoll,  \* a poll was published since stab last recorded one
    pc,         \* the step of the reconcile pass that comes next
    vMarker,    \* the pass's copy of the marker (v.Status.Rollout)
    handoff,    \* the pass derived RolloutPrimary
    victim,     \* the stale replica Phase 9 of this pass deletes
    want,       \* the pod (incarnation) Phase 7 stamps role=primary
    todo,       \* the pods Phase 7 still has to stamp role=replica
    disp,       \* the pod, address and epoch the dispatcher acts on
    crashes, faults

apiVars      == <<pods, marker>>
cacheVars    == <<podCache, crCache>>
sentinelVars == <<master, epoch, election>>
observerVars == <<snap, polling, poll>>
memoryVars   == <<latch, stab, freshPoll>>
passVars     == <<vMarker, handoff, victim, want, todo, disp>>
envVars      == <<crashes, faults>>

(***************************************************************************)
(* History: an accepted SENTINEL FAILOVER whose pre-strip address the      *)
(* observer still reports, and the ticks left to its deadline.  No action  *)
(* reads it.                                                               *)
(***************************************************************************)
VARIABLE section

vars == <<apiVars, cacheVars, sentinelVars, frames, observerVars, memoryVars,
          pc, passVars, envVars, section>>

NoDisp == [pod |-> NoPod, addr |-> NoAddr, epoch |-> 0]

TypeOK ==
    /\ pods \in PodLists /\ podCache \in PodLists
    /\ marker \in Dispatches /\ crCache \in Dispatches
    /\ latch \in Dispatches /\ vMarker \in Dispatches
    /\ master \in Addrs /\ epoch \in 0 .. MaxEpoch /\ election \in BOOLEAN
    /\ frames \in [Subs -> Seq(Frames)]
    /\ snap \in Snapshots /\ polling \in BOOLEAN /\ poll \in PollResults
    /\ stab \in [addr : Addrs \cup {NoAddr}, polls : 0 .. 2] /\ freshPoll \in BOOLEAN
    /\ pc \in Steps
    /\ handoff \in BOOLEAN
    /\ victim \in Pods \cup {NoPod} /\ want \in Addrs \cup {NoAddr}
    /\ todo \in SUBSET Pods
    /\ disp \in [pod : Pods \cup {NoPod}, addr : Addrs \cup {NoAddr}, epoch : 0 .. MaxEpoch]
    /\ crashes \in 0 .. MaxCrashes /\ faults \in 0 .. MaxFaults
    /\ section \in [addr : Addrs \cup {NoAddr}, rem : -1 .. LatchTTL]

NoSection == [addr |-> NoAddr, rem |-> -1]

Init ==
    /\ \E m \in Pods :
          /\ pods = [role  |-> [p \in Pods |-> IF p = m THEN "primary" ELSE "replica"],
                     gen   |-> [p \in Pods |-> 0],
                     phase |-> [p \in Pods |-> "ready"]]
          /\ master = <<m, 0>>
    /\ marker = NoDispatch /\ podCache = pods /\ crCache = NoDispatch
    /\ epoch = 0 /\ election = FALSE /\ frames = [b \in Subs |-> <<>>]
    /\ snap = NoSnapshot /\ polling = FALSE /\ poll = NoPoll
    /\ latch = NoDispatch /\ stab = [addr |-> NoAddr, polls |-> 0] /\ freshPoll = FALSE
    /\ pc = "idle" /\ vMarker = NoDispatch /\ handoff = FALSE
    /\ victim = NoPod /\ want = NoAddr /\ todo = {} /\ disp = NoDisp
    /\ crashes = 0 /\ faults = 0
    /\ section = NoSection

-----------------------------------------------------------------------------
(***************************************************************************)
(* The latch.                                                              *)
(***************************************************************************)

\* The address and epoch a consumer reads off the observer.
Observed == IF snap.present THEN [addr |-> snap.addr, epoch |-> snap.epoch]
                            ELSE [addr |-> NoAddr, epoch |-> 0]

\* The deadline has not passed, and the observer has not moved off the pre-strip
\* address with an epoch at least the one the strip ran under.
Active(l) ==
    /\ l.rem >= 0
    /\ \/ Observed.addr \in {NoAddr, l.addr}
       \/ l.epoch > 0 /\ Observed.epoch < l.epoch

\* failoverLatchActive drops a latch that no longer holds.
Drained(l) == IF Active(l) THEN l ELSE NoDispatch

snapshotStale == snap.age > MaxSnapshotAge

-----------------------------------------------------------------------------
(***************************************************************************)
(* What a pass reads through the cached client.                            *)
(***************************************************************************)
ListedPods    == IF "pods" \in LaggingCaches THEN podCache ELSE pods
FetchedMarker == IF "cr" \in LaggingCaches THEN crCache ELSE marker

Listed(L)    == {p \in Pods : L.phase[p] # "absent"}
Labelled(L)  == {p \in Pods : L.role[p] = "primary"}
OldRev(L)    == {p \in Pods : L.gen[p] = 0}

AllReady(L)  == \A p \in Listed(L) : L.phase[p] = "ready"

\* A loop that keeps the last match meets the labelled pods in list order, so
\* with two of them either may be the one it ends with.
LastLabelled(L) == IF Labelled(L) = {} THEN {NoPod} ELSE Labelled(L)

\* Mutant: the replicas that are listed are enough for the hand-over.
deriveUncounted(L, prim, quorumOK, inFlight) ==
    LET replicas == Listed(L) \ Labelled(L)
    IN  IF prim \in OldRev(L) /\ quorumOK /\ ~inFlight /\ replicas \cap OldRev(L) = {}
              /\ \A p \in replicas : L.phase[p] = "ready"
        THEN "RolloutPrimary" ELSE "RolloutReplicas"

\* deriveState and deriveStateFromFacts
deriveState(L, prim, quorumOK, inFlight) ==
    LET replicas         == Listed(L) \ Labelled(L)
        replicasAtTarget == replicas \cap OldRev(L) = {}
        primaryAtTarget  == prim \notin OldRev(L)
        readyForHandoff  == /\ \A p \in replicas : L.phase[p] = "ready"
                            /\ Cardinality(replicas) = Replicas - 1
    IN  IF prim = NoPod THEN "Bootstrap"
        ELSE IF ~quorumOK THEN "Degraded"
        ELSE IF inFlight THEN "FailoverInFlight"
        ELSE IF primaryAtTarget /\ replicasAtTarget THEN "Steady"
        ELSE IF replicasAtTarget /\ readyForHandoff THEN "RolloutPrimary"
        ELSE "RolloutReplicas"

\* reconcilePodRollout: once every listed pod is Ready, the highest-ordinal pod at the
\* old revision that does not carry role=primary, under an observed quorum.
RolloutVictim(L, quorumOK) ==
    LET staleReplicas == OldRev(L) \ Labelled(L)
    IN  IF quorumOK /\ AllReady(L) /\ staleReplicas # {}
        THEN {p \in staleReplicas : \A q \in staleReplicas : q <= p}
        ELSE {NoPod}

-----------------------------------------------------------------------------
(***************************************************************************)
(* The reconcile pass.                                                     *)
(***************************************************************************)

\* A failing call uses up one of the faults the instance allows.
Fault == faults < MaxFaults /\ faults' = faults + 1 /\ UNCHANGED crashes

\* A patch of a pod fails also when there is no such pod.
Exists(p)     == pods.phase[p] # "absent"
PatchFails(p) == Fault \/ (~Exists(p) /\ UNCHANGED envVars)

NoPass ==
    /\ pc' = "idle" /\ vMarker' = NoDispatch /\ handoff' = FALSE /\ victim' = NoPod
    /\ want' = NoAddr /\ todo' = {} /\ disp' = NoDisp

\* Fetch the CR, list the pods and derive the state.  Phase 9 works on this list
\* and this quorum verdict, so its victim is fixed here.  A status patch between
\* the fetch and Phase 7 (stampSuspendedFrom) hands back the fresh marker.
ObserveRolloutState ==
    /\ pc = "idle"
    /\ LET quorumOK == snap.present /\ snap.ok
       IN  /\ \E prim \in LastLabelled(ListedPods) :
                 handoff' = (deriveState(ListedPods, prim, quorumOK, Active(latch))
                                = "RolloutPrimary")
           /\ victim' \in RolloutVictim(ListedPods, quorumOK)
    /\ latch' = Drained(latch)
    /\ vMarker' \in {FetchedMarker, marker}
    /\ pc' = IF vMarker' = NoDispatch THEN "desired" ELSE "maintain"
    /\ UNCHANGED <<apiVars, cacheVars, sentinelVars, frames, observerVars, stab, freshPoll,
                   want, todo, disp, envVars, section>>

\* Mutant: the marker is never dropped.
KeepFailoverDispatch == UNCHANGED <<marker, envVars>>

\* The patch is best effort.
clearFailoverDispatch ==
    \/ marker' = NoDispatch /\ UNCHANGED envVars
    \/ Fault /\ UNCHANGED marker

\* maintainFailoverDispatchMarker: rebuild an absent latch from a marker whose
\* deadline lies ahead; drop the marker once the latch does not hold.  The pass's
\* own copy is gone whether the patch succeeds or not.
MaintainMarker ==
    /\ pc = "maintain"
    /\ pc' = "desired"
    /\ LET l == IF latch = NoDispatch /\ vMarker.rem > 0 THEN vMarker ELSE latch
       IN  /\ latch' = Drained(l)
           /\ IF Active(l)
              THEN UNCHANGED <<marker, vMarker, envVars>>
              ELSE vMarker' = NoDispatch /\ clearFailoverDispatch
    /\ UNCHANGED <<pods, cacheVars, sentinelVars, frames, observerVars, stab, freshPoll,
                   handoff, victim, want, todo, disp, section>>

\* Phase 7 has nothing (more) to patch: go on to Phase 9, or past it.
LabelsDone ==
    /\ want' = NoAddr /\ todo' = {}
    /\ pc' = IF victim = NoPod THEN "dispatch" ELSE "rollout"

\* Mutant: demote first, stamp nobody.
AssignDemotingFirst(L, w) ==
    LET demote == {p \in Listed(L) \ {w} : L.role[p] # "replica"}
    IN  IF demote = {} THEN LabelsDone
        ELSE want' = AddrOf(L.gen, w) /\ todo' = demote /\ pc' = "demote"

\* The assignment: w primary and every other listed pod replica.  A pod that carries
\* its label in the listing is skipped.
Assign(L, w) ==
    LET demote == {p \in Listed(L) \ {w} : L.role[p] # "replica"}
        stamp  == w \in Listed(L) /\ L.role[w] # "primary"
    IN  IF ~stamp /\ demote = {} THEN LabelsDone
        ELSE /\ want' = AddrOf(L.gen, w)
             /\ todo' = demote
             /\ pc' = IF stamp THEN "promote" ELSE "demote"

\* Mutant: a poll that confirms the address is not counted.
ObserveOnce(addr) == IF stab.addr # addr THEN [addr |-> addr, polls |-> 1] ELSE stab

observePrimaryStability(addr) ==
    IF stab.addr # addr THEN [addr |-> addr, polls |-> 1]
    ELSE IF freshPoll /\ stab.polls < 2 THEN [stab EXCEPT !.polls = @ + 1]
    ELSE stab

\* Mutant: Phase 7 does not consult the latch.
RelabelAtWill == FALSE

\* A failover under way holds the labels as they are.
RelabelSuppressed == Active(latch)

\* desiredRolesForCR.  The code lists the pods just before MaintainMarker; a
\* listing older than the cache is the cache syncing later.
DesiredRoles ==
    /\ pc = "desired"
    /\ LET L == ListedPods
           matches == {p \in Listed(L) : AddrOf(L.gen, p) = snap.addr}
       IN  \/ /\ ~snap.present
              /\ IF \E p \in Pods : L.role[p] # "none" THEN LabelsDone ELSE Assign(L, 0)
              /\ UNCHANGED memoryVars
           \/ /\ snap.present /\ ~snap.ok
              /\ LabelsDone
              /\ UNCHANGED memoryVars
           \/ /\ snap.present /\ snap.ok
              /\ latch' = Drained(latch)
              /\ RelabelSuppressed \/ matches = {}
              /\ LabelsDone
              /\ UNCHANGED <<stab, freshPoll>>
           \/ /\ snap.present /\ snap.ok
              /\ latch' = Drained(latch)
              /\ ~RelabelSuppressed
              /\ stab' = observePrimaryStability(snap.addr)
              /\ freshPoll' = FALSE
              /\ \E m \in matches, current \in LastLabelled(L) :
                    IF current \notin {NoPod, m} /\ stab'.polls < 2
                    THEN LabelsDone
                    ELSE Assign(L, m)
    /\ UNCHANGED <<apiVars, cacheVars, sentinelVars, frames, observerVars,
                   vMarker, handoff, victim, disp, envVars, section>>

SetRole(p, r) == pods' = [pods EXCEPT !.role[p] = r]

\* reconcileRoleLabels, pass 1: the new primary is stamped first.  Patches go by
\* pod name; a failed one ends the reconcile.
StampPrimary ==
    /\ pc = "promote"
    /\ \/ /\ Exists(want[1]) /\ SetRole(want[1], "primary")
          /\ IF todo = {} THEN LabelsDone ELSE pc' = "demote" /\ UNCHANGED <<want, todo>>
          /\ UNCHANGED <<vMarker, handoff, victim, disp, envVars>>
       \/ PatchFails(want[1]) /\ NoPass /\ UNCHANGED pods
    /\ UNCHANGED <<marker, cacheVars, sentinelVars, frames, observerVars, memoryVars, section>>

\* Pass 2: the others become replicas.
StampReplica(p) ==
    /\ pc = "demote" /\ p \in todo
    /\ \/ /\ Exists(p) /\ SetRole(p, "replica")
          /\ IF todo = {p} THEN LabelsDone
             ELSE todo' = todo \ {p} /\ UNCHANGED <<pc, want>>
          /\ UNCHANGED <<vMarker, handoff, victim, disp, envVars>>
       \/ PatchFails(p) /\ NoPass /\ UNCHANGED pods
    /\ UNCHANGED <<marker, cacheVars, sentinelVars, frames, observerVars, memoryVars, section>>

\* Phase 9: delete the victim, by name and whatever became of it since the list; one
\* that is gone is not an error.
reconcilePodRollout ==
    /\ pc = "rollout"
    /\ \/ /\ pods' = IF Exists(victim) THEN [pods EXCEPT !.phase[victim] = "terminating"] ELSE pods
          /\ victim' = NoPod
          /\ pc' = "dispatch"
          /\ UNCHANGED <<vMarker, handoff, want, todo, disp, envVars>>
       \/ Fault /\ NoPass /\ UNCHANGED pods
    /\ UNCHANGED <<marker, cacheVars, sentinelVars, frames, observerVars, memoryVars, section>>

\* Phase 11 with no observer yet, or with one whose sentinel endpoints changed: Ensure
\* starts a new one, whose placeholder snapshot has no quorum.
EnsureObserver ==
    /\ pc = "dispatch"
    /\ IF snap.present THEN Fault ELSE UNCHANGED envVars
    /\ snap' = [NoSnapshot EXCEPT !.present = TRUE]
    /\ polling' = FALSE /\ poll' = NoPoll
    /\ frames' = [b \in Subs |-> <<>>]
    /\ NoPass
    /\ UNCHANGED <<apiVars, cacheVars, sentinelVars, memoryVars, section>>

\* runPrimaryRolloutDispatch up to the preflight.  The lag check over the
\* candidates may refuse them all.
DispatchPreflight ==
    /\ pc = "dispatch" /\ snap.present
    /\ IF handoff /\ snap.ok /\ ~snapshotStale
       THEN /\ latch' = Drained(latch)
            /\ \E primary \in LastLabelled(ListedPods) :
                  LET candidates == {p \in Pods \ Labelled(ListedPods) :
                                        ListedPods.phase[p] = "ready"}
                  IN  IF Active(latch) \/ primary = NoPod \/ candidates = {}
                      THEN NoPass /\ UNCHANGED envVars
                      ELSE \/ /\ disp' = [pod |-> primary, addr |-> snap.addr, epoch |-> snap.epoch]
                              /\ pc' = "persist"
                              /\ UNCHANGED <<vMarker, handoff, victim, want, todo, envVars>>
                           \/ Fault /\ NoPass
       ELSE NoPass /\ UNCHANGED <<latch, envVars>>
    /\ UNCHANGED <<apiVars, cacheVars, sentinelVars, frames, observerVars, stab, freshPoll,
                   section>>

\* Mutant: a patch that is acknowledged and lost.
MergePatchLost(stored, orig, new) == stored

\* A merge patch sends only the fields in which new differs from the copy orig;
\* a deadline reckoned from the present differs from any earlier one.
MergePatch(stored, orig, new) ==
    [addr  |-> IF orig # NoDispatch /\ orig.addr = new.addr THEN stored.addr ELSE new.addr,
     epoch |-> IF orig # NoDispatch /\ orig.epoch = new.epoch THEN stored.epoch ELSE new.epoch,
     rem   |-> new.rem]

\* persistFailoverDispatch, then the latch with the same deadline and fence.
PersistDispatch ==
    /\ pc = "persist"
    /\ LET d == [addr |-> disp.addr, epoch |-> disp.epoch, rem |-> LatchTTL]
       IN  \/ /\ marker' = MergePatch(marker, vMarker, d)
              /\ vMarker' = marker'
              /\ latch' = d
              /\ pc' = "strip"
              /\ UNCHANGED <<handoff, victim, want, todo, disp, envVars>>
           \/ Fault /\ NoPass /\ UNCHANGED <<marker, latch>>
    /\ UNCHANGED <<pods, cacheVars, sentinelVars, frames, observerVars, stab, freshPoll,
                   section>>

\* stripPrimaryLabel.  When it fails the latch and the marker are dropped again,
\* the marker by a patch that may fail too.
StripPrimary ==
    /\ pc = "strip"
    /\ \/ /\ Exists(disp.pod) /\ SetRole(disp.pod, "none")
          /\ pc' = "failover"
          /\ UNCHANGED <<marker, latch, passVars, envVars>>
       \/ /\ \/ Fault /\ marker' \in {NoDispatch, marker}
             \/ ~Exists(disp.pod) /\ clearFailoverDispatch
          /\ latch' = NoDispatch
          /\ NoPass
          /\ UNCHANGED pods
    /\ UNCHANGED <<cacheVars, sentinelVars, frames, observerVars, stab, freshPoll, section>>

\* IssueFailover.  An error may hide a request a sentinel did accept.
IssueFailover ==
    /\ pc = "failover"
    /\ \/ /\ election' = TRUE
          /\ section' = IF latch.rem > 0 /\ Observed.addr \in {NoAddr, disp.addr}
                        THEN [addr |-> disp.addr, rem |-> latch.rem] ELSE NoSection
          /\ NoPass
          /\ UNCHANGED envVars
       \/ /\ Fault
          /\ election' \in {election, TRUE}
          /\ pc' = "rollback"
          /\ UNCHANGED <<passVars, section>>
    /\ UNCHANGED <<apiVars, cacheVars, master, epoch, frames, observerVars, memoryVars>>

\* The roll-back: restorePrimaryLabel, whose failure is only logged ...
RestorePrimary ==
    /\ pc = "rollback"
    /\ pc' = "unmark"
    /\ \/ Exists(disp.pod) /\ SetRole(disp.pod, "primary") /\ UNCHANGED envVars
       \/ PatchFails(disp.pod) /\ UNCHANGED pods
    /\ UNCHANGED <<marker, cacheVars, sentinelVars, frames, observerVars, memoryVars,
                   passVars, section>>

\* ... then clearFailoverDispatch, best effort, and the cool-down latch.
ClearAndCoolDown ==
    /\ pc = "unmark"
    /\ clearFailoverDispatch
    /\ latch' = [addr |-> disp.addr, epoch |-> 0, rem |-> CooldownTTL]
    /\ NoPass
    /\ UNCHANGED <<pods, cacheVars, sentinelVars, frames, observerVars, stab, freshPoll,
                   section>>

Pass ==
    \/ ObserveRolloutState \/ MaintainMarker \/ DesiredRoles
    \/ StampPrimary \/ (\E p \in Pods : StampReplica(p)) \/ reconcilePodRollout
    \/ EnsureObserver \/ DispatchPreflight \/ PersistDispatch \/ StripPrimary
    \/ IssueFailover \/ RestorePrimary \/ ClearAndCoolDown

-----------------------------------------------------------------------------
(***************************************************************************)
(* The observer.                                                           *)
(***************************************************************************)

\* The section ends when the published address moves off the pre-strip one.
SectionUnder(addr) ==
    IF section.addr # NoAddr /\ addr \notin {NoAddr, section.addr} THEN NoSection ELSE section

\* pollOnce queries the sentinels outside the lock.  The epoch is best effort.
PollRead ==
    /\ snap.present /\ ~polling
    /\ polling' = TRUE
    /\ \/ poll' = [ok |-> TRUE, addr |-> master, epoch |-> epoch] /\ UNCHANGED envVars
       \/ poll' \in {NoPoll, [ok |-> TRUE, addr |-> master, epoch |-> 0]} /\ Fault
    /\ UNCHANGED <<apiVars, cacheVars, sentinelVars, frames, snap, memoryVars, pc, passVars,
                   section>>

\* ... and publishes later: a poll without quorum keeps the address, and the
\* epoch never goes down.
PollPublish ==
    /\ polling
    /\ snap' = [present |-> TRUE, ok |-> poll.ok,
                addr    |-> IF poll.ok THEN poll.addr ELSE snap.addr,
                epoch   |-> IF poll.epoch > snap.epoch THEN poll.epoch ELSE snap.epoch,
                age     |-> 0]
    /\ polling' = FALSE /\ poll' = NoPoll
    /\ freshPoll' = TRUE
    /\ section' = SectionUnder(snap'.addr)
    /\ UNCHANGED <<apiVars, cacheVars, sentinelVars, frames, latch, stab, pc, passVars,
                   envVars>>

\* dispatch: a +switch-master is applied when it chains from the current address and
\* dropped otherwise, a +failover-end is applied; quorum, epoch and poll time stay.
DeliverFrame(b) ==
    /\ snap.present /\ frames[b] # <<>>
    /\ frames' = [frames EXCEPT ![b] = Tail(@)]
    /\ snap' = IF snap.addr = NoAddr \/ Head(frames[b]).old \in {NoAddr, snap.addr}
               THEN [snap EXCEPT !.addr = Head(frames[b]).new] ELSE snap
    /\ section' = SectionUnder(snap'.addr)
    /\ UNCHANGED <<apiVars, cacheVars, sentinelVars, polling, poll, memoryVars, pc, passVars,
                   envVars>>

\* A subscription that drops loses what it has not delivered.
LoseFrames(b) ==
    /\ frames[b] # <<>> /\ Fault
    /\ frames' = [frames EXCEPT ![b] = <<>>]
    /\ UNCHANGED <<apiVars, cacheVars, sentinelVars, observerVars, memoryVars, pc, passVars,
                   section>>

-----------------------------------------------------------------------------
(***************************************************************************)
(* Sentinels, StatefulSet controller, cache, time and the process.         *)
(***************************************************************************)

MasterAlive == \E p \in Pods : master = AddrOf(pods.gen, p) /\ pods.phase[p] = "ready"

\* A failover completes: every live subscription will carry the switch, the leader's
\* the end of the failover before it (the switch then changes nothing).
Elect(q) ==
    /\ epoch < MaxEpoch
    /\ election \/ ~MasterAlive \/ SpontaneousFailover
    /\ pods.phase[q] = "ready" /\ AddrOf(pods.gen, q) # master
    /\ master' = AddrOf(pods.gen, q)
    /\ epoch' = epoch + 1
    /\ election' = FALSE
    /\ \E leader \in {{}} \cup {{b} : b \in Subs} :
          frames' = IF snap.present
                    THEN [b \in Subs |->
                            Append(frames[b], [old |-> IF b \in leader THEN NoAddr ELSE master,
                                               new |-> master'])]
                    ELSE frames
    /\ UNCHANGED <<apiVars, cacheVars, observerVars, memoryVars, pc, passVars, envVars,
                   section>>

\* A failover the operator asked for is given up.
ElectionFails ==
    /\ election /\ Fault
    /\ election' = FALSE
    /\ UNCHANGED <<apiVars, cacheVars, master, epoch, frames, observerVars, memoryVars, pc,
                   passVars, section>>

\* A deleted pod goes ...
Vanish(p) ==
    /\ pods.phase[p] = "terminating" /\ pods.gen[p] < MaxGen
    /\ pods' = [role  |-> [pods.role EXCEPT ![p] = "none"],
                gen   |-> [pods.gen EXCEPT ![p] = @ + 1],
                phase |-> [pods.phase EXCEPT ![p] = "absent"]]
    /\ UNCHANGED <<marker, cacheVars, sentinelVars, frames, observerVars, memoryVars, pc,
                   passVars, envVars, section>>

\* ... and comes back later, unlabelled, with a new address, at the new revision.
Recreate(p) ==
    /\ pods.phase[p] = "absent"
    /\ pods' = [pods EXCEPT !.phase[p] = "starting"]
    /\ UNCHANGED <<marker, cacheVars, sentinelVars, frames, observerVars, memoryVars, pc,
                   passVars, envVars, section>>

PodReady(p) ==
    /\ pods.phase[p] = "starting"
    /\ pods' = [pods EXCEPT !.phase[p] = "ready"]
    /\ UNCHANGED <<marker, cacheVars, sentinelVars, frames, observerVars, memoryVars, pc,
                   passVars, envVars, section>>

\* An eviction or a node loss takes a pod away.
PodFails(p) ==
    /\ pods.phase[p] \in {"ready", "starting"} /\ Fault
    /\ pods' = [pods EXCEPT !.phase[p] = "terminating"]
    /\ UNCHANGED <<marker, cacheVars, sentinelVars, frames, observerVars, memoryVars, pc,
                   passVars, section>>

CacheSyncPods ==
    /\ "pods" \in LaggingCaches /\ podCache # pods
    /\ podCache' = pods
    /\ UNCHANGED <<apiVars, crCache, sentinelVars, frames, observerVars, memoryVars, pc,
                   passVars, envVars, section>>

CacheSyncCR ==
    /\ "cr" \in LaggingCaches /\ crCache # marker
    /\ crCache' = marker
    /\ UNCHANGED <<apiVars, podCache, sentinelVars, frames, observerVars, memoryVars, pc,
                   passVars, envVars, section>>

\* Time passes.  The caches trail the API server by less than a tick, and a
\* running observer publishes a poll every MaxSnapshotAge ticks unless it is stuck.
Down(d) == IF d.rem >= 0 THEN [d EXCEPT !.rem = @ - 1] ELSE d

Tick ==
    /\ ListedPods = pods /\ FetchedMarker = marker
    /\ marker' = Down(marker) /\ crCache' = Down(crCache)
    /\ latch' = Down(latch) /\ vMarker' = Down(vMarker)
    /\ section' = IF section.rem > 1 THEN Down(section) ELSE NoSection
    /\ snap' = IF snap.age <= MaxSnapshotAge THEN [snap EXCEPT !.age = @ + 1] ELSE snap
    /\ <<marker, crCache, latch, vMarker, snap>> # <<marker, crCache, latch, vMarker, snap>>'
    /\ IF snap.age = MaxSnapshotAge THEN Fault ELSE UNCHANGED envVars
    /\ UNCHANGED <<pods, podCache, sentinelVars, frames, polling, poll, stab, freshPoll, pc,
                   handoff, victim, want, todo, disp>>

\* The process dies and a new one starts with freshly listed caches.
Crash ==
    /\ crashes < MaxCrashes /\ crashes' = crashes + 1 /\ UNCHANGED faults
    /\ podCache' = IF "pods" \in LaggingCaches THEN pods ELSE podCache
    /\ crCache' = IF "cr" \in LaggingCaches THEN marker ELSE crCache
    /\ snap' = NoSnapshot /\ polling' = FALSE /\ poll' = NoPoll
    /\ frames' = [b \in Subs |-> <<>>]
    /\ latch' = NoDispatch /\ stab' = [addr |-> NoAddr, polls |-> 0] /\ freshPoll' = FALSE
    /\ NoPass
    /\ UNCHANGED <<apiVars, sentinelVars, section>>

Observer == PollRead \/ PollPublish \/ (\E b \in Subs : DeliverFrame(b) \/ LoseFrames(b))

Environment ==
    \/ \E p \in Pods : Elect(p) \/ Vanish(p) \/ Recreate(p) \/ PodReady(p) \/ PodFails(p)
    \/ ElectionFails \/ CacheSyncPods \/ CacheSyncCR \/ Tick \/ Crash

Next == Pass \/ Observer \/ Environment

Spec == Init /\ [][Next]_vars

\* Reconciles are requeued, polls and the clock tick, caches sync, the
\* StatefulSet controller replaces pods, subscriptions deliver, and a failover
\* that was accepted, or is due because the master is gone, completes.
Fairness ==
    /\ WF_vars(Pass) /\ WF_vars(PollRead) /\ WF_vars(PollPublish) /\ WF_vars(Tick)
    /\ WF_vars(CacheSyncPods) /\ WF_vars(CacheSyncCR)
    /\ \A b \in Subs : WF_vars(DeliverFrame(b))
    /\ \A p \in Pods : WF_vars(Vanish(p)) /\ WF_vars(Recreate(p)) /\ WF_vars(PodReady(p))
    /\ WF_vars((election \/ ~MasterAlive) /\ \E q \in Pods : Elect(q))

FairSpec == Spec /\ Fairness

-----------------------------------------------------------------------------
(***************************************************************************)
(* Properties.                                                             *)
(***************************************************************************)
SectionOpen == section.addr # NoAddr

\* While an accepted failover is under way the CR status holds the intent it was
\* dispatched under, with the section's own deadline, and the latch of a process
\* that never died says the same (persistFailoverDispatch before the strip;
\* maintainFailoverDispatchMarker drops neither early).
DurableSection ==
    SectionOpen => /\ marker.addr = section.addr
                   /\ marker.rem = section.rem
                   /\ latch # NoDispatch => latch = marker

\* While the section stays open no pod gains role=primary, also not after the
\* operator restarted and has only the marker left (desiredRolesForCR).  The
\* bootstrap rule, which runs when no pod carries a role, is outside it.
WindowHeld ==
    [][SectionOpen /\ SectionOpen' /\ (\E p \in Pods : ListedPods.role[p] # "none")
          => Labelled(pods') \subseteq Labelled(pods)]_vars

\* Phase 7 stamps before it demotes: only the dispatcher's strip and the loss of a
\* pod leave the primary Service without an endpoint, never a demotion, unless the
\* pod it chose was replaced while it worked.
SelectorKept ==
    [][Labelled(pods) # {} /\ Labelled(pods') = {} /\ pc = "demote" /\ pods'.gen = pods.gen
          => AddrOf(pods.gen, want[1]) # want]_vars

\* SENTINEL FAILOVER is issued over a complete set: as long as nothing else fails, every
\* pod but one exists, is Ready and runs the new revision, although the pass decided so on
\* its first list and Phase 9 may have taken down several replicas before
\* (ReplicasReadyForHandoff counts the replicas: one that is gone is in no list).
HandoverComplete ==
    faults = 0 /\ pc = "failover" =>
        \E p \in Pods : \A q \in Pods \ {p} : pods.phase[q] = "ready" /\ pods.gen[q] > 0

\* The durable marker does not outlive its failover.
MarkerDrains == marker # NoDispatch ~> marker = NoDispatch

\* The rolling update ends: every pod runs the new revision and is Ready, and the
\* primary Service selects exactly the sentinels' master.
RolloutFinishes ==
    <>[](/\ \A p \in Pods : pods.gen[p] > 0 /\ pods.phase[p] = "ready"
         /\ Labelled(pods) = {master[1]} /\ MasterAlive)
=============================================================================
