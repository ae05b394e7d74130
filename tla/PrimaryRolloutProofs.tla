------------------------ MODULE PrimaryRolloutProofs ------------------------
(***************************************************************************)
(* Proofs about PrimaryRollout, for every value of its constants.          *)
(***************************************************************************)
EXTENDS PrimaryRollout, SequenceTheorems, TLAPS

LEMMA ConstantTypes ==
    /\ NoPod \notin Pods
    /\ NoDispatch \in Dispatches /\ NoSnapshot \in Snapshots /\ NoPoll \in PollResults
    /\ NoSection \in [addr : Addrs \cup {NoAddr}, rem : -1 .. LatchTTL]
    /\ NoDisp \in [pod : Pods \cup {NoPod}, addr : Addrs \cup {NoAddr}, epoch : 0 .. MaxEpoch]
  BY RolloutAssumption DEF NoPod, Pods, NoDispatch, Dispatches, NoSnapshot, Snapshots, NoPoll,
     PollResults, NoSection, NoDisp

LEMMA InitTypeOK == Init => TypeOK
  <1> SUFFICES ASSUME Init PROVE TypeOK
    OBVIOUS
  <1>1. PICK m \in Pods :
           /\ pods = [role  |-> [p \in Pods |-> IF p = m THEN "primary" ELSE "replica"],
                      gen   |-> [p \in Pods |-> 0],
                      phase |-> [p \in Pods |-> "ready"]]
           /\ master = <<m, 0>>
    BY Zenon DEF Init
  <1>2. pods \in PodLists
    BY <1>1, RolloutAssumption DEF PodLists, Roles
  <1>3. master \in Addrs
    BY <1>1, RolloutAssumption DEF Addrs
  <1>4. frames \in [Subs -> Seq(Frames)]
    BY DEF Init
  <1>5. /\ epoch \in 0 .. MaxEpoch /\ crashes \in 0 .. MaxCrashes /\ faults \in 0 .. MaxFaults
        /\ stab \in [addr : Addrs \cup {NoAddr}, polls : 0 .. 2]
    BY RolloutAssumption DEF Init
  <1> QED
    BY Zenon, <1>2, <1>3, <1>4, <1>5, ConstantTypes DEF Init, TypeOK, Steps

\* Values an action stores keep their type.
LEMMA DrainedType == ASSUME NEW l \in Dispatches PROVE Drained(l) \in Dispatches
  BY Zenon, ConstantTypes DEF Drained

LEMMA DownType == ASSUME NEW l \in Dispatches PROVE Down(l) \in Dispatches
  BY RolloutAssumption DEF Down, Dispatches

LEMMA ListedType == TypeOK => ListedPods \in PodLists /\ FetchedMarker \in Dispatches
  BY Zenon DEF TypeOK, ListedPods, FetchedMarker

LEMMA SetRoleType ==
    ASSUME TypeOK, NEW p, NEW r \in Roles, SetRole(p, r) PROVE pods' \in PodLists
  BY Zenon DEF SetRole, TypeOK, PodLists

LEMMA SetPhaseType ==
    ASSUME TypeOK, NEW p, NEW ph \in {"ready", "terminating", "absent", "starting"},
           pods' = [pods EXCEPT !.phase[p] = ph]
    PROVE  pods' \in PodLists
  BY Zenon DEF TypeOK, PodLists

LEMMA NoPassType ==
    ASSUME NoPass
    PROVE  /\ pc' \in Steps /\ vMarker' \in Dispatches /\ handoff' \in BOOLEAN
           /\ victim' \in Pods \cup {NoPod} /\ want' \in Addrs \cup {NoAddr}
           /\ todo' \in SUBSET Pods
           /\ disp' \in [pod : Pods \cup {NoPod}, addr : Addrs \cup {NoAddr}, epoch : 0 .. MaxEpoch]
  BY Zenon, ConstantTypes DEF NoPass, Steps

LEMMA FaultType ==
    ASSUME TypeOK, Fault PROVE crashes' \in 0 .. MaxCrashes /\ faults' \in 0 .. MaxFaults
  BY RolloutAssumption DEF TypeOK, Fault

LEMMA PatchFailsType ==
    ASSUME TypeOK, NEW p, PatchFails(p)
    PROVE  crashes' \in 0 .. MaxCrashes /\ faults' \in 0 .. MaxFaults
  BY Zenon, FaultType DEF TypeOK, PatchFails, envVars

LEMMA LabelsDoneType ==
    ASSUME LabelsDone
    PROVE  pc' \in Steps /\ want' \in Addrs \cup {NoAddr} /\ todo' \in SUBSET Pods
  BY Zenon DEF LabelsDone, Steps

LEMMA AssignType ==
    ASSUME NEW L \in PodLists, NEW w \in Pods, Assign(L, w)
    PROVE  pc' \in Steps /\ want' \in Addrs \cup {NoAddr} /\ todo' \in SUBSET Pods
  BY LabelsDoneType DEF Assign, Listed, Steps, AddrOf, Addrs, PodLists

LEMMA AddrOfType ==
    ASSUME NEW L \in PodLists, NEW p \in Pods PROVE AddrOf(L.gen, p) \in Addrs
  BY Zenon DEF AddrOf, Addrs, PodLists

LEMMA LastLabelledType ==
    ASSUME NEW L, NEW p \in LastLabelled(L) PROVE p \in Pods \cup {NoPod}
  BY Zenon DEF LastLabelled, Labelled

LEMMA MergePatchType ==
    ASSUME NEW stored \in Dispatches, NEW orig, NEW new \in Dispatches
    PROVE  MergePatch(stored, orig, new) \in Dispatches
  BY Zenon DEF MergePatch, Dispatches

LEMMA FramesType ==
    ASSUME TypeOK, NEW b \in Subs, frames[b] # <<>>
    PROVE  Tail(frames[b]) \in Seq(Frames)
           /\ Head(frames[b]) \in Frames
  BY Zenon, HeadTailProperties DEF TypeOK

LEMMA FrameUpdateType ==
    ASSUME NEW S, NEW f \in [Subs -> Seq(S)]
    PROVE  /\ \A b \in Subs : [f EXCEPT ![b] = <<>>] \in [Subs -> Seq(S)]
           /\ \A g \in [Subs -> S] : [b \in Subs |-> Append(f[b], g[b])] \in [Subs -> Seq(S)]
  BY Zenon, AppendProperties, EmptySeq

LEMMA SectionUnderType ==
    ASSUME TypeOK, NEW a
    PROVE  SectionUnder(a) \in [addr : Addrs \cup {NoAddr}, rem : -1 .. LatchTTL]
  BY Zenon, ConstantTypes DEF SectionUnder, TypeOK

-----------------------------------------------------------------------------
(***************************************************************************)
(* Type correctness.                                                       *)
(***************************************************************************)
LEMMA PassTypeOK == TypeOK /\ Pass => TypeOK'
  <1> SUFFICES ASSUME TypeOK, Pass PROVE TypeOK'
    OBVIOUS
  <1> USE DEF apiVars, cacheVars, sentinelVars, observerVars, memoryVars, passVars, envVars
  <1>1. CASE ObserveRolloutState
    <2>1. latch' \in Dispatches
      BY Zenon, <1>1, DrainedType DEF ObserveRolloutState, TypeOK
    <2>2. vMarker' \in Dispatches
      BY Zenon, <1>1, ListedType DEF ObserveRolloutState, TypeOK
    <2>3. pc' \in Steps /\ handoff' \in BOOLEAN
      BY Zenon, <1>1 DEF ObserveRolloutState, Steps
    <2>4. victim' \in Pods \cup {NoPod}
      BY Zenon, <1>1 DEF ObserveRolloutState, RolloutVictim, OldRev
    <2> QED
      BY Zenon, <1>1, <2>1, <2>2, <2>3, <2>4 DEF ObserveRolloutState, TypeOK
  <1>2. CASE MaintainMarker
    <2>1. latch' \in Dispatches
      BY Zenon, <1>2, DrainedType DEF MaintainMarker, TypeOK
    <2>2. vMarker' \in Dispatches
      BY Zenon, <1>2, ConstantTypes DEF MaintainMarker, TypeOK
    <2>3. /\ marker' \in Dispatches
          /\ crashes' \in 0 .. MaxCrashes /\ faults' \in 0 .. MaxFaults
      BY Zenon, <1>2, FaultType, ConstantTypes DEF MaintainMarker, clearFailoverDispatch, TypeOK
    <2> QED
      BY ZenonT(40), <1>2, <2>1, <2>2, <2>3 DEF MaintainMarker, TypeOK, Steps
  <1>3. CASE DesiredRoles
    <2>1. latch' \in Dispatches
      BY ZenonT(40), <1>3, DrainedType DEF DesiredRoles, TypeOK
    <2>2. freshPoll' \in BOOLEAN
      BY Zenon, <1>3 DEF DesiredRoles, TypeOK
    <2>3. stab' \in [addr : Addrs \cup {NoAddr}, polls : 0 .. 2]
      BY SMTT(30), <1>3 DEF DesiredRoles, TypeOK, observePrimaryStability, Snapshots
    <2>4. pc' \in Steps /\ want' \in Addrs \cup {NoAddr} /\ todo' \in SUBSET Pods
      <3>1. 0 \in Pods
        BY RolloutAssumption DEF Pods
      <3> QED
        BY Zenon, <1>3, <3>1, ListedType, LabelsDoneType, AssignType DEF DesiredRoles, Listed
    <2> QED
      BY ZenonT(40), <1>3, <2>1, <2>2, <2>3, <2>4 DEF DesiredRoles, TypeOK
  <1>4. CASE StampPrimary
    <2>1. pods' \in PodLists
      BY Zenon, <1>4, SetRoleType DEF StampPrimary, TypeOK, Roles
    <2>2. CASE ~PatchFails(want[1])
      BY ZenonT(40), <1>4, <2>1, <2>2, LabelsDoneType DEF StampPrimary, TypeOK, Steps
    <2>3. CASE PatchFails(want[1])
      BY ZenonT(40), <1>4, <2>1, <2>3, PatchFailsType, NoPassType, LabelsDoneType
         DEF StampPrimary, TypeOK, Steps
    <2> QED
      BY Zenon, <2>2, <2>3
  <1>5. ASSUME NEW p \in Pods, StampReplica(p) PROVE TypeOK'
    <2>1. pods' \in PodLists
      BY Zenon, <1>5, SetRoleType DEF StampReplica, TypeOK, Roles
    <2>2. todo \ {p} \in SUBSET Pods
      BY Zenon DEF TypeOK
    <2>3. CASE ~PatchFails(p)
      BY ZenonT(40), <1>5, <2>1, <2>2, <2>3, LabelsDoneType DEF StampReplica, TypeOK, Steps
    <2>4. CASE PatchFails(p)
      BY ZenonT(40), <1>5, <2>1, <2>2, <2>4, PatchFailsType, NoPassType, LabelsDoneType
         DEF StampReplica, TypeOK, Steps
    <2> QED
      BY Zenon, <2>3, <2>4
  <1>6. CASE reconcilePodRollout
    <2>1. pods' \in PodLists
      BY Zenon, <1>6, SetPhaseType DEF reconcilePodRollout, TypeOK
    <2>2. CASE ~Fault
      BY Zenon, <1>6, <2>1, <2>2 DEF reconcilePodRollout, TypeOK, Steps
    <2>3. CASE Fault
      BY ZenonT(40), <1>6, <2>1, <2>3, FaultType, NoPassType DEF reconcilePodRollout, TypeOK, Steps
    <2> QED
      BY <2>2, <2>3
  <1>7. CASE EnsureObserver
    <2>1. snap' \in Snapshots
      BY Zenon, <1>7, ConstantTypes DEF EnsureObserver, Snapshots
    <2>2. crashes' \in 0 .. MaxCrashes /\ faults' \in 0 .. MaxFaults
      BY Zenon, <1>7, FaultType DEF EnsureObserver, TypeOK
    <2>3. frames' \in [Subs -> Seq(Frames)] /\ polling' \in BOOLEAN /\ poll' \in PollResults
      BY Zenon, <1>7, EmptySeq, ConstantTypes DEF EnsureObserver
    <2>4. /\ UNCHANGED <<apiVars, cacheVars, sentinelVars, memoryVars, section>>
          /\ NoPass
      BY Zenon, <1>7 DEF EnsureObserver
    <2> QED
      BY Zenon, <2>1, <2>2, <2>3, <2>4, NoPassType DEF TypeOK
  <1>8. CASE DispatchPreflight
    <2>1. latch' \in Dispatches
      BY <1>8, DrainedType DEF DispatchPreflight, TypeOK
    <2>2. crashes' \in 0 .. MaxCrashes /\ faults' \in 0 .. MaxFaults
      BY Zenon, <1>8, FaultType DEF DispatchPreflight, TypeOK
    <2>3. CASE NoPass
      BY ZenonT(40), <1>8, <2>1, <2>2, <2>3, NoPassType DEF DispatchPreflight, TypeOK
    <2>4. CASE ~NoPass
      <3>1. PICK primary \in LastLabelled(ListedPods) :
               /\ disp' = [pod |-> primary, addr |-> snap.addr, epoch |-> snap.epoch]
               /\ pc' = "persist"
               /\ UNCHANGED <<vMarker, handoff, victim, want, todo, envVars>>
        BY Zenon, <1>8, <2>4 DEF DispatchPreflight
      <3>2. disp' \in [pod : Pods \cup {NoPod}, addr : Addrs \cup {NoAddr}, epoch : 0 .. MaxEpoch]
        BY Zenon, <3>1, LastLabelledType DEF TypeOK, Snapshots
      <3> QED
        BY ZenonT(40), <1>8, <2>1, <2>2, <3>1, <3>2 DEF DispatchPreflight, TypeOK, Steps
    <2> QED
      BY Zenon, <2>3, <2>4
  <1>9. CASE PersistDispatch
    <2> DEFINE d == [addr |-> disp.addr, epoch |-> disp.epoch, rem |-> LatchTTL]
    <2>1. d \in Dispatches
      BY RolloutAssumption DEF TypeOK, Dispatches
    <2>2. MergePatch(marker, vMarker, d) \in Dispatches
      BY ZenonT(40), <2>1, MergePatchType DEF TypeOK
    <2> HIDE DEF d
    <2>3. CASE Fault /\ NoPass /\ UNCHANGED <<marker, latch>>
      BY ZenonT(40), <1>9, <2>3, FaultType, NoPassType DEF PersistDispatch, TypeOK
    <2>4. CASE /\ marker' = MergePatch(marker, vMarker, d) /\ vMarker' = marker'
               /\ latch' = d /\ pc' = "strip"
               /\ UNCHANGED <<handoff, victim, want, todo, disp, envVars>>
      BY ZenonT(40), <1>9, <2>1, <2>2, <2>4 DEF PersistDispatch, TypeOK, Steps
    <2> QED
      BY ZenonT(40), <1>9, <2>3, <2>4 DEF PersistDispatch, d
  <1>10. CASE StripPrimary
    <2>1. pods' \in PodLists
      BY Zenon, <1>10, SetRoleType DEF StripPrimary, TypeOK, Roles
    <2>2. CASE ~NoPass
      BY ZenonT(40), <1>10, <2>1, <2>2 DEF StripPrimary, TypeOK, Steps
    <2>3. CASE NoPass
      <3>1. /\ marker' \in Dispatches /\ latch' \in Dispatches
            /\ crashes' \in 0 .. MaxCrashes /\ faults' \in 0 .. MaxFaults
        BY Zenon, <1>10, FaultType, ConstantTypes DEF StripPrimary, clearFailoverDispatch, TypeOK
      <3> QED
        BY ZenonT(40), <1>10, <2>1, <2>3, <3>1, NoPassType DEF StripPrimary, TypeOK
    <2> QED
      BY <2>2, <2>3
  <1>11. CASE IssueFailover
    <2>1. section' \in [addr : Addrs \cup {NoAddr}, rem : -1 .. LatchTTL]
      <3>1. [addr |-> disp.addr, rem |-> latch.rem]
               \in [addr : Addrs \cup {NoAddr}, rem : -1 .. LatchTTL]
        BY Zenon DEF TypeOK, Dispatches
      <3> QED
        BY Zenon, <1>11, <3>1, ConstantTypes DEF IssueFailover, TypeOK
    <2>2. election' \in BOOLEAN
      BY Zenon, <1>11 DEF IssueFailover, TypeOK
    <2>3. crashes' \in 0 .. MaxCrashes /\ faults' \in 0 .. MaxFaults
      BY Zenon, <1>11, FaultType DEF IssueFailover, TypeOK
    <2> QED
      BY ZenonT(40), <1>11, <2>1, <2>2, <2>3, NoPassType DEF IssueFailover, TypeOK, Steps
  <1>12. CASE RestorePrimary
    <2>1. pods' \in PodLists
      BY Zenon, <1>12, SetRoleType DEF RestorePrimary, TypeOK, Roles
    <2>2. crashes' \in 0 .. MaxCrashes /\ faults' \in 0 .. MaxFaults
      BY Zenon, <1>12, PatchFailsType DEF RestorePrimary, TypeOK
    <2> QED
      BY ZenonT(40), <1>12, <2>1, <2>2 DEF RestorePrimary, TypeOK, Steps
  <1>13. CASE ClearAndCoolDown
    <2>1. latch' \in Dispatches
      BY <1>13, RolloutAssumption DEF ClearAndCoolDown, TypeOK, Dispatches
    <2>2. /\ marker' \in Dispatches
          /\ crashes' \in 0 .. MaxCrashes /\ faults' \in 0 .. MaxFaults
      BY Zenon, <1>13, FaultType, ConstantTypes DEF ClearAndCoolDown, clearFailoverDispatch, TypeOK
    <2> QED
      BY Zenon, <1>13, <2>1, <2>2, NoPassType DEF ClearAndCoolDown, TypeOK
  <1> QED
    BY ZenonT(40), <1>1, <1>2, <1>3, <1>4, <1>5, <1>6, <1>7, <1>8, <1>9, <1>10, <1>11, <1>12, <1>13
       DEF Pass

LEMMA ObserverTypeOK == TypeOK /\ Observer => TypeOK'
  <1> SUFFICES ASSUME TypeOK, Observer PROVE TypeOK'
    OBVIOUS
  <1> USE DEF apiVars, cacheVars, sentinelVars, observerVars, memoryVars, passVars, envVars
  <1>1. CASE PollRead
    <2>1. poll' \in PollResults
      <3>1. \A e \in 0 .. MaxEpoch : [ok |-> TRUE, addr |-> master, epoch |-> e] \in PollResults
        BY Zenon DEF TypeOK, PollResults
      <3>2. epoch \in 0 .. MaxEpoch /\ 0 \in 0 .. MaxEpoch
        BY RolloutAssumption DEF TypeOK
      <3> QED
        BY Zenon, <1>1, <3>1, <3>2, ConstantTypes DEF PollRead
    <2>2. crashes' \in 0 .. MaxCrashes /\ faults' \in 0 .. MaxFaults
      BY Zenon, <1>1, FaultType DEF PollRead, TypeOK
    <2> QED
      BY ZenonT(40), <1>1, <2>1, <2>2 DEF PollRead, TypeOK
  <1>2. CASE PollPublish
    <2>1. snap' \in Snapshots
      BY <1>2, RolloutAssumption DEF PollPublish, TypeOK, Snapshots, PollResults
    <2>2. section' \in [addr : Addrs \cup {NoAddr}, rem : -1 .. LatchTTL]
      BY Zenon, <1>2, SectionUnderType DEF PollPublish
    <2> QED
      BY ZenonT(40), <1>2, <2>1, <2>2, ConstantTypes DEF PollPublish, TypeOK
  <1>3. ASSUME NEW b \in Subs, DeliverFrame(b) PROVE TypeOK'
    <2>1. frames' \in [Subs -> Seq(Frames)]
      BY Zenon, <1>3, FramesType DEF DeliverFrame, TypeOK
    <2>2. snap' \in Snapshots
      <3>1. Head(frames[b]).new \in Addrs
        BY Zenon, <1>3, FramesType DEF DeliverFrame, Frames
      <3> QED
        BY Zenon, <1>3, <3>1 DEF DeliverFrame, TypeOK, Snapshots
    <2>3. section' \in [addr : Addrs \cup {NoAddr}, rem : -1 .. LatchTTL]
      BY Zenon, <1>3, SectionUnderType DEF DeliverFrame
    <2> QED
      BY ZenonT(40), <1>3, <2>1, <2>2, <2>3 DEF DeliverFrame, TypeOK
  <1>4. ASSUME NEW b \in Subs, LoseFrames(b) PROVE TypeOK'
    <2>1. frames' \in [Subs -> Seq(Frames)]
      BY Zenon, <1>4, FrameUpdateType DEF LoseFrames, TypeOK
    <2>2. crashes' \in 0 .. MaxCrashes /\ faults' \in 0 .. MaxFaults
      BY Zenon, <1>4, FaultType DEF LoseFrames
    <2> QED
      BY ZenonT(40), <1>4, <2>1, <2>2 DEF LoseFrames, TypeOK
  <1> QED
    BY Zenon, <1>1, <1>2, <1>3, <1>4 DEF Observer

LEMMA EnvironmentTypeOK == TypeOK /\ Environment => TypeOK'
  <1> SUFFICES ASSUME TypeOK, Environment PROVE TypeOK'
    OBVIOUS
  <1> USE DEF apiVars, cacheVars, sentinelVars, observerVars, memoryVars, passVars, envVars
  <1>1. ASSUME NEW p \in Pods, Elect(p) PROVE TypeOK'
    <2>1. master' \in Addrs
      BY ZenonT(40), <1>1, AddrOfType DEF Elect, TypeOK
    <2>2. epoch' \in 0 .. MaxEpoch
      BY <1>1, RolloutAssumption DEF Elect, TypeOK
    <2>3. frames' \in [Subs -> Seq(Frames)]
      <3> DEFINE Sent(l) == [b \in Subs |-> [old |-> IF b \in l THEN NoAddr ELSE master,
                                             new |-> master']]
                 Queued(l) == [b \in Subs |-> Append(frames[b], Sent(l)[b])]
      <3>1. \A l : Sent(l) \in [Subs -> Frames]
        BY Zenon, <2>1 DEF TypeOK, Frames
      <3>2. \A l : Queued(l) \in [Subs -> Seq(Frames)]
        <4>1. \A g \in [Subs -> Frames] :
                 [b \in Subs |-> Append(frames[b], g[b])] \in [Subs -> Seq(Frames)]
          BY Zenon, FrameUpdateType DEF TypeOK
        <4> QED
          BY Zenon, <3>1, <4>1
      <3>3. PICK l : \/ frames' = frames
                     \/ frames' = [b \in Subs |->
                            Append(frames[b], [old |-> IF b \in l THEN NoAddr ELSE master,
                                               new |-> master'])]
        BY Zenon, <1>1 DEF Elect
      <3>4. Queued(l) = [b \in Subs |->
                            Append(frames[b], [old |-> IF b \in l THEN NoAddr ELSE master,
                                               new |-> master'])]
        OBVIOUS
      <3> HIDE DEF Queued, Sent
      <3>5. frames' \in {frames, Queued(l)}
        BY Zenon, <3>3, <3>4
      <3>6. frames \in [Subs -> Seq(Frames)]
        BY Zenon DEF TypeOK
      <3> QED
        BY Zenon, <3>2, <3>5, <3>6
    <2> QED
      BY ZenonT(40), <1>1, <2>1, <2>2, <2>3 DEF Elect, TypeOK
  <1>2. ASSUME NEW p \in Pods, Vanish(p) PROVE TypeOK'
    <2>1. pods' \in PodLists
      BY SMTT(30), <1>2, RolloutAssumption DEF Vanish, TypeOK, PodLists, Roles
    <2> QED
      BY ZenonT(40), <1>2, <2>1 DEF Vanish, TypeOK
  <1>3. ASSUME NEW p \in Pods, Recreate(p) \/ PodReady(p) PROVE TypeOK'
    <2>1. pods' \in PodLists
      BY Zenon, <1>3, SetPhaseType DEF Recreate, PodReady
    <2> QED
      BY ZenonT(40), <1>3, <2>1 DEF Recreate, PodReady, TypeOK
  <1>4. ASSUME NEW p \in Pods, PodFails(p) PROVE TypeOK'
    <2>1. pods' \in PodLists
      BY Zenon, <1>4, SetPhaseType DEF PodFails
    <2>2. crashes' \in 0 .. MaxCrashes /\ faults' \in 0 .. MaxFaults
      BY Zenon, <1>4, FaultType DEF PodFails
    <2> QED
      BY ZenonT(40), <1>4, <2>1, <2>2 DEF PodFails, TypeOK
  <1>5. CASE ElectionFails
    <2>1. crashes' \in 0 .. MaxCrashes /\ faults' \in 0 .. MaxFaults
      BY Zenon, <1>5, FaultType DEF ElectionFails
    <2> QED
      BY ZenonT(40), <1>5, <2>1 DEF ElectionFails, TypeOK
  <1>6. CASE CacheSyncPods
    BY ZenonT(40), <1>6 DEF CacheSyncPods, TypeOK
  <1>7. CASE CacheSyncCR
    BY ZenonT(40), <1>7 DEF CacheSyncCR, TypeOK
  <1>8. CASE Tick
    <2>1. /\ marker' \in Dispatches /\ crCache' \in Dispatches
          /\ latch' \in Dispatches /\ vMarker' \in Dispatches
      BY Zenon, <1>8, DownType DEF Tick, TypeOK
    <2>2. section' \in [addr : Addrs \cup {NoAddr}, rem : -1 .. LatchTTL]
      <3>1. section.rem > 1 =>
               Down(section) \in [addr : Addrs \cup {NoAddr}, rem : -1 .. LatchTTL]
        <4>1. section.rem > 1 => section.rem - 1 \in -1 .. LatchTTL
          BY RolloutAssumption DEF TypeOK
        <4>2. section.rem > 1 => section.rem >= 0
          BY DEF TypeOK
        <4>3. \A n \in -1 .. LatchTTL :
                 [section EXCEPT !.rem = n] \in [addr : Addrs \cup {NoAddr}, rem : -1 .. LatchTTL]
          BY Zenon DEF TypeOK
        <4> QED
          BY Zenon, <4>1, <4>2, <4>3 DEF Down
      <3> QED
        BY Zenon, <1>8, <3>1, ConstantTypes DEF Tick
    <2>3. snap' \in Snapshots
      <3>1. snap.age <= MaxSnapshotAge => [snap EXCEPT !.age = @ + 1] \in Snapshots
        <4>1. snap.age <= MaxSnapshotAge => snap.age + 1 \in 0 .. MaxSnapshotAge + 1
          BY RolloutAssumption DEF TypeOK, Snapshots
        <4>2. \A a \in 0 .. MaxSnapshotAge + 1 : [snap EXCEPT !.age = a] \in Snapshots
          BY Zenon DEF TypeOK, Snapshots
        <4> QED
          BY Zenon, <4>1, <4>2
      <3> QED
        BY Zenon, <1>8, <3>1 DEF Tick, TypeOK
    <2>4. crashes' \in 0 .. MaxCrashes /\ faults' \in 0 .. MaxFaults
      BY Zenon, <1>8, FaultType DEF Tick, TypeOK
    <2> QED
      BY ZenonT(40), <1>8, <2>1, <2>2, <2>3, <2>4 DEF Tick, TypeOK
  <1>9. CASE Crash
    <2>1. podCache' \in PodLists /\ crCache' \in Dispatches
      BY Zenon, <1>9 DEF Crash, TypeOK
    <2>2. /\ crashes' \in 0 .. MaxCrashes
          /\ stab' \in [addr : Addrs \cup {NoAddr}, polls : 0 .. 2]
          /\ frames' \in [Subs -> Seq(Frames)]
      BY <1>9, RolloutAssumption DEF Crash, TypeOK
    <2> QED
      BY ZenonT(40), <1>9, <2>1, <2>2, NoPassType, ConstantTypes DEF Crash, TypeOK
  <1> QED
    BY Zenon, <1>1, <1>2, <1>3, <1>4, <1>5, <1>6, <1>7, <1>8, <1>9 DEF Environment

\* Every step keeps every variable in its type.
LEMMA NextTypeOK == TypeOK /\ [Next]_vars => TypeOK'
  <1>1. TypeOK /\ UNCHANGED vars => TypeOK'
    BY ZenonT(40) DEF vars, apiVars, cacheVars, sentinelVars, observerVars, memoryVars, passVars,
       envVars, TypeOK
  <1> QED
    BY Zenon, <1>1, PassTypeOK, ObserverTypeOK, EnvironmentTypeOK DEF Next

\* The model is well typed in every reachable state: an address is that of an
\* incarnation of a pod, a deadline lies between "past" and the latch's TTL, and the
\* stability count never leaves 0 .. 2.
THEOREM TypeCorrect == Spec => []TypeOK
  BY InitTypeOK, NextTypeOK, PTL DEF Spec

-----------------------------------------------------------------------------
(***************************************************************************)
(* The durable section.                                                    *)
(*                                                                         *)
(* DurableSection alone is not inductive.  What carries it: while the      *)
(* section is open the observer has not moved off its address and the      *)
(* deadline lies ahead, so a latch equal to the marker is active wherever  *)
(* it is consulted; a process without the latch has just restarted and is  *)
(* before the step that rebuilds it; no dispatch is under way.  Before the *)
(* section opens, the pass's copy of the marker is the stored one or none, *)
(* so the merge patch stores what the latch holds.                         *)
(***************************************************************************)
SectionInv ==
    /\ SectionOpen =>
          /\ section.rem >= 1
          /\ marker.addr = section.addr /\ marker.rem = section.rem
          /\ snap.addr \in {NoAddr, section.addr}
          /\ latch \in {NoDispatch, marker}
          /\ latch = NoDispatch => pc \in {"idle", "maintain"}
          /\ pc = "maintain" => vMarker = marker
          /\ pc \notin {"persist", "strip", "failover", "rollback", "unmark"}
    /\ ~snap.present => snap.addr = NoAddr
    /\ vMarker \in {NoDispatch, marker}
    /\ pc \in {"strip", "failover"} => latch = marker /\ latch.addr = disp.addr

LEMMA InitSectionInv == Init => SectionInv
  BY DEF Init, SectionInv, SectionOpen, NoSection, NoSnapshot

\* A latch that equals the marker is in force while the section is open.
LEMMA SectionActive ==
    ASSUME TypeOK, SectionInv, SectionOpen
    PROVE  Active(marker) /\ marker # NoDispatch
  BY SMTT(30), RolloutAssumption
     DEF TypeOK, SectionInv, SectionOpen, Active, Observed, NoDispatch, Dispatches

LEMMA NoDispatchIdle == ~Active(NoDispatch) /\ Drained(NoDispatch) = NoDispatch
  BY DEF Active, NoDispatch, Drained

\* The pass ends, or goes on between Phase 7 and Phase 11, or something outside the
\* pass happens, with the section's own state left alone.
LEMMA SectionQuiet ==
    ASSUME SectionInv, UNCHANGED <<marker, latch, section, snap>>,
           \/ NoPass
           \/ UNCHANGED <<pc, vMarker, disp>>
           \/ /\ pc \in {"desired", "promote", "demote", "rollout"}
              /\ pc' \in {"promote", "demote", "rollout", "dispatch"}
              /\ UNCHANGED vMarker
    PROVE  SectionInv'
  BY Zenon DEF SectionInv, SectionOpen, NoPass

LEMMA LabelsDonePC ==
    ASSUME LabelsDone PROVE pc' \in {"rollout", "dispatch"}
  BY Zenon DEF LabelsDone

LEMMA AssignPC ==
    ASSUME NEW L, NEW w, Assign(L, w)
    PROVE  pc' \in {"promote", "demote", "rollout", "dispatch"}
  BY Zenon, LabelsDonePC DEF Assign

LEMMA PassSectionInv ==
    ASSUME "cr" \notin LaggingCaches, TypeOK, SectionInv, Pass PROVE SectionInv'
  <1> USE DEF apiVars, cacheVars, sentinelVars, observerVars, memoryVars, passVars, envVars
  <1>1. CASE ObserveRolloutState
    <2>1. vMarker' = marker
      BY Zenon, <1>1 DEF ObserveRolloutState, FetchedMarker
    <2>2. UNCHANGED <<marker, section, snap>> /\ pc' \in {"desired", "maintain"}
      BY Zenon, <1>1 DEF ObserveRolloutState
    <2>3. SectionOpen => latch' = latch
      BY Zenon, <1>1, SectionActive, NoDispatchIdle DEF ObserveRolloutState, SectionInv, Drained
    <2>4. SectionOpen => pc' = "maintain"
      BY Zenon, <1>1, <2>1, SectionActive DEF ObserveRolloutState
    <2> QED
      BY Zenon, <2>1, <2>2, <2>3, <2>4 DEF SectionInv, SectionOpen
  <1>2. CASE MaintainMarker
    <2>1. UNCHANGED <<section, snap>> /\ pc' = "desired" /\ pc = "maintain"
      BY Zenon, <1>2 DEF MaintainMarker
    <2>2. SectionOpen => UNCHANGED <<marker, vMarker>> /\ latch' = marker
      <3> SUFFICES ASSUME SectionOpen PROVE UNCHANGED <<marker, vMarker>> /\ latch' = marker
        OBVIOUS
      <3>1. vMarker = marker /\ latch \in {NoDispatch, marker} /\ marker.rem > 0
        BY <2>1 DEF SectionInv, TypeOK
      <3> QED
        BY Zenon, <1>2, <3>1, SectionActive DEF MaintainMarker, Drained
    <2>3. vMarker' \in {NoDispatch, marker'}
      BY Zenon, <1>2 DEF MaintainMarker, SectionInv
    <2> QED
      BY Zenon, <2>1, <2>2, <2>3, SectionActive DEF SectionInv, SectionOpen
  <1>3. CASE DesiredRoles
    <2>1. UNCHANGED <<marker, section, snap, vMarker, disp>> /\ pc = "desired"
      BY Zenon, <1>3 DEF DesiredRoles
    <2>2. pc' \in {"promote", "demote", "rollout", "dispatch"}
      BY Zenon, <1>3, LabelsDonePC, AssignPC DEF DesiredRoles
    <2>3. SectionOpen => latch' = latch
      BY Zenon, <1>3, SectionActive, NoDispatchIdle DEF DesiredRoles, SectionInv, Drained, RelabelSuppressed
    <2> QED
      BY Zenon, <2>1, <2>2, <2>3 DEF SectionInv, SectionOpen
  <1>4. CASE StampPrimary
    <2>1. NoPass \/ (pc' \in {"demote", "rollout", "dispatch"} /\ UNCHANGED vMarker)
      BY Zenon, <1>4, LabelsDonePC DEF StampPrimary
    <2> QED
      BY Zenon, <1>4, <2>1, SectionQuiet DEF StampPrimary
  <1>5. ASSUME NEW p \in Pods, StampReplica(p) PROVE SectionInv'
    <2>1. NoPass \/ (pc' \in {"demote", "rollout", "dispatch"} /\ UNCHANGED vMarker)
      BY Zenon, <1>5, LabelsDonePC DEF StampReplica
    <2> QED
      BY Zenon, <1>5, <2>1, SectionQuiet DEF StampReplica
  <1>6. CASE reconcilePodRollout
    BY Zenon, <1>6, SectionQuiet DEF reconcilePodRollout
  <1>7. CASE EnsureObserver
    BY Zenon, <1>7 DEF EnsureObserver, NoPass, NoSnapshot, SectionInv, SectionOpen
  <1>8. CASE DispatchPreflight
    <2>1. UNCHANGED <<marker, section, snap>> /\ pc = "dispatch"
      BY Zenon, <1>8 DEF DispatchPreflight
    <2>2. SectionOpen => NoPass /\ latch' = latch
      BY Zenon, <1>8, <2>1, SectionActive DEF DispatchPreflight, SectionInv, Drained
    <2>3. NoPass \/ (pc' = "persist" /\ UNCHANGED vMarker)
      BY Zenon, <1>8 DEF DispatchPreflight
    <2> QED
      BY Zenon, <2>1, <2>2, <2>3 DEF SectionInv, SectionOpen, NoPass
  <1>9. CASE PersistDispatch
    <2> DEFINE d == [addr |-> disp.addr, epoch |-> disp.epoch, rem |-> LatchTTL]
    <2>1. ~SectionOpen /\ UNCHANGED <<section, snap>>
      BY Zenon, <1>9 DEF PersistDispatch, SectionInv
    <2>2. MergePatch(marker, vMarker, d) = d
      BY Zenon DEF MergePatch, SectionInv
    <2>3. \/ marker' = d /\ vMarker' = d /\ latch' = d /\ pc' = "strip" /\ disp' = disp
          \/ NoPass
      BY Zenon, <1>9, <2>2 DEF PersistDispatch
    <2> QED
      BY <2>1, <2>3 DEF SectionInv, SectionOpen, NoPass
  <1>10. CASE StripPrimary
    <2>1. ~SectionOpen /\ UNCHANGED <<section, snap>> /\ pc = "strip"
      BY Zenon, <1>10 DEF StripPrimary, SectionInv
    <2>2. NoPass \/ (pc' = "failover" /\ UNCHANGED <<marker, latch, vMarker, disp>>)
      BY Zenon, <1>10 DEF StripPrimary
    <2> QED
      BY Zenon, <2>1, <2>2 DEF SectionInv, SectionOpen, NoPass
  <1>11. CASE IssueFailover
    <2>1. UNCHANGED <<marker, latch, snap>> /\ pc = "failover"
      BY Zenon, <1>11 DEF IssueFailover
    <2>2. CASE pc' = "rollback" /\ UNCHANGED <<section, vMarker>>
      BY Zenon, <2>1, <2>2 DEF SectionInv, SectionOpen
    <2>3. CASE /\ section' = IF latch.rem > 0 /\ Observed.addr \in {NoAddr, disp.addr}
                             THEN [addr |-> disp.addr, rem |-> latch.rem] ELSE NoSection
               /\ NoPass
      <3>1. CASE latch.rem > 0 /\ Observed.addr \in {NoAddr, disp.addr}
        BY SMTT(30), <2>1, <2>3, <3>1
           DEF SectionInv, SectionOpen, NoPass, Observed, TypeOK, Dispatches
      <3>2. CASE ~(latch.rem > 0 /\ Observed.addr \in {NoAddr, disp.addr})
        BY Zenon, <2>1, <2>3, <3>2 DEF SectionInv, SectionOpen, NoPass, NoSection
      <3> QED
        BY Zenon, <3>1, <3>2
    <2> QED
      BY Zenon, <1>11, <2>2, <2>3 DEF IssueFailover
  <1>12. CASE RestorePrimary
    BY Zenon, <1>12 DEF RestorePrimary, SectionInv, SectionOpen
  <1>13. CASE ClearAndCoolDown
    <2>1. ~SectionOpen /\ UNCHANGED <<section, snap>> /\ NoPass
      BY Zenon, <1>13 DEF ClearAndCoolDown, SectionInv
    <2> QED
      BY Zenon, <2>1 DEF SectionInv, SectionOpen, NoPass
  <1> QED
    BY ZenonT(40), <1>1, <1>2, <1>3, <1>4, <1>5, <1>6, <1>7, <1>8, <1>9, <1>10, <1>11, <1>12, <1>13
       DEF Pass

LEMMA ObserverSectionInv ==
    ASSUME TypeOK, SectionInv, Observer PROVE SectionInv'
  <1> USE DEF apiVars, cacheVars, sentinelVars, observerVars, memoryVars, passVars, envVars
  <1>1. CASE PollRead
    BY Zenon, <1>1, SectionQuiet DEF PollRead
  <1>2. CASE PollPublish
    <2>1. UNCHANGED <<marker, latch, pc, vMarker, disp>> /\ snap'.present
      BY Zenon, <1>2 DEF PollPublish
    <2>2. section' = SectionUnder(snap'.addr)
      BY Zenon, <1>2 DEF PollPublish
    <2> QED
      BY Zenon, <2>1, <2>2 DEF SectionInv, SectionOpen, SectionUnder, NoSection
  <1>3. ASSUME NEW b \in Subs, DeliverFrame(b) PROVE SectionInv'
    <2>1. UNCHANGED <<marker, latch, pc, vMarker, disp>> /\ snap'.present
      BY Zenon, <1>3 DEF DeliverFrame, TypeOK, Snapshots
    <2>2. section' = SectionUnder(snap'.addr)
      BY Zenon, <1>3 DEF DeliverFrame
    <2> QED
      BY Zenon, <2>1, <2>2 DEF SectionInv, SectionOpen, SectionUnder, NoSection
  <1>4. ASSUME NEW b \in Subs, LoseFrames(b) PROVE SectionInv'
    BY Zenon, <1>4, SectionQuiet DEF LoseFrames
  <1> QED
    BY Zenon, <1>1, <1>2, <1>3, <1>4 DEF Observer

\* Time runs for the section, the marker and the latch alike.
LEMMA TickSectionInv ==
    ASSUME TypeOK, SectionInv, Tick PROVE SectionInv'
  <1>1. /\ marker' = Down(marker) /\ latch' = Down(latch) /\ vMarker' = Down(vMarker)
        /\ section' = IF section.rem > 1 THEN Down(section) ELSE NoSection
        /\ pc' = pc /\ disp' = disp
    BY Zenon DEF Tick
  <1>2. snap'.addr = snap.addr /\ snap'.present = snap.present
    BY Zenon DEF Tick, TypeOK, Snapshots
  <1>3. Down(NoDispatch) = NoDispatch
    BY DEF Down, NoDispatch
  <1>4. \A l \in Dispatches : Down(l).addr = l.addr
    BY Zenon DEF Down, Dispatches
  <1>5. vMarker' \in {NoDispatch, marker'}
    BY Zenon, <1>1, <1>3 DEF SectionInv
  <1>6. pc' \in {"strip", "failover"} => latch' = marker' /\ latch'.addr = disp'.addr
    BY ZenonT(40), <1>1, <1>4 DEF SectionInv, TypeOK
  <1>7. CASE section.rem > 1 /\ SectionOpen
    <2>1. section'.addr = section.addr /\ section'.rem = section.rem - 1 /\ section'.rem >= 1
      BY <1>1, <1>7 DEF Down, TypeOK
    <2>2. marker'.addr = marker.addr /\ marker'.rem = marker.rem - 1
      BY SMTT(30), <1>1, <1>7 DEF Down, SectionInv, TypeOK, Dispatches
    <2>3. latch' \in {NoDispatch, marker'}
      BY Zenon, <1>1, <1>3, <1>7 DEF SectionInv
    <2>4. latch' = NoDispatch => latch = NoDispatch
      <3>1. marker' # NoDispatch
        BY <2>2, <1>7 DEF SectionInv, SectionOpen, NoDispatch
      <3> QED
        BY Zenon, <1>1, <1>7, <3>1 DEF SectionInv
    <2>5. pc' = "maintain" => vMarker' = marker'
      BY Zenon, <1>1, <1>7 DEF SectionInv
    <2> QED
      BY SMTT(30), <1>1, <1>2, <1>5, <1>6, <1>7, <2>1, <2>2, <2>3, <2>4, <2>5 DEF SectionInv, SectionOpen
  <1>8. CASE ~(section.rem > 1 /\ SectionOpen)
    <2>1. ~SectionOpen'
      BY Zenon, <1>1, <1>8 DEF SectionOpen, Down, NoSection, TypeOK
    <2> QED
      BY Zenon, <1>2, <1>5, <1>6, <2>1 DEF SectionInv
  <1> QED
    BY Zenon, <1>7, <1>8

LEMMA EnvironmentSectionInv ==
    ASSUME TypeOK, SectionInv, Environment PROVE SectionInv'
  <1> USE DEF apiVars, cacheVars, sentinelVars, observerVars, memoryVars, passVars, envVars
  <1>1. ASSUME NEW p \in Pods, Elect(p) \/ Vanish(p) \/ Recreate(p) \/ PodReady(p) \/ PodFails(p)
        PROVE  SectionInv'
    BY Zenon, <1>1, SectionQuiet DEF Elect, Vanish, Recreate, PodReady, PodFails
  <1>2. CASE ElectionFails \/ CacheSyncPods \/ CacheSyncCR
    BY Zenon, <1>2, SectionQuiet DEF ElectionFails, CacheSyncPods, CacheSyncCR
  <1>3. CASE Tick
    BY Zenon, <1>3, TickSectionInv
  <1>4. CASE Crash
    BY Zenon, <1>4 DEF Crash, NoPass, NoSnapshot, SectionInv, SectionOpen
  <1> QED
    BY Zenon, <1>1, <1>2, <1>3, <1>4 DEF Environment

LEMMA NextSectionInv ==
    ASSUME "cr" \notin LaggingCaches, TypeOK, SectionInv, [Next]_vars PROVE SectionInv'
  <1>1. CASE UNCHANGED vars
    BY Zenon, <1>1, SectionQuiet
       DEF vars, apiVars, observerVars, memoryVars, passVars
  <1> QED
    BY Zenon, <1>1, PassSectionInv, ObserverSectionInv, EnvironmentSectionInv DEF Next

\* As long as the operator reads its own status writes back, an accepted failover is
\* covered by the durable marker, with the section's own address and deadline, from the
\* moment it is issued until the observer moves off the old primary or the deadline
\* passes: through every interleaving of reconcile steps, polls, frames and elections,
\* every failed call and every restart (persistFailoverDispatch,
\* maintainFailoverDispatchMarker, failoverLatchActive).
THEOREM SectionDurable ==
    ASSUME "cr" \notin LaggingCaches PROVE Spec => []DurableSection
  <1>1. Init => TypeOK /\ SectionInv
    BY Zenon, InitTypeOK, InitSectionInv
  <1>2. TypeOK /\ SectionInv /\ [Next]_vars => TypeOK' /\ SectionInv'
    BY Zenon, NextTypeOK, NextSectionInv
  <1>3. SectionInv => DurableSection
    BY Zenon DEF SectionInv, DurableSection
  <1> QED
    BY <1>1, <1>2, <1>3, PTL DEF Spec

-----------------------------------------------------------------------------
(***************************************************************************)
(* The label window.                                                       *)
(***************************************************************************)

\* Inside the section only the bootstrap rule, which saw no label at all, is about
\* to stamp role=primary.
PromoteInv ==
    SectionOpen /\ pc = "promote" => \A p \in Pods : pods.role[p] = "none"

LEMMA SectionNotOpened ==
    ASSUME TypeOK, [Next]_vars, SectionOpen' PROVE SectionOpen \/ pc' = "idle"
  <1> USE DEF apiVars, cacheVars, sentinelVars, observerVars, memoryVars, passVars, envVars
  <1>1. CASE Pass
    BY Zenon, <1>1 DEF Pass, ObserveRolloutState, MaintainMarker, DesiredRoles, StampPrimary,
       StampReplica, reconcilePodRollout, EnsureObserver, DispatchPreflight, PersistDispatch,
       StripPrimary, IssueFailover, NoPass, RestorePrimary, ClearAndCoolDown, SectionOpen
  <1>2. CASE Observer
    BY Zenon, <1>2 DEF Observer, PollRead, PollPublish, DeliverFrame, LoseFrames, SectionUnder,
       NoSection, SectionOpen
  <1>3. CASE Tick
    BY Zenon, <1>3 DEF Tick, Down, NoSection, SectionOpen, TypeOK
  <1>4. CASE Environment /\ ~Tick
    BY Zenon, <1>4 DEF Environment, Elect, Vanish, Recreate, PodReady, PodFails, ElectionFails, CacheSyncPods,
       CacheSyncCR, Crash, SectionOpen
  <1>5. CASE UNCHANGED vars
    BY Zenon, <1>5 DEF vars, SectionOpen
  <1> QED
    BY <1>1, <1>2, <1>3, <1>4, <1>5 DEF Next

\* A step of the pass that ends at "promote" is Phase 7 choosing its assignment.
LEMMA PromoteStep ==
    ASSUME Pass, pc' = "promote" PROVE DesiredRoles
  BY Zenon, LabelsDonePC
     DEF Pass, ObserveRolloutState, MaintainMarker, StampPrimary, StampReplica,
       reconcilePodRollout, EnsureObserver, DispatchPreflight, PersistDispatch, StripPrimary,
       IssueFailover, NoPass, RestorePrimary, ClearAndCoolDown

LEMMA NextPromoteInv ==
    ASSUME LaggingCaches = {}, TypeOK, SectionInv, PromoteInv, [Next]_vars PROVE PromoteInv'
  <1> USE DEF apiVars, cacheVars, sentinelVars, observerVars, memoryVars, passVars, envVars
  <1> SUFFICES ASSUME SectionOpen', pc' = "promote"
               PROVE  \A p \in Pods : pods'.role[p] = "none"
    BY Zenon DEF PromoteInv
  <1>1. SectionOpen
    BY Zenon, SectionNotOpened
  <1>2. CASE Pass
    <2>1. DesiredRoles
      BY Zenon, <1>2, PromoteStep
    <2>2. pc = "desired" /\ pods' = pods
      BY Zenon, <2>1 DEF DesiredRoles
    <2>3. Active(latch)
      BY Zenon, <1>1, <2>2, SectionActive DEF SectionInv
    <2>4. ~LabelsDone
      BY Zenon, LabelsDonePC
    <2>5. ~ \E p \in Pods : ListedPods.role[p] # "none"
      BY Zenon, <2>1, <2>3, <2>4 DEF DesiredRoles, RelabelSuppressed
    <2> QED
      BY Zenon, <2>2, <2>5 DEF ListedPods
  <1>3. CASE Observer
    BY ZenonT(40), <1>1, <1>3 DEF Observer, PollRead, PollPublish, DeliverFrame, LoseFrames, PromoteInv
  <1>4. ASSUME NEW p \in Pods, Vanish(p) PROVE \A q \in Pods : pods'.role[q] = "none"
    BY <1>1, <1>4 DEF Vanish, PromoteInv, TypeOK, PodLists
  <1>5. ASSUME NEW p \in Pods, Recreate(p) \/ PodReady(p) \/ PodFails(p)
        PROVE  \A q \in Pods : pods'.role[q] = "none"
    BY ZenonT(40), <1>1, <1>5 DEF Recreate, PodReady, PodFails, PromoteInv, TypeOK, PodLists
  <1>6. CASE \/ \E p \in Pods : Elect(p)
             \/ ElectionFails \/ CacheSyncPods \/ CacheSyncCR \/ Tick
    BY Zenon, <1>1, <1>6 DEF Elect, ElectionFails, CacheSyncPods, CacheSyncCR, Tick, PromoteInv
  <1>7. CASE Crash
    BY Zenon, <1>7 DEF Crash, NoPass
  <1>8. CASE UNCHANGED vars
    BY Zenon, <1>1, <1>8 DEF vars, PromoteInv
  <1> QED
    BY ZenonT(40), <1>2, <1>3, <1>4, <1>5, <1>6, <1>7, <1>8 DEF Next, Environment

\* Only Phase 7's first pass and the roll-back hand out role=primary.
LEMMA LabelGain ==
    ASSUME TypeOK, [Next]_vars, pc \notin {"promote", "rollback"}
    PROVE  Labelled(pods') \subseteq Labelled(pods)
  <1> USE DEF apiVars, cacheVars, sentinelVars, observerVars, memoryVars, passVars, envVars
  <1>1. CASE pods'.role = pods.role
    BY Zenon, <1>1 DEF Labelled
  <1>2. ASSUME NEW p, NEW r \in {"replica", "none"}, SetRole(p, r)
        PROVE  Labelled(pods') \subseteq Labelled(pods)
    BY ZenonT(40), <1>2 DEF SetRole, Labelled, TypeOK, PodLists
  <1>3. CASE Pass
    <2>1. CASE \E p \in Pods : StampReplica(p)
      BY Zenon, <2>1, <1>1, <1>2 DEF StampReplica
    <2>2. CASE StripPrimary
      BY Zenon, <2>2, <1>1, <1>2 DEF StripPrimary
    <2>3. CASE reconcilePodRollout
      <3>1. pods'.role = pods.role
        BY Zenon, <2>3 DEF reconcilePodRollout, TypeOK, PodLists
      <3> QED
        BY Zenon, <1>1, <3>1
    <2>4. CASE \/ ObserveRolloutState \/ MaintainMarker \/ DesiredRoles \/ EnsureObserver
               \/ DispatchPreflight \/ PersistDispatch \/ IssueFailover \/ ClearAndCoolDown
      BY Zenon, <2>4, <1>1 DEF ObserveRolloutState, MaintainMarker, DesiredRoles, EnsureObserver,
         DispatchPreflight, PersistDispatch, IssueFailover, ClearAndCoolDown
    <2> QED
      BY Zenon, <1>3, <2>1, <2>2, <2>3, <2>4 DEF Pass, StampPrimary, RestorePrimary
  <1>4. CASE Observer
    BY Zenon, <1>1, <1>4 DEF Observer, PollRead, PollPublish, DeliverFrame, LoseFrames
  <1>5. ASSUME NEW p \in Pods, Vanish(p) PROVE Labelled(pods') \subseteq Labelled(pods)
    BY Zenon, <1>5 DEF Vanish, Labelled, TypeOK, PodLists
  <1>6. ASSUME NEW p \in Pods, Recreate(p) \/ PodReady(p) \/ PodFails(p)
        PROVE  Labelled(pods') \subseteq Labelled(pods)
    BY ZenonT(40), <1>6 DEF Recreate, PodReady, PodFails, Labelled, TypeOK, PodLists
  <1>7. CASE \/ \E p \in Pods : Elect(p)
             \/ ElectionFails \/ CacheSyncPods \/ CacheSyncCR \/ Tick \/ Crash \/ UNCHANGED vars
    BY Zenon, <1>1, <1>7
       DEF Elect, ElectionFails, CacheSyncPods, CacheSyncCR, Tick, Crash, vars
  <1> QED
    BY Zenon, <1>3, <1>4, <1>5, <1>6, <1>7 DEF Next, Environment

\* With caches that read the operator's own writes back, no step of anybody hands out
\* role=primary while an accepted failover is under way: Phase 7 finds the latch or
\* rebuilds it from the marker first, and no roll-back is pending (desiredRolesForCR,
\* reconcileRoleLabels, runPrimaryRolloutDispatch).
THEOREM LabelWindow ==
    ASSUME LaggingCaches = {} PROVE Spec => WindowHeld
  <1>1. Init => TypeOK /\ SectionInv /\ PromoteInv
    BY Zenon, InitTypeOK, InitSectionInv DEF Init, PromoteInv
  <1>2. TypeOK /\ SectionInv /\ PromoteInv /\ [Next]_vars
           => TypeOK' /\ SectionInv' /\ PromoteInv'
    BY Zenon, NextTypeOK, NextSectionInv, NextPromoteInv
  <1>3. TypeOK /\ SectionInv /\ PromoteInv /\ [Next]_vars
           => [SectionOpen /\ SectionOpen' /\ (\E p \in Pods : ListedPods.role[p] # "none")
                  => Labelled(pods') \subseteq Labelled(pods)]_vars
    <2> SUFFICES ASSUME TypeOK, SectionInv, PromoteInv, [Next]_vars, SectionOpen,
                        \E p \in Pods : ListedPods.role[p] # "none"
                 PROVE  Labelled(pods') \subseteq Labelled(pods)
      OBVIOUS
    <2>1. pc \notin {"promote", "rollback"}
      BY Zenon DEF PromoteInv, SectionInv, ListedPods
    <2> QED
      BY Zenon, <2>1, LabelGain
  <1> QED
    BY <1>1, <1>2, <1>3, PTL DEF Spec, WindowHeld

-----------------------------------------------------------------------------
(***************************************************************************)
(* Stamping before demoting.                                               *)
(***************************************************************************)

\* Phase 7 does not demote the pod it chose, no incarnation of which is older than the one
\* it chose; and while that one lasts it has the label when the demotions begin, unless
\* nobody has it: the bootstrap rule, whose choice is ordinal 0 also when it is not there.
DemoteInv ==
    pc \in {"promote", "demote"} =>
        /\ want[1] \in Pods /\ want[1] \notin todo
        /\ want[2] \in 0 .. MaxGen /\ want[2] <= pods.gen[want[1]]
        /\ pc = "demote" /\ want[2] = pods.gen[want[1]]
              => pods.role[want[1]] = "primary" \/ Labelled(pods) = {}

\* The assignment of desiredRolesForCR, of the pods as they are.
LEMMA AssignDemote ==
    ASSUME TypeOK, NEW w \in Pods, w \in Listed(pods) \/ Labelled(pods) = {},
           Assign(pods, w), pods' = pods
    PROVE  DemoteInv'
  <1>1. CASE LabelsDone
    BY Zenon, <1>1, LabelsDonePC DEF DemoteInv
  <1>2. CASE /\ want' = AddrOf(pods.gen, w)
             /\ todo' = {p \in Listed(pods) \ {w} : pods.role[p] # "replica"}
             /\ pc' = IF w \in Listed(pods) /\ pods.role[w] # "primary"
                      THEN "promote" ELSE "demote"
    <2>1. want'[1] = w /\ want'[2] = pods.gen[w]
      BY Zenon, <1>2 DEF AddrOf
    <2>2. pods.gen[w] \in 0 .. MaxGen
      BY Zenon DEF TypeOK, PodLists
    <2>3. pods.gen[w] <= pods.gen[w]
      BY <2>2, RolloutAssumption
    <2> QED
      BY Zenon, <1>2, <2>1, <2>2, <2>3 DEF DemoteInv
  <1> QED
    BY Zenon, <1>1, <1>2 DEF Assign

\* A step that keeps the labels and incarnations, and the pass where it is or out of Phase 7.
LEMMA DemoteQuiet ==
    ASSUME DemoteInv, pods'.role = pods.role, pods'.gen = pods.gen,
           \/ UNCHANGED <<pc, want, todo>>
           \/ pc' \notin {"promote", "demote"}
    PROVE  DemoteInv'
  BY DEF DemoteInv, Labelled

LEMMA PassDemoteInv ==
    ASSUME "pods" \notin LaggingCaches, TypeOK, DemoteInv, Pass PROVE DemoteInv'
  <1> USE DEF apiVars, cacheVars, sentinelVars, observerVars, memoryVars, passVars, envVars
  <1>1. CASE DesiredRoles
    <2>1. ListedPods = pods /\ pods' = pods
      BY Zenon, <1>1 DEF DesiredRoles, ListedPods
    <2>2. CASE LabelsDone
      BY Zenon, <2>2, LabelsDonePC DEF DemoteInv
    <2>3. ASSUME NEW w \in Pods, Assign(pods, w), w \in Listed(pods) \/ Labelled(pods) = {}
          PROVE  DemoteInv'
      BY Zenon, <2>1, <2>3, AssignDemote
    <2>4. 0 \in Pods
      BY RolloutAssumption DEF Pods
    <2>5. \/ LabelsDone
          \/ \E w \in Pods : Assign(pods, w) /\ (w \in Listed(pods) \/ Labelled(pods) = {})
      <3>1. (\A p \in Pods : pods.role[p] = "none") => Labelled(pods) = {}
        BY Zenon DEF Labelled
      <3> QED
        BY Zenon, <1>1, <2>1, <2>4, <3>1 DEF DesiredRoles, Listed
    <2> QED
      BY Zenon, <2>2, <2>3, <2>5
  <1>2. CASE StampPrimary
    <2>1. CASE pc' \notin {"promote", "demote"}
      BY Zenon, <2>1 DEF DemoteInv
    <2>2. CASE /\ SetRole(want[1], "primary") /\ pc' = "demote" /\ UNCHANGED <<want, todo>>
      <3>1. want[1] \in Pods /\ want[1] \notin todo
              /\ want[2] \in 0 .. MaxGen /\ want[2] <= pods.gen[want[1]]
        BY Zenon, <1>2 DEF StampPrimary, DemoteInv
      <3>2. pods'.gen = pods.gen /\ pods'.role[want[1]] = "primary"
        BY <2>2, <3>1 DEF SetRole, TypeOK, PodLists
      <3> QED
        BY Zenon, <2>2, <3>1, <3>2 DEF DemoteInv
    <2> QED
      BY Zenon, <1>2, <2>1, <2>2, LabelsDonePC DEF StampPrimary, NoPass
  <1>3. ASSUME NEW p \in Pods, StampReplica(p) PROVE DemoteInv'
    <2>1. CASE pc' \notin {"promote", "demote"}
      BY Zenon, <2>1 DEF DemoteInv
    <2>2. CASE SetRole(p, "replica") /\ todo' = todo \ {p} /\ UNCHANGED <<pc, want>>
      <3>1. p # want[1] /\ pc = "demote"
        BY Zenon, <1>3 DEF StampReplica, DemoteInv
      <3>2. pods'.gen = pods.gen /\ \A q \in Pods : q # p => pods'.role[q] = pods.role[q]
        BY Zenon, <2>2 DEF SetRole, TypeOK, PodLists
      <3>3. pods'.role[p] = "replica"
        BY <2>2 DEF SetRole, TypeOK, PodLists
      <3>4. Labelled(pods) = {} => Labelled(pods') = {}
        BY <3>2, <3>3 DEF Labelled
      <3> QED
        BY Zenon, <2>2, <3>1, <3>2, <3>4 DEF DemoteInv
    <2> QED
      BY Zenon, <1>3, <2>1, <2>2, LabelsDonePC DEF StampReplica, NoPass
  <1>4. CASE \/ ObserveRolloutState \/ MaintainMarker \/ reconcilePodRollout \/ EnsureObserver
             \/ DispatchPreflight \/ PersistDispatch \/ StripPrimary \/ IssueFailover
             \/ RestorePrimary \/ ClearAndCoolDown
    <2>1. pc' \notin {"promote", "demote"}
      BY Zenon, <1>4
         DEF ObserveRolloutState, MaintainMarker, reconcilePodRollout, EnsureObserver,
         DispatchPreflight, PersistDispatch, StripPrimary, IssueFailover, RestorePrimary,
         ClearAndCoolDown, NoPass
    <2> QED
      BY Zenon, <2>1 DEF DemoteInv
  <1> QED
    BY Zenon, <1>1, <1>2, <1>3, <1>4 DEF Pass

LEMMA NextDemoteInv ==
    ASSUME "pods" \notin LaggingCaches, TypeOK, DemoteInv, [Next]_vars PROVE DemoteInv'
  <1> USE DEF apiVars, cacheVars, sentinelVars, observerVars, memoryVars, passVars, envVars
  <1>1. CASE Observer
    BY Zenon, <1>1, DemoteQuiet DEF Observer, PollRead, PollPublish, DeliverFrame, LoseFrames
  <1>2. ASSUME NEW p \in Pods, Vanish(p) PROVE DemoteInv'
    <2>1. /\ UNCHANGED <<pc, want, todo>>
          /\ pods'.gen[p] = pods.gen[p] + 1
          /\ \A q \in Pods \ {p} : pods'.gen[q] = pods.gen[q] /\ pods'.role[q] = pods.role[q]
          /\ pods'.role[p] = "none"
      BY <1>2 DEF Vanish, TypeOK, PodLists
    <2>2. pods.gen[p] \in Nat
      BY RolloutAssumption DEF TypeOK, PodLists
    <2>3. Labelled(pods) = {} => Labelled(pods') = {}
      BY <2>1 DEF Labelled
    <2> QED
      BY SMTT(30), <2>1, <2>2, <2>3, RolloutAssumption DEF DemoteInv
  <1>3. ASSUME NEW p \in Pods, Recreate(p) \/ PodReady(p) \/ PodFails(p) PROVE DemoteInv'
    <2>1. pods'.role = pods.role /\ pods'.gen = pods.gen
      BY SMTT(30), <1>3 DEF Recreate, PodReady, PodFails, TypeOK, PodLists
    <2>2. UNCHANGED <<pc, want, todo>>
      BY Zenon, <1>3 DEF Recreate, PodReady, PodFails
    <2> QED
      BY Zenon, <2>1, <2>2, DemoteQuiet
  <1>4. CASE \/ \E p \in Pods : Elect(p)
             \/ ElectionFails \/ CacheSyncPods \/ CacheSyncCR \/ Tick \/ UNCHANGED vars
    BY Zenon, <1>4, DemoteQuiet DEF Elect, ElectionFails, CacheSyncPods, CacheSyncCR, Tick, vars
  <1>5. CASE Crash
    BY Zenon, <1>5, DemoteQuiet DEF Crash, NoPass
  <1> QED
    BY Zenon, <1>1, <1>2, <1>3, <1>4, <1>5, PassDemoteInv DEF Next, Environment

\* With a pod cache that reads the labels back, Phase 7 of any number of pods never demotes
\* the last pod labelled primary, unless the pod it chose was replaced while it worked:
\* the chosen pod was stamped, or found stamped, before (reconcileRoleLabels).
THEOREM StampsFirst ==
    ASSUME "pods" \notin LaggingCaches PROVE Spec => SelectorKept
  <1>1. Init => TypeOK /\ DemoteInv
    BY Zenon, InitTypeOK DEF Init, DemoteInv
  <1>2. TypeOK /\ DemoteInv /\ [Next]_vars => TypeOK' /\ DemoteInv'
    BY NextTypeOK, NextDemoteInv
  <1>3. ASSUME TypeOK, DemoteInv, [Next]_vars, pc = "demote", pods'.gen = pods.gen,
               AddrOf(pods.gen, want[1]) = want, Labelled(pods) # {}
        PROVE  pods'.role[want[1]] = "primary"
    <2> USE DEF apiVars, cacheVars, sentinelVars, observerVars, memoryVars, passVars, envVars
    <2>1. want[2] = pods.gen[want[1]]
      BY <1>3 DEF AddrOf
    <2>2. want[1] \in Pods \ todo /\ pods.role[want[1]] = "primary"
      BY Zenon, <1>3, <2>1 DEF DemoteInv
    <2>3. CASE pods'.role = pods.role
      BY Zenon, <2>2, <2>3
    <2>4. ASSUME NEW p \in Pods, StampReplica(p) PROVE pods'.role[want[1]] = "primary"
      BY SMTT(30), <1>3, <2>2, <2>4 DEF StampReplica, SetRole, TypeOK, PodLists
    <2>5. CASE Pass
      BY ZenonT(40), <1>3, <2>4, <2>5
         DEF Pass, ObserveRolloutState, MaintainMarker, DesiredRoles, StampPrimary,
         reconcilePodRollout, EnsureObserver, DispatchPreflight, PersistDispatch, StripPrimary,
         IssueFailover, RestorePrimary, ClearAndCoolDown
    <2>6. CASE Observer
      BY Zenon, <2>3, <2>6 DEF Observer, PollRead, PollPublish, DeliverFrame, LoseFrames
    <2>7. ASSUME NEW p \in Pods, Vanish(p) PROVE FALSE
      <3>1. pods'.gen[p] = pods.gen[p] + 1 /\ pods.gen[p] \in Nat
        BY SMTT(30), <1>3, <2>7, RolloutAssumption DEF Vanish, TypeOK, PodLists
      <3> QED
        BY SMTT(30), <1>3, <3>1
    <2>8. ASSUME NEW p \in Pods, Recreate(p) \/ PodReady(p) \/ PodFails(p) PROVE pods'.role = pods.role
      BY <1>3, <2>8 DEF Recreate, PodReady, PodFails, TypeOK, PodLists
    <2>9. CASE \/ \E p \in Pods : Elect(p)
               \/ ElectionFails \/ CacheSyncPods \/ CacheSyncCR \/ Tick \/ Crash \/ UNCHANGED vars
      BY Zenon, <2>3, <2>9 DEF Elect, ElectionFails, CacheSyncPods, CacheSyncCR, Tick, Crash, vars
    <2> QED
      BY ZenonT(40), <1>3, <2>3, <2>5, <2>6, <2>7, <2>8, <2>9 DEF Next, Environment
  <1>4. TypeOK /\ DemoteInv /\ [Next]_vars
           => [Labelled(pods) # {} /\ Labelled(pods') = {} /\ pc = "demote" /\ pods'.gen = pods.gen
                  => AddrOf(pods.gen, want[1]) # want]_vars
    <2>1. TypeOK /\ DemoteInv /\ pc = "demote" => want[1] \in Pods
      BY Zenon DEF DemoteInv
    <2> QED
      BY Zenon, <1>3, <2>1 DEF Labelled
  <1> QED
    BY <1>1, <1>2, <1>4, PTL DEF Spec, SelectorKept
-----------------------------------------------------------------------------
(***************************************************************************)
(* The complete hand-over.                                                 *)
(***************************************************************************)

\* Every pod but one exists, is Ready and runs the new revision.
SetComplete == \E p \in Pods : \A q \in Pods \ {p} : pods.phase[q] = "ready" /\ pods.gen[q] > 0

\* A pass that derived RolloutPrimary saw the set complete and has no replica to delete, and
\* only such a pass dispatches a failover; as long as no fault occurs nothing takes a Ready
\* pod away in between.
HandInv ==
    /\ handoff => victim = NoPod /\ pc # "rollout"
    /\ pc \in {"persist", "strip", "failover"} => handoff
    /\ faults = 0 /\ handoff => SetComplete

LEMMA FaultCounts ==
    ASSUME TypeOK, Fault PROVE faults' # 0
  BY DEF TypeOK, Fault

\* A step that takes no Ready pod away.
LEMMA HandQuiet ==
    ASSUME HandInv,
           \A q \in Pods : pods.phase[q] = "ready"
                             => pods'.phase[q] = "ready" /\ pods'.gen[q] = pods.gen[q],
           faults' = 0 => faults = 0,
           handoff' => handoff /\ victim' = victim,
           pc' \in {pc, "idle"} \/ (handoff' => pc' # "rollout"),
           pc' \in {"persist", "strip", "failover"} => handoff'
    PROVE  HandInv'
  <1>1. SetComplete => SetComplete'
    BY DEF SetComplete
  <1> QED
    BY Zenon, <1>1 DEF HandInv

LEMMA LabelsDoneHand ==
    ASSUME LabelsDone, HandInv, handoff PROVE pc' = "dispatch"
  BY Zenon DEF LabelsDone, HandInv

LEMMA PassHandInv ==
    ASSUME TypeOK, HandInv, Pass, ~ObserveRolloutState PROVE HandInv'
  <1> USE DEF apiVars, cacheVars, sentinelVars, observerVars, memoryVars, passVars, envVars
  <1>1. CASE reconcilePodRollout
    <2>0. handoff' = handoff \/ handoff' = FALSE
      BY Zenon, <1>1 DEF reconcilePodRollout, NoPass
    <2>1. ~handoff /\ ~handoff'
      BY <1>1, <2>0 DEF reconcilePodRollout, HandInv
    <2>2. pc' \in {"dispatch", "idle"}
      BY Zenon, <1>1 DEF reconcilePodRollout, NoPass
    <2> QED
      BY Zenon, <2>1, <2>2 DEF HandInv
  <1>2. CASE \/ StampPrimary \/ (\E p \in Pods : StampReplica(p))
             \/ StripPrimary \/ RestorePrimary
    <2>1. pods'.phase = pods.phase /\ pods'.gen = pods.gen
      BY <1>2 DEF StampPrimary, StampReplica, StripPrimary, RestorePrimary, SetRole, TypeOK,
         PodLists
    <2>2. faults' = 0 => faults = 0
      BY Zenon, <1>2, FaultCounts
         DEF StampPrimary, StampReplica, StripPrimary, RestorePrimary, PatchFails,
         clearFailoverDispatch
    <2>3. handoff' => handoff /\ victim' = victim
      BY Zenon, <1>2 DEF StampPrimary, StampReplica, StripPrimary, RestorePrimary, NoPass
    <2>4. handoff' => pc' # "rollout"
      BY ZenonT(40), <1>2, LabelsDoneHand
         DEF StampPrimary, StampReplica, StripPrimary, RestorePrimary, NoPass
    <2>5. pc' \in {"persist", "strip", "failover"} => handoff'
      BY ZenonT(40), <1>2, LabelsDonePC
         DEF StampPrimary, StampReplica, StripPrimary, RestorePrimary, NoPass, HandInv
    <2> QED
      BY Zenon, <2>1, <2>2, <2>3, <2>4, <2>5, HandQuiet
  <1>3. CASE DesiredRoles
    <2>1. pods' = pods /\ faults' = faults /\ handoff' = handoff /\ victim' = victim
      BY Zenon, <1>3 DEF DesiredRoles
    <2>2. ASSUME NEW L, NEW w, Assign(L, w), handoff PROVE pc' # "rollout"
      BY Zenon, <2>2, LabelsDoneHand DEF Assign
    <2>3. handoff => pc' # "rollout"
      BY Zenon, <1>3, <2>2, LabelsDoneHand DEF DesiredRoles
    <2>4. pc' \notin {"persist", "strip", "failover"}
      BY Zenon, <1>3, LabelsDonePC, AssignPC DEF DesiredRoles
    <2> QED
      BY Zenon, <2>1, <2>3, <2>4, HandQuiet
  <1>4. CASE \/ MaintainMarker \/ EnsureObserver \/ DispatchPreflight
             \/ PersistDispatch \/ IssueFailover \/ ClearAndCoolDown
    <2>1. pods' = pods
      BY Zenon, <1>4 DEF MaintainMarker, EnsureObserver, DispatchPreflight, PersistDispatch,
         IssueFailover, ClearAndCoolDown
    <2>2. faults' = 0 => faults = 0
      BY Zenon, <1>4, FaultCounts
         DEF MaintainMarker, EnsureObserver, DispatchPreflight, PersistDispatch, IssueFailover,
         ClearAndCoolDown, clearFailoverDispatch
    <2>3. handoff' => handoff /\ victim' = victim
      BY Zenon, <1>4 DEF MaintainMarker, EnsureObserver, DispatchPreflight, PersistDispatch,
         IssueFailover, ClearAndCoolDown, NoPass
    <2>4. pc' # "rollout"
      BY Zenon, <1>4 DEF MaintainMarker, EnsureObserver, DispatchPreflight, PersistDispatch,
         IssueFailover, ClearAndCoolDown, NoPass
    <2>5. pc' \in {"persist", "strip", "failover"} => handoff'
      BY Zenon, <1>4 DEF MaintainMarker, EnsureObserver, DispatchPreflight, PersistDispatch,
         IssueFailover, ClearAndCoolDown, NoPass, HandInv
    <2> QED
      BY Zenon, <2>1, <2>2, <2>3, <2>4, <2>5, HandQuiet
  <1> QED
    BY Zenon, <1>1, <1>2, <1>3, <1>4 DEF Pass

LEMMA OtherHandInv ==
    ASSUME TypeOK, HandInv, [Next]_vars, ~Pass PROVE HandInv'
  <1> USE DEF apiVars, cacheVars, sentinelVars, observerVars, memoryVars, passVars, envVars
  <1>1. CASE Observer
    <2>1. pods' = pods /\ victim' = victim /\ handoff' = handoff /\ pc' = pc
      BY Zenon, <1>1 DEF Observer, PollRead, PollPublish, DeliverFrame, LoseFrames
    <2>2. faults' = 0 => faults = 0
      BY ZenonT(40), <1>1, FaultCounts DEF Observer, PollRead, PollPublish, DeliverFrame, LoseFrames
    <2> QED
      BY Zenon, <2>1, <2>2, HandQuiet DEF HandInv
  <1>2. ASSUME NEW p \in Pods, Vanish(p) \/ Recreate(p) \/ PodReady(p) PROVE HandInv'
    <2>1. \A q \in Pods : pods.phase[q] = "ready"
                             => pods'.phase[q] = "ready" /\ pods'.gen[q] = pods.gen[q]
      <3>1. CASE Vanish(p)
        BY SMTT(30), <3>1 DEF Vanish, TypeOK, PodLists
      <3>2. CASE Recreate(p)
        BY SMTT(30), <3>2 DEF Recreate, TypeOK, PodLists
      <3>3. CASE PodReady(p)
        BY SMTT(30), <3>3 DEF PodReady, TypeOK, PodLists
      <3> QED
        BY Zenon, <1>2, <3>1, <3>2, <3>3
    <2>2. UNCHANGED <<pc, handoff, victim, faults>>
      BY Zenon, <1>2 DEF Vanish, Recreate, PodReady
    <2> QED
      BY Zenon, <2>1, <2>2, HandQuiet DEF HandInv
  <1>3. ASSUME NEW p \in Pods, PodFails(p) PROVE HandInv'
    BY Zenon, <1>3, FaultCounts DEF PodFails, HandInv
  <1>4. CASE \/ \E p \in Pods : Elect(p)
             \/ ElectionFails \/ CacheSyncPods \/ CacheSyncCR \/ Tick \/ UNCHANGED vars
    <2>1. UNCHANGED <<pods, pc, handoff, victim>>
      BY Zenon, <1>4 DEF Elect, ElectionFails, CacheSyncPods, CacheSyncCR, Tick, vars
    <2>2. faults' = 0 => faults = 0
      BY Zenon, <1>4, FaultCounts
         DEF Elect, ElectionFails, CacheSyncPods, CacheSyncCR, Tick, vars
    <2> QED
      BY Zenon, <2>1, <2>2, HandQuiet DEF HandInv
  <1>5. CASE Crash
    BY Zenon, <1>5 DEF Crash, NoPass, HandInv
  <1> QED
    BY Zenon, <1>1, <1>2, <1>3, <1>4, <1>5 DEF Next, Environment

(* The number of replicas a list holds. *)
INSTANCE FiniteSetTheorems

\* Replicas - 1 pods without the primary's label are all the pods but it.
LEMMA ReplicasCounted ==
    ASSUME NEW L, NEW prim \in Labelled(L),
           Cardinality(Listed(L) \ Labelled(L)) = Replicas - 1
    PROVE  Listed(L) \ Labelled(L) = Pods \ {prim}
  <1>1. prim \in Pods /\ Listed(L) \ Labelled(L) \in SUBSET (Pods \ {prim})
    BY Zenon DEF Labelled, Listed
  <1>2. IsFiniteSet(Pods) /\ Cardinality(Pods) = Replicas
    BY FS_Interval, RolloutAssumption DEF Pods
  <1>3. IsFiniteSet(Pods \ {prim}) /\ Cardinality(Pods \ {prim}) = Replicas - 1
    BY <1>1, <1>2, FS_RemoveElement
  <1> QED
    BY <1>1, <1>3, FS_Subset

LEMMA ObserveHandInv ==
    ASSUME "pods" \notin LaggingCaches, TypeOK, HandInv, ObserveRolloutState PROVE HandInv'
  <1> USE DEF apiVars, cacheVars, sentinelVars, observerVars, memoryVars, passVars, envVars
  <1>1. pods' = pods /\ ListedPods = pods /\ pc' \in {"desired", "maintain"}
    BY Zenon DEF ObserveRolloutState, ListedPods
  <1>2. ASSUME handoff' PROVE SetComplete /\ victim' = NoPod
    <2>1. PICK prim \in LastLabelled(pods) :
             handoff' = (deriveState(pods, prim, snap.present /\ snap.ok, Active(latch))
                            = "RolloutPrimary")
      BY Zenon, <1>1 DEF ObserveRolloutState
    <2>2. /\ prim # NoPod
          /\ Cardinality(Listed(pods) \ Labelled(pods)) = Replicas - 1
          /\ (Listed(pods) \ Labelled(pods)) \cap OldRev(pods) = {}
          /\ \A p \in Listed(pods) \ Labelled(pods) : pods.phase[p] = "ready"
      BY <1>2, <2>1 DEF deriveState
    <2>3. prim \in Labelled(pods)
      BY Zenon, <2>1, <2>2 DEF LastLabelled
    <2>4. Listed(pods) \ Labelled(pods) = Pods \ {prim}
      BY Zenon, <2>2, <2>3, ReplicasCounted
    <2>5. ASSUME NEW q \in Pods \ {prim} PROVE pods.phase[q] = "ready" /\ pods.gen[q] > 0
      <3>1. pods.gen[q] \in 0 .. MaxGen /\ pods.gen[q] # 0
        BY Zenon, <2>2, <2>4, <2>5 DEF OldRev, TypeOK, PodLists
      <3> QED
        BY <2>2, <2>4, <2>5, <3>1, RolloutAssumption
    <2>6. prim \in Pods
      BY Zenon, <2>3 DEF Labelled
    <2>7. OldRev(pods) \ Labelled(pods) = {}
      BY Zenon, <2>2, <2>3, <2>4 DEF OldRev
    <2>8. victim' = NoPod
      BY Zenon, <1>1, <2>7 DEF ObserveRolloutState, RolloutVictim
    <2> QED
      BY Zenon, <2>5, <2>6, <2>8 DEF SetComplete
  <1>3. handoff' => SetComplete'
    BY Zenon, <1>1, <1>2 DEF SetComplete
  <1> QED
    BY Zenon, <1>1, <1>2, <1>3 DEF HandInv

\* With a pod cache that reads the deletes back, SENTINEL FAILOVER is issued over a complete
\* set whatever the number of replicas: ReplicasReadyForHandoff counts them, so that a
\* replica Phase 9 took down and no list shows yet holds the hand-over back.
THEOREM HandoverIsComplete ==
    ASSUME "pods" \notin LaggingCaches PROVE Spec => []HandoverComplete
  <1>1. Init => TypeOK /\ HandInv
    BY Zenon, InitTypeOK DEF Init, HandInv
  <1>2. TypeOK /\ HandInv /\ [Next]_vars => TypeOK' /\ HandInv'
    BY Zenon, NextTypeOK, ObserveHandInv, PassHandInv, OtherHandInv
  <1>3. HandInv => HandoverComplete
    BY Zenon DEF HandInv, HandoverComplete, SetComplete
  <1> QED
    BY <1>1, <1>2, <1>3, PTL DEF Spec
=============================================================================
