# Velkir in TLA+

Velkir is a Kubernetes operator for Valkey with Sentinel. One process (the
elected leader) reconciles every `Valkey` custom resource (CR); an observer per CR
polls the sentinels and listens to their pub/sub channels; Kubernetes recreates
pods; the sentinels elect masters. The operator's hard problem is that it moves
labels, pods and configuration while all of these act on their own, and that it may
die between any two of its calls.

This directory holds TLA+ models of the operator, the TLC configurations that check
them on small instances, and TLAPS proofs for every size. `PROJECT.json` lists the
components, the runs, the map from definitions to source lines, the hazards and the
theorems. Paths below are relative to `src/`.

## 1. Inventory

| Part | Source | State it keeps | Operations | Interacts with | Correct means |
|---|---|---|---|---|---|
| Reconcile pass | `internal/controller/valkey_controller.go` (`Reconcile`, `applyDesiredState`) | per-CR mutex, the pass's copy of the CR | Phases 0–11 in order, status at the end | everything | one pass per CR at a time; a failing phase ends the pass without leaving a half-done hand-over |
| Failover critical section | `primary_rollout.go` | in-memory latch, `Status.Rollout.FailoverDispatch` | persist, arm, strip, FAILOVER, roll back, cool down, rehydrate, drop | Phases 7, 9, 11, observer, restarts | an accepted failover is remembered until it is over, and only until then |
| State derivation | `derive_state.go` | none | `deriveState` | labels, revisions, quorum, latch | the hand-over starts only when every replica is rolled and Ready |
| Role labels (Phase 7) | `valkey_controller.go` 4997–5468 | `primaryStability` | desired roles, damp, stamp, demote | observer, latch, dispatcher | the primary Service ends on the sentinels' master; stamping precedes demoting |
| Replica roll (Phase 9) | `valkey_controller.go` 4646–4775 | watchdog substate | pick victim, delete, arm | StatefulSet controller | stale replicas go one by one, never the primary |
| Observer | `internal/sentinel/observer.go`, `types.go` | published snapshot, ODOWN table | poll, publish, frame, reconnect | sentinels, reconcile | epoch never falls; a frame that does not chain is dropped |
| Observer manager | `internal/sentinel/manager.go` | observers per CR, ghost table | Ensure, Remove, Snapshot, IssueFailover, IssueAuthPass, recovery | reconcile | one observer per CR; the old one is stopped |
| Quorum gate | `valkey_controller.go` 1150–1477, 3870–3947 | loss and recovery windows, split-brain episode | suppression enter/leave, episode start/confirm/expire | snapshots | no poll counted twice; an episode ends when it is over |
| Orchestration FSM | `internal/orchestration/transitions.go`, `fsm_transitions.go` | edge memories, `SuspendedFrom` | one dispatch per observed edge | derived state | each edge fires once; a suspended roll resumes |
| Orphan masters | `orphan_master.go` | attempt budget, dual-master episode | REPLICAOF on orphans, self-heal | labels, elections | only a master behind the survivor is demoted; a split is declared over only when it is |
| Stranded sentinels | `manager.go` 643–1767, `surgery_guard.go`, `valkey_controller.go` 2827–3068 | back-off per address, ghost debounce | classify, guard, REMOVE, MONITOR, tune | elections | no surgery during an election; a removed sentinel is monitored again |
| Recovery promotion | `valkey_controller.go` 3294–3613 | attempt memory | survey, confirm, promote | pods, sentinels | at most one master promoted, and only without a live one |
| Start-up reset | `sentinel_startup_reset.go` | none | one sweep at start | stranded recovery | only stranded sentinels are reset |
| Sentinel pool roll (Phase 3) | `sentinel_roll.go`, `sentinel_sts.go` | StatefulSet partition | hold or advance the partition | StatefulSet controller, failover section | the next sentinel goes only after the last one re-joined |
| Auth rotation | `auth_rotation.go`, `internal/valkey/rotate.go` | cached old password, `AuthRotation` status | detect, rotate, revert, adopt | pods, Secret, restarts | the cluster ends on one password, or says that it did not |
| PVC resize | `internal/pvcresize`, `valkey_controller_pvcresize.go` | `PVCResize` status | five phases, abort, back-off, stall | Phase 2, StatefulSet | the StatefulSet comes back; PVCs are never lost |
| PVC retention, deletion, PVC loss | `valkey_controller.go` 4014–4110, `valkey_controller_pvcloss.go` | finalizer, owner references | add, apply policy, remove, gate | garbage collector | the policy holds for every PVC before the CR goes |
| StatefulSet apply, scale and image gates | `valkey_controller.go` 4340–4609, `internal/version` | none | apply, defer, refuse | labels, state | a scale-down is refused while the labels name a pod it would remove |
| Readiness gates | `valkey_controller.go` 5529–6211, `internal/valkey/lagchecker.go` | stale-replica timers | evaluate, patch, escape | replication | a lagging replica is not Ready; a wedged one is replaced |
| SentinelQuorum records | `sentinelquorum_*.go`, `internal/sqaggregate` | one record per sentinel | write, aggregate | status | stale records do not vote |
| Rollout watchdog | `internal/orchestration/watchdog.go`, `valkey_controller.go` 6411–6588 | `MasterAware` substate | arm, check, disarm | status patch | a stalled pod is reported |
| Status | `internal/orchestration/*.go` | conditions | evaluate | all | conditions agree with the observation |
| Webhook certificates | `internal/webhook/dynauth` | CA and leaf Secrets, bundles | ensure, rotate, inject | cache, several replicas | leaves chain to the injected CA |
| Pruner | `stale_tracker_pruner.go`, `percrstate.go` | in-memory trackers | sweep | reconcile | a live CR loses nothing that cannot be rebuilt |
| Admission, defaults, rendering, metrics, events, audit, wiring | `internal/webhook/v1beta1`, `internal/defaults`, `internal/valkeyconf`, `internal/metrics`, `cmd` | none that decisions read back | pure functions and output | — | not modelled, see section 7 |

The behaviours that make it hard: the observer publishes while a pass is between two
calls; informer caches trail the API server, the operator's own writes included;
patches are merge patches without a resource version and deletes go by name, so
neither notices that its base is old; the process may die anywhere; sentinel
commands may take effect although their reply is lost; sentinels elect on their own.

## 2. What is modelled

| Module | Models | Proofs |
|---|---|---|
| `PrimaryRollout` | failover critical section, role labels (Phase 7), replica roll (Phase 9), observer | `PrimaryRolloutProofs` |
| `QuorumGate`, `HysteresisGate` | the vote of a poll, split-brain episodes, the suppression gate and what it promises | `QuorumGateProofs` |
| `AuthRotation` | hot rotation of the password | `SecretsProofs` |
| `WebhookCA` | webhook CA, leaves and injected bundles | `SecretsProofs` |
| `SentinelRecovery` | surgery on stranded sentinels, by the loop and by the start-up pass | `SentinelProofs` |
| `SentinelRoll` | roll of the sentinel pool (Phase 3) | `SentinelProofs` |
| `Volumes` | PVC resize, retention, deletion, PVC-loss gate, Phase 2's guard | `DataSetProofs` |
| `Scaling` | replica count and image that Phase 2 applies | `DataSetProofs` |
| `OrphanMasters` | orphan demotion and dual-master self-heal (Phase 7a) | `SplitProofs` |
| `CRStatus` | conditions, phase, `SuspendedFrom`, watchdog, freshness windows, dual-master page | `SplitProofs` |
| `RecoveryPromotion` | seed, survey and promotion when no master is left (Phase 11) | `PromotionProofs` |
| `ReadinessGates` | readiness gates, stale-replica deletion and the bounded escape (Phase 8) | `GatesProofs` |

`RolloutClaims` and `QuorumClaims` state what comments claim. The `MC` modules are what
TLC runs. `MCUpkeep` (`AuthRotation`, `WebhookCA`, `CRStatus`), `MCSets`
(`SentinelRecovery`, `SentinelRoll`, `Volumes`, `Scaling`) and `MCMasters`
(`OrphanMasters`, `RecoveryPromotion`, `ReadinessGates`) put modules that share no
state into one run: a behaviour chooses one of them at the start and the others stay in
one initial state, so the states add up and do not multiply.

### Failover section: `PrimaryRollout`

Kubernetes, the sentinels and the clock are its environment.

| Model | Code |
|---|---|
| `pods`, `marker` | labels, revision, address and readiness of the pods; `Status.Rollout.FailoverDispatch` on the API server |
| `podCache`, `crCache` | the informer caches `r.List` and `r.Get` read (`LaggingCaches` says which may trail) |
| `snap`, `polling`, `poll`, `frames` | the published `Snapshot`, a poll between its queries and its publication, pub/sub frames under way |
| `latch`, `stab`, `freshPoll` | `failoverInFlightLatch`, `primaryStability` and whether `LastPolledAt` advanced |
| `pc`, `vMarker`, `handoff`, `victim`, `want`, `todo`, `disp` | where the pass is and what it carries from one call to the next |
| `section` | history: the accepted failover that is under way; no action reads it |

| Action | Code |
|---|---|
| `ObserveRolloutState` | fetch, list, `observeRolloutState`, `deriveState`; Phase 9's victim is fixed here, as it works on this list |
| `MaintainMarker` | `maintainFailoverDispatchMarker`: rehydrate, drain, drop |
| `DesiredRoles`, `StampPrimary`, `StampReplica` | `desiredRolesForCR` and `reconcileRoleLabels`, one patch per step |
| `reconcilePodRollout` | the delete of Phase 9, by name |
| `EnsureObserver`, `DispatchPreflight`, `PersistDispatch`, `StripPrimary`, `IssueFailover` | Phase 11 up to the accepted failover |
| `RestorePrimary`, `ClearAndCoolDown` | the roll-back |
| `PollRead`, `PollPublish`, `DeliverFrame`, `LoseFrames` | `pollOnce`, `dispatch`, `runSubscribe` |
| `Elect`, `ElectionFails`, `Vanish`, `Recreate`, `PodReady`, `PodFails`, `CacheSync*`, `Tick`, `Crash` | the environment |

Abstractions:

- An incarnation of a pod is `<<pod, gen>>`, which is its address; `gen > 0` is the
  new revision. Ready includes replication-healthy.
- A deleted pod is terminating, then absent, then starting. An absent pod is in no list
  (`Listed`): Phase 9 does not miss it, `deriveState` counts it, a patch of it fails.
- The sentinels have one agreed master and epoch. A sentinel that learns of a switch
  late is a poll read before the switch and published after it.
- A `+switch-master` frame names the address it switches from and must chain onto the
  snapshot; a `+failover-end` frame, sent by the leading sentinel, names only the new
  address (what `dispatch` takes its payload for) and is applied as it comes.
- An observer is replaced when a sentinel endpoint changes, which counts as a fault.
- Time is in ticks. A cache trails by less than a tick: a tick waits for the caches
  that a pass reads. A restart lists afresh.
- A pod listing taken just before `MaintainMarker` is represented by the cache
  syncing later.
- Of two labelled pods, a loop that keeps the last match may end with either.
- A merge patch sends the fields that differ from the copy it is taken against
  (`MergePatch`); two dispatches with the same deadline are not considered.
- Left out: events, CLIENT KILL on a demoted pod, the readiness-gate conditions (in
  `ReadinessGates`), the watchdog (in `CRStatus`), and replication and standalone mode.

### Quorum signal: `QuorumGate`

| Model | Code |
|---|---|
| `snap`, `polls` | `ObservedPrimary` (quorum, address, `LastPolledAt`) and the stamps given out |
| `active`, `loss`, `recovery`, `brain`, `lastOK` | `crQuorumState` |
| `pass` | the poll the last pass read, the gauge it set, whether it counted a failover |
| `paged`, `lostSeen`, `okSeen` | history: pages sent, readings since the last opposite one |

`pollOnce` takes every combination of replies, tallied per address; `dispatch` is a frame
that moves the address under the old stamp; `Ensure` replaces an observer by a
placeholder; `updateQuorumSuppressionGate` is the whole function in its order (episode,
failover, gate); `Tick` and `Crash` are the environment.

Abstractions: a poll's stamp is its number. A frame may name any address; whether it
chains is `PrimaryRollout`'s matter. Both readings of the clock in a pass are one.
`lastQuorum`, which no decision of the gate reads, is left out. A pass always finds an
observer: `Ensure` precedes the gate in the pass and an error there ends it.
A poll names its outcome by `Tallies`, the set of what `Tally` makes of all
replies. `HysteresisGate.tla` is the abstract gate: it holds the readings themselves
and no counters.

### Secrets: `AuthRotation`, `WebhookCA`

| Model | Code |
|---|---|
| `secret`, `requirepass`, `masterauth` | the password in the Secret and in each pod; a password stands for its hash |
| `phase`, `hash`, `cached` | `Status.Rollout.AuthRotation`, `authPasswordCacheEntry` |
| `walk`, `old`, `new`, `todo`, `moved`, `failed` | the running `RotateAuth`, forward or walked back |
| `ca`, `leaf`, `caCache`, `leafCache`, `bundle` | the Secrets with their resourceVersion and force annotation, the manager's cache, `caBundle` |
| `at`, `seen`, `rotated`, `signing` | where each `reconcileOnce` is and what it holds |
| `unsure`, `published` | history: pods the operator cannot vouch for; every CA ever stored |

`MaybeRotateAuth` decides (`FirstObservation`, `AdoptMissed`, `DriveAuthRotation`,
`SteadyState`), `RotateOne` and `RotateOneFails` visit one pod, `Succeed`, `Revert` and
`Reverted` end a walk. A failing visit may have taken effect. The auth-pass that the
sentinels are told is left out. `BeginPass`, `EnsureCA`,
`LoadCA`, `ReadLeaf`, `EnsureLeaf` are `Authority.reconcileOnce`, by the leader through
its cache and by each init container without one; `Inject` is the injector.

### Sentinels: `SentinelRecovery`, `SentinelRoll`

| Model | Code |
|---|---|
| `entry`, `cut` | per sentinel: monitored address, config-epoch, peers, flag, replica table; whether it answers |
| `live`, `masters`, `label`, `inFlight` | data pods, their self-reported roles, the role label, the operator's latch |
| `pass`, `ghostSeen` | the two passes and what each has read; the ghost debounce |
| `want`, `tmpl`, `part`, `update`, `cur`, `seen` | the sentinel StatefulSet, its status and the cached status |
| `changed`, `vouched`, `pinned` | history: entries changed under a pass; pods seen back; whether the partition in force was computed for this revision or left at the top |

`LoopReadsPeers`, `LoopSelects`, `LoopGates`, `RemoveAll`, `MonitorAll` are
`RecoverStrandedSentinels`; `StartupReads` is the start-up pass, which then shares the
last two. A fan-out over the sentinels is one step. The loop works towards a master of
`ObservedMasters`: the labelled pod if it says it is a master, else the observer's address,
else the only pod that says so; none of these probes fails in the model. Which sentinels
may stay as they are (`spare`) is fixed when the peers are read. `ReconcileInfra` and
`ReadFails` are Phase 3 with `computeSentinelRollPartition`, whose failed Get yields
partition 0 and whose failed List the top; `RollPod` is the StatefulSet controller.

### Data StatefulSet: `Volumes`, `Scaling`

| Model | Code |
|---|---|
| `cr`, `before`, `v`, `hadFin` | the CR, the CR before the last write (a stale cache), the pass's copy, the finalizer at its start |
| `set`, `ready`, `claim`, `owned`, `growable` | StatefulSet, PVCs with their owner references, StorageClass |
| `at`, `listed`, `todo`, `failed` | where the pass is, and Phase 0c's walk |
| `lost`, `doubt` | history: the gate met a loss; the resize has had a pass on an older copy |
| `asked`, `have`, `labelled`, `cached`, `master`, `rolling`, `copy`, `stage` | spec and set of `Scaling`, the role labels, the labels a list shows, the pass between read and apply |

`Gate`, `Phase4` with one action per resize phase (`FromValidated` … `FromAborted`),
`Phase2`, `DeleteVisits` and `DeleteEnds` are the pass; `PassCut` ends it anywhere, and
`DriveFails` is a call of the resize that fails in passing (`ActionRequeue`), after which
the pass goes on. `Precheck` and `ApplySet` are Phase 2 of `Scaling`, `Promote` and
`Demote` Phase 7; both list through a cache that trails the labels (`LabelsSync`).

### Masters: `OrphanMasters`, `RecoveryPromotion`, `ReadinessGates`

| Model | Code |
|---|---|
| `acts`, `offset`, `ip`, `reach`, `role`, `elected` | role, offset and reachability of the pods, labels, the sentinels' choice |
| `scan`, `attempts`, `stamp` | the scan of Phase 7a, `dualMasterSelfHeal`, `dualMasterObserved` |
| `addr`, `master`, `host`, `data`, `agreed`, `known`, `seed`, `survey`, `cooling` | pods and the address they follow, sentinels, seed ConfigMap, the survey, `recoveryPromotionLastFired` |
| `up`, `points`, `applied`, `ranked`, `gate`, `opened`, `falseFor`, `without`, `escaped`, `walk` | pods, readiness gates and conditions, `staleReplicaTracker`, `noPrimarySince`, the running Phase 8 |
| `steady`, `same`, `fresh`, `present` | history: masters and addresses since the list, writes since a reading, pods from the survey's start to its confirmation |

Every dial of a pod is a step (`OrphanRead`, `HealRead`, `DialPod`, `Read`), and pods
die, boot and are elected between two. `HealDecide` and `HealDemote` are the self-heal;
`SurveyBegins` to `Promote` are `maybeRecoveryPromote`; `Sweep` is a Phase 8 that cannot
escape, `EscapeBegins`, `Read`, `Escape`, `EscapeEnds` one that may.

In `RecoveryPromotion` a reply may lack `slave_repl_offset`; such a pod counts for the
lineage and is not ranked (`Rankable`), and the sentinels elect any candidate they know. In
`ReadinessGates` a deleted pod is pending at once (terminating and absent are left out), a
`Sweep` is one step, and `Elects` takes the freshest pod: priorities are equal and the
sentinels' INFO is not older than the election, which `EscapeSparesFreshest` rests on.

### Status: `CRStatus`

`world` is what is so, `memo` the stamps of `perCRState` and `crQuorumState` with their
ages, `status` and `copy` the stored and the cached status, `turn` the pass and its copy,
`record` the history. `Pass` runs the phases up to the status, `updateStatus` evaluates
and patches what differs from the copy, `Elapses` is the keep-alive. Offsets' lag is part
of a link being up; conditions that neither `Ready`, `Degraded` nor the phase reads are
left out.

## 3. Properties

| Property | Says | What could break it |
|---|---|---|
| `DurableSection` | while an accepted failover is under way, marker and latch hold its address, fence and deadline | a lost or late patch, a premature drop, a second dispatch |
| `WindowHeld` | inside it nobody gains `role=primary` (the bootstrap rule aside) | a latch lost at restart, a latch not consulted, a stale pod list |
| `SelectorKept` | a demotion never takes the last `role=primary` away, unless the chosen pod was replaced meanwhile | demoting first, a failed stamp |
| `HandoverComplete` | without outside failures, when FAILOVER is issued every pod but one exists, is Ready and new | a pod that is gone taken for rolled, a starting pod taken for Ready |
| `MarkerDrains` | a marker is eventually dropped | a drop that is skipped for ever |
| `RolloutFinishes` | the update ends with every pod new and Ready and the label on the master | any hold that never releases |
| `TallyExact` | a poll claims quorum for an address exactly when a threshold-sized set names it and reports CKQUORUM | votes and CKQUORUM counted over different sets, a tie broken wrongly |
| `GateHysteresis` | the suppression gate implements `HysteresisGate` | one poll counted by two passes, a stamp not reset, a frozen poll ageing into suppression |
| `EpisodeOnce` | one page per poll, whatever expires or restarts | an expired poll opening its episode again |
| `GaugeBacked` | the sustained gauge grows only with a newer poll | passes measuring with their own clock |
| `CredentialKnown` | between passes the recorded hash is every vouched-for pod's password (`unsure` are those that a restart, a lost reply or a lost record put beyond the operator's knowledge) | a walk that advances the hash with a pod left behind |
| `AuthSettles` | the recorded hash becomes the Secret's, or the status says Partial, or a pod is out of reach | a retry that never comes, or that cannot log in to a pod moved before |
| `LeafSignerPublished` | leaves are signed by CAs that were stored | the loser of the install race signing with its own |
| `RotatedForCause` | a CA is replaced only for a cause of its own | a stale read rotating twice |
| `TrustHeals` | leaves, bundles and CA come to agree, after every rotation | a crash between CA and leaves, leaves signed by the CA of a stale read |
| `NoUsefulEntryErased` | the loop erases no entry that still carries the newest epoch and a live replica, unless it changed under the pass | a cohort compared by address instead of epoch |
| `Reattached` | a sentinel without an entry gets one again, as long as there is a master to resolve now and again | REMOVE without MONITOR |
| `RollGated` | under a partition computed for this revision, or left at the top by a failed list, the next sentinel goes after the last one was seen back; not under the partitions 0 of section 6 | Ready taken for joined |
| `RollCompletes` | the roll ends | a partition that stays |
| `GuardedRecreate` | Phase 2 recreates the set only when the stored phase and the user allow; passes on an older copy are excluded (`doubt`) | a phase missing from the guard, a gate that does not hold |
| `CompleteMeansGrown` | a completed resize has no volume still growing to what was asked of its claim; not that the claims were asked for the size of the event | a claim skipped, a capacity compared with the wrong size |
| `RetentionHonoured` | when the CR goes under the policy its last pass read, the owner references fit it | a failed patch forgotten, references an earlier pass set for an earlier policy |
| `ResizeEnds` | a resize ends and the set comes back, or there is a stated reason | a phase nobody leaves |
| `EndpointReturns` | whatever a scale-down on old labels or on none took, the Service comes back to the master alone | a demotion that is skipped, labels that stay split |
| `SurvivorAhead` | the self-heal demotes only masters behind the survivor now | offsets read one after the other |
| `ClearedForCause` | a split is declared over only if one master is left | a scan that missed a pod |
| `SplitHeals` | a healable split is healed | an attempt budget spent on nothing |
| `PromotesFreshest` | of the pods there from the survey's start to its confirmation no other is a master, and none that told its offset is fresher than the one promoted | a list that lacks a pod, two lineages, a pod replaced or a reading aged before the command |
| `MasterReturns` | a CR does not stay without a master | a seed of a dead pod |
| `EscapeSparesFreshest`, `NoMasterOverlooked` | the escape deletes no freshest pod and overlooks no master | readings that aged, ungated pods skipped |
| `ReplicasHeal`, `GatesSettle` | stuck replicas are replaced, gates come to tell the truth | a tracker restarted for ever |
| `MasterLostBacked` | MasterLost is backed by probes in the window | a first failure kept for ever |
| `SplitPagedOnce` | one page per split and per pod that joins | roles moving between scans |
| `StatusSettles` | the status comes to say what is so | a stale copy, a lost patch, a stamp that outlives its cause |

`UpkeepInv`, `SetsInv` and `MastersInv` are the type invariants of the modules of a run
together with the inductive invariants of section 5.

## 4. Runs

| Run | Instance | Shows |
|---|---|---|
| `rollout_faults` | 2 pods, restart, one fault, spontaneous failovers | `DurableSection`, `WindowHeld`, `SelectorKept` on every error path |
| `rollout_pod_lag` | 2 pods, restart, lagging pod cache | `WindowHeld` with old pod lists |
| `rollout_three_pods` | 3 pods, 2 subscriptions, lagging CR cache, spontaneous failovers | `HandoverComplete` |
| `rollout_liveness` | 2 pods, restart, fair | `MarkerDrains`, `RolloutFinishes` |
| `quorum_gate` | 3 sentinels, 2 addresses, 5 polls, 4 ticks | `TallyExact`, `EpisodeOnce`, `GateHysteresis`, `GaugeBacked` |
| `upkeep` | 2 pods and 3 passwords; 2 init containers and the leader, 1 leaf; 3 pods to page about | `UpkeepInv` and the properties of `AuthRotation`, `WebhookCA`, `CRStatus` |
| `sets` | 3 sentinels, 3 addresses; 3 revisions; 2 claims, 3 sizes; 3 replicas | `SetsInv` and the properties of `SentinelRecovery`, `SentinelRoll`, `Volumes`, `Scaling` |
| `masters` | 2 pods that split; 2 pods without a master; 3 gated pods | `MastersInv` and the properties of `OrphanMasters`, `RecoveryPromotion`, `ReadinessGates` |
| `claim_labelled` | 3 pods, spontaneous failover | Phase 9 deletes the pod Phase 7 of the same pass labelled primary |
| `claim_window` | 2 pods, restart | the bootstrap rule stamps pod-0 during the failover |
| `claim_one_at_a_time` | 3 pods, no fault, no lag | while a deleted pod is gone and not yet recreated the next replica is deleted, and two are down |
| `claim_failover` | as `quorum_gate` | a failover that ends an episode is not counted |

Bounds. Two pods are the least with a hand-over; three let Phase 9 choose and give
the sentinels two candidates. `MaxEpoch = 1` admits the operator's failover or a
spontaneous one, `MaxGen` one or two recreations of a pod, `LatchTTL = 2` a latch
that is fresh, at its deadline and past it. One restart and one fault, at any point,
are what the code's recovery paths are written for; each path contains the case of a
call that fails or is not reached. The configurations differ where one bound would
hide a case: `MaxSnapshotAge = 1` lets a snapshot become stale without a fault,
`MaxGen = 2` lets a pod fail after it was rolled.

For the gate, three sentinels give a threshold below the full set and a tie, two
addresses a switch. With thresholds of two and staleness of one tick, four ticks and
five polls enter and leave suppression and expire and reopen an episode.

`upkeep`: two edits and two faults let a walk fail, be walked back, fail there and meet a
newer Secret; eight certificates are more than a behaviour stores (seven), so that no
state is at that bound and what follows a rotation is explored; windows of one interval
are the least that can be met, reached and passed. `sets`: two troubles cut a pass between
REMOVE and MONITOR and lose the master as well; three revisions let a template change
while it rolls; two edits and one mishap raise a size again, or delete what a cut pass was
about to wait for; two labelled pods are the split Phase 7 leaves, and two faults of
`Scaling` with one edit of the CR are a failover or a strip and a scale-down on the list
from before. `masters`: offsets up to two tell a clear lead from one within `Epsilon`; two
pods and two faults let one die during the survey and one reply be lost; three gated pods
are a master, a candidate and a victim, and at the start ordinal 0 is the master with
ordinal 1 behind it. The theorems of section 5 do not depend on these bounds: what the
runs add is that the properties are not vacuous and the liveness.

In the three joint runs deadlock is not checked: when the bounds are spent a healthy
cluster has nothing left to do. Every property of a passing run has a mutant in
`PROJECT.json`, a plausible bug of the mapped code that TLC tells from it.

Fairness. Passes are requeued and every step of a pass ends (calls have timeouts), the
poll ticker fires, the clock advances, caches sync, the StatefulSet controller replaces
deleted pods and they become Ready, subscriptions deliver, and an election that was asked
for or is due because the master is gone completes. The storage driver grows what it is
asked to, an init container is restarted until it completes, a failover's latch and a
back-off expire. Time is strongly fair where passes may preempt it (`Elapses`, `Dwells`):
it goes on however many passes run. There is no fairness on crashes, failures, user
actions or spontaneous elections.

## 5. Proofs

`PrimaryRolloutProofs.tla` proves, for every number of replicas, every TTL and every
bound (`RolloutAssumption`):

- `TypeCorrect`: `Spec => []TypeOK`.
- `SectionDurable`: `Spec => []DurableSection` if the CR cache does not lag.
  `DurableSection` is not inductive: a pass might hold an old marker or be on its way
  to a second dispatch. `SectionInv` adds that, while the section is open, it has time
  left and the observer reports its address or none; the latch is the marker, or is
  absent and then no pass has got beyond `maintain`; the pass's copy of the marker is
  the stored one; no pass is inside the dispatcher. And at any time: from `strip` to
  `failover`, latch, marker and the dispatcher's address agree.
- `LabelWindow`: `Spec => WindowHeld` if neither cache lags. It rests on `SectionInv`,
  on `PromoteInv` (inside the section only the bootstrap rule, which saw no label at
  all, is about to stamp) and on `LabelGain` (only the stamping step of Phase 7 and the
  roll-back can add a label).
- `HandoverIsComplete`: `Spec => []HandoverComplete` if the pod cache does not lag, from
  `HandInv`: from the moment a pass derives the hand-over to its FAILOVER, and while
  nothing fails, every pod but one exists, is Ready and has the new revision. Such a pass
  has no victim, so nothing takes a pod away in between.
- `StampsFirst`: `Spec => SelectorKept` if the pod cache does not lag, from `DemoteInv`:
  the chosen pod is not among those to demote, it was chosen at its present incarnation
  or an earlier one, and while that incarnation lasts it is labelled when the demotions
  begin.

The assumptions on the caches are needed: a hand-over derived from an old list may find a
pod gone, and with a lagging CR cache a merge patch may leave out a field the stored
marker does not have.

`QuorumGateProofs.tla` proves, for every number of sentinels and addresses, every
threshold and every bound (`GateAssumption`):

- `GateTypeCorrect`: `Spec => []TypeOK`.
- `PollTally`: `Spec => []TallyExact`; two threshold-sized sets of voters meet.
- `OnePagePerPoll`: `Spec => []EpisodeOnce`. `EpisodeInv` adds that a snapshot which may
  still open an episode is newer than every page sent, `StampInv` that no stamp is
  ahead of the polls made and that an open episode's times are in order.
- `GaugeNeedsPolls`: `Spec => GaugeBacked`, from `GaugeInv`, which ties the gauge and
  the stamp the last pass reported to the episode.
- `GateRefines`: `Spec => GateHysteresis`, a refinement. `GateInv` relates the stored
  loss stamp to the first reading of the run, and the recovery count to the number of
  distinct OK polls read.

The other modules are proved along one line: the property is about what a pass does with
what it read some steps ago, so the invariant says what those readings are still worth.
Each holds for every number of pods, sentinels, claims, passwords and processes and for
every bound, under the assumption named in the module, and is checked by TLC in the joint
runs. Fairness is a conjunct of some specifications; no proof uses it.

`SecretsProofs.tla`:

- `CredentialsKnown`: `AuthSpec => []CredentialKnown`. `AuthInv` adds `Forward` (a walk
  has moved a pod to the new password or left it on the recorded one, and each pod is
  moved, failed or to be visited) and `Backward` (what has been walked back is on the
  recorded one).
- `LeavesSignedByStored`: `CASpec => []LeafSignerPublished`, and `RotationHasCause`:
  `CASpec => RotatedForCause`, from `CAInv`: what Secret, cache or pass hold was
  published, and a copy with the stored resourceVersion is the stored Secret, which is
  why an update that does not conflict acts on what it read.

`SentinelProofs.tla`:

- `RollIsGated`: `RollSpec => RollGated`. `RollInv`: pods of the new revision are the
  highest ordinals, and under a partition computed for this revision only the pod at the
  partition can be old and due, after the one above it was vouched for. The theorem is
  silent on the partition 0 of a new template and on that of a failed Get.
- `SurgeryErasesNothingUseful`: `RecoverySpec => NoUsefulEntryErased`. `RecoveryInv`:
  what the loop is about to erase, and has not changed, is still behind a newer epoch or
  doomed.

`DataSetProofs.tla`:

- `ScaleKeepsEndpoint`: `ScaleSpec => EndpointKept`: a scale-down that takes the last
  labelled pod was decided on a list that did not show the labels as they were. `ScaleInv`
  says that the ordinal found is one the list shows. No run checks it, as the interesting
  half, the outdated list, is what `EndpointReturns` is about.
- `RecreateIsGuarded`, `CompleteIsGrown`, `RetentionIsHonoured`: `VolSpec` implies
  `GuardedRecreate`, `CompleteMeansGrown` and `RetentionHonoured`. `VolInv` adds `Sure`
  (without doubt the copy has the stored phase, volumes grow only towards a size the pass
  knows, and none does once the set may come back), `Consented` (past the gate lost claims
  have the user's consent) and `Visited` (a deletion without a failure has settled every
  claim it visited). `RetentionHonoured` supposes that the policy is still the one the last
  pass read.

`SplitProofs.tla`:

- `OrphanInvariant`, `SurvivorIsAhead`, `ClearingHasCause`, from `OrphanInv`: a master's
  offset is its reading plus at most the writes since, the survivor was read clearly
  ahead of each loser, and a scan that may call itself complete covers each lasting
  master. The model lets at most `Epsilon` writes reach a pod between its reading and the
  end of the scan, which is what `dualMasterOffsetEpsilon` is there for; with more writes
  than that the code has no guard and the theorem says nothing.
- `StatusInvariant`, `MasterLostIsBacked`, `SplitIsPagedOnce`, from `StatusInv`: a run of
  failed probes is no longer than the silence, the last of them found the primary mute,
  and the page's set is the union of the scans since the split began.

`PromotionProofs.tla`: `PromotionInvariant` and `PromotionTakesFreshest`, from
`PromotionInv`: no two pods share an address, the readings of a clean survey are true
until a pod boots as a master or, before the confirmation, the sentinels elect; the
candidate is the maximum of the replies that carried an offset; and with the confirmation
there is no master and nobody to elect. The theorem compares the promoted pod with those
that told their offset only.

`GatesProofs.tla`: `GatesInvariant`, `EscapeIsSparing` and `EscapeOverlooksNoMaster`, from
`GatesInv`: while a walk may still escape, each listed pod is read, to be read or
replaced; and the readings are true, or a master since is at least as fresh as every
listed pod, or a pod that will forbid the escape is still to be read. The middle case is
why the readings alone are not inductive: an election may follow them.

Only model-checked:

- the liveness properties `MarkerDrains`, `RolloutFinishes`, `AuthSettles`, `TrustHeals`,
  `StatusSettles`, `Reattached`, `RollCompletes`, `ResizeEnds`, `EndpointReturns`, `SplitHeals`,
  `MasterReturns`, `ReplicasHeal`, `GatesSettle`: fairness and `ENABLED` are outside what
  the prover supports;
- `WindowHeld` with a lagging pod cache;
- `UpkeepInv`, `SetsInv` and `MastersInv` as such: the proofs show each conjunct for its
  own specification, not for the joint module.

## 6. Where code and comments disagree

Shown by a run:

1. Phase 9 reads labels from the list of the top of the pass. After a spontaneous
   failover, Phase 7 stamps the new master and Phase 9 of the same pass deletes it
   (`claim_labelled`), although "the primary is left alone".
2. Phase 9 asks whether the pods it lists are Ready and does not count them. While a
   deleted pod is gone and not yet recreated it deletes the next replica
   (`claim_one_at_a_time`), although a delete in flight is to be waited for. The hand-over
   counts, and is held back in that state (`HandoverComplete`).
3. The bootstrap branch of `desiredRolesForCR` comes before the latch
   (`claim_window`), although the rehydrated marker is said to keep `role=primary`
   off mid-election.
4. The pass clears the split-brain episode before it looks for a failover that ends
   one (`claim_failover`), so the failover counter and its histogram stay empty. The
   unit tests call the second function alone with the episode set by hand.

Met while modelling; the models do what the code does, and the properties are stated so
that they hold of it:

- `valkey_controller.go` 4746: the delete of Phase 9 has no UID precondition, nor has that
  of Phase 8 (5794). With a lagging pod list it hits the replacement of the pod it meant.
- `auth_rotation.go` 555–559, of a rotation that failed and was reverted: "we stay Idle (no
  infinite-retry loop on poison content)". The recorded hash stays the old one and the
  Secret's is another, so every later pass starts the rotation again
  (`AuthRotation.ContentChanged`); `AuthSettles` rests on that.
- `auth_rotation.go` 503–505, of a rotation repeated because its status was not stored: "pods
  already on newPwd will error on AUTH-with-old" and the cluster is to land "on a consistent
  old credential". `rotate.go` 262–284 falls back to the new password, so the repetition
  succeeds and the cluster lands on the new one (`Authenticates`).
- `sentinel_sts.go` 127–129: "the returned partition already pins the roll at its current
  point", and the requeue is to retry "rather than advancing on incomplete information". A
  failed List of the pods does hold the roll. A failed Get of the StatefulSet returns
  partition 0 (`sentinel_roll.go` 139), which is applied: until a later pass corrects it
  nothing but Readiness paces the roll (`SentinelRoll.ReadFails`).
- `sentinel_sts.go` 123: "roll one sentinel pod at a time, advancing only after the
  previously-rolled pod re-joins the quorum". The partition comes from the status before the
  apply. When the template changes the status still shows no roll, so the template is applied
  with partition 0, and sentinels may be replaced without the gate until the status is read
  again (`ReconcileInfra` with `pinned` false).
- `sentinel_sts.go` 106: "a sentinel pod must never be rolled while a failover is in flight".
  The deferral holds back the apply; a partition that moved before the failover lets the
  StatefulSet controller go on (`Window`, `RollPod`).
- `valkey_controller.go` 4002: the finalizer makes the retention policy "a hard guarantee".
  The patch that removes it (4096–4099) carries no resource version: a policy edited after
  the last pass read it goes with the owner references of the old one. `RetentionHonoured`
  supposes that the two agree.
- `valkey_controller.go` 4373, of the guard against removing the primary: "must hold across
  every FSM state". It goes by the labels a cached list shows. With no label (a failover) or
  an old list the primary, and with it the last label, is scaled away (`Scaling.Precheck`);
  `EndpointReturns` is about what follows.
- `valkey_controller.go` 3280: "The candidate is the replica with the highest applied
  replication offset". A replica whose reply lacks `slave_repl_offset` is passed over (3566)
  and may hold more than the one promoted (`RecoveryPromotion.Rankable`).
- `orphan_master.go` 49: "This phase runs after Phase 7 (so role labels are current)";
  the pods it judges were listed before Phase 7 (`OrphanMasters.ListPods`).
- `valkey_controller.go` 5085: "the next reconcile retries the gate mutation"; `patchOne`
  returns early once the label is right, so it does not. Phase 8 opens such a gate
  (`GatesSettle`).
- `valkey_controller.go` 4755: "On stall, watchdog.Check expires"; the substate is armed
  on the pass's copy and the status patch is taken against that copy, so it is not stored
  by the pass that arms it (`CRStatus.Arm`, `Patched`).
- `pvcresize/transitions.go` 207: "Holds substate while any PVC is still expanding"; a
  size raised after the patch is not what the claims were patched to, and neither this
  phase nor the next goes back (`Outgrown`). The stall guard is what remains. A size raised
  one phase later, in Verified, completes with an event that names the new size "at
  capacity" (321) although no claim was asked for it; the next pass starts a new resize.
- `valkey_controller_pvcloss.go` 69: "finalizer present → was bootstrapped previously"; a
  pass cut after Phase 0b' leaves a finalizer on a CR that never had a set, and the gate
  then asks for the user's consent (`Volumes.Gate`).
- Status patches carry no resource version. A pass on an older copy of the CR can
  recreate the set in a phase that guards it, or complete a resize early. `doubt` marks
  these behaviours, and claims that an earlier CR left growing; `GuardedRecreate` and
  `CompleteMeansGrown` speak of the others.
- The start-up pass and the loop do surgery on the same sentinels and nothing keeps them
  apart; together they can erase the newest config-epoch. `changed` marks these.
- Between the survey and the promotion a pod may boot as a master, and between the survey
  and its confirmation the sentinels may elect: the promotion then adds a second master, or
  one that is behind. `present` is empty in these behaviours.
- The orphan demotion can hit the master the sentinels have just elected, and the self-heal
  a pod elected after it was read; `SplitHeals` is about the end.
- Conditions and phase are compared with a copy each and patched on their own, so a
  reader may see one without the other for a moment (`StatusSettles` is about the end).

## 7. Not modelled, and why

Admission webhooks and defaults are stateless functions of one object; configuration
rendering is text; metrics, events, logs and audit are output that no decision reads;
process wiring registers the parts; `SentinelQuorum` records are written and aggregated
without memory; the triple check has no caller; the pruner works on all CRs at once and
the modules on one. Inside the modelled parts: the pause switch and the TryLock in
`Volumes`, a PVC cache that trails in the deletion, a label cache that trails in Phase 8,
CLIENT KILL on a demoted pod, ODOWN bookkeeping, the topology deficit, and the order of
sentinels within one fan-out. The modules of a joint run are checked one by one and not
against each other; what they share (labels, latch, the sentinels' view) is each one's
environment, free to move whenever the code lets the other part move it.

## 8. Open

- An abstract `FailoverSection` (closed, open, closed) that `PrimaryRollout` implements.
- Per-sentinel votes with epochs and ODOWN, of which `PrimaryRollout`'s single view would
  be the abstract specification.
- The stored marker against the latch with a lagging CR cache; the roll-back whose restore
  fails, where the comment expects the next pass to re-stamp and the cool-down latch
  prevents it.
