------------------------------ MODULE CRStatus ------------------------------
(***************************************************************************)
(* What the operator tells of a sentinel-mode CR: the conditions and the   *)
(* phase of its status, the SuspendedFrom stamp of an aborted rollout, and *)
(* the DualMasterObserved page.  A pass works on the copy of the CR its    *)
(* cache held, observes, and patches the fields that differ from its copy. *)
(* The observations a status is made of are kept in the operator's memory, *)
(* are taken only by a pass that gets to them, and count while fresh.      *)
(***************************************************************************)
EXTENDS Integers, FiniteSets

CONSTANTS
    CRPods,       \* the data pods
    DownAfter,      \* down-after, in keep-alive intervals
    Window,         \* masterInfoProbe- and dualMasterObservedFreshnessWindow, in the same
    StuckWindow,    \* strandedLinkupStuckFreshnessWindow
    Baseline,       \* the requeue of a pass that stops early
    MaxTroubles,    \* bound: changes of the world, and restarts
    MaxMisses       \* bound: patches that fail

ASSUME StatusAssumption ==
    /\ {DownAfter, Window, StuckWindow, Baseline, MaxTroubles, MaxMisses} \subseteq Nat
    /\ 0 < DownAfter /\ 0 < Baseline
    /\ IsFiniteSet(CRPods) /\ CRPods # {}

VARIABLES
    world,      \* what is so
    memo,       \* perCRState and crQuorumState: the stamps, with their ages
    status,     \* the status of the CR
    copy,       \* the status in the operator's cache
    turn,       \* the running pass and its copy of the status
    rest,       \* keep-alive intervals since a pass, and when the next is due
    record,     \* history: ages of what the world and the probes did; the pods paged about
    troubles, misses

crVars == <<world, memo, status, copy, turn, rest, record, troubles, misses>>

Greater(m, n) == IF m > n THEN m ELSE n
Longest == 1 + Greater(DownAfter, Greater(Window, StuckWindow))
Never == -1
Ages  == 0 .. Longest
Older(a) == IF a \in {Never, Longest} THEN a ELSE a + 1

Worlds ==
    [answers    : {"yes", "no", "none"},        \* the pod labelled primary, to INFO
     masters    : SUBSET CRPods,              \* who self-report role:master
     quorum     : {"ok", "lost", "unknown"},    \* of the observer's snapshot
     suppressed : BOOLEAN,                      \* the suppression gate (QuorumGate)
     elected    : BOOLEAN,                      \* the address of the snapshot is a pod's
     stuck      : BOOLEAN,                      \* a rebuilt sentinel finds no peers
     ready      : {"absent", "none", "some", "all"},   \* replicas of the StatefulSet
     stage      : {"Steady", "RolloutReplicas", "RolloutPrimary", "FailoverInFlight"},
     gate       : {"open", "error", "paused"}]  \* whether a pass gets through its phases

Conditions ==
    [ready       : {"Ready", "WaitingForReplicas", "StatefulSetMissing", "MasterLost",
                    "NoMasterAgreement", "DualMasterDivergence"},
     available   : BOOLEAN, progressing : BOOLEAN, reconciled : BOOLEAN, quorumLost : BOOLEAN,
     degraded    : {"AsExpected", "RolloutStalled", "ReconcileError", "DualMasterDivergence",
                    "SentinelPeerLinkupStuck", "QuorumLost", "NoMasterAgreement", "SplitBrain"}]

Statuses == [conds : Conditions,
             phase : {"Paused", "Degraded", "Pending", "Ready", "Progressing", "Available"},
             suspended : {"none", "RolloutPending", "RolloutReplicas"},
             watchdog : {"none", "armed", "expired"}]

States == {"", "Degraded", "Steady", "RolloutReplicas", "RolloutPrimary", "FailoverInFlight"}
Memos == [since : Ages \cup {Never}, probed : Ages \cup {Never},
          dual : Ages \cup {Never}, union : SUBSET CRPods, edge : SUBSET CRPods,
          stuck : Ages \cup {Never}, last : States]

Turns   == [on : BOOLEAN, gate : {"open", "error", "paused"}, v : Statuses]
Rests   == [for : 0 .. Baseline, due : {1, Baseline}]
Records == [well : Ages, answered : Ages, confirmed : Ages, told : SUBSET CRPods]

StatusTypeOK ==
    /\ world \in Worlds /\ memo \in Memos
    /\ status \in Statuses /\ copy \in Statuses /\ turn \in Turns
    /\ rest \in Rests /\ record \in Records
    /\ troubles \in 0 .. MaxTroubles /\ misses \in 0 .. MaxMisses

Miss == misses < MaxMisses /\ misses' = misses + 1
-----------------------------------------------------------------------------
(* The evaluators, of what a pass has observed. *)

evalReady(o) ==
    IF o.dual                    THEN "DualMasterDivergence"
    ELSE IF o.noMaster           THEN "NoMasterAgreement"
    ELSE IF o.masterLost         THEN "MasterLost"
    ELSE IF o.ready = "absent"   THEN "StatefulSetMissing"
    ELSE IF o.ready = "all"      THEN "Ready"
    ELSE "WaitingForReplicas"

\* The first degradation that holds; isSubHASentinel does not, of a CR with replicas.
evalDegraded(o) ==
    IF o.watchdog = "expired" THEN "RolloutStalled"
    ELSE IF o.failed          THEN "ReconcileError"
    ELSE IF o.dual            THEN "DualMasterDivergence"
    ELSE IF o.stuck           THEN "SentinelPeerLinkupStuck"
    ELSE IF o.suppressed      THEN "QuorumLost"
    ELSE IF o.noMaster        THEN "NoMasterAgreement"
    ELSE IF o.splitBrain      THEN "SplitBrain"
    ELSE "AsExpected"

EvaluateConditions(o) ==
    [ready |-> evalReady(o), degraded |-> evalDegraded(o),
     available |-> o.ready \in {"some", "all"}, progressing |-> o.ready # "all",
     reconciled |-> ~o.failed, quorumLost |-> o.suppressed]

derivePhase(c, o) ==
    IF o.paused THEN "Paused"
    ELSE IF c.degraded # "AsExpected" \/ ~c.reconciled \/ c.quorumLost THEN "Degraded"
    ELSE IF o.ready = "absent" THEN "Pending"
    ELSE IF c.ready = "Ready" THEN "Ready"
    ELSE IF c.available /\ ~c.progressing THEN "Available"
    ELSE "Progressing"

\* The status of the world, were all of it observed, with no split and no stuck sentinel.
observeSplitBrain(w) == w.quorum = "lost"
observeNoMasterAgreement(w) == w.quorum = "ok" /\ ~w.elected
Observation(w, dual, stuck, masterLost, watchdog) ==
    [dual |-> dual, stuck |-> stuck, masterLost |-> masterLost, watchdog |-> watchdog,
     noMaster |-> observeNoMasterAgreement(w), splitBrain |-> observeSplitBrain(w),
     suppressed |-> w.suppressed, ready |-> w.ready,
     failed |-> w.gate = "error", paused |-> w.gate = "paused"]

Healthy == [answers |-> "yes", masters |-> {}, quorum |-> "ok", suppressed |-> FALSE, elected |-> TRUE,
            stuck |-> FALSE, ready |-> "all", stage |-> "Steady", gate |-> "open"]
Untold  == [since |-> Never, probed |-> Never, dual |-> Never, union |-> {}, edge |-> {},
            stuck |-> Never, last |-> ""]
Ready   == [conds |-> EvaluateConditions(Observation(Healthy, FALSE, FALSE, FALSE, "none")),
            phase |-> "Ready", suspended |-> "none", watchdog |-> "none"]
Waiting == [on |-> FALSE, gate |-> "open", v |-> Ready]

\* A cluster that is well, told so, and an operator that just started.
StatusInit ==
    /\ world = [Healthy EXCEPT !.masters = {CHOOSE p \in CRPods : TRUE}]
    /\ memo = Untold /\ status = Ready /\ copy = Ready /\ turn = Waiting
    /\ rest = [for |-> 0, due |-> 1]
    /\ record = [well |-> Longest, answered |-> 0, confirmed |-> Longest, told |-> {}]
    /\ troubles = 0 /\ misses = 0
-----------------------------------------------------------------------------
(* A pass: the FSM's edges, the probe, the surveys. *)

\* deriveState, of a CR with pods.
deriveState(w) == IF w.quorum # "ok" THEN "Degraded" ELSE w.stage

\* fsmAbortAndRecoveryDispatch, of the copy v: an abort stamps, a recovery clears (T22, T23),
\* and so does any Steady pass.
Suspended(v) ==
    LET to == deriveState(world) IN
    IF to = "Degraded" /\ memo.last = "RolloutReplicas" THEN "RolloutReplicas"
    ELSE IF to = "Steady" THEN "none"
    ELSE v.suspended

\* stampSuspendedFrom, clearSuspendedFrom: the patched object becomes the copy; a patch that
\* fails leaves the copy changed.  Phase 9 may then delete a pod and arm the copy's watchdog.
Arm(v, deletes) == IF deletes /\ v.watchdog = "none" THEN [v EXCEPT !.watchdog = "armed"] ELSE v
SuspendedPatched(v, deletes) ==
    LET to == Suspended(v)
        Goes(w) == turn' = [on |-> TRUE, gate |-> world.gate, v |-> Arm(w, deletes)] IN
    \/ v.suspended = to /\ Goes(v) /\ UNCHANGED <<status, misses>>
    \/ /\ v.suspended # to /\ status' = [status EXCEPT !.suspended = to]
       /\ Goes(status') /\ UNCHANGED misses
    \/ v.suspended # to /\ Miss /\ Goes([v EXCEPT !.suspended = to]) /\ UNCHANGED status

\* observeMasterInfoTimeout; a pass that finds no primary label clears too.  The mutant keeps
\* the first failure.
ProbedOnce(m) ==
    [m EXCEPT !.probed = 0, !.since = IF world.answers = "no" /\ @ = Never THEN 0 ELSE @]
Probed(m) ==
    [m EXCEPT !.probed = 0,
              !.since = IF world.answers # "no" THEN Never ELSE IF @ = Never THEN 0 ELSE @]

\* resetDualMasterState.
DualReset(m) == [m EXCEPT !.dual = Never, !.union = {}, !.edge = {}]

\* A scan that saw some masters (observeDualMasterFromSurvey, and in a failover section
\* maybeHealDualMaster, which does not page).  The mutant keys the page on the scan.
ScannedApart(m, seen, complete) ==
    IF Cardinality(seen) >= 2
    THEN IF world.stage = "FailoverInFlight" THEN [m EXCEPT !.dual = 0]
         ELSE [m EXCEPT !.dual = 0, !.union = @ \cup seen, !.edge = seen]
    ELSE IF complete THEN DualReset(m) ELSE m
Scanned(m, seen, complete) ==
    IF Cardinality(seen) >= 2
    THEN IF world.stage = "FailoverInFlight" THEN [m EXCEPT !.dual = 0]
         ELSE [m EXCEPT !.dual = 0, !.union = @ \cup seen, !.edge = m.union \cup seen]
    ELSE IF complete THEN DualReset(m) ELSE m

\* What the scans of a pass make of the memory: none carries a verdict, or one does.
AfterScan(m) ==
    {m, Scanned(m, world.masters, TRUE)} \cup {Scanned(m, seen, FALSE) : seen \in SUBSET world.masters}

\* detectStrandedPeerLinkupStuck, clearStrandedLinkupStuck, or neither.
AfterRepair(m) == {m, [m EXCEPT !.stuck = IF world.stuck THEN 0 ELSE Never]}

\* A pass up to its status.  One that fails may do so before the FSM's edges or after.
Pass ==
    /\ ~turn.on
    /\ \/ /\ world.gate \in {"error", "paused"}
          /\ turn' = [on |-> TRUE, gate |-> world.gate, v |-> copy]
          /\ UNCHANGED <<memo, status, record, misses>>
       \/ /\ world.gate = "error"
          /\ SuspendedPatched(copy, FALSE)
          /\ memo' = [memo EXCEPT !.last = deriveState(world)] /\ UNCHANGED record
       \/ /\ world.gate = "open"
          /\ \E deletes \in {FALSE, deriveState(world) = "RolloutReplicas"} :
                SuspendedPatched(copy, deletes)
          /\ \E probed \in {Probed([memo EXCEPT !.last = deriveState(world)])} :
             \E scanned \in AfterScan(probed) : memo' \in AfterRepair(scanned)
          /\ record' = [record EXCEPT !.answered = IF world.answers # "no" THEN 0 ELSE @,
                                      !.confirmed = IF memo'.dual = 0 THEN 0 ELSE @,
                                      !.told = IF memo'.edge # memo.edge THEN @ \cup memo'.edge ELSE @]
    /\ UNCHANGED <<world, copy, rest, troubles>>
-----------------------------------------------------------------------------
(* updateStatus, at the end of every pass. *)

\* The freshness windows.  The mutant trusts a stamp of any age.
FreshAlways(age, window) == age >= 0
Fresh(age, window) == age \in 0 .. window

masterLostFromTimeout == memo.since >= DownAfter /\ Fresh(memo.probed, Window)

\* dualMasterActiveOrExpire, strandedLinkupStuckActiveOrExpire.
Expired(m) ==
    LET d == IF Fresh(m.dual, Window) THEN m ELSE DualReset(m) IN
    [d EXCEPT !.stuck = IF Fresh(@, StuckWindow) THEN @ ELSE Never]

\* evaluateRolloutWatchdog.
Watchdog == IF turn.gate = "paused" THEN "none" ELSE turn.v.watchdog

\* The patch: what differs from the copy.
Changed(old, new, stored) == IF new # old THEN new ELSE stored
Patched(v, to) ==
    [conds     |-> Changed(v.conds, to.conds, status.conds),
     phase     |-> Changed(v.phase, to.phase, status.phase),
     suspended |-> Changed(v.suspended, to.suspended, status.suspended),
     watchdog  |-> Changed(v.watchdog, to.watchdog, status.watchdog)]

Told(o, c) == [turn.v EXCEPT !.conds = c, !.phase = derivePhase(c, o),
                             !.watchdog = IF Watchdog = "expired" THEN "none" ELSE @]

updateStatus ==
    /\ turn.on /\ turn' = Waiting
    /\ memo' = Expired(memo)
    /\ \/ \E o \in {Observation([world EXCEPT !.gate = turn.gate], Fresh(memo.dual, Window),
                                Fresh(memo.stuck, StuckWindow), masterLostFromTimeout, Watchdog)} :
          \E to \in {Told(o, EvaluateConditions(o))} : status' = Patched(turn.v, to) /\ UNCHANGED misses
       \/ Miss /\ UNCHANGED status
    /\ rest' = [for |-> 0, due |-> IF turn.gate = "open" THEN 1 ELSE Baseline]
    /\ UNCHANGED <<world, copy, record, troubles>>
-----------------------------------------------------------------------------
(* The clock, the cache, the world. *)

\* statusRequeueHint: a pass begins by its requeue, the keep-alive if it got through.
Elapses ==
    /\ ~turn.on /\ rest.for < rest.due
    /\ rest' = [rest EXCEPT !.for = @ + 1]
    /\ memo' = [memo EXCEPT !.since = Older(@), !.probed = Older(@), !.dual = Older(@), !.stuck = Older(@)]
    /\ LET quiet == Older(record.confirmed) IN
       record' = [well |-> IF world.answers = "no" THEN 0 ELSE Older(record.well),
                  answered |-> Older(record.answered), confirmed |-> quiet,
                  told |-> IF quiet > Window THEN {} ELSE record.told]
    /\ LET Late(s) == IF s.watchdog = "armed" THEN [s EXCEPT !.watchdog = "expired"] ELSE s IN
       status' = Late(status) /\ copy' = Late(copy)
    /\ UNCHANGED <<world, turn, troubles, misses>>

CacheCatchesUp ==
    /\ copy # status /\ copy' = status
    /\ UNCHANGED <<world, memo, status, turn, rest, record, troubles, misses>>

Trouble == troubles < MaxTroubles /\ troubles' = troubles + 1

WorldMoves ==
    /\ Trouble
    /\ \/ \E a \in {"yes", "no", "none"} : world' = [world EXCEPT !.answers = a]
       \/ \E m \in SUBSET CRPods : world' = [world EXCEPT !.masters = m]
       \/ \E q \in {"ok", "lost", "unknown"} : world' = [world EXCEPT !.quorum = q]
       \/ \E s \in {"Steady", "RolloutReplicas", "RolloutPrimary", "FailoverInFlight"} :
             world' = [world EXCEPT !.stage = s]
       \/ \E g \in {"open", "error", "paused"} : world' = [world EXCEPT !.gate = g]
       \/ \E r \in {"absent", "none", "some", "all"} : world' = [world EXCEPT !.ready = r]
       \/ \E b \in BOOLEAN : world' \in {[world EXCEPT !.suppressed = b], [world EXCEPT !.elected = b],
                                         [world EXCEPT !.stuck = b]}
    /\ world' # world
    /\ record' = [record EXCEPT !.well = IF "no" \in {world.answers, world'.answers} THEN 0 ELSE @,
                                !.told = IF Cardinality(world'.masters) < 2 THEN {} ELSE @]
    /\ UNCHANGED <<memo, status, copy, turn, rest, misses>>

\* The operator restarts: its memory is gone, its cache is filled anew.
Restarts ==
    /\ Trouble
    /\ memo' = Untold /\ turn' = Waiting /\ copy' = status
    /\ rest' = [for |-> 0, due |-> 1] /\ record' = [record EXCEPT !.told = {}]
    /\ UNCHANGED <<world, status, misses>>

StatusNext == Pass \/ updateStatus \/ Elapses \/ CacheCatchesUp \/ WorldMoves \/ Restarts

\* Passes start by their requeue and end; the cache follows the API server; time goes on,
\* however many passes run.
StatusFairness ==
    /\ WF_crVars(Pass \/ updateStatus) /\ WF_crVars(CacheCatchesUp)
    /\ SF_crVars(Elapses)

StatusSpec == StatusInit /\ [][StatusNext]_crVars /\ StatusFairness
-----------------------------------------------------------------------------
(* What every state satisfies. *)

\* An answered probe ends a run of failures, so the run is no longer than the silence.
SilenceAsLong == memo.since # Never => memo.since <= record.answered

\* The last probe of a run found the primary mute, which was so no earlier than that.
LastProbeTrue ==
    /\ world.answers = "no" => record.well = 0
    /\ memo.since # Never => memo.probed # Never /\ record.well <= memo.probed

\* The page's set is the union of the scans; whom it told of is in it while the split
\* lasts and is confirmed, at the age the memory has for it.
PageCovers ==
    /\ memo.edge = memo.union /\ record.told \subseteq memo.edge
    /\ record.told # {} => /\ Cardinality(world.masters) >= 2
                           /\ memo.dual = record.confirmed /\ record.confirmed <= Window

StatusInv == StatusTypeOK /\ SilenceAsLong /\ LastProbeTrue /\ PageCovers
-----------------------------------------------------------------------------
\* Ready turns to MasterLost only if no probe was answered for down-after, and the labelled
\* primary did not answer at some time within the freshness window: not off a reading that
\* passes which stop early have left behind (masterLostFromTimeout, observeMasterInfoTimeout).
MasterLostBacked ==
    [][status'.conds.ready = "MasterLost" /\ status.conds.ready # "MasterLost"
       => record.answered >= DownAfter /\ record.well <= Window]_crVars

\* A split pages once, and once more for each pod that joins it, whatever roles move between
\* the pods and whatever a scan misses, unless it healed, went unconfirmed for the window, or
\* the operator restarted (foldDualMasterEventUnion, fireDualMasterObservedEdge).
SplitPagedOnce ==
    [][memo'.edge \notin {memo.edge, {}} => ~(memo'.edge \subseteq record.told)]_crVars

\* Once no split and no stuck sentinel is left and nothing else changes, the conditions and
\* the phase come to say what is so, and stay: no patch that failed, no stale copy a pass
\* worked on and no stamp outlives it (updateStatus).
StatusSettles ==
    LET o == Observation(world, FALSE, FALSE, world.gate = "open" /\ world.answers = "no", "none") IN
    <>[](Cardinality(world.masters) < 2 /\ ~world.stuck)
    => <>[](/\ status.conds = EvaluateConditions(o)
            /\ status.phase = derivePhase(EvaluateConditions(o), o))
=============================================================================
