---------------------------- MODULE ReadinessGates ----------------------------
(***************************************************************************)
(* Phase 8 of a sentinel-mode CR: the replication readiness gate of each   *)
(* data pod, the deletion of replicas whose gate stays False, and, when no *)
(* pod is labelled primary for long, the bounded escape that deletes the   *)
(* least fresh one.  A pass works on the list it took at its start and     *)
(* dials the pods one after another, while pods die and sentinels elect;   *)
(* the phases that move labels and promote run between two such walks.     *)
(***************************************************************************)
EXTENDS Integers, FiniteSets, FiniteSetsExt

CONSTANTS
    Replicas,       \* number of data pods; a pod is its ordinal
    MaxApplied,      \* bound: replication offsets
    MaxGateFaults   \* bound: deaths, hangs, failed calls, failovers, restarts

ASSUME GatesAssumption ==
    Replicas \in Nat \ {0} /\ MaxApplied \in Nat /\ MaxGateFaults \in Nat

Nodes == 0 .. Replicas - 1

\* The address of node n is n; n + Replicas stands for any address n had before.
Hosts == 0 .. 2 * Replicas - 1
Unranked == -1
NotRead == -2
NoOffsets == [n \in Nodes |-> NotRead]

VARIABLES
    up,         \* nodes whose pod has an IP and runs; the pod of another is pending
    points,     \* whom a node replicates from; a master points at itself
    applied,    \* the replication offset of its data, which outlives the pod
    ranked,     \* nodes whose INFO carries slave_repl_offset
    label,      \* the role label: "primary", "replica" or "unset"
    gate,       \* nodes with the gate in their spec
    opened,     \* nodes with the gate's condition True
    monitored,  \* the address the sentinels monitor
    falseFor,   \* staleReplicaTracker: 0 no entry, 1 fresh, 2 past the threshold that counts,
                \* staleReplicaThreshold or staleReplicaEscapeVictimDwell
    without,    \* noPrimarySince: 0 unset, 1 fresh, 2 past staleReplicaEscapeDwell
    escaped,    \* staleReplicaEscapeLastFired is recent
    landing,    \* "asked": a failover in flight; "late": it has been carried out, or a
                \* recovery promotion cools down; else "no"
    walk,       \* the running pass
    gateFaults

cluster == <<up, points, applied, ranked>>
labels  == <<label, gate, opened>>
memory  == <<falseFor, without, escaped, landing>>
gateVars == <<cluster, labels, monitored, memory, walk, gateFaults>>

\* A pass that may escape: the nodes not yet read, those listed with an IP, those replaced
\* since, and what the readings said.  Once one reading forbids the escape they are dropped.
Walks == [on : BOOLEAN, todo : SUBSET Nodes, ips : SUBSET Nodes, replaced : SUBSET Nodes,
          disarmed : BOOLEAN, hosts : SUBSET Hosts, offsets : [Nodes -> NotRead .. MaxApplied],
          eligible : SUBSET Nodes]
Resting == [on |-> FALSE, todo |-> {}, ips |-> {}, replaced |-> {}, disarmed |-> FALSE, hosts |-> {},
            offsets |-> NoOffsets, eligible |-> {}]
Disarmed(w) == [w EXCEPT !.disarmed = TRUE, !.ips = {}, !.replaced = {}, !.hosts = {},
                         !.offsets = NoOffsets, !.eligible = {}]

GatesTypeOK ==
    /\ up \subseteq Nodes /\ points \in [Nodes -> Hosts]
    /\ applied \in [Nodes -> 0 .. MaxApplied] /\ ranked \subseteq Nodes
    /\ label \in [Nodes -> {"primary", "replica", "unset"}] /\ gate \subseteq Nodes /\ opened \subseteq Nodes
    /\ monitored \in Hosts /\ falseFor \in [Nodes -> 0 .. 2] /\ without \in 0 .. 2
    /\ escaped \in BOOLEAN /\ landing \in {"no", "asked", "late"} /\ walk \in Walks
    /\ gateFaults \in 0 .. MaxGateFaults

Mishap == gateFaults < MaxGateFaults /\ gateFaults' = gateFaults + 1
Labelled(r) == {n \in Nodes : label[n] = r}
Masters == {n \in up : points[n] = n}

\* The link of n is up and its lag within maxLagBytes.
Linked(n) == n \in up \ Masters /\ points[n] \in Masters

\* The offsets differ at the start; a replica that is linked anew is level with its master.
Synced(n, m) == applied' = [applied EXCEPT ![n] = applied[m]] /\ ranked' = ranked \cup {n}

\* A converged cluster; Phase 7 has taken the gate off the primary.  A rollout may just have
\* stripped the label and asked for a failover, even though the others still point at an
\* address the master's pod had before.
GatesInit ==
    /\ \E m \in Nodes, asked, replaced \in BOOLEAN :
          /\ replaced => asked
          /\ landing = IF asked THEN "asked" ELSE "no"
          /\ points = [n \in Nodes |-> IF replaced /\ n # m THEN m + Replicas ELSE m] /\ monitored = m
          /\ applied \in [Nodes -> 0 .. MaxApplied] /\ applied[m] = MaxApplied
          /\ label = [n \in Nodes |-> IF n # m THEN "replica" ELSE IF asked THEN "unset" ELSE "primary"]
          /\ gate = Nodes \ {m} /\ opened = Nodes \ {m}
    /\ up = Nodes /\ ranked = Nodes
    /\ falseFor = [n \in Nodes |-> 0] /\ without = 0 /\ escaped = FALSE
    /\ walk = Resting /\ gateFaults = 0
-----------------------------------------------------------------------------
(* Phase 8: what all passes do. *)

Dialled == gate \cap up

\* evaluateReplicationGate, of a pod that answers (CheckLag) or does not.  The mutant
\* overlooks a link that is down.
EvaluateLoosely(n, answers) == label[n] = "primary" \/ answers
Evaluate(n, answers) == label[n] = "primary" \/ (answers /\ (points[n] = n \/ Linked(n)))

\* The tracker: LoadOrStore for a replica that is False, Delete for a pod that is True.
\* The mutant starts the age anew each time.
TrackedAnew(n, answers) == IF label[n] = "replica" /\ ~Evaluate(n, answers) THEN 1 ELSE 0
Tracked(n, answers) ==
    IF Evaluate(n, answers) THEN 0
    ELSE IF label[n] = "replica" /\ falseFor[n] = 0 THEN 1 ELSE falseFor[n]

\* patchReplicationCondition, of every pod a pass has dialled.
Conditions(deaf) == (opened \ Dialled) \cup {n \in Dialled : Evaluate(n, n \notin deaf)}

\* observeNoPrimarySince, clearNoPrimarySince, staleReplicaEscapeArmedAt.
Since == IF Labelled("primary") # {} THEN 0 ELSE IF without = 0 THEN 1 ELSE without
Armed == Since = 2 /\ ~escaped

\* The pod is replaced by a pending one of the same name, in one step: that it terminates
\* first, and that for a while no list has it, is left out.  Who pointed at its address points
\* at nobody's, and the sentinels monitor nobody's.
Gone(h, n) == IF h = n THEN n + Replicas ELSE h
Removed(n) ==
    /\ up' = up \ {n}
    /\ points' = [m \in Nodes |-> Gone(points[m], n)] /\ monitored' = Gone(monitored, n)
    /\ ranked' = ranked \ {n} /\ label' = [label EXCEPT ![n] = "unset"] /\ gate' = gate \cup {n}
    /\ UNCHANGED applied
Stays == UNCHANGED <<up, points, applied, ranked, monitored, label, gate>>
-----------------------------------------------------------------------------
(* A pass that cannot escape: each pod is judged by its own reading. *)

\* Replicas that are False for long go, one a pass, while a pod is labelled primary; a failed
\* Delete leaves the tracker as it is.  The pass is one step: its Delete names the pod and no
\* UID, so a pod replaced since its reading would go again.
Overdue(deaf) ==
    IF Labelled("primary") = {} THEN {}
    ELSE {n \in Dialled : label[n] = "replica" /\ Tracked(n, n \notin deaf) = 2}
Sweep ==
    /\ ~walk.on /\ ~Armed /\ without' = Since
    /\ \E deaf \in {{}} \cup {{n} : n \in Dialled} :
       \E overdue \in {Overdue(deaf)}, conditions \in {Conditions(deaf)} :
       \E tracker \in {[n \in Nodes |-> IF n \in Dialled THEN Tracked(n, n \notin deaf) ELSE falseFor[n]]} :
          \/ /\ IF deaf = {} THEN UNCHANGED gateFaults ELSE Mishap
             /\ IF overdue = {} THEN Stays /\ falseFor' = tracker /\ opened' = conditions
                ELSE \E n \in overdue :
                        Removed(n) /\ falseFor' = [tracker EXCEPT ![n] = 0] /\ opened' = conditions \ {n}
          \/ /\ deaf = {} /\ Mishap /\ Stays /\ falseFor' = tracker
             /\ opened' \in IF overdue = {} THEN {opened} ELSE {conditions}
    /\ UNCHANGED <<escaped, landing, walk>>
-----------------------------------------------------------------------------
(* A pass that may escape reads the pods one by one. *)

EscapeBegins ==
    /\ ~walk.on /\ Armed /\ without' = Since
    /\ walk' = LET begun == [Resting EXCEPT !.on = TRUE, !.todo = up, !.ips = up]
               IN  IF up # Nodes THEN Disarmed(begun) ELSE begun
    /\ UNCHANGED <<cluster, labels, monitored, falseFor, escaped, landing, gateFaults>>

\* appendEscapeReading, and those tests of promotionSurveyAdmits that one reading decides.
Classified(n, w, answers) ==
    IF w.disarmed \/ ~answers \/ points[n] = n \/ Linked(n) THEN Disarmed(w)
    ELSE [w EXCEPT !.hosts = @ \cup {points[n]},
                   !.offsets[n] = IF n \in ranked THEN applied[n] ELSE Unranked,
                   !.eligible = IF n \in gate /\ label[n] = "replica" /\ Tracked(n, TRUE) = 2
                                THEN @ \cup {n} ELSE @]

\* A pod without the gate is read for the survey only (classifyGatelessEscapePod).  The
\* mutant passes over it.
SurveyGated(n, w, answers) == IF n \in gate THEN Classified(n, w, answers) ELSE w
Survey(n, w, answers) == Classified(n, w, answers)

\* The loop's body; a pod replaced since the list does not answer at the address it had.
Read(n) ==
    /\ n \in walk.todo
    /\ \E heard \in BOOLEAN, rest \in {[walk EXCEPT !.todo = @ \ {n}]}, same \in {n \notin walk.replaced} :
          /\ IF heard THEN UNCHANGED gateFaults ELSE Mishap
          /\ walk' = Survey(n, rest, heard /\ same)
          /\ IF n \in gate /\ same
             THEN /\ falseFor' = [falseFor EXCEPT ![n] = Tracked(n, heard)]
                  /\ opened' = IF Evaluate(n, heard) THEN opened \cup {n} ELSE opened \ {n}
             ELSE UNCHANGED <<falseFor, opened>>
    /\ Stays /\ UNCHANGED <<without, escaped, landing>>

\* choosePromotionCandidate and chooseEscapeVictim.  The mutant starts from the freshest.
Surveyed == {n \in Nodes : walk.offsets[n] # NotRead}
Ranking == {n \in Surveyed : walk.offsets[n] # Unranked}
Fresher(n, m) == walk.offsets[n] > walk.offsets[m] \/ (walk.offsets[n] = walk.offsets[m] /\ n < m)
Candidate == {n \in Ranking : \A m \in Ranking \ {n} : Fresher(n, m)}
VictimsFreshest == {n \in Ranking \cap walk.eligible : \A m \in (Ranking \cap walk.eligible) \ {n} : Fresher(n, m)}
Victims ==
    LET choice == (Ranking \cap walk.eligible) \ Candidate
    IN  {n \in choice : \A m \in choice \ {n} : Fresher(m, n)}

\* Guards 4, 5, 7 and 8.  Of the listed IPs one may be a replaced pod's.
ListedHosts == (walk.ips \ walk.replaced) \cup {n + Replicas : n \in walk.replaced}
Admits ==
    /\ landing = "no" /\ ~walk.disarmed /\ Cardinality(walk.hosts) = 1
    /\ walk.hosts \cap ListedHosts = {} /\ Cardinality(Surveyed) >= 2

\* maybeEscapeStaleReplica.  The Delete has the UID as its precondition, so that a pod that
\* was recreated is spared.
Escape(n) ==
    /\ walk.on /\ walk.todo = {} /\ Admits /\ n \in Victims \ walk.replaced
    /\ Removed(n) /\ opened' = opened \ {n} /\ falseFor' = [falseFor EXCEPT ![n] = 0]
    /\ escaped' = TRUE /\ walk' = Resting
    /\ UNCHANGED <<without, landing, gateFaults>>

\* The end of a pass without an escape: refused, failed, or no sentinel endpoint to ask.
EscapeEnds ==
    /\ walk.on /\ walk.todo = {} /\ walk' = Resting
    /\ ((Admits => Victims \subseteq walk.replaced) /\ UNCHANGED gateFaults) \/ Mishap
    /\ Stays /\ UNCHANGED <<opened, memory>>
GateSteps == Sweep \/ EscapeBegins \/ EscapeEnds \/ \E n \in Nodes : Read(n) \/ Escape(n)
-----------------------------------------------------------------------------
(* Phase 7: labels and, best effort, gates (patchOne, applyRoleTransitionGate). *)

\* The agreed address is a pod's: it is labelled first, the others after it, unless a failover
\* in flight has yet to replace it.  A gate follows its label in the same call; when a patch
\* fails there it stays, or, on a primary, its condition does.
Regated(done) == (gate \ (done \cap {monitored})) \cup (done \ {monitored})
Restamp ==
    LET wanted == [n \in Nodes |-> IF n = monitored THEN "primary" ELSE "replica"]
        moved == {n \in Nodes : label[n] # wanted[n]}
    IN  /\ ~walk.on /\ landing # "asked" /\ monitored \in up /\ moved # {} /\ label' = wanted
        /\ \E failed \in {{}} \cup {{n} : n \in moved} :
              LET done == moved \ failed
              IN  /\ IF failed = {} THEN UNCHANGED gateFaults ELSE Mishap
                  /\ gate' \in {Regated(done), Regated(done) \ (failed \cap {monitored})}
                  /\ opened' = opened \ (done \cap {monitored})
        /\ UNCHANGED <<cluster, monitored, memory, walk>>

\* The rollout strips the label and asks the sentinels for a failover; the latch goes later.
AsksFailover ==
    /\ ~walk.on /\ landing = "no" /\ monitored \in Nodes /\ label[monitored] = "primary" /\ Mishap
    /\ label' = [label EXCEPT ![monitored] = "unset"] /\ landing' = "asked"
    /\ UNCHANGED <<cluster, gate, opened, monitored, falseFor, without, escaped, walk>>
Landed ==
    /\ landing # "no" /\ landing' = "no"
    /\ UNCHANGED <<cluster, labels, monitored, falseFor, without, escaped, walk, gateFaults>>

\* Phase 11 promotes the freshest pod of a cluster that follows one dead address, unless the
\* sentinels agree on a live one (module RecoveryPromotion has its steps).
Promotion(n) ==
    /\ ~walk.on /\ landing = "no" /\ up = Nodes /\ Masters = {} /\ n \in ranked
    /\ {points[n], monitored} \cap up = {} /\ \A m \in Nodes : points[m] = points[n] /\ (m \in ranked => applied[m] <= applied[n])
    /\ points' = [points EXCEPT ![n] = n] /\ landing' = "late"
    /\ UNCHANGED <<up, applied, ranked, labels, monitored, falseFor, without, escaped, walk, gateFaults>>

\* The tracker, the dwell and the cooldowns live in memory only; the marker of a failover in
\* flight is in the CR's status.
Restarted ==
    /\ Mishap /\ walk' = Resting /\ falseFor' = [n \in Nodes |-> 0] /\ without' = 0
    /\ escaped' = FALSE /\ landing' \in IF landing = "asked" THEN {landing} ELSE {landing, "no"}
    /\ UNCHANGED <<cluster, labels, monitored>>

\* A pass takes the time once, at its start: entries age and the cooldown ends between passes.
Dwells ==
    LET aged(t) == IF t = 0 THEN 0 ELSE 2
    IN  /\ ~walk.on /\ falseFor' = [n \in Nodes |-> aged(falseFor[n])] /\ without' = aged(without)
        /\ escaped' = FALSE /\ <<falseFor, without, escaped>>' # <<falseFor, without, escaped>>
        /\ UNCHANGED <<cluster, labels, monitored, landing, walk, gateFaults>>
-----------------------------------------------------------------------------
(* The pods and the sentinels. *)

Dies(n) ==
    /\ n \in up /\ Mishap /\ Removed(n)
    /\ opened' = opened \ {n} /\ falseFor' = [falseFor EXCEPT ![n] = 0]
    /\ walk' = IF walk.on /\ ~walk.disarmed THEN [walk EXCEPT !.replaced = @ \cup {n}]
               ELSE [walk EXCEPT !.todo = @ \ {n}]
    /\ UNCHANGED <<without, escaped, landing>>

\* The init script: the seed is the labelled primary, else what the sentinels monitor;
\* pod 0 without a live seed starts as a master.
Seeds == IF Labelled("primary") # {} THEN Labelled("primary") ELSE {monitored}
Boots(n) ==
    /\ n \notin up /\ up' = up \cup {n}
    /\ \E s \in Seeds :
          IF s \in Masters THEN points' = [points EXCEPT ![n] = s] /\ Synced(n, s)
          ELSE points' = [points EXCEPT ![n] = IF n = 0 THEN n ELSE s] /\ UNCHANGED <<applied, ranked>>
    /\ UNCHANGED <<labels, monitored, memory, walk, gateFaults>>

\* The sentinels replace a master they do not reach, or the one the operator wants to
\* go.  Assumed of them: all priorities being equal they take the pod with the greatest
\* offset, and no INFO they choose by is old.  That they point the other pods at it may not
\* stick.
Elects(n) ==
    /\ monitored \notin Masters \/ landing = "asked"
    /\ n \in up \ {monitored} /\ \A m \in up \ {monitored} : applied[m] <= applied[n]
    /\ points' = [points EXCEPT ![n] = n] /\ monitored' = n
    /\ landing' = IF landing = "asked" THEN "late" ELSE landing
    /\ UNCHANGED <<up, applied, ranked, labels, falseFor, without, escaped, walk, gateFaults>>
Follows(n) ==
    /\ monitored \in Masters /\ n \in up \ {monitored} /\ points[n] # monitored
    /\ points' = [points EXCEPT ![n] = monitored] /\ Synced(n, monitored)
    /\ UNCHANGED <<up, labels, monitored, memory, walk, gateFaults>>

GatesNext ==
    \/ GateSteps \/ Restamp \/ AsksFailover \/ Landed \/ Restarted \/ Dwells
    \/ \E n \in Nodes : Promotion(n) \/ Dies(n) \/ Boots(n) \/ Elects(n) \/ Follows(n)

GatesSpec == GatesInit /\ [][GatesNext]_gateVars
-----------------------------------------------------------------------------
(* What Phase 8 promises. *)

\* The operator deletes n in an escape.
Escaped(n) == walk.on /\ ~walk'.on /\ n \in up \ up'

\* Each listed node is replaced, to be read, or read, and no other is.
Accounted ==
    /\ walk.ips \subseteq walk.todo \cup Surveyed \cup walk.replaced
    /\ walk.todo \cup Surveyed \subseteq walk.ips
Guarded == walk.on /\ ~walk.disarmed
Lasting == walk.ips \ walk.replaced

\* What the sentinels monitor is a master or gone, no pod is labelled primary in a walk, and
\* a monitored master that is not to be read any more has been elected since the list was
\* taken: no listed pod that has stayed a replica is fresher.
MonitoredRuns == monitored \in Nodes => monitored \in Masters
Unlabelled == walk.on => Labelled("primary") = {}
ElectedFresh ==
    Guarded =>
        /\ Lasting \subseteq up
        /\ monitored \in Nodes \ walk.todo
              => \A n \in Lasting : points[n] = n \/ applied[n] <= applied[monitored]

\* The readings are still true; or a master since has been at least as fresh as each listed
\* pod; or a pod that forbids the escape is still to be read.
ReadingsTrue ==
    \A n \in Ranking : n \in ranked \cup walk.replaced /\ applied[n] = walk.offsets[n]
Sheltered ==
    \A n \in Lasting : \/ points[n] = n
                       \/ \E m \in (Masters \cup walk.replaced) \ {n} : applied[n] <= applied[m]
Forbidden == \E n \in walk.todo : n \in walk.replaced \/ n = monitored

\* The inductive invariant of Phase 8.
GatesInv ==
    /\ GatesTypeOK /\ MonitoredRuns /\ Unlabelled /\ ElectedFresh
    /\ Guarded => Accounted /\ (ReadingsTrue \/ Sheltered \/ Forbidden)

\* The escape of maybeEscapeStaleReplica leaves a replica at least as fresh as the one it
\* deletes for the recovery election, or a master, whatever happened since the readings; only
\* a pod that was itself elected after it was read may be fresher.
EscapeSparesFreshest ==
    [][\A n \in Nodes : Escaped(n) /\ points[n] # n
          => \E m \in (ranked \cup Masters \cup walk.replaced) \ {n} : applied[m] >= applied[n]]_gateVars

\* The escape fires under no master that it has not asked: a pod that was there when the
\* list was taken, gated or not, has been read as a replica before.
NoMasterOverlooked ==
    [][\A n \in Nodes : Escaped(n)
          => (Masters \cap walk.ips) \ walk.replaced \subseteq Surveyed]_gateVars

\* A replica that does not follow a master is not left alone while a labelled primary runs:
\* it catches up, or it is deleted and starts over (the stuck-replica recovery).
Stuck(n) == n \in Dialled \ Masters /\ label[n] = "replica" /\ ~Linked(n)
ReplicasHeal == []<>(Labelled("primary") \cap Masters # {} => \A n \in Nodes : ~Stuck(n))

\* The gates come to tell the truth: a labelled primary does not stay unready because of its
\* gate, even when Phase 7 could not take the gate off, and no gate stays True over a broken
\* link (patchReplicationCondition, applyRoleTransitionGate).
GatesSettle ==
    []<>(/\ Labelled("primary") \cap Dialled \subseteq opened
         /\ \A n \in Labelled("replica") \cap Dialled \cap opened : Linked(n) \/ n \in Masters)

\* The operator keeps requeueing a CR whose gates have not converged, the time between
\* passes passes, the StatefulSet controller and the kubelet bring pods back, and the latch
\* of a failover expires.
GatesFairness ==
    /\ WF_gateVars(GateSteps) /\ SF_gateVars(Dwells) /\ WF_gateVars(Landed)
    /\ WF_gateVars(\E n \in Nodes : Boots(n))
GatesFairSpec == GatesSpec /\ GatesFairness
=============================================================================
