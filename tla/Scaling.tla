------------------------------- MODULE Scaling -------------------------------
(***************************************************************************)
(* Phase 2's decision on the replica count and the image of the data       *)
(* StatefulSet, against the role labels of Phase 7 of the passes before.   *)
(* Phase 7 stamps the new primary before it demotes the old one, and the   *)
(* pass may end between the two, so Phase 2 can meet two labels, or none;  *)
(* and both list the pods through a cache that trails the labels.          *)
(***************************************************************************)
EXTENDS Integers, FiniteSets

CONSTANTS
    MaxReplicas,     \* bound: replicas
    Versions,        \* images, by their major: a skipped minor only warns
    MaxScaleEdits,   \* bound: edits of the CR
    MaxScaleFaults   \* bound: failed calls, cut passes, failovers, rollouts

ASSUME ScalingAssumption ==
    /\ MaxReplicas \in Nat \ {0}
    /\ Versions \subseteq Nat
    /\ MaxScaleEdits \in Nat
    /\ MaxScaleFaults \in Nat

VARIABLES
    asked,      \* spec: [replicas, image, preflight]
    have,       \* the StatefulSet: [replicas, image]
    labelled,   \* ordinals of the pods labelled role=primary
    cached,     \* the same in the informer cache
    master,     \* ordinal of the pod the sentinels call master
    rolling,    \* the derived state is one of a rollout or failover
    copy,       \* what the pass has read: the spec, rolling, the list of labels, an ordinal
    stage,      \* where the pass is
    scaleEdits, scaleFaults

scaleVars == <<asked, have, labelled, cached, master, rolling, copy, stage, scaleEdits, scaleFaults>>

Pods == 0 .. have.replicas - 1
Specs == [replicas : 1 .. MaxReplicas, image : Versions, preflight : BOOLEAN]

\* findPrimaryOrdinal: -1 when no pod is labelled, the lowest when several are;
\* -2 stands for a failed List.
NoPrimary == -1
Unknown == -2
PrimaryOrdinal ==
    IF cached = {} THEN NoPrimary
    ELSE CHOOSE o \in cached : \A p \in cached : o <= p

\* Between passes nothing is kept of what they read.
Blank == [spec |-> [replicas |-> 1, image |-> CHOOSE i \in Versions : TRUE, preflight |-> TRUE],
          rolling |-> FALSE, labels |-> {}, ordinal |-> NoPrimary]

ScaleTypeOK ==
    /\ asked \in Specs
    /\ have \in [replicas : 1 .. MaxReplicas, image : Versions]
    /\ labelled \subseteq Pods /\ cached \subseteq 0 .. MaxReplicas - 1
    /\ master \in Pods
    /\ rolling \in BOOLEAN
    /\ copy.spec \in Specs /\ copy.rolling \in BOOLEAN /\ copy.ordinal \in -2 .. MaxReplicas
    /\ copy.labels \subseteq 0 .. MaxReplicas - 1
    /\ stage \in {"idle", "apply", "promote", "demote"}
    /\ scaleEdits \in 0 .. MaxScaleEdits
    /\ scaleFaults \in 0 .. MaxScaleFaults

ScaleInit ==
    /\ \E image \in Versions, preflight \in BOOLEAN :
          /\ asked = [replicas |-> MaxReplicas, image |-> image, preflight |-> preflight]
          /\ have = [replicas |-> MaxReplicas, image |-> image]
    /\ master \in Pods
    /\ labelled = {master} /\ cached = labelled
    /\ rolling = FALSE
    /\ copy = Blank
    /\ stage = "idle"
    /\ scaleEdits = 0
    /\ scaleFaults = 0

ScaleFault == scaleFaults < MaxScaleFaults /\ scaleFaults' = scaleFaults + 1

\* checkValkeyImageTransition: a lower major is refused unless the preflight is
\* switched off; everything else passes, a skipped minor with a warning.
IsDowngrade(from, to) == to < from
ImageRefused(spec) == IsDowngrade(have.image, spec.image) /\ spec.preflight

\* reconcileStatefulSet, up to the apply: a refused image ends Phase 2 without
\* an error, and the pass goes on to Phase 7.
Precheck ==
    /\ stage = "idle"
    /\ \E ordinal \in {PrimaryOrdinal, Unknown} :
          /\ IF ordinal = Unknown
             THEN asked.replicas < have.replicas /\ ScaleFault
             ELSE UNCHANGED scaleFaults
          /\ IF ImageRefused(asked)
             THEN stage' = "promote" /\ UNCHANGED copy
             ELSE /\ stage' = "apply"
                  /\ copy' = [spec |-> asked, rolling |-> rolling, labels |-> cached,
                               ordinal |-> ordinal]
    /\ UNCHANGED <<asked, have, labelled, cached, master, rolling, scaleEdits>>

\* scaleDownPrimaryRefusal
Refused(desired, current, ordinal) ==
    desired < current /\ (ordinal = Unknown \/ (ordinal >= 0 /\ desired <= ordinal))

\* The count Phase 2 applies: the structural refusal first, then the deferral
\* while a rollout is under way.
Applied(c) ==
    IF Refused(c.spec.replicas, have.replicas, c.ordinal) THEN have.replicas
    ELSE IF c.spec.replicas # have.replicas /\ c.rolling THEN have.replicas
    ELSE c.spec.replicas

\* The apply, and the StatefulSet controller, which removes the highest
\* ordinals; the sentinels elect when the master was one of them.
ApplySet ==
    /\ stage = "apply"
    /\ have' = [replicas |-> Applied(copy), image |-> copy.spec.image]
    /\ labelled' = labelled \cap 0 .. have'.replicas - 1
    /\ IF master < have'.replicas THEN UNCHANGED master
                                  ELSE master' \in 0 .. have'.replicas - 1
    /\ stage' = "promote"
    /\ copy' = Blank
    /\ UNCHANGED <<asked, cached, rolling, scaleEdits, scaleFaults>>

\* Phase 7 lists the pods, takes the master's for the primary and, in its first loop,
\* labels it unless the list shows it labelled.
Promote ==
    /\ stage = "promote"
    /\ labelled' = IF master \in cached THEN labelled ELSE labelled \cup {master}
    /\ copy' = [Blank EXCEPT !.labels = cached, !.ordinal = master]
    /\ stage' = "demote"
    /\ UNCHANGED <<asked, have, cached, master, rolling, scaleEdits, scaleFaults>>

\* Mutant: the second loop is left out.
DemoteNobody ==
    /\ stage = "demote" /\ stage' = "idle" /\ copy' = Blank
    /\ UNCHANGED <<asked, have, labelled, cached, master, rolling, scaleEdits, scaleFaults>>

\* The second loop takes the label off the others that the list shows with it.
Demote ==
    /\ stage = "demote"
    /\ labelled' = labelled \ (copy.labels \ {copy.ordinal})
    /\ copy' = Blank
    /\ stage' = "idle"
    /\ UNCHANGED <<asked, have, cached, master, rolling, scaleEdits, scaleFaults>>

\* Phase 9 and 11 of a rollout take the label off before a failover.
Strip ==
    /\ stage = "idle" /\ rolling /\ labelled # {}
    /\ ScaleFault
    /\ labelled' = {}
    /\ UNCHANGED <<asked, have, cached, master, rolling, copy, stage, scaleEdits>>

PassCutShort ==
    /\ stage # "idle"
    /\ ScaleFault
    /\ stage' = "idle"
    /\ copy' = Blank
    /\ UNCHANGED <<asked, have, labelled, cached, master, rolling, scaleEdits>>

FailsOver ==
    /\ ScaleFault
    /\ master' \in Pods \ {master}
    /\ UNCHANGED <<asked, have, labelled, cached, rolling, copy, stage, scaleEdits>>

RolloutStarts ==
    /\ ~rolling /\ ScaleFault
    /\ rolling' = TRUE
    /\ UNCHANGED <<asked, have, labelled, cached, master, copy, stage, scaleEdits>>

RolloutEnds ==
    /\ rolling
    /\ rolling' = FALSE
    /\ UNCHANGED <<asked, have, labelled, cached, master, copy, stage, scaleEdits, scaleFaults>>

SpecEdited ==
    /\ scaleEdits < MaxScaleEdits
    /\ scaleEdits' = scaleEdits + 1
    /\ asked' \in Specs \ {asked}
    /\ UNCHANGED <<have, labelled, cached, master, rolling, copy, stage, scaleFaults>>

LabelsSync ==
    /\ cached # labelled
    /\ cached' = labelled
    /\ UNCHANGED <<asked, have, labelled, master, rolling, copy, stage, scaleEdits, scaleFaults>>

ScaleSteps == Precheck \/ ApplySet \/ Promote \/ Demote

ScaleNext ==
    \/ ScaleSteps
    \/ LabelsSync
    \/ Strip
    \/ PassCutShort
    \/ FailsOver
    \/ RolloutStarts
    \/ RolloutEnds
    \/ SpecEdited

ScaleSpec == ScaleInit /\ [][ScaleNext]_scaleVars

\* The CR is reconciled again and again, and the cache follows the labels.
ScaleFairness == WF_scaleVars(ScaleSteps) /\ WF_scaleVars(LabelsSync)

-----------------------------------------------------------------------------
(* Properties. *)

\* The primary Service comes back to the sentinels' master, and to it alone: whatever a
\* scale-down decided on old labels or on none took away, a strip, a cut pass or a stale
\* list left, later passes put right (findPrimaryOrdinal, scaleDownPrimaryRefusal,
\* reconcileRoleLabels).
EndpointBack == labelled = {master}

\* A scale-down that takes the last pod labelled primary was decided on a list that did not
\* show the labels as they were: with the list up to date the primary Service does not lose
\* its endpoint to a scale, although the labels may be split and the spec edited between
\* the read and the apply (scaleDownPrimaryRefusal on findPrimaryOrdinal's lowest ordinal).
EndpointKept ==
    [][have'.replicas < have.replicas /\ labelled # {} /\ labelled' = {}
          => copy.labels # labelled]_scaleVars

\* Why: what findPrimaryOrdinal returned is one of the ordinals its list shows labelled.
ScaleInv ==
    /\ ScaleTypeOK
    /\ stage = "apply" /\ copy.ordinal # Unknown /\ copy.labels # {}
          => copy.ordinal \in copy.labels
=============================================================================
