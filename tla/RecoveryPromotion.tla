-------------------------- MODULE RecoveryPromotion --------------------------
(***************************************************************************)
(* How a sentinel-mode CR without any master gets one again.  Pods die and *)
(* are recreated under new addresses; the init script points them at the   *)
(* seed that the operator keeps in a ConfigMap.  When all pods follow a    *)
(* dead address and the sentinels know no live candidate, the operator     *)
(* surveys the pods, confirms its list against the API server and promotes *)
(* the most advanced one.                                                  *)
(***************************************************************************)
EXTENDS Integers, FiniteSets, FiniteSetsExt, Functions

CONSTANTS
    Pods,        \* the valkey pods
    First,       \* ... of ordinal 0
    Dns,         \* the host name of First, as a value of master_host
    MaxData,     \* bound: replication offsets
    MaxFaults    \* bound: deaths, lost views and replies, late lists, failovers

ASSUME PromotionAssumption ==
    /\ IsFiniteSet(Pods) /\ First \in Pods /\ Dns \notin Int
    /\ MaxData \in Nat /\ MaxFaults \in Nat

None      == 0
Absent    == -1
IPs == 1 .. Cardinality(Pods) + MaxFaults
Surveys   == [at : {"idle", "dial", "confirm", "issue"}, view : IPs \cup {None}, todo : SUBSET Pods,
              live : SUBSET IPs, clean : BOOLEAN, masters : SUBSET IPs, hosts : SUBSET (IPs \cup {Dns}),
              offsets : [Pods -> Absent .. MaxData], best : Pods]
NoSurvey  == [at |-> "idle", view |-> None, todo |-> {}, live |-> {}, clean |-> TRUE, masters |-> {},
              hosts |-> {}, offsets |-> [p \in Pods |-> Absent], best |-> First]

VARIABLES
    addr,      \* each pod's address; None: pending; Absent: no such pod
    master,    \* pods that run as a master
    host,      \* master_host of the others: an address or Dns
    data,      \* the offset of each pod's data, which outlives the pod
    next,      \* the next address
    agreed,    \* the address the sentinels monitor
    known,     \* the live candidates in a quorum of sentinel tables
    lost,      \* the sentinels do not agree: relabelling is suppressed
    lab,       \* the address of the pod labelled primary, or None
    marker,    \* FailoverDispatch.PreStripAddr of a failover in flight, or None
    seed,      \* seedMasterIP, or None
    survey,    \* the running survey
    cooling,   \* recoveryPromotionLastFired is recent
    present,   \* history: the pods that exist from the start of the survey to its confirmation;
               \* none once a pod has come up as a master or, before the confirmation, the
               \* sentinels have elected
    faults

podState  == <<addr, master, host, data, next>>
quorumSt  == <<agreed, known, lost, lab, marker>>
promVars  == <<podState, quorumSt, seed, survey, cooling, present, faults>>

PromotionTypeOK ==
    /\ addr \in [Pods -> IPs \cup {None, Absent}]
    /\ master \subseteq Pods /\ host \in [Pods -> IPs \cup {Dns}] /\ data \in [Pods -> 0 .. MaxData]
    /\ next \in 1 .. Cardinality(Pods) + MaxFaults + 1 /\ agreed \in IPs \cup {None}
    /\ known \subseteq IPs /\ lost \in BOOLEAN /\ cooling \in BOOLEAN
    /\ lab \in IPs \cup {None} /\ marker \in IPs \cup {None} /\ seed \in IPs \cup {None}
    /\ survey \in Surveys /\ present \subseteq Pods /\ faults \in 0 .. MaxFaults

Fault  == faults < MaxFaults /\ faults' = faults + 1
Up     == {p \in Pods : addr[p] > 0}
Live   == {addr[p] : p \in Up}
PodAt(a)  == CHOOSE p \in Pods : addr[p] = a
Target(p) == IF host[p] = Dns THEN addr[First] ELSE host[p]
LinkUp(p) == \E q \in Up \cap master : addr[q] = Target(p)

\* Either nothing runs yet, or the sentinels have replaced the first master by another
\* pod, which is labelled and seeded, and all the others are being recreated.
PromotionInit ==
    /\ \/ /\ addr = [p \in Pods |-> None] /\ master = {} /\ next = 1
          /\ agreed = None /\ lab = None /\ seed = None
       \/ \E p \in Pods \ {First} :
             /\ addr = [q \in Pods |-> IF q = p THEN 1 ELSE None] /\ master = {p} /\ next = 2
             /\ agreed = 1 /\ lab = 1 /\ seed = 1
    /\ host = [p \in Pods |-> Dns] /\ data = [p \in Pods |-> 0] /\ known = {} /\ lost = FALSE
    /\ marker = None /\ survey = NoSurvey /\ cooling = FALSE /\ present = {} /\ faults = 0
-----------------------------------------------------------------------------
(* Pods. *)

\* renderInitScript.
BootsAsMaster(p, a) == p = First /\ ~(seed \notin {None, a} /\ seed \in Live)
PodBoots(p) ==
    /\ addr[p] = None /\ next \in IPs /\ next' = next + 1
    /\ addr' = [addr EXCEPT ![p] = next]
    /\ IF BootsAsMaster(p, next)
       THEN master' = master \cup {p} /\ present' = {} /\ UNCHANGED host
       ELSE /\ host' = [host EXCEPT ![p] = IF seed = None THEN Dns ELSE seed]
            /\ UNCHANGED <<master, present>>
    /\ UNCHANGED <<data, quorumSt, seed, survey, cooling, faults>>
PodDies(p) ==
    /\ p \in Up /\ Fault
    /\ addr' = [addr EXCEPT ![p] = Absent] /\ master' = master \ {p}
    /\ host' = [host EXCEPT ![p] = Dns]
    /\ lab' = IF lab = addr[p] THEN None ELSE lab
    /\ present' = IF survey.at = "issue" THEN present ELSE present \ {p}
    /\ known' = known \ {addr[p]}
    /\ UNCHANGED <<data, next, agreed, lost, marker, seed, survey, cooling>>
PodRecreated(p) ==
    /\ addr[p] = Absent /\ addr' = [addr EXCEPT ![p] = None]
    /\ UNCHANGED <<master, host, data, next, quorumSt, seed, survey, cooling, present, faults>>

\* A client writes; a replica catches up, and the sentinels of its master learn it.
ClientWrite(p) ==
    /\ p \in Up \cap master /\ data[p] < MaxData /\ data' = [data EXCEPT ![p] = @ + 1]
    /\ UNCHANGED <<addr, master, host, next, quorumSt, seed, survey, cooling, present, faults>>
Resync(p) ==
    /\ p \in Up \ master /\ LinkUp(p)
    /\ data' = [data EXCEPT ![p] = data[PodAt(Target(p))]]
    /\ known' = IF Target(p) = agreed THEN known \cup {addr[p]} ELSE known
    /\ UNCHANGED <<addr, master, host, next, agreed, lost, lab, marker>>
    /\ UNCHANGED <<seed, survey, cooling, present, faults>>
-----------------------------------------------------------------------------
(* Sentinels. *)

\* The monitored address is dead: a known candidate becomes the master, and the
\* sentinels point the other known replicas at it.
SentinelElects(a) ==
    /\ agreed # None /\ agreed \notin Live /\ ~lost /\ a \in known
    /\ agreed' = a /\ known' = known \ {a} /\ master' = master \cup {PodAt(a)}
    /\ host' = [p \in Pods |-> IF addr[p] \in known \ {a} THEN a ELSE host[p]]
    /\ present' = IF survey.at = "issue" THEN present ELSE {}
    /\ UNCHANGED <<addr, data, next, lost, lab, marker, seed, survey, cooling, faults>>
ViewLost     == ~lost /\ agreed # None /\ Fault /\ lost' = TRUE
ViewRestored == lost /\ lost' = FALSE /\ UNCHANGED faults
View ==
    /\ ViewLost \/ ViewRestored
    /\ UNCHANGED <<podState, agreed, known, lab, marker, seed, survey, cooling, present>>

\* The operator's rollout dispatches a failover; later its latch goes.
Dispatch ==
    /\ \/ marker = None /\ lab # None /\ Fault /\ marker' = lab /\ lab' = None
       \/ marker # None /\ marker' = None /\ UNCHANGED <<lab, faults>>
    /\ UNCHANGED <<podState, agreed, known, lost, seed, survey, cooling, present>>

\* Phase 7: the label follows the agreed address.
Label ==
    /\ ~lost /\ marker = None /\ agreed \in Live /\ lab # agreed /\ lab' = agreed
    /\ UNCHANGED <<podState, agreed, known, lost, marker, seed, survey, cooling, present, faults>>
-----------------------------------------------------------------------------
(* Phase 3: the seed. *)

\* seedFromFailoverDispatch.
SeedFromMarker == IF marker \in Live THEN marker ELSE None

\* seedMasterIPForCR: the label, then the records' majority, then the failover marker;
\* only before the sentinels monitor anything, and leave records, pod 0.
\* The mutant takes pod 0 as it is.
SeedUnchecked == IF lab # None THEN lab ELSE addr[First]
SeedMaster ==
    IF lab # None THEN lab
    ELSE IF agreed # None
    THEN IF ~lost /\ agreed \in Live THEN agreed
         ELSE SeedFromMarker
    ELSE IF addr[First] > 0 THEN addr[First] ELSE None

\* reconcileSentinelBootstrapCM: an undetermined seed keeps the previous one while it
\* is the address of a pod of this CR.
SeedWritten(ip) == IF ip = None /\ seed \in Live THEN seed ELSE ip
ReconcileSeed ==
    /\ seed # SeedWritten(SeedMaster) /\ seed' = SeedWritten(SeedMaster)
    /\ UNCHANGED <<podState, quorumSt, survey, cooling, present, faults>>
-----------------------------------------------------------------------------
(* Phase 11: the survey and the promotion. *)

\* observedMasterIPForCR: neither the label nor the snapshot gives a master; or the view
\* is lost and the survey is forced (maybeRecoveryPromoteOnQuorumLoss).  The informer's
\* list may lack pods that exist (newSurveyFromPods).
LabelResolves == lab # None /\ \E p \in Up \cap master : addr[p] = lab
Unresolved    == ~LabelResolves /\ agreed \notin Live
Existing      == {p \in Pods : addr[p] # Absent}
SurveyBegins ==
    /\ survey.at = "idle" /\ (Unresolved \/ lost)
    /\ \E seen \in SUBSET Existing :
          /\ seen \cap Up # {}
          /\ IF seen = Existing THEN UNCHANGED faults ELSE Fault
          /\ survey' = [NoSurvey EXCEPT !.at = "dial", !.view = agreed, !.todo = seen \cap Up,
                                        !.clean = seen \subseteq Up, !.live = {addr[p] : p \in seen \cap Up}]
    /\ present' = Existing /\ UNCHANGED <<podState, quorumSt, seed, cooling>>

\* dialValkeySurvey, one pod; the reply may be lost, or have no slave_repl_offset.
DialPod(p) ==
    /\ survey.at = "dial" /\ p \in survey.todo
    /\ \/ /\ addr[p] \in survey.live /\ p \in master /\ UNCHANGED faults
          /\ survey' = [survey EXCEPT !.todo = @ \ {p}, !.clean = FALSE, !.masters = @ \cup {addr[p]}]
       \/ /\ addr[p] \in survey.live /\ p \notin master
          /\ \E offset \in {data[p], Absent} :
                /\ IF offset = Absent THEN Fault ELSE UNCHANGED faults
                /\ survey' = [survey EXCEPT !.todo = @ \ {p}, !.offsets[p] = offset,
                                            !.hosts = @ \cup {host[p]}, !.clean = @ /\ ~LinkUp(p)]
       \/ /\ survey' = [survey EXCEPT !.todo = @ \ {p}, !.clean = FALSE]
          /\ IF addr[p] \in survey.live THEN Fault ELSE UNCHANGED faults
    /\ UNCHANGED <<podState, quorumSt, seed, cooling, present>>

\* promotionSurveyAdmits, the rest of maybeRecoveryPromote and choosePromotionCandidate: one
\* replica with an offset is enough, and those without one are passed over.
\* The mutant takes a dead address of the snapshot for a master.
Rankable(s) == {p \in Pods : s.offsets[p] # Absent}
BestOf(s) == CHOOSE p \in Rankable(s) : \A q \in Rankable(s) : s.offsets[q] <= s.offsets[p]
OneLineage == Cardinality(survey.hosts) = 1 /\ survey.hosts \cap survey.live = {}
ElectionDoomed     == known \cap survey.live = {}
AdmittedUnnamed(snapshot) ==
    /\ survey.clean /\ OneLineage /\ agreed # None /\ (lost \/ snapshot = None)
    /\ marker = None /\ ~cooling /\ Rankable(survey) # {} /\ ElectionDoomed
Admitted(snapshot) ==
    /\ survey.clean /\ OneLineage /\ agreed # None /\ (lost \/ snapshot \notin survey.live)
    /\ marker = None /\ ~cooling /\ Rankable(survey) # {} /\ ElectionDoomed
SurveyEnds ==
    /\ survey.at = "dial" /\ survey.todo = {}
    \* The observer may not have polled since the survey began.
    /\ \E snapshot \in {survey.view, agreed} :
          survey' = IF Admitted(snapshot)
                    THEN [survey EXCEPT !.at = "confirm", !.best = BestOf(survey)]
                    ELSE NoSurvey
    /\ present' = IF survey'.at = "idle" THEN {} ELSE present
    \* A sweep that finds one master has the sentinels monitor it.
    /\ IF Cardinality(survey.masters) = 1 /\ Unresolved
       THEN agreed' \in survey.masters /\ known' = {}
       ELSE UNCHANGED <<agreed, known>>
    /\ UNCHANGED <<podState, lost, lab, marker, seed, cooling, faults>>

\* promotionPodViewConfirmed reads the API server; the mutant trusts the informer.
ConfirmedByCache(s) == s.live # {}
Confirmed(s) == {addr[p] : p \in Existing} = s.live
Confirm ==
    /\ survey.at = "confirm"
    /\ IF Confirmed(survey)
       THEN /\ survey' = [survey EXCEPT !.at = "issue"]
            /\ cooling' = TRUE /\ UNCHANGED present
       ELSE survey' = NoSurvey /\ present' = {} /\ UNCHANGED cooling
    /\ UNCHANGED <<podState, quorumSt, seed, faults>>

\* issueRecoveryPromotion: REPLICAOF NO ONE at the surveyed address.
Promote(p) ==
    /\ survey.at = "issue" /\ survey.best = p /\ survey' = NoSurvey /\ present' = {}
    /\ \/ addr[p] \in survey.live /\ master' = master \cup {p} /\ UNCHANGED faults
       \/ /\ IF addr[p] \in survey.live THEN Fault ELSE UNCHANGED faults
          /\ UNCHANGED master
    /\ UNCHANGED <<addr, host, data, next, quorumSt, seed, cooling>>
CooldownEnds ==
    /\ cooling /\ cooling' = FALSE
    /\ UNCHANGED <<podState, quorumSt, seed, survey, present, faults>>
-----------------------------------------------------------------------------
SurveyStep == SurveyBegins \/ SurveyEnds \/ Confirm \/ (\E p \in Pods : DialPod(p) \/ Promote(p))

PromotionNext ==
    \/ SurveyStep \/ View \/ Dispatch \/ Label \/ ReconcileSeed \/ CooldownEnds
    \/ \E a \in IPs : SentinelElects(a)
    \/ \E p \in Pods : PodBoots(p) \/ PodDies(p) \/ PodRecreated(p)
                        \/ ClientWrite(p) \/ Resync(p)

PromotionFairness ==
    /\ WF_promVars(SurveyStep) /\ WF_promVars(ReconcileSeed) /\ WF_promVars(CooldownEnds)
    /\ WF_promVars(\E a \in IPs : SentinelElects(a))
    /\ WF_promVars(marker # None /\ Dispatch) /\ WF_promVars(lost /\ View)
    /\ \A p \in Pods : WF_promVars(PodBoots(p)) /\ WF_promVars(PodRecreated(p))

PromotionSpec == PromotionInit /\ [][PromotionNext]_promVars /\ PromotionFairness
-----------------------------------------------------------------------------
(* Properties. *)

\* Until the confirmation a pod that was read as a replica without a link neither becomes a
\* master nor gets data; with the confirmation there is no master at all and no candidate
\* for the sentinels, so that nothing but a pod that boots as a master can change that.
Distinct ==
    /\ \A p, q \in Up : (addr[p] = addr[q] => p = q) /\ addr[p] < next
    /\ \A a \in survey.live : a < next
AllUp == known \subseteq Live /\ master \subseteq Up
Undisturbed ==
    /\ survey.at = "idle" => present = {}
    /\ survey.at # "issue" => present \subseteq Existing
ReadAs(p) == survey.offsets[p] # Absent => survey.offsets[p] = data[p]
ReadingsHold ==
    present # {} /\ survey.clean =>
        \A p \in Up \ survey.todo : addr[p] \in survey.live
            => p \notin master /\ ~LinkUp(p) /\ ReadAs(p)
BestFirst ==
    survey.at \in {"confirm", "issue"} =>
        /\ survey.clean /\ survey.todo = {} /\ survey.best \in Rankable(survey)
        /\ \A p \in Rankable(survey) : survey.offsets[p] <= survey.offsets[survey.best]
        /\ present # {} => ElectionDoomed
Settled ==
    survey.at = "issue" /\ present # {} =>
        master = {} /\ known = {} /\ \A p \in present : ReadAs(p)

\* The inductive invariant of the survey.
PromotionInv ==
    PromotionTypeOK /\ Distinct /\ AllUp /\ Undisturbed /\ ReadingsHold /\ BestFirst /\ Settled

\* A promotion does not fork the data, and of the pods that told their offset it takes the
\* freshest: when a pod is promoted, no other pod that existed from the start of the survey
\* to its confirmation is a master, or holds more data if its reply had slave_repl_offset.
\* Pods that die or are replaced after the confirmation, come up as replicas at any time, or
\* that the sentinels could elect after it do not change that; an election before it and a
\* pod that boots as a master do (promotionSurveyAdmits, choosePromotionCandidate,
\* promotionPodViewConfirmed).
PromotesFreshest ==
    [][\A p \in master' \ master : survey.at = "issue" /\ survey'.at = "idle"
          => \A q \in present \ {p} :
                q \notin master /\ (survey.offsets[q] # Absent => data[q] <= data[p])]_promVars

\* A CR is not without a master for ever, unless its pods follow different dead masters
\* or one another: those promotionSurveyAdmits refuses to rank.
Refused == \E p \in Up \ master : \/ host[p] \in Live
                                  \/ \E q \in Up \ master : host[q] # host[p]
MasterReturns == []<>(Up \cap master # {} \/ Refused)
=============================================================================
