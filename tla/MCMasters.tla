----------------------------- MODULE MCMasters ------------------------------
(* Masters and replicas: too many masters, none, and the readiness gates of the      *)
(* replicas.  The three share no state: a behaviour runs one of them, and the others *)
(* stay as they start, each in one state.                                            *)
EXTENDS OrphanMasters, RecoveryPromotion, ReadinessGates

VARIABLE area   \* "many", "none" or "gates", chosen at the start

mastersVars == <<orphanVars, promVars, gateVars, area>>

\* The pods of the gates' set differ only in how a tie between two of them ends: at the start
\* ordinal 0 is the master, and ordinal 1 alone is behind it.
MastersInit ==
    /\ area \in {"many", "none", "gates"}
    /\ OrphanInit /\ (area # "many" => sentinels /\ ~section)
    /\ PromotionInit /\ (area # "none" => master # {})
    /\ GatesInit /\ monitored = 0 /\ applied = [n \in Nodes |-> IF n = 1 THEN 0 ELSE MaxApplied]
    /\ area # "gates" => landing = "no"

MastersNext ==
    \/ area = "many" /\ OrphanNext /\ UNCHANGED <<promVars, gateVars, area>>
    \/ area = "none" /\ PromotionNext /\ UNCHANGED <<orphanVars, gateVars, area>>
    \/ area = "gates" /\ GatesNext /\ UNCHANGED <<orphanVars, promVars, area>>

\* The fairness of the three specifications, each in its own part.
MastersFairness ==
    /\ WF_orphanVars(area = "many" /\ ScanStep)
    /\ WF_promVars(area = "none" /\ SurveyStep) /\ WF_promVars(area = "none" /\ ReconcileSeed)
    /\ WF_promVars(area = "none" /\ CooldownEnds) /\ WF_promVars(area = "none" /\ lost /\ View)
    /\ WF_promVars(area = "none" /\ \E a \in IPs : SentinelElects(a))
    /\ WF_promVars(area = "none" /\ marker # None /\ Dispatch)
    /\ \A p \in Pods : /\ WF_promVars(area = "none" /\ PodBoots(p))
                       /\ WF_promVars(area = "none" /\ PodRecreated(p))
    /\ WF_gateVars(area = "gates" /\ GateSteps) /\ SF_gateVars(area = "gates" /\ Dwells)
    /\ WF_gateVars(area = "gates" /\ Landed)
    /\ WF_gateVars(area = "gates" /\ \E n \in Nodes : Boots(n))

MastersSpec == MastersInit /\ [][MastersNext]_mastersVars /\ MastersFairness

\* The inductive invariants of the three: what a scan, a survey and a walk have read stays
\* true as far as they rely on it.
MastersInv == OrphanInv /\ PromotionInv /\ GatesInv
=============================================================================
