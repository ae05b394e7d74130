------------------------------- MODULE MCSets -------------------------------
(* The two StatefulSets: surgery on the sentinels and the roll of their set, the     *)
(* volumes and the scale of the data set.  The four share no state: a behaviour runs *)
(* one of them, and the others stay as they start, each in one state.                *)
EXTENDS SentinelRecovery, SentinelRoll, Volumes, Scaling

VARIABLE area   \* "surgery", "roll", "volumes" or "scale", chosen at the start

setsVars == <<recoveryVars, rollVars, volVars, scaleVars, area>>

SetsInit ==
    /\ area \in {"surgery", "roll", "volumes", "scale"} /\ RecoveryInit /\ RollInit
    /\ VolInit /\ (area # "volumes" => born /\ cr.policy = "Retain")
    /\ ScaleInit /\ (area # "scale" => /\ master = 0
                                       /\ asked.preflight
                                       /\ asked.image = Blank.spec.image)

SetsNext ==
    \/ area = "surgery" /\ RecoveryNext /\ UNCHANGED <<rollVars, volVars, scaleVars, area>>
    \/ area = "roll" /\ RollNext /\ UNCHANGED <<recoveryVars, volVars, scaleVars, area>>
    \/ area = "volumes" /\ VolNext /\ UNCHANGED <<recoveryVars, rollVars, scaleVars, area>>
    \/ area = "scale" /\ ScaleNext /\ UNCHANGED <<recoveryVars, rollVars, volVars, area>>

\* The fairness of the specifications, each in its own part.
SetsFairness ==
    /\ WF_recoveryVars(area = "surgery" /\ LoopStep)
    /\ WF_recoveryVars(area = "surgery" /\ StartupStep)
    /\ WF_recoveryVars(area = "surgery" /\ LatchClears)
    /\ \A s \in Sentinels : /\ WF_recoveryVars(area = "surgery" /\ SentinelStep(s))
                            /\ WF_recoveryVars(area = "surgery" /\ Mend(s))
    /\ WF_rollVars(area = "roll" /\ ReconcileInfra) /\ WF_rollVars(area = "roll" /\ busy /\ Window)
    /\ WF_rollVars(area = "roll" /\ StatusUpdate) /\ WF_rollVars(area = "roll" /\ StatusCached)
    /\ \A i \in Ordinals : WF_rollVars(area = "roll" /\ PodStep(i))
    /\ WF_volVars(area = "volumes" /\ PassSteps) /\ WF_volVars(area = "volumes" /\ ClaimMade)
    /\ WF_volVars(area = "volumes" /\ DriverGrows) /\ WF_volVars(area = "volumes" /\ PodsReady)
    /\ WF_volVars(area = "volumes" /\ BackoffEnds)
    /\ WF_scaleVars(area = "scale" /\ ScaleSteps) /\ WF_scaleVars(area = "scale" /\ LabelsSync)

SetsSpec == SetsInit /\ [][SetsNext]_setsVars /\ SetsFairness

\* Surgery, roll, volumes and scale are well typed and keep what their proofs rest on: what
\* a pass holds is what it read, and the partition follows the pods seen back.
SetsInv == RecoveryInv /\ RollInv /\ VolInv /\ ScaleInv

\* The endpoint of the primary Service returns in the behaviours that scale (Phases 2 and 7).
EndpointReturns == <>[](area = "scale" => EndpointBack)
=============================================================================
