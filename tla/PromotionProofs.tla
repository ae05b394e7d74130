-------------------------- MODULE PromotionProofs ---------------------------
(***************************************************************************)
(* Proofs about RecoveryPromotion: PromotionInv is kept by every action.   *)
(* That the promotion takes the freshest pod of an undisturbed survey      *)
(* follows from it.                                                        *)
(***************************************************************************)
EXTENDS RecoveryPromotion, FiniteSetTheorems, TLAPS

LEMMA Addresses == /\ Cardinality(Pods) \in Nat /\ IPs = 1 .. Cardinality(Pods) + MaxFaults
                   /\ \A a \in IPs : a \in Nat /\ a > 0
  BY PromotionAssumption, FS_CardinalityType DEF IPs

LEMMA UpAddress == ASSUME PromotionTypeOK, NEW p \in Up PROVE p \in Pods /\ addr[p] \in IPs
  <1>1. p \in Pods /\ addr[p] > 0
    BY Zenon DEF Up
  <1>2. addr[p] \in IPs \cup {None, Absent}
    BY Zenon, <1>1 DEF PromotionTypeOK
  <1> QED
    BY <1>1, <1>2 DEF None, Absent

LEMMA Largest ==
    ASSUME NEW T \in SUBSET Nat, T # {}, NEW b \in Nat, \A x \in T : x <= b
    PROVE  \E x \in T : \A y \in T : y <= x
  <1> DEFINE R == OpToRel(<, Nat)
             U == {b - x : x \in T}
  <1>1. U \in SUBSET Nat /\ U # {}
    <2>1. PICK x \in T : TRUE
      BY Zenon
    <2>2. b - x \in U
      BY Zenon, <2>1
    <2>3. \A y \in T : b - y \in Nat
      OBVIOUS
    <2> QED
      BY Zenon, <2>2, <2>3
  <1>2. \E u \in U : \A v \in U : ~(<<v, u>> \in R)
    BY Zenon, <1>1, NatLessThanWellFounded, WFMin
  <1>3. \A u, v \in Nat : v < u => <<v, u>> \in R
    BY Zenon DEF OpToRel
  <1> HIDE DEF R
  <1>4. PICK u \in U : \A v \in U : ~(<<v, u>> \in R)
    BY Zenon, <1>2
  <1>5. PICK x \in T : u = b - x
    BY Zenon, <1>4
  <1>6. ASSUME NEW y \in T PROVE y <= x
    <2>1. b - y \in U
      OBVIOUS
    <2>2. ~(b - y < u)
      BY Zenon, <1>1, <1>3, <1>4, <2>1
    <2> QED
      BY <1>5, <2>2
  <1> QED
    BY Zenon, <1>6

\* choosePromotionCandidate finds a pod with the largest offset, if any offset was read.
LEMMA BestExists ==
    ASSUME NEW s \in Surveys, Rankable(s) # {}
    PROVE  BestOf(s) \in Rankable(s) /\ \A q \in Rankable(s) : s.offsets[q] <= s.offsets[BestOf(s)]
  <1> DEFINE T == {s.offsets[p] : p \in Rankable(s)}
  <1>1. s.offsets \in [Pods -> Absent .. MaxData] /\ MaxData \in Nat
    BY Zenon, PromotionAssumption DEF Surveys
  <1>2. T \in SUBSET Nat /\ T # {} /\ \A x \in T : x <= MaxData
    BY <1>1 DEF Absent, Rankable
  <1> HIDE DEF T
  <1>3. PICK x \in T : \A y \in T : y <= x
    BY Zenon, <1>1, <1>2, Largest
  <1>4. PICK p \in Rankable(s) : s.offsets[p] = x
    BY Zenon, <1>3 DEF T
  <1>5. \A q \in Rankable(s) : s.offsets[q] <= s.offsets[p]
    BY Zenon, <1>3, <1>4 DEF T
  <1> QED
    BY Zenon, <1>4, <1>5 DEF BestOf

LEMMA PromotionFlags == lost \in BOOLEAN /\ cooling \in BOOLEAN /\ [PromotionNext]_promVars => lost' \in BOOLEAN /\ cooling' \in BOOLEAN
  <1> SUFFICES ASSUME lost \in BOOLEAN, cooling \in BOOLEAN, [PromotionNext]_promVars PROVE lost' \in BOOLEAN /\ cooling' \in BOOLEAN
      OBVIOUS
  <1> USE DEF podState, quorumSt
  <1>1. CASE SurveyBegins
      BY Zenon, <1>1 DEF SurveyBegins
  <1>2. CASE SurveyEnds
      BY Zenon, <1>2 DEF SurveyEnds
  <1>3. CASE Confirm
      BY Zenon, <1>3 DEF Confirm
  <1>4. CASE View
      BY Zenon, <1>4 DEF View, ViewLost, ViewRestored
  <1>5. CASE Dispatch
      BY Zenon, <1>5 DEF Dispatch
  <1>6. CASE Label
      BY Zenon, <1>6 DEF Label
  <1>7. CASE ReconcileSeed
      BY Zenon, <1>7 DEF ReconcileSeed
  <1>8. CASE CooldownEnds
      BY Zenon, <1>8 DEF CooldownEnds
  <1>9. ASSUME NEW a \in IPs, SentinelElects(a) PROVE lost' \in BOOLEAN /\ cooling' \in BOOLEAN
      BY Zenon, <1>9 DEF SentinelElects
  <1>10. ASSUME NEW p \in Pods, DialPod(p) PROVE lost' \in BOOLEAN /\ cooling' \in BOOLEAN
      BY Zenon, <1>10 DEF DialPod
  <1>11. ASSUME NEW p \in Pods, Promote(p) PROVE lost' \in BOOLEAN /\ cooling' \in BOOLEAN
      BY Zenon, <1>11 DEF Promote
  <1>12. ASSUME NEW p \in Pods, PodBoots(p) PROVE lost' \in BOOLEAN /\ cooling' \in BOOLEAN
      BY Zenon, <1>12 DEF PodBoots
  <1>13. ASSUME NEW p \in Pods, PodDies(p) PROVE lost' \in BOOLEAN /\ cooling' \in BOOLEAN
      BY Zenon, <1>13 DEF PodDies
  <1>14. ASSUME NEW p \in Pods, PodRecreated(p) PROVE lost' \in BOOLEAN /\ cooling' \in BOOLEAN
      BY Zenon, <1>14 DEF PodRecreated
  <1>15. ASSUME NEW p \in Pods, ClientWrite(p) PROVE lost' \in BOOLEAN /\ cooling' \in BOOLEAN
      BY Zenon, <1>15 DEF ClientWrite
  <1>16. ASSUME NEW p \in Pods, Resync(p) PROVE lost' \in BOOLEAN /\ cooling' \in BOOLEAN
      BY Zenon, <1>16 DEF Resync
  <1>17. CASE UNCHANGED promVars
      BY Zenon, <1>17 DEF promVars
  <1> QED
      BY Zenon, <1>1, <1>2, <1>3, <1>4, <1>5, <1>6, <1>7, <1>8, <1>9, <1>10, <1>11, <1>12, <1>13,
         <1>14, <1>15, <1>16, <1>17 DEF PromotionNext, SurveyStep

LEMMA SurveyTypes == PromotionInv /\ [PromotionNext]_promVars => survey' \in Surveys
  <1> SUFFICES ASSUME PromotionInv, [PromotionNext]_promVars PROVE survey' \in Surveys
      OBVIOUS
  <1> USE PromotionAssumption, Addresses DEF PromotionInv, PromotionTypeOK, None, Absent
  <1>0. NoSurvey \in Surveys
      BY DEF NoSurvey, Surveys
  <1>1. CASE SurveyBegins
    <2>1. PICK seen \in SUBSET Existing :
             survey' = [NoSurvey EXCEPT !.at = "dial", !.view = agreed, !.todo = seen \cap Up,
                                        !.clean = seen \subseteq Up, !.live = {addr[p] : p \in seen \cap Up}]
      BY Zenon, <1>1 DEF SurveyBegins
    <2>2. (seen \subseteq Up) \in BOOLEAN
      BY Zenon
    <2>3. seen \cap Up \in SUBSET Pods /\ {addr[p] : p \in seen \cap Up} \in SUBSET IPs
      BY DEF Up
    <2> QED
      BY ZenonT(40), <1>0, <2>1, <2>2, <2>3 DEF Surveys
  <1>2. CASE SurveyEnds
    <2>1. CASE survey' = NoSurvey
      BY Zenon, <1>0, <2>1
    <2>2. ASSUME NEW snapshot, Admitted(snapshot),
                 survey' = [survey EXCEPT !.at = "confirm", !.best = BestOf(survey)]
          PROVE  survey' \in Surveys
      <3>2. BestOf(survey) \in Pods
        BY Zenon, <2>2, BestExists DEF Admitted, Rankable
      <3> QED
        BY Zenon, <2>2, <3>2 DEF Surveys
    <2> QED
      BY Zenon, <1>2, <2>1, <2>2 DEF SurveyEnds
  <1>3. CASE Confirm
    <2>1. [survey EXCEPT !.at = "issue"] \in Surveys
      BY Zenon DEF Surveys
    <2> QED
      BY Zenon, <1>0, <1>3, <2>1 DEF Confirm
  <1>4. CASE View
      BY Zenon, <1>4 DEF View
  <1>5. CASE Dispatch
      BY Zenon, <1>5 DEF Dispatch
  <1>6. CASE Label
      BY Zenon, <1>6 DEF Label
  <1>7. CASE ReconcileSeed
      BY Zenon, <1>7 DEF ReconcileSeed
  <1>8. CASE CooldownEnds
      BY Zenon, <1>8 DEF CooldownEnds
  <1>9. ASSUME NEW a \in IPs, SentinelElects(a) PROVE survey' \in Surveys
      BY Zenon, <1>9 DEF SentinelElects
  <1>10. ASSUME NEW p \in Pods, DialPod(p) PROVE survey' \in Surveys
    <2>1. [survey EXCEPT !.todo = @ \ {p}, !.clean = FALSE] \in Surveys
      BY Zenon DEF Surveys
    <2>2. ASSUME addr[p] \in survey.live
          PROVE  [survey EXCEPT !.todo = @ \ {p}, !.clean = FALSE, !.masters = @ \cup {addr[p]}] \in Surveys
      <3>1. survey.masters \cup {addr[p]} \in SUBSET IPs
        BY SMTT(30), <2>2 DEF Surveys
      <3> QED
        BY Zenon, <3>1 DEF Surveys
    <2>3. ASSUME NEW offset \in {data[p], Absent}
          PROVE  [survey EXCEPT !.todo = @ \ {p}, !.offsets[p] = offset, !.hosts = @ \cup {host[p]},
                                !.clean = @ /\ ~LinkUp(p)] \in Surveys
      <3>1. (survey.clean /\ ~LinkUp(p)) \in BOOLEAN
        BY Zenon
      <3>2. [survey.offsets EXCEPT ![p] = offset] \in [Pods -> Absent .. MaxData]
        <4>1. offset \in Absent .. MaxData
          OBVIOUS
        <4> QED
          BY Zenon, <4>1 DEF Surveys
      <3>3. survey.hosts \cup {host[p]} \in SUBSET (IPs \cup {Dns})
        BY DEF Surveys
      <3> QED
        BY Zenon, <3>1, <3>2, <3>3 DEF Surveys
    <2> QED
      BY Zenon, <1>10, <2>1, <2>2, <2>3 DEF DialPod
  <1>11. ASSUME NEW p \in Pods, Promote(p) PROVE survey' \in Surveys
      BY <1>11 DEF Promote, Surveys, NoSurvey
  <1>12. ASSUME NEW p \in Pods, PodBoots(p) PROVE survey' \in Surveys
      BY Zenon, <1>12 DEF PodBoots
  <1>13. ASSUME NEW p \in Pods, PodDies(p) PROVE survey' \in Surveys
      BY Zenon, <1>13 DEF PodDies
  <1>14. ASSUME NEW p \in Pods, PodRecreated(p) PROVE survey' \in Surveys
      BY Zenon, <1>14 DEF PodRecreated
  <1>15. ASSUME NEW p \in Pods, ClientWrite(p) PROVE survey' \in Surveys
      BY Zenon, <1>15 DEF ClientWrite
  <1>16. ASSUME NEW p \in Pods, Resync(p) PROVE survey' \in Surveys
      BY Zenon, <1>16 DEF Resync
  <1>17. CASE UNCHANGED promVars
      BY Zenon, <1>17 DEF promVars
  <1> QED
      BY <1>1, <1>2, <1>3, <1>4, <1>5, <1>6, <1>7, <1>8, <1>9, <1>10, <1>11, <1>12, <1>13, <1>14,
         <1>15, <1>16, <1>17 DEF PromotionNext, SurveyStep

LEMMA PromotionTypes == PromotionInv /\ [PromotionNext]_promVars => PromotionTypeOK'
  <1> SUFFICES ASSUME PromotionInv, survey' \in Surveys, lost' \in BOOLEAN, cooling' \in BOOLEAN, [PromotionNext]_promVars
               PROVE  PromotionTypeOK'
      BY Zenon, PromotionFlags, SurveyTypes DEF PromotionInv, PromotionTypeOK
  <1> USE PromotionAssumption, Addresses DEF PromotionInv, PromotionTypeOK, None, Absent, podState, quorumSt
  <1>0. Fault => faults' \in 0 .. MaxFaults
      BY DEF Fault
  <1>1. CASE SurveyBegins
    <2>1. faults' \in 0 .. MaxFaults
      BY Zenon, <1>0, <1>1 DEF SurveyBegins
    <2>2. present' \subseteq Pods /\ UNCHANGED <<podState, quorumSt, seed, cooling>>
      BY Zenon, <1>1 DEF SurveyBegins, Existing
    <2> QED
      BY Zenon, <2>1, <2>2
  <1>2. CASE SurveyEnds
    <2>1. agreed' \in IPs \cup {None} /\ known' \subseteq IPs
      BY Zenon, <1>2 DEF SurveyEnds, Surveys
    <2>2. present' \subseteq Pods /\ UNCHANGED <<podState, lost, lab, marker, seed, cooling, faults>>
      BY Zenon, <1>2 DEF SurveyEnds
    <2> QED
      BY Zenon, <2>1, <2>2
  <1>3. CASE Confirm
      BY Zenon, <1>3 DEF Confirm
  <1>4. CASE View
      BY Zenon, <1>0, <1>4 DEF View, ViewLost, ViewRestored
  <1>5. CASE Dispatch
      BY Zenon, <1>0, <1>5 DEF Dispatch
  <1>6. CASE Label
      BY Zenon, <1>6 DEF Label
  <1>7. CASE ReconcileSeed
      BY SMTT(30), <1>7 DEF ReconcileSeed, SeedWritten, SeedMaster, SeedFromMarker
  <1>8. CASE CooldownEnds
      BY Zenon, <1>8 DEF CooldownEnds
  <1>9. ASSUME NEW a \in IPs, SentinelElects(a) PROVE PromotionTypeOK'
    <2>1. a \in Live
      BY Zenon, <1>9 DEF SentinelElects, AllUp
    <2>2. PodAt(a) \in Pods
      BY Zenon, <2>1 DEF Live, Up, PodAt
    <2> QED
      BY Zenon, <1>9, <2>2 DEF SentinelElects
  <1>10. ASSUME NEW p \in Pods, DialPod(p) PROVE PromotionTypeOK'
      BY Zenon, <1>0, <1>10 DEF DialPod
  <1>11. ASSUME NEW p \in Pods, Promote(p) PROVE PromotionTypeOK'
      BY Zenon, <1>0, <1>11 DEF Promote
  <1>12. ASSUME NEW p \in Pods, PodBoots(p) PROVE PromotionTypeOK'
    <2>1. next' \in 1 .. Cardinality(Pods) + MaxFaults + 1
      BY <1>12 DEF PodBoots
    <2>2. addr' \in [Pods -> IPs \cup {None, Absent}] /\ master' \subseteq Pods /\ present' \subseteq Pods
      BY Zenon, <1>12 DEF PodBoots
    <2>3. host' \in [Pods -> IPs \cup {Dns}]
      <3>1. (IF seed = None THEN Dns ELSE seed) \in IPs \cup {Dns}
        BY Zenon
      <3>2. host' = host \/ host' = [host EXCEPT ![p] = IF seed = None THEN Dns ELSE seed]
        BY Zenon, <1>12 DEF PodBoots
      <3> QED
        BY Zenon, <3>1, <3>2
    <2> QED
      BY Zenon, <1>12, <2>1, <2>2, <2>3 DEF PodBoots
  <1>13. ASSUME NEW p \in Pods, PodDies(p) PROVE PromotionTypeOK'
    <2>1. addr' \in [Pods -> IPs \cup {None, Absent}] /\ host' \in [Pods -> IPs \cup {Dns}]
      BY Zenon, <1>13 DEF PodDies
    <2>2. faults' \in 0 .. MaxFaults
      BY Zenon, <1>0, <1>13 DEF PodDies
    <2> QED
      BY Zenon, <1>13, <2>1, <2>2 DEF PodDies
  <1>14. ASSUME NEW p \in Pods, PodRecreated(p) PROVE PromotionTypeOK'
      BY Zenon, <1>14 DEF PodRecreated
  <1>15. ASSUME NEW p \in Pods, ClientWrite(p) PROVE PromotionTypeOK'
      BY <1>15 DEF ClientWrite
  <1>16. ASSUME NEW p \in Pods, Resync(p) PROVE PromotionTypeOK'
    <2>1. PodAt(Target(p)) \in Pods
      BY Zenon, <1>16 DEF Resync, LinkUp, Up, PodAt
    <2>2. data' \in [Pods -> 0 .. MaxData]
      BY Zenon, <1>16, <2>1 DEF Resync
    <2>3. known' \subseteq IPs
      <3>1. addr[p] \in IPs
        BY Zenon, <1>16, UpAddress DEF Resync
      <3> QED
        BY Zenon, <1>16, <3>1 DEF Resync
    <2> QED
      BY Zenon, <1>16, <2>2, <2>3 DEF Resync
  <1>17. CASE UNCHANGED promVars
      BY Zenon, <1>17 DEF promVars
  <1> QED
      BY ZenonT(40), <1>1, <1>2, <1>3, <1>4, <1>5, <1>6, <1>7, <1>8, <1>9, <1>10, <1>11, <1>12, <1>13,
         <1>14, <1>15, <1>16, <1>17 DEF PromotionNext, SurveyStep

LEMMA AddressesDistinct == PromotionInv /\ PromotionTypeOK' /\ [PromotionNext]_promVars => Distinct' /\ AllUp'
  <1> SUFFICES ASSUME PromotionInv, PromotionTypeOK', [PromotionNext]_promVars PROVE Distinct' /\ AllUp'
      OBVIOUS
  <1> USE PromotionAssumption DEF PromotionInv, PromotionTypeOK, None, Absent, podState, quorumSt
  \* Steps that leave the addresses alone and survey none but those of the pods.
  <1>0. ASSUME addr' = addr, next' = next, survey'.live \subseteq survey.live \cup Live,
               known' \subseteq Live, master' \subseteq Up
        PROVE  Distinct' /\ AllUp'
    <2>1. Up' = Up /\ Live' = Live
      BY Zenon, <1>0 DEF Up, Live
    <2>2. ASSUME NEW a \in survey'.live PROVE a < next
      <3>1. CASE a \in survey.live
        BY Zenon, <3>1 DEF Distinct
      <3>2. CASE a \in Live
        <4>1. PICK p \in Up : a = addr[p]
          BY Zenon, <3>2 DEF Live
        <4> QED
          BY Zenon, <4>1 DEF Distinct
      <3> QED
        BY Zenon, <1>0, <3>1, <3>2
    <2> QED
      BY Zenon, <1>0, <2>1, <2>2 DEF Distinct, AllUp
  <1>1. known \subseteq Live /\ master \subseteq Up
    BY Zenon DEF AllUp
  <1>2. CASE SurveyBegins
    <2>1. PICK seen \in SUBSET Existing :
             survey' = [NoSurvey EXCEPT !.at = "dial", !.view = agreed, !.todo = seen \cap Up,
                                        !.clean = seen \subseteq Up, !.live = {addr[p] : p \in seen \cap Up}]
      BY Zenon, <1>2 DEF SurveyBegins
    <2>2. NoSurvey \in Surveys
      BY Addresses DEF NoSurvey, Surveys
    <2>3. survey'.live = {addr[p] : p \in seen \cap Up}
      BY Zenon, <2>1, <2>2 DEF Surveys
    <2>4. survey'.live \subseteq Live
      BY Zenon, <2>3 DEF Live
    <2> QED
      BY Zenon, <1>0, <1>1, <1>2, <2>4 DEF SurveyBegins
  <1>3. CASE SurveyEnds \/ Confirm
    <2>0. NoSurvey.live = {}
      BY Zenon DEF NoSurvey
    <2>1. survey'.live \subseteq survey.live
      <3>1. CASE survey' = NoSurvey
        BY Zenon, <2>0, <3>1
      <3>2. CASE survey' # NoSurvey
        <4>1. \/ survey' = [survey EXCEPT !.at = "confirm", !.best = BestOf(survey)]
              \/ survey' = [survey EXCEPT !.at = "issue"]
          BY Zenon, <1>3, <3>2 DEF SurveyEnds, Confirm
        <4> QED
          BY Zenon, <4>1 DEF Surveys
      <3> QED
        BY Zenon, <3>1, <3>2
    <2> QED
      BY Zenon, <1>0, <1>1, <1>3, <2>1 DEF SurveyEnds, Confirm
  <1>4. CASE View \/ Dispatch \/ Label \/ ReconcileSeed \/ CooldownEnds \/ UNCHANGED promVars
      BY Zenon, <1>0, <1>1, <1>4 DEF View, Dispatch, Label, ReconcileSeed, CooldownEnds, promVars
  <1>9. ASSUME NEW a \in IPs, SentinelElects(a) PROVE Distinct' /\ AllUp'
    <2>1. PICK m \in Up : addr[m] = a
      BY Zenon, <1>1, <1>9 DEF SentinelElects, Live
    <2>2. PodAt(a) \in Pods /\ addr[PodAt(a)] = a
      BY Zenon, <2>1 DEF PodAt, Up
    <2>3. PodAt(a) \in Up
      BY Zenon, <2>2, Addresses DEF Up
    <2> QED
      BY Zenon, <1>0, <1>1, <1>9, <2>3 DEF SentinelElects
  <1>10. ASSUME NEW p \in Pods, DialPod(p) PROVE Distinct' /\ AllUp'
    <2>1. survey'.live = survey.live
      BY Zenon, <1>10 DEF DialPod, Surveys
    <2> QED
      BY Zenon, <1>0, <1>1, <1>10, <2>1 DEF DialPod
  <1>11. ASSUME NEW p \in Pods, Promote(p) PROVE Distinct' /\ AllUp'
    <2>1. addr[p] \in survey.live => p \in Up
      BY Zenon, Addresses DEF Up, Surveys
    <2>2. survey'.live \subseteq survey.live
      BY Zenon, <1>11 DEF Promote, NoSurvey
    <2> QED
      BY Zenon, <1>0, <1>1, <1>11, <2>1, <2>2 DEF Promote
  <1>12. ASSUME NEW p \in Pods, PodBoots(p) PROVE Distinct' /\ AllUp'
    <2>1. /\ next \in IPs /\ next' = next + 1 /\ known' = known /\ addr[p] = None
          /\ addr' = [addr EXCEPT ![p] = next] /\ survey' = survey /\ master' \subseteq master \cup {p}
      BY Zenon, <1>12 DEF PodBoots
    <2>2. next \in Nat /\ next > 0
      BY Zenon, <2>1, Addresses
    <2>3. \A q \in Pods : addr[q] \in Int /\ addr'[q] = IF q = p THEN next ELSE addr[q]
      BY <2>1, Addresses
    <2>4. Up' = Up \cup {p} /\ p \notin Up
      BY <2>1, <2>2, <2>3 DEF Up
    <2>5. \A q, w \in Up' : (addr'[q] = addr'[w] => q = w) /\ addr'[q] < next'
      BY <2>1, <2>2, <2>3, <2>4 DEF Distinct, Up
    <2>6. \A a \in survey'.live : a < next'
      <3>1. \A a \in survey.live : a \in Nat /\ a < next
        BY Zenon, Addresses DEF Distinct, Surveys
      <3> QED
        BY <2>1, <2>2, <3>1
    <2>7. AllUp'
      BY <2>1, <2>3, <2>4 DEF AllUp, Live
    <2> QED
      BY Zenon, <2>5, <2>6, <2>7 DEF Distinct
  <1>13. ASSUME NEW p \in Pods, PodDies(p) PROVE Distinct' /\ AllUp'
    <2>1. /\ next' = next /\ known' = known \ {addr[p]} /\ addr' = [addr EXCEPT ![p] = Absent]
          /\ survey' = survey /\ master' = master \ {p}
      BY Zenon, <1>13 DEF PodDies
    <2>2. Up' = Up \ {p} /\ \A q \in Up' : addr'[q] = addr[q]
      BY <2>1 DEF Up
    <2>3. Distinct'
      BY <2>1, <2>2 DEF Distinct
    <2>4. AllUp'
      BY <2>1, <2>2 DEF AllUp, Live
    <2> QED
      BY <2>3, <2>4
  <1>14. ASSUME NEW p \in Pods, PodRecreated(p) PROVE Distinct' /\ AllUp'
    <2>1. /\ next' = next /\ known' = known /\ addr' = [addr EXCEPT ![p] = None] /\ addr[p] = Absent
          /\ survey' = survey /\ master' = master
      BY Zenon, <1>14 DEF PodRecreated
    <2>2. Up' = Up /\ \A q \in Up : addr'[q] = addr[q]
      BY <2>1 DEF Up
    <2>3. Distinct'
      BY <2>1, <2>2 DEF Distinct
    <2>4. AllUp'
      BY <2>1, <2>2 DEF AllUp, Live
    <2> QED
      BY <2>3, <2>4
  <1>15. ASSUME NEW p \in Pods, ClientWrite(p) \/ Resync(p) PROVE Distinct' /\ AllUp'
    <2>1. known' \subseteq Live
      <3>1. CASE ClientWrite(p)
        BY Zenon, <1>1, <3>1 DEF ClientWrite
      <3>2. CASE Resync(p)
        <4>1. addr[p] \in Live
          BY Zenon, <3>2 DEF Resync, Live
        <4> QED
          BY Zenon, <1>1, <3>2, <4>1 DEF Resync
      <3> QED
        BY Zenon, <1>15, <3>1, <3>2
    <2> QED
      BY Zenon, <1>0, <1>1, <1>15, <2>1 DEF ClientWrite, Resync
  <1> QED
      BY ZenonT(40), <1>2, <1>3, <1>4, <1>9, <1>10, <1>11, <1>12, <1>13, <1>14, <1>15
         DEF PromotionNext, SurveyStep

LEMMA SurveyUndisturbed == PromotionInv /\ PromotionTypeOK' /\ [PromotionNext]_promVars => Undisturbed'
  <1> SUFFICES ASSUME PromotionInv, PromotionTypeOK', [PromotionNext]_promVars PROVE Undisturbed'
      OBVIOUS
  <1> USE PromotionAssumption DEF PromotionInv, PromotionTypeOK, Undisturbed, Existing, Up, None, Absent, podState, quorumSt
  <1>1. CASE SurveyBegins
    <2>1. NoSurvey \in Surveys
      BY Addresses DEF NoSurvey, Surveys
    <2>2. survey'.at = "dial"
      BY ZenonT(40), <1>1, <2>1 DEF SurveyBegins, Surveys
    <2> QED
      BY <1>1, <2>2 DEF SurveyBegins
  <1>2. CASE SurveyEnds
      BY Zenon, <1>2 DEF SurveyEnds, NoSurvey, Surveys
  <1>3. CASE Confirm
      BY Zenon, <1>3 DEF Confirm, NoSurvey, Surveys
  <1>4. CASE View
      BY Zenon, <1>4 DEF View
  <1>5. CASE Dispatch
      BY Zenon, <1>5 DEF Dispatch
  <1>6. CASE Label
      BY Zenon, <1>6 DEF Label
  <1>7. CASE ReconcileSeed
      BY Zenon, <1>7 DEF ReconcileSeed
  <1>8. CASE CooldownEnds
      BY Zenon, <1>8 DEF CooldownEnds
  <1>9. ASSUME NEW a \in IPs, SentinelElects(a) PROVE Undisturbed'
      BY Zenon, <1>9 DEF SentinelElects
  <1>10. ASSUME NEW p \in Pods, DialPod(p) PROVE Undisturbed'
      BY ZenonT(40), <1>10 DEF DialPod, Surveys
  <1>11. ASSUME NEW p \in Pods, Promote(p) PROVE Undisturbed'
      BY Zenon, <1>11 DEF Promote, NoSurvey, Surveys
  <1>12. ASSUME NEW p \in Pods, PodBoots(p) PROVE Undisturbed'
    <2>1. /\ addr' = [addr EXCEPT ![p] = next] /\ next \in IPs /\ survey' = survey
          /\ present' = {} \/ present' = present
      BY Zenon, <1>12 DEF PodBoots
    <2>2. next # Absent
      BY <2>1, Addresses
    <2> QED
      BY Zenon, <2>1, <2>2
  <1>13. ASSUME NEW p \in Pods, PodDies(p) PROVE Undisturbed'
      BY <1>13 DEF PodDies
  <1>14. ASSUME NEW p \in Pods, PodRecreated(p) PROVE Undisturbed'
      BY <1>14 DEF PodRecreated
  <1>15. ASSUME NEW p \in Pods, ClientWrite(p) PROVE Undisturbed'
      BY Zenon, <1>15 DEF ClientWrite
  <1>16. ASSUME NEW p \in Pods, Resync(p) PROVE Undisturbed'
      BY Zenon, <1>16 DEF Resync
  <1>17. CASE UNCHANGED promVars
      BY Zenon, <1>17 DEF promVars
  <1> QED
      BY ZenonT(40), <1>1, <1>2, <1>3, <1>4, <1>5, <1>6, <1>7, <1>8, <1>9, <1>10, <1>11, <1>12, <1>13,
         <1>14, <1>15, <1>16, <1>17 DEF PromotionNext, SurveyStep

\* A pod without a link does not get one as long as there is no new master.
LEMMA NoNewLink ==
    ASSUME PromotionTypeOK, Distinct',
           \A m \in Up' \cap master' : m \in Up \cap master /\ addr'[m] = addr[m],
           NEW q \in Pods, host'[q] = host[q], ~LinkUp(q)
    PROVE  ~LinkUp(q)'
  <1> SUFFICES ASSUME NEW m \in Up' \cap master', addr'[m] = Target(q)' PROVE FALSE
    BY Zenon DEF LinkUp
  <1>1. m \in Up \cap master /\ addr'[m] = addr[m] /\ addr'[m] > 0
    BY Zenon DEF Up
  <1>2. CASE host[q] = Dns
    <2>1. addr'[m] = addr'[First]
      BY Zenon, <1>2 DEF Target
    <2>2. First \in Up'
      BY Zenon, <1>1, <2>1, PromotionAssumption DEF Up
    <2>3. First = m
      BY Zenon, <2>1, <2>2 DEF Distinct
    <2>4. addr[m] = Target(q)
      BY Zenon, <1>2, <2>3 DEF Target
    <2> QED
      BY Zenon, <1>1, <2>4 DEF LinkUp
  <1>3. CASE host[q] # Dns
    <2>1. addr[m] = Target(q)
      BY Zenon, <1>1, <1>3 DEF Target
    <2> QED
      BY Zenon, <1>1, <2>1 DEF LinkUp
  <1> QED
    BY Zenon, <1>2, <1>3

\* What the survey has read stays true, as long as no pod becomes a master and the pods that
\* were read keep their data.
LEMMA ReadingsStay ==
    ASSUME PromotionInv, Distinct', survey' = survey, present' \subseteq present,
           \A m \in Up' \cap master' : m \in Up \cap master /\ addr'[m] = addr[m],
           \A p \in Up' : addr'[p] \in survey.live
               => p \in Up /\ addr'[p] = addr[p] /\ host'[p] = host[p],
           \A p \in Up' : data'[p] = data[p] \/ p \in master \/ LinkUp(p)
    PROVE  ReadingsHold'
  <1> USE DEF PromotionInv
  <1>2. ASSUME present' # {}, survey'.clean, NEW p \in Up' \ survey'.todo, addr'[p] \in survey'.live
        PROVE  p \notin master' /\ ~LinkUp(p)' /\ ReadAs(p)'
    <2>1. /\ p \in Up \ survey.todo /\ addr[p] \in survey.live /\ present # {} /\ p \in Pods /\ survey.clean
          /\ host'[p] = host[p]
      BY Zenon, <1>2 DEF Up
    <2>2. p \notin master /\ ~LinkUp(p) /\ ReadAs(p)
      BY Zenon, <2>1 DEF ReadingsHold
    <2>3. ~LinkUp(p)'
      BY Zenon, <2>1, <2>2, NoNewLink
    <2> QED
      BY Zenon, <1>2, <2>2, <2>3 DEF ReadAs
  <1> QED
    BY Zenon, <1>2 DEF ReadingsHold

\* The choice stays as good as it was as long as the sentinels learn no surveyed pod.
LEMMA BestStays ==
    ASSUME PromotionInv, survey' = survey, present' \subseteq present,
           survey.at \in {"confirm", "issue"} /\ present # {} => known' \cap survey.live \subseteq known
    PROVE  BestFirst'
  <1>1. survey.at \in {"confirm", "issue"} /\ present' # {} => known' \cap survey.live = {}
    BY Zenon DEF PromotionInv, BestFirst, ElectionDoomed
  <1> QED
    BY Zenon, <1>1 DEF PromotionInv, BestFirst, ElectionDoomed, Rankable

\* A master that boots, or an election, ends what the readings are good for.
LEMMA ReadingsDropped ==
    ASSUME PromotionInv, survey' = survey, present' = {}
    PROVE  ReadingsHold' /\ BestFirst' /\ Settled'
  BY Zenon DEF PromotionInv, ReadingsHold, BestFirst, Settled, Rankable

LEMMA SurveyOver ==
    ASSUME survey' = NoSurvey, present' = {}
    PROVE  ReadingsHold' /\ BestFirst' /\ Settled'
  BY Zenon DEF ReadingsHold, BestFirst, Settled, NoSurvey

LEMMA PodsMove ==
    ASSUME PromotionInv, PromotionTypeOK', Distinct', NEW p \in Pods,
           PodBoots(p) \/ PodDies(p) \/ PodRecreated(p) \/ ClientWrite(p) \/ Resync(p)
    PROVE  ReadingsHold' /\ BestFirst' /\ Settled'
  <1> USE DEF PromotionInv
  <1>1. CASE PodBoots(p)
    <2>1. CASE present' = {}
      BY Zenon, <1>1, <2>1, ReadingsDropped DEF PodBoots
    <2>2. CASE present' # {}
      <3>1. /\ addr' = [addr EXCEPT ![p] = next] /\ addr[p] = None /\ next \in IPs /\ data' = data
            /\ master' = master /\ survey' = survey /\ present' = present /\ known' = known
            /\ \A q \in Pods : q # p => host'[q] = host[q]
        BY Zenon, <1>1, <2>2 DEF PodBoots, PromotionTypeOK, quorumSt
      <3>2. p \notin Up
        BY <3>1 DEF Up, None
      <3>3. ~(next < next)
        BY <3>1, Addresses
      <3>4. next \notin survey.live
        BY Zenon, <3>3 DEF Distinct
      <3>5. \A q \in Pods : q # p => addr'[q] = addr[q]
        BY Zenon, <3>1 DEF PromotionTypeOK
      <3>6. addr'[p] = next
        BY Zenon, <3>1 DEF PromotionTypeOK
      <3>7. \A q \in Up' : q # p => q \in Up
        BY Zenon, <3>5 DEF Up
      <3>8. p \notin master /\ \A q \in Up' : q \in Pods
        BY Zenon, <3>2 DEF AllUp, Up
      <3>9. ReadingsHold'
        BY Zenon, <3>1, <3>4, <3>5, <3>6, <3>7, <3>8, ReadingsStay
      <3>10. BestFirst'
        BY Zenon, <3>1, BestStays
      <3> QED
        BY Zenon, <3>1, <3>9, <3>10 DEF Settled, ReadAs
    <2> QED
      BY Zenon, <2>1, <2>2
  <1>2. CASE PodDies(p)
    <2>1. /\ addr' = [addr EXCEPT ![p] = Absent] /\ host' = [host EXCEPT ![p] = Dns]
          /\ master' = master \ {p} /\ survey' = survey /\ data' = data /\ known' \subseteq known
          /\ present' \subseteq present
      BY Zenon, <1>2 DEF PodDies
    <2>2. \A q \in Up' : q \in Up /\ q # p /\ addr'[q] = addr[q] /\ host'[q] = host[q]
      BY <2>1 DEF Up, PromotionTypeOK, Absent
    <2>3. ReadingsHold'
      BY Zenon, <2>1, <2>2, ReadingsStay
    <2>4. BestFirst'
      BY Zenon, <2>1, BestStays
    <2>5. Settled'
      BY Zenon, <2>1 DEF Settled, ReadAs
    <2> QED
      BY Zenon, <2>3, <2>4, <2>5
  <1>3. CASE PodRecreated(p)
    <2>1. /\ addr' = [addr EXCEPT ![p] = None] /\ addr[p] = Absent /\ host' = host /\ master' = master
          /\ survey' = survey /\ present' = present /\ data' = data /\ known' = known
      BY Zenon, <1>3 DEF PodRecreated, quorumSt
    <2>2. \A q \in Up' : q \in Up /\ addr'[q] = addr[q] /\ host'[q] = host[q]
      BY <2>1 DEF Up, PromotionTypeOK, None
    <2>3. ReadingsHold'
      BY Zenon, <2>1, <2>2, ReadingsStay
    <2>4. BestFirst'
      BY Zenon, <2>1, BestStays
    <2>5. Settled'
      BY Zenon, <2>1 DEF Settled, ReadAs
    <2> QED
      BY Zenon, <2>3, <2>4, <2>5
  <1>4. CASE ClientWrite(p) \/ Resync(p)
    <2>1. /\ addr' = addr /\ host' = host /\ master' = master /\ survey' = survey /\ present' = present
          /\ p \in Up /\ (p \in master \/ LinkUp(p))
          /\ known' = known \/ (known' = known \cup {addr[p]} /\ LinkUp(p))
      BY Zenon, <1>4 DEF ClientWrite, Resync, quorumSt
    <2>2. \A q \in Pods : q # p => data'[q] = data[q]
      BY Zenon, <1>4 DEF ClientWrite, Resync, PromotionTypeOK
    <2>3. Up' = Up /\ Up \subseteq Pods
      BY Zenon, <2>1 DEF Up
    <2>4. ReadingsHold'
      BY Zenon, <2>1, <2>2, <2>3, ReadingsStay
    <2>5. master # {}
      BY Zenon, <2>1 DEF LinkUp
    <2>6. Settled'
      BY Zenon, <2>1, <2>5 DEF Settled
    <2>7. ASSUME survey.at \in {"confirm", "issue"}, present # {} PROVE known' \cap survey.live \subseteq known
      <3>1. survey.clean /\ survey.todo = {}
        BY Zenon, <2>7 DEF BestFirst
      <3>2. addr[p] \in survey.live => ~LinkUp(p)
        BY Zenon, <2>1, <2>7, <3>1 DEF ReadingsHold
      <3>3. CASE known' = known
        BY Zenon, <3>3
      <3>4. CASE known' = known \cup {addr[p]} /\ addr[p] \notin survey.live
        BY Zenon, <3>4
      <3> QED
        BY Zenon, <2>1, <3>2, <3>3, <3>4
    <2>8. BestFirst'
      BY Zenon, <2>1, <2>7, BestStays
    <2> QED
      BY Zenon, <2>4, <2>6, <2>8
  <1> QED
    BY Zenon, <1>1, <1>2, <1>3, <1>4

LEMMA SurveyMoves ==
    ASSUME PromotionInv, PromotionTypeOK', SurveyBegins \/ SurveyEnds \/ Confirm
    PROVE  ReadingsHold' /\ BestFirst' /\ Settled'
  <1> USE DEF PromotionInv
  <1>1. CASE SurveyBegins
    <2>1. PICK seen \in SUBSET Existing :
             survey' = [NoSurvey EXCEPT !.at = "dial", !.view = agreed, !.todo = seen \cap Up,
                                        !.clean = seen \subseteq Up, !.live = {addr[p] : p \in seen \cap Up}]
      BY ZenonT(40), <1>1 DEF SurveyBegins
    <2>2. NoSurvey \in Surveys
      BY Addresses, PromotionAssumption DEF NoSurvey, Surveys, Absent, None
    <2>3. /\ survey'.at = "dial" /\ survey'.todo = seen \cap Up
          /\ survey'.live = {addr[p] : p \in seen \cap Up}
      BY Zenon, <2>1, <2>2 DEF Surveys
    <2>5. addr' = addr /\ Up' = Up
      BY Zenon, <1>1 DEF SurveyBegins, podState, Up
    <2>6. \A p \in Up : addr[p] \in survey'.live => p \in survey'.todo
      BY Zenon, <2>3 DEF Distinct
    <2>7. ReadingsHold'
      BY Zenon, <2>5, <2>6 DEF ReadingsHold
    <2> QED
      BY Zenon, <2>3, <2>7 DEF BestFirst, Settled
  <1>2. CASE SurveyEnds
    <2>1. CASE survey' = NoSurvey
      <3>1. present' = {}
        BY Zenon, <1>2, <2>1 DEF SurveyEnds, NoSurvey
      <3> QED
        BY Zenon, <2>1, <3>1, SurveyOver
    <2>2. ASSUME NEW snapshot, Admitted(snapshot),
                 survey' = [survey EXCEPT !.at = "confirm", !.best = BestOf(survey)]
          PROVE  ReadingsHold' /\ BestFirst' /\ Settled'
      <3>1. /\ survey \in Surveys /\ survey.clean /\ survey.todo = {} /\ Rankable(survey) # {}
            /\ known \cap survey.live = {} /\ (known' = known \/ known' = {})
        BY Zenon, <1>2, <2>2 DEF SurveyEnds, Admitted, ElectionDoomed, PromotionTypeOK
      <3>2. /\ BestOf(survey) \in Rankable(survey)
            /\ \A q \in Rankable(survey) : survey.offsets[q] <= survey.offsets[BestOf(survey)]
        BY Zenon, <3>1, BestExists
      <3>3. /\ survey'.at = "confirm" /\ survey'.best = BestOf(survey) /\ survey'.offsets = survey.offsets
            /\ survey'.clean = survey.clean /\ survey'.todo = survey.todo /\ survey'.live = survey.live
        BY Zenon, <2>2, <3>1, <3>2 DEF Surveys, Rankable
      <3>4. present' = present /\ UNCHANGED podState
        BY Zenon, <1>2, <3>3 DEF SurveyEnds
      <3>5. ReadingsHold'
        BY <3>3, <3>4 DEF ReadingsHold, ReadAs, podState, Up, LinkUp, Target
      <3>6. Rankable(survey)' = Rankable(survey)
        BY Zenon, <3>3 DEF Rankable
      <3>7. ElectionDoomed'
        BY Zenon, <3>1, <3>3 DEF ElectionDoomed
      <3> QED
        BY Zenon, <3>1, <3>2, <3>3, <3>5, <3>6, <3>7 DEF BestFirst, Settled
    <2> QED
      BY Zenon, <1>2, <2>1, <2>2 DEF SurveyEnds
  <1>3. CASE Confirm
    <2>1. CASE survey' = NoSurvey /\ present' = {}
      BY Zenon, <2>1, SurveyOver
    <2>2. CASE Confirmed(survey) /\ survey' = [survey EXCEPT !.at = "issue"] /\ present' = present
      <3>1. /\ survey'.at = "issue" /\ survey'.best = survey.best /\ survey'.offsets = survey.offsets
            /\ survey'.clean = survey.clean /\ survey'.todo = survey.todo /\ survey'.live = survey.live
            /\ survey.live \subseteq IPs
        BY Zenon, <2>2 DEF Surveys, PromotionTypeOK
      <3>2. UNCHANGED podState /\ survey.at = "confirm" /\ known' = known
        BY Zenon, <1>3 DEF Confirm, quorumSt
      <3>3. ReadingsHold'
        BY <2>2, <3>1, <3>2 DEF ReadingsHold, ReadAs, podState, Up, LinkUp, Target
      <3>4. /\ survey.clean /\ survey.todo = {} /\ survey.best \in Rankable(survey)
            /\ \A p \in Rankable(survey) : survey.offsets[p] <= survey.offsets[survey.best]
            /\ present # {} => known \cap survey.live = {}
        BY Zenon, <3>2 DEF BestFirst, ElectionDoomed
      <3>5. BestFirst'
        BY Zenon, <2>2, <3>1, <3>2, <3>4 DEF BestFirst, ElectionDoomed, Rankable
      <3>6. ASSUME present # {}
            PROVE  master = {} /\ known = {} /\ \A p \in present : ReadAs(p)
        <4>1. ASSUME NEW p \in Existing
              PROVE  addr[p] \in survey.live /\ p \in Up /\ p \notin master /\ ReadAs(p)
          <5>1. addr[p] \in survey.live /\ p \in Up
            BY Zenon, <2>2, <3>1, <4>1, Addresses DEF Confirmed, Existing, Up
          <5> QED
            BY Zenon, <3>4, <3>6, <5>1 DEF ReadingsHold
        <4>2. Up \subseteq Existing
          BY DEF Up, Existing, Absent, PromotionTypeOK
        <4>3. master = {}
          BY Zenon, <4>1, <4>2 DEF AllUp
        <4>4. known = {}
          BY Zenon, <3>4, <3>6, <4>1, <4>2 DEF AllUp, Live
        <4> QED
          BY Zenon, <3>2, <4>1, <4>3, <4>4 DEF Undisturbed
      <3>7. Settled'
        BY Zenon, <2>2, <3>1, <3>2, <3>6 DEF Settled, ReadAs, podState
      <3> QED
        BY Zenon, <3>3, <3>5, <3>7
    <2> QED
      BY Zenon, <1>3, <2>1, <2>2 DEF Confirm
  <1> QED
    BY Zenon, <1>1, <1>2, <1>3

LEMMA PodAnswers ==
    ASSUME PromotionInv, PromotionTypeOK', NEW p \in Pods, DialPod(p)
    PROVE  ReadingsHold' /\ BestFirst' /\ Settled'
  <1> USE DEF PromotionInv
  <1>1. UNCHANGED podState /\ present' = present /\ survey.at = "dial" /\ survey \in Surveys
    BY Zenon DEF DialPod, PromotionTypeOK
  <1>2. ASSUME survey'.at = "dial", ReadingsHold' PROVE BestFirst' /\ Settled'
    BY Zenon, <1>2 DEF BestFirst, Settled
  <1>3. CASE \/ survey' = [survey EXCEPT !.todo = @ \ {p}, !.clean = FALSE]
             \/ survey' = [survey EXCEPT !.todo = @ \ {p}, !.clean = FALSE, !.masters = @ \cup {addr[p]}]
    <2>1. survey'.at = "dial" /\ ~survey'.clean
      BY Zenon, <1>1, <1>3 DEF Surveys
    <2> QED
      BY Zenon, <1>2, <2>1 DEF ReadingsHold
  <1>4. ASSUME p \notin master, addr[p] \in survey.live, NEW offset \in {data[p], Absent},
               survey' = [survey EXCEPT !.todo = @ \ {p}, !.offsets[p] = offset,
                                        !.hosts = @ \cup {host[p]}, !.clean = @ /\ ~LinkUp(p)]
        PROVE  ReadingsHold' /\ BestFirst' /\ Settled'
    <2>1. /\ survey'.at = "dial" /\ survey'.todo = survey.todo \ {p} /\ survey'.live = survey.live
          /\ survey'.offsets = [survey.offsets EXCEPT ![p] = offset]
          /\ survey'.clean = (survey.clean /\ ~LinkUp(p))
      BY Zenon, <1>1, <1>4 DEF Surveys
    <2>2. survey'.offsets[p] = offset /\ \A q \in Pods : q # p => survey'.offsets[q] = survey.offsets[q]
      BY Zenon, <1>1, <2>1 DEF Surveys
    <2>4. addr' = addr /\ master' = master /\ data' = data /\ Up' = Up /\ \A q \in Pods : LinkUp(q)' = LinkUp(q)
      BY Zenon, <1>1 DEF podState, Up, LinkUp, Target
    <2>5. ASSUME present' # {}, survey'.clean, NEW q \in Up' \ survey'.todo, addr'[q] \in survey'.live
          PROVE  q \notin master' /\ ~LinkUp(q)' /\ ReadAs(q)'
      <3>1. q \in Pods /\ q \in Up /\ survey.clean /\ ~LinkUp(p) /\ present # {} /\ addr[q] \in survey.live
        BY Zenon, <1>1, <2>1, <2>4, <2>5 DEF Up
      <3>2. CASE q = p
        BY Zenon, <1>4, <2>2, <2>4, <3>1, <3>2 DEF ReadAs
      <3>3. CASE q # p
        <4>1. q \notin survey.todo
          BY Zenon, <2>1, <2>5, <3>3
        <4>2. q \notin master /\ ~LinkUp(q) /\ ReadAs(q)
          BY Zenon, <3>1, <4>1 DEF ReadingsHold
        <4> QED
          BY Zenon, <2>2, <2>4, <3>1, <3>3, <4>2 DEF ReadAs
      <3> QED
        BY Zenon, <3>2, <3>3
    <2> QED
      BY Zenon, <1>2, <2>1, <2>5 DEF ReadingsHold
  <1> QED
    BY Zenon, <1>3, <1>4 DEF DialPod

LEMMA PromotionSteps == PromotionInv /\ [PromotionNext]_promVars => PromotionInv'
  <1> SUFFICES ASSUME PromotionInv, [PromotionNext]_promVars PROVE PromotionInv'
    OBVIOUS
  <1>1. PromotionTypeOK' /\ Distinct' /\ AllUp' /\ Undisturbed'
    BY Zenon, PromotionTypes, AddressesDistinct, SurveyUndisturbed
  <1>2. ReadingsHold' /\ BestFirst' /\ Settled'
    <2>1. CASE SurveyBegins \/ SurveyEnds \/ Confirm
      BY Zenon, <1>1, <2>1, SurveyMoves
    <2>2. ASSUME NEW p \in Pods, DialPod(p) PROVE ReadingsHold' /\ BestFirst' /\ Settled'
      BY Zenon, <1>1, <2>2, PodAnswers
    <2>3. ASSUME NEW p \in Pods, Promote(p) PROVE ReadingsHold' /\ BestFirst' /\ Settled'
      BY Zenon, <2>3, SurveyOver DEF Promote
    <2>4. ASSUME NEW a \in IPs, SentinelElects(a) PROVE ReadingsHold' /\ BestFirst' /\ Settled'
      <3>1. ~(survey.at = "issue" /\ present # {})
        BY Zenon, <2>4 DEF PromotionInv, Settled, SentinelElects
      <3> QED
        BY Zenon, <2>4, <3>1, ReadingsDropped DEF SentinelElects
    <2>5. ASSUME NEW p \in Pods, PodBoots(p) \/ PodDies(p) \/ PodRecreated(p) \/ ClientWrite(p) \/ Resync(p)
          PROVE  ReadingsHold' /\ BestFirst' /\ Settled'
      BY Zenon, <1>1, <2>5, PodsMove
    <2>6. CASE View \/ Dispatch \/ Label \/ ReconcileSeed \/ CooldownEnds \/ UNCHANGED promVars
      <3>1. UNCHANGED <<podState, known, survey, present>>
        BY Zenon, <2>6 DEF View, Dispatch, Label, ReconcileSeed, CooldownEnds, promVars, quorumSt
      <3>2. ReadingsHold' /\ Settled'
        BY <3>1 DEF PromotionInv, ReadingsHold, ReadAs, Settled, podState, Up, LinkUp, Target
      <3>3. BestFirst'
        BY <3>1 DEF PromotionInv, BestFirst, Rankable, ElectionDoomed
      <3> QED
        BY Zenon, <3>2, <3>3
    <2> QED
      BY Zenon, <2>1, <2>2, <2>3, <2>4, <2>5, <2>6 DEF PromotionNext, SurveyStep
  <1> QED
    BY Zenon, <1>1, <1>2 DEF PromotionInv

LEMMA PromotionStarts == PromotionInit => PromotionInv
  <1> SUFFICES ASSUME PromotionInit PROVE PromotionInv
    OBVIOUS
  <1> USE PromotionAssumption, Addresses DEF None, Absent
  <1>1. Cardinality(Pods) > 0
    <2>1. Cardinality(Pods) # 0
      BY Zenon, FS_EmptySet
    <2> QED
      BY <2>1
  <1>2. NoSurvey \in Surveys
    BY DEF NoSurvey, Surveys
  <1>3. lost \in BOOLEAN /\ cooling \in BOOLEAN
    BY Zenon DEF PromotionInit
  <1>4. /\ survey = NoSurvey /\ present = {} /\ known = {} /\ host = [p \in Pods |-> Dns]
        /\ data = [p \in Pods |-> 0] /\ marker = 0 /\ faults = 0
    BY Zenon DEF PromotionInit
  <1>5. /\ addr \in [Pods -> IPs \cup {None, Absent}] /\ master \subseteq Pods
        /\ next \in 1 .. Cardinality(Pods) + MaxFaults + 1
        /\ agreed \in IPs \cup {None} /\ lab \in IPs \cup {None} /\ seed \in IPs \cup {None}
    BY <1>1 DEF PromotionInit
  <1>6. PromotionTypeOK
    BY <1>2, <1>3, <1>4, <1>5 DEF PromotionTypeOK
  <1>7. Distinct /\ AllUp
    <2>1. survey.live = {}
      BY Zenon, <1>4 DEF NoSurvey
    <2> QED
      BY <1>4, <2>1 DEF PromotionInit, Distinct, AllUp, Up
  <1>8. Undisturbed /\ ReadingsHold /\ BestFirst /\ Settled
    BY Zenon, <1>4 DEF Undisturbed, ReadingsHold, BestFirst, Settled, NoSurvey
  <1> QED
    BY Zenon, <1>6, <1>7, <1>8 DEF PromotionInv

\* Pods, sentinels and the recovery promotion keep PromotionInv.
THEOREM PromotionInvariant == PromotionSpec => []PromotionInv
  BY PromotionStarts, PromotionSteps, PTL DEF PromotionSpec

\* The recovery promotion (issueRecoveryPromotion) forks no master and takes the freshest of
\* the pods that told their offset, among those that existed from the start of the survey to
\* its confirmation, for any number of pods and faults, as long as no pod boots as a master
\* and the sentinels elect nobody before the confirmation.
THEOREM PromotionTakesFreshest == PromotionSpec => PromotesFreshest
  <1>1. ASSUME PromotionInv, PromotionNext, NEW p \in master' \ master,
               survey.at = "issue", survey'.at = "idle", NEW q \in present \ {p}
        PROVE  q \notin master /\ (survey.offsets[q] # Absent => data[q] <= data[p])
    <2> USE <1>1 DEF PromotionInv
    <2>1. survey' # survey
      OBVIOUS
    <2>2. Promote(p) /\ p \in Pods
      <3>1. ~(View \/ Dispatch \/ Label \/ ReconcileSeed \/ CooldownEnds)
        BY Zenon, <2>1 DEF View, Dispatch, Label, ReconcileSeed, CooldownEnds
      <3>2. ~(\E a \in IPs : SentinelElects(a))
        BY Zenon, <2>1 DEF SentinelElects
      <3>3. ~(SurveyBegins \/ SurveyEnds \/ Confirm)
        BY Zenon DEF SurveyBegins, SurveyEnds, Confirm
      <3>4. \A r \in Pods : ~(PodBoots(r) \/ PodDies(r) \/ PodRecreated(r) \/ ClientWrite(r) \/ Resync(r) \/ DialPod(r))
        BY Zenon, <2>1 DEF PodBoots, PodDies, PodRecreated, ClientWrite, Resync, DialPod
      <3>5. PICK r \in Pods : Promote(r)
        BY Zenon, <3>1, <3>2, <3>3, <3>4 DEF PromotionNext, SurveyStep
      <3>6. p = r
        BY Zenon, <3>5 DEF Promote
      <3> QED
        BY Zenon, <3>5, <3>6
    <2>3. survey.best = p /\ addr[p] \in survey.live
      BY Zenon, <2>2 DEF Promote
    <2>4. p \in Up
      BY Zenon, <2>2, <2>3, Addresses DEF Up, PromotionTypeOK, Surveys
    <2>5. q \notin master /\ ReadAs(q) /\ q \in Pods
      BY Zenon DEF Settled, PromotionTypeOK
    <2>6. /\ survey.clean /\ survey.todo = {} /\ p \in Rankable(survey)
          /\ q \in Rankable(survey) => survey.offsets[q] <= survey.offsets[p]
      BY Zenon, <2>3 DEF BestFirst
    <2>7. survey.offsets[p] = data[p]
      BY Zenon, <2>3, <2>4, <2>6 DEF ReadingsHold, ReadAs, Rankable
    <2> QED
      BY Zenon, <2>5, <2>6, <2>7 DEF ReadAs, Rankable
  <1>2. PromotionInv /\ [PromotionNext]_promVars
          => [\A p \in master' \ master : survey.at = "issue" /\ survey'.at = "idle"
                 => \A q \in present \ {p} :
                       q \notin master /\ (survey.offsets[q] # Absent => data[q] <= data[p])]_promVars
    BY Zenon, <1>1
  <1> QED
    BY <1>2, PromotionInvariant, PTL DEF PromotionSpec, PromotesFreshest
=============================================================================
