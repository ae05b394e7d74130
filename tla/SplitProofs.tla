---------------------------- MODULE SplitProofs -----------------------------
(***************************************************************************)
(* Proofs about several masters at a time: whom the operator demotes       *)
(* (OrphanMasters), and what it tells of them and of a lost master         *)
(* (CRStatus).  Each part shows its inductive invariant to be kept by every *)
(* action, and derives from it what the operator promises.                 *)
(***************************************************************************)
EXTENDS OrphanMasters, CRStatus, FiniteSetTheorems, TLAPS

(* OrphanMasters: Phases 7 and 7a. *)

LEMMA OrphanTypes == OrphanTypeOK /\ [OrphanNext]_orphanVars => OrphanTypeOK'
  <1> SUFFICES ASSUME OrphanTypeOK, [OrphanNext]_orphanVars PROVE OrphanTypeOK'
      BY Zenon
  <1> USE OrphanAssumption DEF OrphanTypeOK, Scans, Readings, Views, Unread, NoOffset, podVars
  <1>1. CASE ListPods
      BY Zenon, <1>1 DEF ListPods, Rest, Listings, Labels
  <1>2. CASE RoleLabels
      BY Zenon, <1>2 DEF RoleLabels, Labels
  <1>3. CASE ChooseScan
    <2>1. /\ PodsUntouched /\ UNCHANGED <<stamp, upsets>> /\ attempts' \in {0, attempts}
          /\ ScanOn \/ ScanOver
      BY Zenon, <1>3 DEF ChooseScan
    <2>2. ASSUME ScanOver PROVE scan' \in Scans
      BY Zenon, <2>2 DEF ScanOver, Rest, Listings, Labels
    <2>3. ASSUME NEW p \in DataPods,
                 scan' = [scan EXCEPT !.at = "orphans", !.target = p, !.found = {p}, !.todo = Listed("replica"),
                                      !.full = Listed("replica") = DataPods \ {p}]
          PROVE  scan' \in Scans
      <3>1. (Listed("replica") = DataPods \ {p}) \in BOOLEAN
        BY Zenon
      <3>2. Listed("replica") \subseteq DataPods
        BY Zenon DEF Listed
      <3> QED
        BY ZenonT(40), <2>3, <3>1, <3>2
    <2>4. ASSUME scan' = [scan EXCEPT !.at = "heal", !.todo = DataPods \ Listed("pending"),
                                      !.full = Listed("pending") = {}]
          PROVE  scan' \in Scans
      <3>1. (Listed("pending") = {}) \in BOOLEAN
        BY Zenon
      <3> QED
        BY Zenon, <2>4, <3>1
    <2>5. scan' \in Scans
      <3>1. Listed("primary") \subseteq DataPods
        BY Zenon DEF Listed
      <3> QED
        BY Zenon, <1>3, <2>2, <2>3, <2>4, <3>1 DEF ChooseScan
    <2> HIDE DEF Scans
    <2> QED
      BY <2>1, <2>5 DEF ScanOver, ScanOn, PodsUntouched
  <1>4. CASE OrphanEnd
      BY <1>4 DEF OrphanEnd, Verdict, ScanOver, Rest, Listings, Labels, PodsUntouched
  <1>5. CASE HealDecide
    <2>1. stamp' \subseteq DataPods /\ PodsUntouched
      BY Zenon, <1>5 DEF HealDecide, Verdict
    <2>2. CASE ScanOver /\ UNCHANGED attempts /\ upsets' \in 0 .. MaxUpsets
      <3>1. scan' \in Scans
        BY Zenon, <2>2 DEF ScanOver, Rest, Listings, Labels
      <3> HIDE DEF Scans
      <3> QED
        BY <2>1, <2>2, <3>1 DEF ScanOver, PodsUntouched
    <2>3. ASSUME NEW p \in Freshest,
                 scan' = [scan EXCEPT !.at = "demote", !.target = p, !.losers = Ranked \ {p}],
                 attempts' = attempts + 1, ScanOn, UNCHANGED upsets
          PROVE  OrphanTypeOK'
      <3>1. p \in DataPods /\ Ranked \subseteq DataPods /\ attempts < MaxAttempts
        BY Zenon, <2>3 DEF Freshest, Ranked, AttemptAllowed
      <3>2. scan' \in Scans
        BY Zenon, <2>3, <3>1
      <3> HIDE DEF Scans
      <3> QED
        BY <2>1, <2>3, <3>1, <3>2 DEF ScanOn, PodsUntouched
    <2>4. (IF Freshest # {} THEN Upset ELSE UNCHANGED upsets) => upsets' \in 0 .. MaxUpsets
      BY DEF Upset
    <2> QED
      BY Zenon, <1>5, <2>2, <2>3, <2>4 DEF HealDecide
  <1>6. CASE ObserveEnd
      BY <1>6 DEF ObserveEnd, Verdict, ScanOver, Rest, Listings, Labels, PodsUntouched
  <1>7. CASE HealEnd
      BY <1>7 DEF HealEnd, ScanOver, Rest, Listings, Labels, PodsUntouched
  <1>8. CASE Disagree
      BY <1>8 DEF Disagree, Elsewhere, Upset
  <1>9. CASE LatchExpires
      BY Zenon, <1>9 DEF LatchExpires, Elsewhere
  <1>10. CASE Restart
      BY <1>10 DEF Restart, Upset, ScanOver, Rest, Listings, Labels, PodsUntouched
  <1>11. ASSUME NEW p \in DataPods, OrphanRead(p) PROVE OrphanTypeOK'
      BY ZenonT(40), <1>11 DEF OrphanRead, PodsUntouched, ScanOn
  <1>12. ASSUME NEW p \in DataPods, OrphanDemote(p) PROVE OrphanTypeOK'
    <2>1. scan' \in Scans
      BY Zenon, <1>12 DEF OrphanDemote
    <2>2. offset' \in [DataPods -> 0 .. MaxOffset]
      <3>1. CASE scan.target \in DataPods
        BY <1>12, <3>1 DEF OrphanDemote, ReplicaOf
      <3>2. CASE scan.target \notin DataPods
        BY Zenon, <1>12, <3>2 DEF OrphanDemote, ReplicaOf
      <3> QED
        BY Zenon, <3>1, <3>2
    <2> QED
      BY <1>12, <2>1, <2>2 DEF OrphanDemote, ReplicaOf, Upset
  <1>13. ASSUME NEW p \in DataPods, HealRead(p) PROVE OrphanTypeOK'
    <2>1. offset[p] \in Readings /\ NoOffset \in Readings
      BY Zenon
    <2>2. scan' \in Scans
      <3>1. [scan EXCEPT !.todo = @ \ {p}, !.full = FALSE] \in Scans /\ [scan EXCEPT !.todo = @ \ {p}] \in Scans
        BY Zenon
      <3>2. ASSUME NEW r \in Readings
            PROVE  [scan EXCEPT !.todo = @ \ {p}, !.found = @ \cup {p}, !.read[p] = r] \in Scans
        <4>1. [scan.read EXCEPT ![p] = r] \in [DataPods -> Readings]
          OBVIOUS
        <4> HIDE DEF Readings
        <4> QED
          BY Zenon, <4>1
      <3> HIDE DEF Scans, Readings
      <3> QED
        BY ZenonT(40), <1>13, <2>1, <3>1, <3>2 DEF HealRead
    <2>3. fresh' \in [DataPods -> 0 .. Epsilon] /\ upsets' \in 0 .. MaxUpsets
      BY <1>13 DEF HealRead, Upset
    <2>4. PodsUntouched /\ UNCHANGED <<attempts, stamp, steady, same>>
      BY Zenon, <1>13 DEF HealRead
    <2> HIDE DEF Scans
    <2> QED
      BY Zenon, <2>2, <2>3, <2>4 DEF PodsUntouched
  <1>14. ASSUME NEW p \in DataPods, HealDemote(p) PROVE OrphanTypeOK'
      BY <1>14 DEF HealDemote, ReplicaOf, Upset
  <1>15. ASSUME NEW p \in DataPods, Write(p) PROVE OrphanTypeOK'
      BY <1>15 DEF Write, Elsewhere
  <1>16. ASSUME NEW p \in DataPods, PodDown(p) PROVE OrphanTypeOK'
      BY <1>16 DEF PodDown, Upset, Elsewhere
  <1>17. ASSUME NEW p \in DataPods, PodReplaced(p) PROVE OrphanTypeOK'
      BY <1>17 DEF PodReplaced, Upset, Elsewhere, Labels
  <1>18. ASSUME NEW p \in DataPods, PodUp(p) PROVE OrphanTypeOK'
      BY ZenonT(40), <1>18 DEF PodUp, Elsewhere
  <1>19. ASSUME NEW p \in DataPods, Elect(p) PROVE OrphanTypeOK'
    <2>1. section' \in BOOLEAN
      BY Zenon, <1>19 DEF Elect
    <2> QED
      BY <1>19, <2>1 DEF Elect, Upset, Elsewhere
  <1>20. ASSUME NEW p \in DataPods, Reconfigure(p) PROVE OrphanTypeOK'
      BY Zenon, <1>20 DEF Reconfigure, Elsewhere
  <1>21. ASSUME NEW p \in DataPods, Strip(p) PROVE OrphanTypeOK'
      BY <1>21 DEF Strip, Upset, Elsewhere, Labels
  <1>22. CASE UNCHANGED orphanVars
      BY Zenon, <1>22 DEF orphanVars
  <1> QED
      BY ZenonT(40), <1>1, <1>2, <1>3, <1>4, <1>5, <1>6, <1>7, <1>8, <1>9, <1>10, <1>11, <1>12, <1>13,
         <1>14, <1>15, <1>16, <1>17, <1>18, <1>19, <1>20, <1>21, <1>22 DEF OrphanNext, ScanStep

LEMMA OrphanSteps == OrphanInv /\ OrphanTypeOK' /\ [OrphanNext]_orphanVars => OrphanInv'
  <1> SUFFICES ASSUME OrphanInv, OrphanTypeOK', [OrphanNext]_orphanVars PROVE ReadingsAge' /\ FoundRead' /\ LosersBehind' /\ Covered'
      BY Zenon DEF OrphanInv
  <1> USE OrphanAssumption DEF OrphanInv, OrphanTypeOK, Scans, Readings, Views, Unread, NoOffset, podVars, ReadingsAge, FoundRead, LosersBehind, Covered
  <1>1. CASE ListPods
    <2>1. Rest \in Scans
      BY Zenon DEF Rest, Listings, Labels
    <2>2. scan'.at = "listed" /\ scan'.found = Rest.found /\ scan'.read = Rest.read /\ scan'.losers = Rest.losers
      BY ZenonT(40), <1>1, <2>1 DEF ListPods
    <2>3. scan'.found = {} /\ scan'.losers = {} /\ \A p \in DataPods : scan'.read[p] = Unread
      BY <2>2 DEF Rest
    <2> QED
      BY <2>2, <2>3
  <1>2. CASE RoleLabels
      BY Zenon, <1>2 DEF RoleLabels, Labels
  <1>3. CASE ChooseScan
    <2>1. CASE ScanOver
      BY Zenon, <2>1 DEF ScanOver, Rest
    <2>2. ASSUME NEW p \in DataPods, ScanOn,
                 scan' = [scan EXCEPT !.at = "orphans", !.target = p, !.found = {p}, !.todo = Listed("replica"),
                                      !.full = Listed("replica") = DataPods \ {p}]
          PROVE  ReadingsAge' /\ FoundRead' /\ LosersBehind' /\ Covered'
      <3>1. /\ scan'.at = "orphans" /\ scan'.read = scan.read /\ scan'.found = {p} /\ scan'.losers = scan.losers
            /\ scan'.todo = Listed("replica") /\ scan'.full = (Listed("replica") = DataPods \ {p})
        BY ZenonT(40), <2>2
      <3>2. ReadingsAge' /\ FoundRead' /\ LosersBehind'
        BY ZenonT(40), <1>3, <2>2, <3>1 DEF ChooseScan, PodsUntouched, ScanOn
      <3>3. scan'.full => steady' \subseteq scan'.found \cup scan'.todo
        BY ZenonT(40), <2>2, <3>1 DEF ScanOn
      <3>4. scan.losers = {}
        BY Zenon, <1>3 DEF ChooseScan
      <3> QED
        BY Zenon, <3>1, <3>2, <3>3, <3>4
    <2>3. ASSUME ScanOn,
                 scan' = [scan EXCEPT !.at = "heal", !.todo = DataPods \ Listed("pending"),
                                      !.full = Listed("pending") = {}]
          PROVE  ReadingsAge' /\ FoundRead' /\ LosersBehind' /\ Covered'
      <3>1. /\ scan'.at = "heal" /\ scan'.read = scan.read /\ scan'.found = scan.found
            /\ scan'.todo = DataPods \ Listed("pending") /\ scan'.full = (Listed("pending") = {})
        BY ZenonT(40), <2>3
      <3>2. ReadingsAge' /\ FoundRead' /\ LosersBehind'
        BY ZenonT(40), <1>3, <2>3, <3>1 DEF ChooseScan, PodsUntouched, ScanOn
      <3>3. scan'.full => steady' \subseteq scan'.todo
        BY ZenonT(40), <2>3, <3>1 DEF ScanOn
      <3> QED
        BY Zenon, <3>1, <3>2, <3>3
    <2> QED
      <3>1. Listed("primary") \subseteq DataPods
        BY Zenon DEF Listed
      <3> HIDE DEF ReadingsAge, FoundRead, LosersBehind, Covered
      <3> QED
        BY Zenon, <1>3, <2>1, <2>2, <2>3, <3>1 DEF ChooseScan
  <1>4. CASE OrphanEnd
      BY Zenon, <1>4 DEF OrphanEnd, Verdict, ScanOver, Rest, Listings, Labels, PodsUntouched
  <1>5. CASE HealDecide
    <2>1. CASE ScanOver
      BY <2>1 DEF ScanOver, Rest
    <2>2. ASSUME NEW p \in Freshest, ScanOn,
                 scan' = [scan EXCEPT !.at = "demote", !.target = p, !.losers = Ranked \ {p}]
          PROVE  ReadingsAge' /\ FoundRead' /\ LosersBehind' /\ Covered'
      <3>1. /\ scan'.at = "demote" /\ scan'.read = scan.read /\ scan'.found = scan.found
            /\ scan'.target = p /\ scan'.losers = Ranked \ {p}
        BY ZenonT(40), <2>2 DEF Freshest, Ranked
      <3>2. scan.at = "heal" /\ offset' = offset /\ steady' = steady /\ fresh' = fresh
        BY Zenon, <1>5, <2>2 DEF HealDecide, PodsUntouched, ScanOn
      <3>3. \A q \in Ranked : q \in DataPods /\ scan.read[q] >= 0
        BY <3>2 DEF Ranked
      <3>4. p \in Ranked /\ \A q \in Ranked \ {p} : scan.read[p] - scan.read[q] > Epsilon
        BY Zenon, <2>2 DEF Freshest, Ahead, Clear
      <3> QED
        BY Zenon, <3>1, <3>2, <3>3, <3>4
    <2> HIDE DEF ReadingsAge, FoundRead, LosersBehind, Covered
    <2> QED
      BY Zenon, <1>5, <2>1, <2>2 DEF HealDecide
  <1>6. CASE ObserveEnd
      BY Zenon, <1>6 DEF ObserveEnd, Verdict, ScanOver, Rest, Listings, Labels, PodsUntouched
  <1>7. CASE HealEnd
      BY Zenon, <1>7 DEF HealEnd, ScanOver, Rest, Listings, Labels, PodsUntouched
  <1>8. CASE Disagree
      BY Zenon, <1>8 DEF Disagree, Elsewhere, Upset
  <1>9. CASE LatchExpires
      BY Zenon, <1>9 DEF LatchExpires, Elsewhere
  <1>10. CASE Restart
      BY ZenonT(40), <1>10 DEF Restart, Upset, ScanOver, Rest, Listings, Labels, PodsUntouched
  <1>11. ASSUME NEW p \in DataPods, OrphanRead(p) PROVE ReadingsAge' /\ FoundRead' /\ LosersBehind' /\ Covered'
      BY <1>11 DEF OrphanRead, PodsUntouched, ScanOn
  <1>12. ASSUME NEW p \in DataPods, OrphanDemote(p) PROVE ReadingsAge' /\ FoundRead' /\ LosersBehind' /\ Covered'
      BY <1>12 DEF OrphanDemote, ReplicaOf, Upset
  <1>13. ASSUME NEW p \in DataPods, HealRead(p) PROVE ReadingsAge' /\ FoundRead' /\ LosersBehind' /\ Covered'
    <2>1. CASE scan' = [scan EXCEPT !.todo = @ \ {p}, !.full = FALSE] /\ UNCHANGED fresh
      BY SMTT(30), <1>13, <2>1 DEF HealRead, PodsUntouched
    <2>2. CASE p \notin acts /\ scan' = [scan EXCEPT !.todo = @ \ {p}] /\ UNCHANGED fresh
      <3>1. UNCHANGED <<offset, steady>> /\ scan.at = "heal"
        BY ZenonT(40), <1>13 DEF HealRead, PodsUntouched
      <3> QED
        BY <2>2, <3>1
    <2>3. ASSUME NEW r \in {offset[p], NoOffset}, fresh' = [fresh EXCEPT ![p] = 0],
                 scan' = [scan EXCEPT !.todo = @ \ {p}, !.found = @ \cup {p}, !.read[p] = r]
          PROVE  ReadingsAge' /\ FoundRead' /\ LosersBehind' /\ Covered'
      <3>1. UNCHANGED <<offset, steady>> /\ scan.at = "heal"
        BY Zenon, <1>13 DEF HealRead, PodsUntouched
      <3>2. /\ scan'.at = "heal" /\ scan'.todo = scan.todo \ {p} /\ scan'.found = scan.found \cup {p}
            /\ scan'.full = scan.full /\ scan'.read = [scan.read EXCEPT ![p] = r]
        BY Zenon, <2>3, <3>1
      <3>3. ReadingsAge'
        BY <2>3, <3>1, <3>2
      <3> QED
        BY <2>3, <3>1, <3>2, <3>3
    <2> HIDE DEF ReadingsAge, FoundRead, LosersBehind, Covered
    <2> QED
      BY ZenonT(40), <1>13, <2>1, <2>2, <2>3 DEF HealRead
  <1>14. ASSUME NEW p \in DataPods, HealDemote(p) PROVE ReadingsAge' /\ FoundRead' /\ LosersBehind' /\ Covered'
      BY SMTT(30), <1>14 DEF HealDemote, ReplicaOf, Upset
  <1>15. ASSUME NEW p \in DataPods, Write(p) PROVE ReadingsAge' /\ FoundRead' /\ LosersBehind' /\ Covered'
      BY <1>15 DEF Write, Elsewhere
  <1>16. ASSUME NEW p \in DataPods, PodDown(p) PROVE ReadingsAge' /\ FoundRead' /\ LosersBehind' /\ Covered'
      BY Zenon, <1>16 DEF PodDown, Upset, Elsewhere
  <1>17. ASSUME NEW p \in DataPods, PodReplaced(p) PROVE ReadingsAge' /\ FoundRead' /\ LosersBehind' /\ Covered'
      BY Zenon, <1>17 DEF PodReplaced, Upset, Elsewhere, Labels
  <1>18. ASSUME NEW p \in DataPods, PodUp(p) PROVE ReadingsAge' /\ FoundRead' /\ LosersBehind' /\ Covered'
      BY Zenon, <1>18 DEF PodUp, Elsewhere
  <1>19. ASSUME NEW p \in DataPods, Elect(p) PROVE ReadingsAge' /\ FoundRead' /\ LosersBehind' /\ Covered'
      BY Zenon, <1>19 DEF Elect, Upset, Elsewhere
  <1>20. ASSUME NEW p \in DataPods, Reconfigure(p) PROVE ReadingsAge' /\ FoundRead' /\ LosersBehind' /\ Covered'
      BY Zenon, <1>20 DEF Reconfigure, Elsewhere
  <1>21. ASSUME NEW p \in DataPods, Strip(p) PROVE ReadingsAge' /\ FoundRead' /\ LosersBehind' /\ Covered'
      BY Zenon, <1>21 DEF Strip, Upset, Elsewhere, Labels
  <1>22. CASE UNCHANGED orphanVars
      BY Zenon, <1>22 DEF orphanVars
  <1> QED
      BY ZenonT(40), <1>1, <1>2, <1>3, <1>4, <1>5, <1>6, <1>7, <1>8, <1>9, <1>10, <1>11, <1>12, <1>13,
         <1>14, <1>15, <1>16, <1>17, <1>18, <1>19, <1>20, <1>21, <1>22 DEF OrphanNext, ScanStep

LEMMA OrphanStarts == OrphanInit => OrphanInv
  <1> SUFFICES ASSUME OrphanInit PROVE OrphanInv
      OBVIOUS
  <1> USE OrphanAssumption DEF OrphanInit
  <1>1. Rest \in Scans
      BY Zenon DEF Rest, Scans, Listings, Labels, Readings, Views, Unread
  <1>2. sentinels \in BOOLEAN /\ section \in BOOLEAN
      BY Zenon
  <1>3. elected \in Views /\ role \in [DataPods -> Labels] /\ acts \subseteq DataPods
      BY Zenon DEF Views, Labels
  <1>4. OrphanTypeOK
      BY <1>1, <1>2, <1>3 DEF OrphanTypeOK
  <1>5. ReadingsAge /\ FoundRead /\ LosersBehind /\ Covered
      BY Zenon DEF ReadingsAge, FoundRead, LosersBehind, Covered, Rest
  <1> QED
      BY Zenon, <1>4, <1>5 DEF OrphanInv

\* Phases 7 and 7a keep OrphanInv.
THEOREM OrphanInvariant == OrphanSpec => []OrphanInv
  <1>1. OrphanInv /\ [OrphanNext]_orphanVars => OrphanInv'
      BY Zenon, OrphanTypes, OrphanSteps DEF OrphanInv
  <1> QED
      BY <1>1, OrphanStarts, PTL DEF OrphanSpec

\* The self-heal (reconcileDualMasterSelfHeal) demotes only masters that are behind the
\* survivor when the command arrives, for any number of pods, epsilon and attempts,
\* as long as at most Epsilon writes reach a pod between its reading and the end of the
\* scan (Write).
THEOREM SurvivorIsAhead == OrphanSpec => SurvivorAhead
  <1>1. ASSUME OrphanInv
        PROVE  \A p \in scan.losers \ scan'.losers :
                  scan.at = "demote" /\ p \notin acts' /\ {p, scan.target} \subseteq steady \cap same
                      => offset[p] < offset[scan.target]
    <2> USE <1>1, OrphanAssumption DEF OrphanInv
    <2> SUFFICES ASSUME NEW p \in scan.losers, scan.at = "demote", p \in steady, scan.target \in steady
                 PROVE  offset[p] < offset[scan.target]
        OBVIOUS
    <2>1. /\ p \in DataPods /\ scan.target \in DataPods
          /\ fresh[p] \in 0 .. Epsilon /\ offset[p] \in Nat /\ offset[scan.target] \in Nat
          /\ scan.read[p] \in Int /\ scan.read[scan.target] \in Int
        BY DEF OrphanTypeOK, Scans, Readings, Unread, NoOffset, LosersBehind
    <2>2. /\ scan.read[p] >= 0 /\ scan.read[scan.target] >= 0
          /\ scan.read[scan.target] - scan.read[p] > Epsilon
        BY Zenon DEF LosersBehind
    <2>3. offset[p] <= scan.read[p] + fresh[p] /\ scan.read[scan.target] <= offset[scan.target]
        BY Zenon, <2>2 DEF ReadingsAge
    <2> QED
        BY <2>1, <2>2, <2>3
  <1>2. OrphanInv => [\A p \in scan.losers \ scan'.losers :
                         scan.at = "demote" /\ p \notin acts' /\ {p, scan.target} \subseteq steady \cap same
                             => offset[p] < offset[scan.target]]_orphanVars
      BY Zenon, <1>1
  <1> QED
      BY <1>2, OrphanInvariant, PTL DEF OrphanSpec, SurvivorAhead

\* Only a verdict clears the observation, and only with full coverage and one master found.
LEMMA OnlyVerdictClears ==
  ASSUME OrphanNext, stamp # {}, stamp' = {}, upsets' = upsets, OrphanInv
  PROVE  scan.at \in {"orphans", "heal"} /\ scan.todo = {} /\ scan.full /\ ~(Cardinality(scan.found) >= 2)
  <1>1. upsets \in Nat /\ ~Upset
      BY OrphanAssumption DEF OrphanInv, OrphanTypeOK, Upset
  <1>2. Verdict(scan.full) => scan.full /\ ~(Cardinality(scan.found) >= 2)
    <2>1. CASE Cardinality(scan.found) >= 2 /\ stamp' = scan.found
      <3>1. Cardinality(scan.found) = 0
        BY Zenon, <2>1, FS_EmptySet
      <3> QED
        BY <2>1, <3>1
    <2> QED
      BY Zenon, <2>1 DEF Verdict
  <1>3. CASE OrphanEnd
      BY Zenon, <1>2, <1>3 DEF OrphanEnd
  <1>4. CASE HealDecide
      BY Zenon, <1>2, <1>4 DEF HealDecide
  <1>5. CASE ObserveEnd
      BY Zenon, <1>2, <1>5 DEF ObserveEnd
  <1>6. CASE Restart
      BY Zenon, <1>1, <1>6 DEF Restart
  <1>7. CASE ListPods \/ RoleLabels \/ ChooseScan \/ HealEnd
      BY Zenon, <1>7 DEF ListPods, RoleLabels, ChooseScan, HealEnd
  <1>8. CASE Disagree \/ LatchExpires
      BY Zenon, <1>8 DEF Disagree, LatchExpires, Elsewhere
  <1>9. ASSUME NEW p \in DataPods, OrphanRead(p) \/ OrphanDemote(p) \/ HealRead(p) \/ HealDemote(p) PROVE FALSE
      BY Zenon, <1>9 DEF OrphanRead, OrphanDemote, HealRead, HealDemote
  <1>10. ASSUME NEW p \in DataPods,
                Write(p) \/ PodDown(p) \/ PodReplaced(p) \/ PodUp(p) \/ Elect(p) \/ Reconfigure(p) \/ Strip(p)
         PROVE  FALSE
      BY Zenon, <1>10 DEF Write, PodDown, PodReplaced, PodUp, Elect, Reconfigure, Strip, Elsewhere
  <1> QED
      BY Zenon, <1>3, <1>4, <1>5, <1>6, <1>7, <1>8, <1>9, <1>10 DEF OrphanNext, ScanStep

\* clearDualMasterObserved runs only when at most one pod has been a master since the pods
\* were listed, in the orphan scan, the self-heal and the scan without sentinels.
THEOREM ClearingHasCause == OrphanSpec => ClearedForCause
  <1>1. ASSUME OrphanInv, OrphanNext, stamp # {}, stamp' = {}, upsets' = upsets
        PROVE  Cardinality(steady) <= 1
    <2>1. /\ scan.at \in {"orphans", "heal"} /\ scan.todo = {} /\ scan.full
          /\ ~(Cardinality(scan.found) >= 2)
        BY Zenon, <1>1, OnlyVerdictClears
    <2>2. steady \subseteq scan.found
        BY Zenon, <1>1, <2>1 DEF OrphanInv, Covered
    <2>3. IsFiniteSet(scan.found)
        BY Zenon, <1>1, OrphanAssumption, FS_Subset DEF OrphanInv, OrphanTypeOK, Scans
    <2>4. IsFiniteSet(steady) /\ Cardinality(steady) <= Cardinality(scan.found)
        BY Zenon, <2>2, <2>3, FS_Subset
    <2>5. Cardinality(steady) \in Nat /\ Cardinality(scan.found) \in Nat
        BY Zenon, <2>3, <2>4, FS_CardinalityType
    <2> QED
        BY <2>1, <2>4, <2>5
  <1>2. OrphanInv /\ [OrphanNext]_orphanVars
            => [stamp # {} /\ stamp' = {} /\ scan.at # "idle" /\ upsets' = upsets
                   => Cardinality(steady) <= 1]_orphanVars
      BY Zenon, <1>1
  <1> QED
      BY <1>2, OrphanInvariant, PTL DEF OrphanSpec, ClearedForCause
-----------------------------------------------------------------------------
(* CRStatus: the conditions, and the page about several masters. *)

\* The bound of the ages is above every window.
LEMMA Windows ==
  /\ DownAfter \in Nat /\ Window \in Nat /\ StuckWindow \in Nat /\ Baseline \in Nat
  /\ MaxTroubles \in Nat /\ MaxMisses \in Nat /\ 0 < DownAfter /\ 0 < Baseline
  /\ Longest \in Nat /\ Window < Longest /\ DownAfter < Longest
  BY StatusAssumption DEF Longest, Greater

\* Older grows an age, up to the bound, and keeps the order of two.
LEMMA OlderAges ==
  /\ Never \notin Ages
  /\ \A a \in Ages : Older(a) \in Ages /\ a <= Older(a)
  /\ \A a \in Ages \cup {Never} : Older(a) \in Ages \cup {Never} /\ (Older(a) = Never <=> a = Never)
  /\ \A a, b \in Ages : a <= b => Older(a) <= Older(b)
  BY Windows DEF Older, Ages, Never

\* The status a pass evaluates is a status.
LEMMA EvaluatedTypes ==
  ASSUME NEW w \in Worlds, NEW d \in BOOLEAN, NEW k \in BOOLEAN, NEW l \in BOOLEAN,
         NEW g \in {"none", "armed", "expired"},
         NEW o, o = Observation(w, d, k, l, g)
  PROVE  /\ EvaluateConditions(o) \in Conditions
         /\ derivePhase(EvaluateConditions(o), o) \in
               {"Paused", "Degraded", "Pending", "Ready", "Progressing", "Available"}
         /\ EvaluateConditions(o).ready = "MasterLost" => l
<1>1. /\ o.noMaster \in BOOLEAN /\ o.splitBrain \in BOOLEAN /\ o.failed \in BOOLEAN /\ o.suppressed \in BOOLEAN
      /\ o.masterLost = l
  BY Zenon DEF Observation, observeNoMasterAgreement, observeSplitBrain, Worlds
<1>2. evalReady(o) \in {"Ready", "WaitingForReplicas", "StatefulSetMissing", "MasterLost",
                        "NoMasterAgreement", "DualMasterDivergence"}
  BY Zenon DEF evalReady
<1>3. evalDegraded(o) \in {"AsExpected", "RolloutStalled", "ReconcileError", "DualMasterDivergence",
                    "SentinelPeerLinkupStuck", "QuorumLost", "NoMasterAgreement", "SplitBrain"}
  BY Zenon DEF evalDegraded
<1>4. /\ (o.ready \in {"some", "all"}) \in BOOLEAN
      /\ (o.ready # "all") \in BOOLEAN
      /\ (~o.failed) \in BOOLEAN
  <2>1. (o.ready \in {"some", "all"}) \in BOOLEAN
    BY SMT
  <2>2. (o.ready # "all") \in BOOLEAN
    BY Zenon
  <2>3. (~o.failed) \in BOOLEAN
    BY Zenon, <1>1
  <2> QED BY Zenon, <2>1, <2>2, <2>3
<1>5. EvaluateConditions(o) \in Conditions
  BY <1>1, <1>2, <1>3, <1>4 DEF EvaluateConditions, Conditions
<1>6. EvaluateConditions(o).ready = evalReady(o)
  BY Zenon DEF EvaluateConditions
<1>7. evalReady(o) = "MasterLost" => o.masterLost
  BY Zenon DEF evalReady
<1>8. derivePhase(EvaluateConditions(o), o) \in
               {"Paused", "Degraded", "Pending", "Ready", "Progressing", "Available"}
  BY Zenon DEF derivePhase
<1> QED BY Zenon, <1>1, <1>5, <1>6, <1>7, <1>8

\* What the scans of a pass make of a memory: nothing; or at least two masters at once, which
\* the union may take in; or a complete scan that saw at most one.
LEMMA ScanEffect ==
  ASSUME StatusTypeOK, NEW m \in Memos, NEW s \in AfterScan(m)
  PROVE  /\ s \in Memos
         /\ s.since = m.since /\ s.probed = m.probed
         /\ \/ s.dual = m.dual /\ s.union = m.union /\ s.edge = m.edge
            \/ /\ Cardinality(world.masters) < 2
               /\ s.dual = Never /\ s.union = {} /\ s.edge = {}
            \/ \E seen \in SUBSET world.masters :
                  /\ Cardinality(seen) >= 2 /\ s.dual = 0
                  /\ \/ s.union = m.union /\ s.edge = m.edge
                     \/ s.union = m.union \cup seen /\ s.edge = m.union \cup seen
<1> USE Windows
<1>1. 0 \in Ages /\ world.masters \subseteq CRPods
  BY DEF StatusTypeOK, Worlds, Ages
<1>2. ASSUME NEW seen \in SUBSET world.masters, NEW c \in BOOLEAN, s = Scanned(m, seen, c),
             c => seen = world.masters
      PROVE  /\ s \in Memos
             /\ s.since = m.since /\ s.probed = m.probed
             /\ \/ s.dual = m.dual /\ s.union = m.union /\ s.edge = m.edge
                \/ /\ Cardinality(world.masters) < 2
                   /\ s.dual = Never /\ s.union = {} /\ s.edge = {}
                \/ /\ Cardinality(seen) >= 2 /\ s.dual = 0
                   /\ \/ s.union = m.union /\ s.edge = m.edge
                      \/ s.union = m.union \cup seen /\ s.edge = m.union \cup seen
  <2>1. CASE Cardinality(seen) >= 2 /\ world.stage = "FailoverInFlight"
    <3>1. s = [m EXCEPT !.dual = 0]
      BY Zenon, <1>2, <2>1 DEF Scanned
    <3> QED BY Zenon, <1>1, <2>1, <3>1 DEF Memos
  <2>2. CASE Cardinality(seen) >= 2 /\ world.stage # "FailoverInFlight"
    <3>1. s = [m EXCEPT !.dual = 0, !.union = m.union \cup seen, !.edge = m.union \cup seen]
      BY Zenon, <1>2, <2>2 DEF Scanned, Memos
    <3>2. m.union \cup seen \subseteq CRPods
      BY Zenon, <1>1 DEF Memos
    <3> QED BY Zenon, <1>1, <2>2, <3>1, <3>2 DEF Memos
  <2>3. CASE ~(Cardinality(seen) >= 2) /\ c
    <3>1. s = [m EXCEPT !.dual = Never, !.union = {}, !.edge = {}]
      BY Zenon, <1>2, <2>3 DEF Scanned, DualReset
    <3>2. Cardinality(world.masters) < 2
      <4>1. IsFiniteSet(world.masters)
        BY Zenon, <1>1, StatusAssumption, FS_Subset
      <4>2. Cardinality(world.masters) \in Nat
        BY Zenon, <4>1, FS_CardinalityType
      <4> QED BY <1>2, <2>3, <4>2
    <3> QED BY Zenon, <3>1, <3>2 DEF Memos
  <2>4. CASE ~(Cardinality(seen) >= 2) /\ ~c
    <3>1. s = m
      BY Zenon, <1>2, <2>4 DEF Scanned
    <3> QED BY Zenon, <3>1
  <2> QED BY Zenon, <2>1, <2>2, <2>3, <2>4
<1>3. CASE s = m
  BY Zenon, <1>3
<1>4. CASE s = Scanned(m, world.masters, TRUE)
  BY Zenon, <1>4, <1>2
<1>5. CASE \E seen \in SUBSET world.masters : s = Scanned(m, seen, FALSE)
  BY Zenon, <1>5, <1>2
<1> QED BY Zenon, <1>3, <1>4, <1>5 DEF AfterScan

\* What a pass makes of the memory.  If it gets through, it has probed and perhaps scanned.
LEMMA PassEffect ==
  ASSUME StatusTypeOK, Pass
  PROVE  /\ memo' \in Memos
         /\ \/ /\ memo'.since = memo.since /\ memo'.probed = memo.probed
               /\ memo'.dual = memo.dual /\ memo'.union = memo.union /\ memo'.edge = memo.edge
               /\ UNCHANGED record
            \/ /\ memo'.probed = 0
               /\ world.answers # "no" => memo'.since = Never
               /\ memo'.since # Never => memo'.since \in {0, memo.since}
               /\ \/ memo'.dual = memo.dual /\ memo'.union = memo.union /\ memo'.edge = memo.edge
                  \/ /\ Cardinality(world.masters) < 2
                     /\ memo'.dual = Never /\ memo'.union = {} /\ memo'.edge = {}
                  \/ \E seen \in SUBSET world.masters :
                        /\ Cardinality(seen) >= 2 /\ memo'.dual = 0
                        /\ \/ memo'.union = memo.union /\ memo'.edge = memo.edge
                           \/ memo'.union = memo.union \cup seen /\ memo'.edge = memo.union \cup seen
               /\ record' = [record EXCEPT !.answered = IF world.answers # "no" THEN 0 ELSE @,
                                           !.confirmed = IF memo'.dual = 0 THEN 0 ELSE @,
                                           !.told = IF memo'.edge # memo.edge THEN @ \cup memo'.edge ELSE @]
<1> USE Windows
<1>0. memo \in Memos /\ 0 \in Ages /\ deriveState(world) \in States
  <2>1. memo \in Memos
    BY Zenon DEF StatusTypeOK
  <2>2. 0 \in Ages
    BY DEF Ages
  <2>3. world.stage \in {"Steady", "RolloutReplicas", "RolloutPrimary", "FailoverInFlight"}
    BY Zenon DEF StatusTypeOK, Worlds
  <2>4. deriveState(world) \in States
    BY Zenon, <2>3 DEF deriveState, States
  <2> QED BY Zenon, <2>1, <2>2, <2>4
<1>1. CASE UNCHANGED <<memo, record>>
  BY Zenon, <1>0, <1>1
<1>2. CASE memo' = [memo EXCEPT !.last = deriveState(world)] /\ UNCHANGED record
  BY Zenon, <1>0, <1>2 DEF Memos
<1>3. CASE /\ \E probed \in {Probed([memo EXCEPT !.last = deriveState(world)])} :
              \E scanned \in AfterScan(probed) : memo' \in AfterRepair(scanned)
           /\ record' = [record EXCEPT !.answered = IF world.answers # "no" THEN 0 ELSE @,
                                       !.confirmed = IF memo'.dual = 0 THEN 0 ELSE @,
                                       !.told = IF memo'.edge # memo.edge THEN @ \cup memo'.edge ELSE @]
  <2> DEFINE l == [memo EXCEPT !.last = deriveState(world)]
             p == Probed(l)
  <2>1. PICK s \in AfterScan(p) : memo' \in AfterRepair(s)
    BY Zenon, <1>3
  <2>2. l \in Memos /\ l.since = memo.since /\ l.dual = memo.dual /\ l.union = memo.union /\ l.edge = memo.edge
    BY Zenon, <1>0 DEF Memos
  <2>3. /\ p \in Memos /\ p.probed = 0 /\ p.dual = l.dual /\ p.union = l.union /\ p.edge = l.edge
        /\ world.answers # "no" => p.since = Never
        /\ p.since # Never => p.since \in {0, l.since}
    <3> HIDE DEF l
    <3>1. PICK x \in Ages \cup {Never} :
             /\ p = [l EXCEPT !.probed = 0, !.since = x]
             /\ world.answers # "no" => x = Never
             /\ x # Never => x \in {0, l.since}
      BY Zenon, <1>0, <2>2 DEF Probed, Memos
    <3> QED BY ZenonT(40), <1>0, <2>2, <3>1 DEF Memos
  <2> HIDE DEF p, l
  <2>4. /\ s \in Memos /\ s.since = p.since /\ s.probed = p.probed
        /\ \/ s.dual = p.dual /\ s.union = p.union /\ s.edge = p.edge
           \/ /\ Cardinality(world.masters) < 2
              /\ s.dual = Never /\ s.union = {} /\ s.edge = {}
           \/ \E seen \in SUBSET world.masters :
                 /\ Cardinality(seen) >= 2 /\ s.dual = 0
                 /\ \/ s.union = p.union /\ s.edge = p.edge
                    \/ s.union = p.union \cup seen /\ s.edge = p.union \cup seen
    BY Zenon, <2>1, <2>3, ScanEffect
  <2>5. /\ memo' \in Memos /\ memo'.since = s.since /\ memo'.probed = s.probed
        /\ memo'.dual = s.dual /\ memo'.union = s.union /\ memo'.edge = s.edge
    <3>1. PICK x \in Ages \cup {Never} : memo' \in {s, [s EXCEPT !.stuck = x]}
      BY Zenon, <1>0, <2>1 DEF AfterRepair
    <3> QED BY Zenon, <2>4, <3>1 DEF Memos
  <2> QED BY <1>3, <2>2, <2>3, <2>4, <2>5
<1> QED BY Zenon, <1>1, <1>2, <1>3 DEF Pass

\* dualMasterActiveOrExpire: a stamp within the window stays, with its union; another goes.
LEMMA ExpiredEffect ==
  ASSUME NEW m \in Memos
  PROVE  /\ Expired(m) \in Memos
         /\ Expired(m).since = m.since /\ Expired(m).probed = m.probed
         /\ m.dual \in 0 .. Window => /\ Expired(m).dual = m.dual
                                      /\ Expired(m).union = m.union /\ Expired(m).edge = m.edge
         /\ m.dual \notin 0 .. Window => Expired(m).union = {} /\ Expired(m).edge = {}
<1> DEFINE d == IF Fresh(m.dual, Window) THEN m ELSE DualReset(m)
<1>1. /\ d \in Memos /\ d.since = m.since /\ d.probed = m.probed
      /\ m.dual \in 0 .. Window => d.dual = m.dual /\ d.union = m.union /\ d.edge = m.edge
      /\ m.dual \notin 0 .. Window => d.union = {} /\ d.edge = {}
  <2>1. CASE m.dual \in 0 .. Window
    BY Zenon, <2>1 DEF Fresh
  <2>2. CASE m.dual \notin 0 .. Window
    <3>1. d = [m EXCEPT !.dual = Never, !.union = {}, !.edge = {}]
      BY Zenon, <2>2 DEF Fresh, DualReset
    <3> QED BY Zenon, <2>2, <3>1 DEF Memos
  <2> QED BY Zenon, <2>1, <2>2
<1>2. PICK x \in Ages \cup {Never} : Expired(m) = [d EXCEPT !.stuck = x]
  BY Zenon, <1>1 DEF Expired, Memos
<1> HIDE DEF d
<1> QED BY Zenon, <1>1, <1>2 DEF Memos

\* An interval makes every stamp older and leaves the sets of pods alone.
LEMMA ElapsedMemo ==
  ASSUME StatusTypeOK, Elapses
  PROVE  /\ memo' \in Memos
         /\ memo'.since = Older(memo.since) /\ memo'.probed = Older(memo.probed)
         /\ memo'.dual = Older(memo.dual) /\ memo'.union = memo.union /\ memo'.edge = memo.edge
<1>1. memo \in Memos
  BY Zenon DEF StatusTypeOK
<1>2. {memo.since, memo.probed, memo.dual, memo.stuck} \subseteq Ages \cup {Never}
  BY Zenon, <1>1 DEF Memos
<1>3. {Older(memo.since), Older(memo.probed), Older(memo.dual), Older(memo.stuck)} \subseteq Ages \cup {Never}
  BY Zenon, <1>2, OlderAges
<1>4. memo' = [memo EXCEPT !.since = Older(memo.since), !.probed = Older(memo.probed),
                           !.dual = Older(memo.dual), !.stuck = Older(memo.stuck)]
  BY Zenon, <1>1 DEF Elapses, Memos
<1> QED BY Zenon, <1>1, <1>3, <1>4 DEF Memos

\* ... and so does it the ages of the record.
LEMMA ElapsedRecord ==
  ASSUME StatusTypeOK, Elapses
  PROVE  /\ record' \in Records
         /\ record'.answered = Older(record.answered) /\ record'.confirmed = Older(record.confirmed)
         /\ record'.well = IF world.answers = "no" THEN 0 ELSE Older(record.well)
         /\ record'.told = IF Older(record.confirmed) > Window THEN {} ELSE record.told
<1>1. record \in Records
  BY Zenon DEF StatusTypeOK
<1>2. {Older(record.answered), Older(record.confirmed), Older(record.well), 0} \subseteq Ages
  BY <1>1, OlderAges, Windows DEF Records, Ages
<1>3. PICK x \in Ages, y \in SUBSET CRPods :
        /\ record' = [well |-> x, answered |-> Older(record.answered), confirmed |-> Older(record.confirmed),
                      told |-> y]
        /\ x = IF world.answers = "no" THEN 0 ELSE Older(record.well)
        /\ y = IF Older(record.confirmed) > Window THEN {} ELSE record.told
  BY Zenon, <1>1, <1>2 DEF Elapses, Records
<1> QED BY Zenon, <1>2, <1>3 DEF Records

\* The conditions change only by updateStatus, to what it evaluates or to what the status
\* has; then Ready turns to MasterLost only off masterLostFromTimeout.
LEMMA StatusEffect ==
  ASSUME StatusTypeOK, [StatusNext]_crVars
  PROVE  /\ status' \in Statuses
         /\ status'.conds.ready = "MasterLost" => status.conds.ready = "MasterLost" \/ masterLostFromTimeout
<1>0. status \in Statuses /\ copy \in Statuses /\ turn \in Turns /\ world \in Worlds
  BY Zenon DEF StatusTypeOK
<1>1. CASE UNCHANGED status
  BY Zenon, <1>0, <1>1
<1>2. ASSUME NEW to \in {"none", "RolloutPending", "RolloutReplicas"}, status' = [status EXCEPT !.suspended = to]
      PROVE  status' \in Statuses /\ status'.conds = status.conds
  BY Zenon, <1>0, <1>2 DEF Statuses
<1>3. CASE Pass
  <2>1. Suspended(copy) \in {"none", "RolloutPending", "RolloutReplicas"}
    BY Zenon, <1>0 DEF Suspended, Statuses
  <2>2. status' = status \/ status' = [status EXCEPT !.suspended = Suspended(copy)]
    BY Zenon, <1>3 DEF Pass, SuspendedPatched
  <2> QED BY Zenon, <1>1, <1>2, <2>1, <2>2
<1>4. CASE updateStatus
  <2>1. CASE UNCHANGED status
    BY Zenon, <2>1, <1>1
  <2>2. CASE \E o \in {Observation([world EXCEPT !.gate = turn.gate], Fresh(memo.dual, Window),
                                   Fresh(memo.stuck, StuckWindow), masterLostFromTimeout, Watchdog)} :
             \E to \in {Told(o, EvaluateConditions(o))} : status' = Patched(turn.v, to)
    <3> DEFINE w == [world EXCEPT !.gate = turn.gate]
               o == Observation(w, Fresh(memo.dual, Window),
                                Fresh(memo.stuck, StuckWindow), masterLostFromTimeout, Watchdog)
               to == Told(o, EvaluateConditions(o))
    <3>1. status' = Patched(turn.v, to)
      BY Zenon, <2>2
    <3>2. turn.v \in Statuses /\ turn.gate \in {"open", "error", "paused"}
      BY Zenon, <1>0 DEF Turns
    <3>3. w \in Worlds
      BY ZenonT(40), <1>0, <3>2 DEF Worlds
    <3>4. Watchdog \in {"none", "armed", "expired"}
      BY Zenon, <3>2 DEF Watchdog, Statuses
    <3>5. /\ Fresh(memo.dual, Window) \in BOOLEAN /\ Fresh(memo.stuck, StuckWindow) \in BOOLEAN
          /\ masterLostFromTimeout \in BOOLEAN
      <4>1. (memo.dual \in 0 .. Window) \in BOOLEAN /\ (memo.stuck \in 0 .. StuckWindow) \in BOOLEAN
        BY SMT
      <4>2. (memo.since >= DownAfter /\ memo.probed \in 0 .. Window) \in BOOLEAN
        BY Zenon
      <4> QED BY Zenon, <4>1, <4>2 DEF Fresh, masterLostFromTimeout
    <3> HIDE DEF w
    <3>6. /\ EvaluateConditions(o) \in Conditions
          /\ derivePhase(EvaluateConditions(o), o) \in
               {"Paused", "Degraded", "Pending", "Ready", "Progressing", "Available"}
          /\ EvaluateConditions(o).ready = "MasterLost" => masterLostFromTimeout
      BY <3>3, <3>4, <3>5, EvaluatedTypes
    <3> HIDE DEF o
    <3>7. to \in Statuses /\ to.conds = EvaluateConditions(o)
      <4>1. PICK x \in {"none", "armed", "expired"} :
               to = [turn.v EXCEPT !.conds = EvaluateConditions(o), !.phase = derivePhase(EvaluateConditions(o), o),
                                   !.watchdog = x]
        BY Zenon, <3>2 DEF Told, Statuses
      <4> HIDE DEF to
      <4> QED BY Zenon, <3>2, <3>6, <4>1 DEF Statuses
    <3> HIDE DEF to
    <3>8. status' \in Statuses /\ (status'.conds = to.conds \/ status'.conds = status.conds)
      BY Zenon, <1>0, <3>1, <3>2, <3>7 DEF Patched, Changed, Statuses
    <3> QED BY Zenon, <3>6, <3>7, <3>8
  <2> QED BY Zenon, <1>4, <2>1, <2>2 DEF updateStatus
<1>5. CASE Elapses
  <2>1. status' = IF status.watchdog = "armed" THEN [status EXCEPT !.watchdog = "expired"] ELSE status
    BY Zenon, <1>5 DEF Elapses
  <2>2. status' \in Statuses /\ status'.conds = status.conds
    BY Zenon, <1>0, <2>1 DEF Statuses
  <2> QED BY Zenon, <2>2
<1>6. CASE CacheCatchesUp \/ WorldMoves \/ Restarts \/ UNCHANGED crVars
  <2>1. UNCHANGED status
    BY Zenon, <1>6 DEF CacheCatchesUp, WorldMoves, Restarts, crVars
  <2> QED BY Zenon, <1>1, <2>1
<1> QED BY Zenon, <1>3, <1>4, <1>5, <1>6 DEF StatusNext

\* A change of the world leaves a world, and the silence and the split are recorded with it.
LEMMA WorldEffect ==
  ASSUME StatusTypeOK, WorldMoves
  PROVE  /\ world' \in Worlds /\ record' \in Records
         /\ record'.answered = record.answered /\ record'.confirmed = record.confirmed
         /\ record'.well = IF "no" \in {world.answers, world'.answers} THEN 0 ELSE record.well
         /\ record'.told = IF Cardinality(world'.masters) < 2 THEN {} ELSE record.told
<1>0. world \in Worlds /\ record \in Records /\ 0 \in Ages
  BY Windows DEF StatusTypeOK, Ages
<1>1. world' \in Worlds
  <2>1. CASE \E a \in {"yes", "no", "none"} : world' = [world EXCEPT !.answers = a]
    BY ZenonT(40), <1>0, <2>1 DEF Worlds
  <2>2. CASE \E m \in SUBSET CRPods : world' = [world EXCEPT !.masters = m]
    BY Zenon, <1>0, <2>2 DEF Worlds
  <2>3. CASE \E q \in {"ok", "lost", "unknown"} : world' = [world EXCEPT !.quorum = q]
    BY Zenon, <1>0, <2>3 DEF Worlds
  <2>4. CASE \E s \in {"Steady", "RolloutReplicas", "RolloutPrimary", "FailoverInFlight"} :
             world' = [world EXCEPT !.stage = s]
    BY <1>0, <2>4 DEF Worlds
  <2>5. CASE \E g \in {"open", "error", "paused"} : world' = [world EXCEPT !.gate = g]
    BY <1>0, <2>5 DEF Worlds
  <2>6. CASE \E r \in {"absent", "none", "some", "all"} : world' = [world EXCEPT !.ready = r]
    BY <1>0, <2>6 DEF Worlds
  <2>7. CASE \E b \in BOOLEAN : world' \in {[world EXCEPT !.suppressed = b], [world EXCEPT !.elected = b],
                                            [world EXCEPT !.stuck = b]}
    BY <1>0, <2>7 DEF Worlds
  <2> QED BY Zenon, <2>1, <2>2, <2>3, <2>4, <2>5, <2>6, <2>7 DEF WorldMoves
<1>2. PICK x \in Ages, y \in SUBSET CRPods :
        /\ record' = [record EXCEPT !.well = x, !.told = y]
        /\ x = IF "no" \in {world.answers, world'.answers} THEN 0 ELSE record.well
        /\ y = IF Cardinality(world'.masters) < 2 THEN {} ELSE record.told
  BY Zenon, <1>0 DEF WorldMoves, Records
<1> QED BY Zenon, <1>0, <1>1, <1>2 DEF Records

\* A pass leaves the copy it works on a status: patched, and its watchdog perhaps armed.
LEMMA PassTurn ==
  ASSUME StatusTypeOK, Pass
  PROVE  turn' \in Turns
<1>0. status \in Statuses /\ copy \in Statuses /\ world.gate \in {"open", "error", "paused"} /\ status' \in Statuses
  BY Zenon, StatusEffect DEF StatusTypeOK, Worlds, StatusNext
<1>1. ASSUME NEW v \in Statuses, NEW d PROVE Arm(v, d) \in Statuses
  BY Zenon, <1>1 DEF Arm, Statuses
<1>2. ASSUME NEW d, SuspendedPatched(copy, d) PROVE turn' \in Turns
  <2>1. Suspended(copy) \in {"none", "RolloutPending", "RolloutReplicas"}
    BY Zenon, <1>0 DEF Suspended, Statuses
  <2>2. [copy EXCEPT !.suspended = Suspended(copy)] \in Statuses
    BY Zenon, <1>0, <2>1 DEF Statuses
  <2>3. PICK v \in Statuses : turn' = [on |-> TRUE, gate |-> world.gate, v |-> Arm(v, d)]
    BY Zenon, <1>0, <1>2, <2>2 DEF SuspendedPatched
  <2> QED BY Zenon, <1>0, <1>1, <2>3 DEF Turns
<1>3. CASE turn' = [on |-> TRUE, gate |-> world.gate, v |-> copy]
  BY Zenon, <1>0, <1>3 DEF Turns
<1> QED BY Zenon, <1>2, <1>3 DEF Pass

\* Every action keeps the types.
LEMMA StatusTypes == StatusTypeOK /\ [StatusNext]_crVars => StatusTypeOK'
<1> SUFFICES ASSUME StatusTypeOK, [StatusNext]_crVars PROVE StatusTypeOK'
  OBVIOUS
<1> USE Windows
<1>0. /\ world \in Worlds /\ memo \in Memos /\ status \in Statuses /\ copy \in Statuses /\ turn \in Turns
      /\ rest \in Rests /\ record \in Records /\ troubles \in 0 .. MaxTroubles /\ misses \in 0 .. MaxMisses
  BY Zenon DEF StatusTypeOK
<1>1. status' \in Statuses
  BY Zenon, StatusEffect
<1>2. Ready \in Statuses
  <2>1. Healthy \in Worlds
    BY Zenon DEF Healthy, Worlds
  <2>2. EvaluateConditions(Observation(Healthy, FALSE, FALSE, FALSE, "none")) \in Conditions
    BY Zenon, <2>1, EvaluatedTypes
  <2> QED BY Zenon, <2>2 DEF Ready, Statuses
<1>3. Waiting \in Turns
  BY Zenon, <1>2 DEF Waiting, Turns
<1>4. [for |-> 0, due |-> 1] \in Rests /\ [for |-> 0, due |-> Baseline] \in Rests
  BY DEF Rests
<1>5. misses' \in 0 .. MaxMisses /\ troubles' \in 0 .. MaxTroubles
  <2>1. UNCHANGED misses \/ Miss
    BY Zenon DEF StatusNext, Pass, SuspendedPatched, updateStatus, Elapses, CacheCatchesUp, WorldMoves,
       Restarts, crVars
  <2>2. UNCHANGED troubles \/ Trouble
    BY Zenon DEF StatusNext, Pass, updateStatus, Elapses, CacheCatchesUp, WorldMoves, Restarts, crVars
  <2> QED BY <1>0, <2>1, <2>2 DEF Miss, Trouble
<1>6. CASE Pass
  <2>1. UNCHANGED <<world, copy, rest>>
    BY Zenon, <1>6 DEF Pass
  <2>2. memo' \in Memos /\ turn' \in Turns
    BY Zenon, <1>6, PassEffect, PassTurn
  <2>3. record' \in Records
    <3>1. CASE UNCHANGED record
      BY Zenon, <1>0, <3>1
    <3>2. CASE record' = [record EXCEPT !.answered = IF world.answers # "no" THEN 0 ELSE @,
                                        !.confirmed = IF memo'.dual = 0 THEN 0 ELSE @,
                                        !.told = IF memo'.edge # memo.edge THEN @ \cup memo'.edge ELSE @]
      <4>1. memo'.edge \subseteq CRPods /\ 0 \in Ages
        BY <2>2 DEF Memos, Ages
      <4> QED BY Zenon, <1>0, <3>2, <4>1 DEF Records
    <3> QED BY Zenon, <1>6, <3>1, <3>2, PassEffect
  <2> QED BY Zenon, <1>0, <1>1, <1>5, <2>1, <2>2, <2>3 DEF StatusTypeOK
<1>7. CASE updateStatus
  <2>1. UNCHANGED <<world, copy, record>> /\ turn' = Waiting /\ memo' = Expired(memo)
        /\ rest' \in {[for |-> 0, due |-> 1], [for |-> 0, due |-> Baseline]}
    BY Zenon, <1>7 DEF updateStatus
  <2>2. memo' \in Memos
    BY Zenon, <1>0, <2>1, ExpiredEffect
  <2> QED BY Zenon, <1>0, <1>1, <1>3, <1>4, <1>5, <2>1, <2>2 DEF StatusTypeOK
<1>8. CASE Elapses
  <2>1. UNCHANGED <<world, turn>> /\ rest' = [rest EXCEPT !.for = rest.for + 1] /\ rest.for < rest.due
    BY Zenon, <1>0, <1>8 DEF Elapses, Rests
  <2>2. rest' \in Rests
    BY <1>0, <2>1 DEF Rests
  <2>3. copy' = IF copy.watchdog = "armed" THEN [copy EXCEPT !.watchdog = "expired"] ELSE copy
    BY Zenon, <1>8 DEF Elapses
  <2>4. copy' \in Statuses
    BY Zenon, <1>0, <2>3 DEF Statuses
  <2> QED BY ZenonT(40), <1>0, <1>1, <1>5, <1>8, <2>1, <2>2, <2>4, ElapsedMemo, ElapsedRecord DEF StatusTypeOK
<1>9. CASE CacheCatchesUp
  BY Zenon, <1>0, <1>9 DEF CacheCatchesUp, StatusTypeOK
<1>10. CASE WorldMoves
  <2>1. UNCHANGED <<memo, status, copy, turn, rest>>
    BY Zenon, <1>10 DEF WorldMoves
  <2> QED BY Zenon, <1>0, <1>5, <1>10, <2>1, WorldEffect DEF StatusTypeOK
<1>11. CASE Restarts
  <2>1. UNCHANGED <<world, status>> /\ memo' = Untold /\ turn' = Waiting /\ copy' = status
        /\ rest' = [for |-> 0, due |-> 1] /\ record' = [record EXCEPT !.told = {}]
    BY Zenon, <1>11 DEF Restarts
  <2>2. Untold \in Memos
    BY Zenon DEF Untold, Memos, States
  <2>3. record' \in Records
    BY Zenon, <1>0, <2>1 DEF Records
  <2> QED BY Zenon, <1>0, <1>3, <1>4, <1>5, <2>1, <2>2, <2>3 DEF StatusTypeOK
<1>12. CASE UNCHANGED crVars
  BY Zenon, <1>0, <1>12 DEF crVars, StatusTypeOK
<1> QED BY Zenon, <1>6, <1>7, <1>8, <1>9, <1>10, <1>11, <1>12 DEF StatusNext

\* No action makes a run of failed probes longer than the silence it stands for.
LEMMA SilenceSteps == StatusInv /\ StatusTypeOK' /\ [StatusNext]_crVars => SilenceAsLong' /\ LastProbeTrue'
<1> SUFFICES ASSUME StatusInv, StatusTypeOK', [StatusNext]_crVars PROVE SilenceAsLong' /\ LastProbeTrue'
  OBVIOUS
<1>0. /\ StatusTypeOK /\ memo \in Memos /\ record \in Records /\ memo' \in Memos /\ record' \in Records
      /\ memo.since # Never => memo.since <= record.answered
      /\ world.answers = "no" => record.well = 0
      /\ memo.since # Never => memo.probed # Never /\ record.well <= memo.probed
  BY Zenon DEF StatusInv, StatusTypeOK, SilenceAsLong, LastProbeTrue
<1>1. /\ {memo.since, memo.probed, memo'.since, memo'.probed} \subseteq Ages \cup {Never}
      /\ {record.well, record.answered, record'.well, record'.answered} \subseteq Ages
  BY Zenon, <1>0 DEF Memos, Records
<1>2. /\ 0 \in Ages /\ Never \notin Ages /\ 0 # Never
      /\ \A a \in Ages \cup {Never} : a # Never => a \in Nat /\ 0 <= a
  BY Windows DEF Ages, Never
<1>3. SUFFICES /\ memo'.since # Never => memo'.since <= record'.answered
               /\ world'.answers = "no" => record'.well = 0
               /\ memo'.since # Never => memo'.probed # Never /\ record'.well <= memo'.probed
  BY Zenon DEF SilenceAsLong, LastProbeTrue
<1>4. CASE Pass
  <2>1. UNCHANGED world
    BY Zenon, <1>4 DEF Pass
  <2>2. CASE memo'.since = memo.since /\ memo'.probed = memo.probed /\ UNCHANGED record
    BY Zenon, <1>0, <2>1, <2>2
  <2>3. CASE /\ memo'.probed = 0
             /\ world.answers # "no" => memo'.since = Never
             /\ memo'.since # Never => memo'.since \in {0, memo.since}
             /\ record' = [record EXCEPT !.answered = IF world.answers # "no" THEN 0 ELSE @,
                                         !.confirmed = IF memo'.dual = 0 THEN 0 ELSE @,
                                         !.told = IF memo'.edge # memo.edge THEN @ \cup memo'.edge ELSE @]
    <3>1. record'.well = record.well /\ (world.answers = "no" => record'.answered = record.answered)
      BY Zenon, <1>0, <2>3 DEF Records
    <3> QED BY Zenon, <1>0, <1>1, <1>2, <2>1, <2>3, <3>1
  <2> QED BY Zenon, <1>0, <1>4, <2>2, <2>3, PassEffect
<1>5. CASE updateStatus
  <2>1. UNCHANGED <<world, record>> /\ memo' = Expired(memo)
    BY Zenon, <1>5 DEF updateStatus
  <2>2. memo'.since = memo.since /\ memo'.probed = memo.probed
    BY Zenon, <1>0, <2>1, ExpiredEffect
  <2> QED BY Zenon, <1>0, <2>1, <2>2
<1>6. CASE Elapses
  <2>1. UNCHANGED world
    BY Zenon, <1>6 DEF Elapses
  <2>2. /\ memo'.since = Older(memo.since) /\ memo'.probed = Older(memo.probed)
        /\ record'.answered = Older(record.answered)
        /\ record'.well = IF world.answers = "no" THEN 0 ELSE Older(record.well)
    BY Zenon, <1>0, <1>6, ElapsedMemo, ElapsedRecord
  <2>3. memo'.since # Never => memo.since # Never /\ memo'.probed # Never
    BY Zenon, <1>0, <1>1, <2>2, OlderAges
  <2>4. memo'.since # Never => memo'.since <= record'.answered
    BY <1>0, <1>1, <2>2, <2>3, OlderAges
  <2>5. memo'.since # Never => record'.well <= memo'.probed
    <3>1. memo.since # Never => Older(record.well) <= Older(memo.probed)
      BY Zenon, <1>0, <1>1, OlderAges
    <3>2. memo'.since # Never => 0 <= memo'.probed
      BY Zenon, <1>1, <1>2, <2>3
    <3>3. CASE world.answers = "no"
      BY Zenon, <2>2, <3>2, <3>3
    <3>4. CASE world.answers # "no"
      BY Zenon, <2>2, <2>3, <3>1, <3>4
    <3> QED BY Zenon, <3>3, <3>4
  <2> QED BY Zenon, <2>1, <2>2, <2>3, <2>4, <2>5
<1>7. CASE CacheCatchesUp \/ UNCHANGED crVars
  <2>1. UNCHANGED <<world, memo, record>>
    BY Zenon, <1>7 DEF CacheCatchesUp, crVars
  <2> QED BY Zenon, <1>0, <2>1
<1>8. CASE WorldMoves
  <2>1. UNCHANGED memo
    BY Zenon, <1>8 DEF WorldMoves
  <2>2. /\ record'.answered = record.answered
        /\ record'.well = IF "no" \in {world.answers, world'.answers} THEN 0 ELSE record.well
    BY Zenon, <1>0, <1>8, WorldEffect
  <2>3. memo.since # Never => 0 <= memo.probed
    BY Zenon, <1>0, <1>1, <1>2
  <2>4. record'.well = 0 \/ (record'.well = record.well /\ world'.answers # "no")
    BY Zenon, <2>2
  <2> QED BY Zenon, <1>0, <2>1, <2>2, <2>3, <2>4
<1>9. CASE Restarts
  <2>1. memo' = Untold /\ UNCHANGED world /\ record' = [record EXCEPT !.told = {}]
    BY Zenon, <1>9 DEF Restarts
  <2>2. memo'.since = Never /\ record'.well = record.well
    BY Zenon, <1>0, <2>1 DEF Untold, Records
  <2> QED BY Zenon, <1>0, <2>1, <2>2
<1> QED BY Zenon, <1>4, <1>5, <1>6, <1>7, <1>8, <1>9 DEF StatusNext

\* No action takes a pod out of the page's set while the split it told of goes on.
LEMMA PageSteps == StatusInv /\ StatusTypeOK' /\ [StatusNext]_crVars => PageCovers'
<1> SUFFICES ASSUME StatusInv, StatusTypeOK', [StatusNext]_crVars PROVE PageCovers'
  OBVIOUS
<1> USE Windows
<1>0. /\ StatusTypeOK /\ memo \in Memos /\ record \in Records /\ memo' \in Memos /\ record' \in Records
      /\ memo.edge = memo.union /\ record.told \subseteq memo.edge
      /\ record.told # {} => /\ Cardinality(world.masters) >= 2
                             /\ memo.dual = record.confirmed /\ record.confirmed <= Window
  BY Zenon DEF StatusInv, StatusTypeOK, PageCovers
<1>1. /\ memo.dual \in Ages \cup {Never} /\ memo'.dual \in Ages \cup {Never}
      /\ record.confirmed \in Ages /\ record'.confirmed \in Ages
  BY Zenon, <1>0 DEF Memos, Records
<1>2. /\ world.masters \subseteq CRPods /\ IsFiniteSet(world.masters) /\ Cardinality(world.masters) \in Nat
      /\ Cardinality(world'.masters) \in Nat
  <2>1. world.masters \subseteq CRPods /\ world'.masters \subseteq CRPods
    BY Zenon, <1>0 DEF StatusTypeOK, Worlds
  <2>2. IsFiniteSet(world.masters) /\ IsFiniteSet(world'.masters)
    BY Zenon, <2>1, StatusAssumption, FS_Subset
  <2> QED BY Zenon, <2>1, <2>2, FS_CardinalityType
<1>3. SUFFICES /\ memo'.edge = memo'.union /\ record'.told \subseteq memo'.edge
               /\ record'.told # {} => /\ Cardinality(world'.masters) >= 2
                                       /\ memo'.dual = record'.confirmed /\ record'.confirmed <= Window
  BY Zenon DEF PageCovers
<1>4. CASE Pass
  <2>1. UNCHANGED world
    BY Zenon, <1>4 DEF Pass
  <2>2. CASE /\ memo'.dual = memo.dual /\ memo'.union = memo.union /\ memo'.edge = memo.edge
             /\ UNCHANGED record
    BY Zenon, <1>0, <2>1, <2>2
  <2>3. CASE record' = [record EXCEPT !.answered = IF world.answers # "no" THEN 0 ELSE @,
                                      !.confirmed = IF memo'.dual = 0 THEN 0 ELSE @,
                                      !.told = IF memo'.edge # memo.edge THEN @ \cup memo'.edge ELSE @]
    <3>1. /\ record'.confirmed = IF memo'.dual = 0 THEN 0 ELSE record.confirmed
          /\ record'.told = IF memo'.edge # memo.edge THEN record.told \cup memo'.edge ELSE record.told
      BY Zenon, <1>0, <2>3 DEF Records
    <3>2. CASE memo'.dual = memo.dual /\ memo'.union = memo.union /\ memo'.edge = memo.edge
      BY Zenon, <1>0, <1>1, <2>1, <3>1, <3>2
    <3>3. CASE /\ Cardinality(world.masters) < 2
               /\ memo'.dual = Never /\ memo'.union = {} /\ memo'.edge = {}
      BY <1>0, <1>2, <3>1, <3>3
    <3>4. ASSUME NEW seen \in SUBSET world.masters, Cardinality(seen) >= 2, memo'.dual = 0,
                 \/ memo'.union = memo.union /\ memo'.edge = memo.edge
                 \/ memo'.union = memo.union \cup seen /\ memo'.edge = memo.union \cup seen
          PROVE  /\ memo'.edge = memo'.union /\ record'.told \subseteq memo'.edge
                 /\ record'.told # {} => /\ Cardinality(world'.masters) >= 2
                                         /\ memo'.dual = record'.confirmed /\ record'.confirmed <= Window
      <4>1. Cardinality(seen) <= Cardinality(world.masters) /\ Cardinality(seen) \in Nat
        BY Zenon, <1>2, FS_Subset, FS_CardinalityType
      <4>2. Cardinality(world'.masters) >= 2
        BY <1>2, <2>1, <3>4, <4>1
      <4>3. record'.confirmed = 0 /\ record'.confirmed <= Window
        BY <3>1, <3>4
      <4>4. memo'.edge = memo'.union /\ record'.told \subseteq memo'.edge
        BY Zenon, <1>0, <3>1, <3>4
      <4> QED BY Zenon, <3>4, <4>2, <4>3, <4>4
    <3> QED BY Zenon, <1>0, <1>4, <2>2, <3>2, <3>3, <3>4, PassEffect
  <2> QED BY Zenon, <1>0, <1>4, <2>2, <2>3, PassEffect
<1>5. CASE updateStatus
  <2>1. UNCHANGED <<world, record>> /\ memo' = Expired(memo)
    BY Zenon, <1>5 DEF updateStatus
  <2>2. CASE memo.dual \in 0 .. Window
    BY Zenon, <1>0, <2>1, <2>2, ExpiredEffect
  <2>3. CASE memo.dual \notin 0 .. Window
    <3>1. record.told = {}
      BY <1>0, <1>1, <2>3 DEF Ages
    <3> QED BY Zenon, <1>0, <2>1, <2>3, <3>1, ExpiredEffect
  <2> QED BY Zenon, <2>2, <2>3
<1>6. CASE Elapses
  <2>1. UNCHANGED world
    BY Zenon, <1>6 DEF Elapses
  <2>2. /\ memo'.dual = Older(memo.dual) /\ memo'.union = memo.union /\ memo'.edge = memo.edge
        /\ record'.confirmed = Older(record.confirmed)
        /\ record'.told = IF Older(record.confirmed) > Window THEN {} ELSE record.told
    BY Zenon, <1>0, <1>6, ElapsedMemo, ElapsedRecord
  <2>3. Older(record.confirmed) \in Nat
    BY <1>1, OlderAges DEF Ages
  <2> QED BY <1>0, <2>1, <2>2, <2>3
<1>7. CASE CacheCatchesUp \/ UNCHANGED crVars
  <2>1. UNCHANGED <<world, memo, record>>
    BY Zenon, <1>7 DEF CacheCatchesUp, crVars
  <2> QED BY Zenon, <1>0, <2>1
<1>8. CASE WorldMoves
  <2>1. UNCHANGED memo
    BY Zenon, <1>8 DEF WorldMoves
  <2>2. /\ record'.confirmed = record.confirmed
        /\ record'.told = IF Cardinality(world'.masters) < 2 THEN {} ELSE record.told
    BY Zenon, <1>0, <1>8, WorldEffect
  <2> QED BY <1>0, <1>2, <2>1, <2>2
<1>9. CASE Restarts
  <2>1. memo' = Untold /\ record' = [record EXCEPT !.told = {}]
    BY Zenon, <1>9 DEF Restarts
  <2>2. memo'.edge = {} /\ memo'.union = {} /\ record'.told = {}
    BY Zenon, <1>0, <2>1 DEF Untold, Records
  <2> QED BY Zenon, <2>2
<1> QED BY Zenon, <1>4, <1>5, <1>6, <1>7, <1>8, <1>9 DEF StatusNext

\* An operator that just started knows nothing, of a cluster that is well.
LEMMA StatusStarts == StatusInit => StatusInv
<1> SUFFICES ASSUME StatusInit PROVE StatusInv
  OBVIOUS
<1> USE Windows
<1>1. Healthy \in Worlds
  BY Zenon DEF Healthy, Worlds
<1>2. EvaluateConditions(Observation(Healthy, FALSE, FALSE, FALSE, "none")) \in Conditions
  BY Zenon, <1>1, EvaluatedTypes
<1>3. Ready \in Statuses
  BY Zenon, <1>2 DEF Ready, Statuses
<1>4. world \in Worlds /\ world.answers = "yes"
  <2>1. (CHOOSE p \in CRPods : TRUE) \in CRPods
    BY Zenon, StatusAssumption
  <2>2. world = [Healthy EXCEPT !.masters = {CHOOSE p \in CRPods : TRUE}]
    BY Zenon DEF StatusInit
  <2> HIDE DEF Healthy
  <2>3. Healthy.answers = "yes"
    BY Zenon DEF Healthy
  <2> QED BY Zenon, <1>1, <2>1, <2>2, <2>3 DEF Worlds
<1>5. memo \in Memos /\ memo.since = Never /\ memo.edge = {} /\ memo.union = {}
  BY Zenon DEF StatusInit, Untold, Memos, States
<1>6. record \in Records /\ record.told = {}
  BY DEF StatusInit, Records, Ages
<1>7. turn \in Turns /\ rest \in Rests
  BY <1>3 DEF StatusInit, Waiting, Turns, Rests
<1>8. status \in Statuses /\ copy \in Statuses /\ troubles \in 0 .. MaxTroubles /\ misses \in 0 .. MaxMisses
  BY <1>3 DEF StatusInit
<1>9. StatusTypeOK
  BY Zenon, <1>4, <1>5, <1>6, <1>7, <1>8 DEF StatusTypeOK
<1> QED BY Zenon, <1>4, <1>5, <1>6, <1>9 DEF StatusInv, SilenceAsLong, LastProbeTrue, PageCovers

\* The memory of the operator stands for what its probes and scans met: StatusInv always holds.
THEOREM StatusInvariant == StatusSpec => []StatusInv
<1>1. StatusInv /\ [StatusNext]_crVars => StatusInv'
  <2> SUFFICES ASSUME StatusInv, [StatusNext]_crVars PROVE StatusInv'
    OBVIOUS
  <2>1. StatusTypeOK'
    BY Zenon, StatusTypes DEF StatusInv
  <2> QED BY Zenon, <2>1, SilenceSteps, PageSteps DEF StatusInv
<1> QED BY <1>1, StatusStarts, PTL DEF StatusSpec

\* A MasterLost the operator reports is backed, for every down-after and freshness window: no
\* probe was answered for down-after, and the primary was mute within the window
\* (masterLostFromTimeout, observeMasterInfoTimeout).
THEOREM MasterLostIsBacked == StatusSpec => MasterLostBacked
<1>1. StatusInv /\ [StatusNext]_crVars
        => (status'.conds.ready = "MasterLost" /\ status.conds.ready # "MasterLost"
            => record.answered >= DownAfter /\ record.well <= Window)
  <2> SUFFICES ASSUME StatusInv, [StatusNext]_crVars,
                      status'.conds.ready = "MasterLost", status.conds.ready # "MasterLost"
               PROVE  record.answered >= DownAfter /\ record.well <= Window
    OBVIOUS
  <2>1. StatusTypeOK /\ memo \in Memos /\ record \in Records
    BY Zenon DEF StatusInv, StatusTypeOK
  <2>2. memo.since >= DownAfter /\ memo.probed \in 0 .. Window
    BY Zenon, <2>1, StatusEffect DEF masterLostFromTimeout, Fresh
  <2>3. /\ memo.since \in Ages \cup {Never} /\ record.answered \in Nat /\ record.well \in Nat
        /\ memo.probed \in Ages \cup {Never}
    BY <2>1, Windows DEF Memos, Records, Ages
  <2>4. memo.since # Never
    BY <2>2, <2>3, Windows DEF Never
  <2>5. memo.since <= record.answered /\ record.well <= memo.probed
    BY Zenon, <2>4 DEF StatusInv, SilenceAsLong, LastProbeTrue
  <2> QED BY <2>2, <2>3, <2>4, <2>5, Windows DEF Ages
<1>2. StatusInv /\ [StatusNext]_crVars
        => [status'.conds.ready = "MasterLost" /\ status.conds.ready # "MasterLost"
            => record.answered >= DownAfter /\ record.well <= Window]_crVars
  BY Zenon, <1>1
<1> QED BY <1>2, StatusInvariant, PTL DEF StatusSpec, MasterLostBacked

\* A split pages once and once more for each pod that joins it, for any number of pods: the
\* set of a new page holds a pod no page since the split began has told of
\* (foldDualMasterEventUnion, fireDualMasterObservedEdge).
THEOREM SplitIsPagedOnce == StatusSpec => SplitPagedOnce
<1>1. StatusInv /\ [StatusNext]_crVars
        => (memo'.edge \notin {memo.edge, {}} => ~(memo'.edge \subseteq record.told))
  <2> SUFFICES ASSUME StatusInv, [StatusNext]_crVars, memo'.edge \notin {memo.edge, {}}
               PROVE  ~(memo'.edge \subseteq record.told)
    OBVIOUS
  <2>1. StatusTypeOK /\ memo \in Memos /\ memo.edge = memo.union /\ record.told \subseteq memo.edge
    BY Zenon DEF StatusInv, StatusTypeOK, PageCovers
  <2>2. CASE Pass
    <3>1. PICK seen \in SUBSET world.masters : memo'.edge = memo.union \cup seen
      BY Zenon, <2>1, <2>2, PassEffect
    <3> QED BY Zenon, <2>1, <3>1
  <2>3. CASE updateStatus
    <3>1. memo' = Expired(memo)
      BY Zenon, <2>3 DEF updateStatus
    <3> QED BY Zenon, <2>1, <3>1, ExpiredEffect
  <2>4. CASE Elapses
    BY Zenon, <2>1, <2>4, ElapsedMemo
  <2>5. CASE CacheCatchesUp \/ WorldMoves \/ UNCHANGED crVars
    <3>1. UNCHANGED memo
      BY Zenon, <2>5 DEF CacheCatchesUp, WorldMoves, crVars
    <3> QED BY Zenon, <3>1
  <2>6. CASE Restarts
    BY Zenon, <2>6 DEF Restarts, Untold
  <2> QED BY Zenon, <2>2, <2>3, <2>4, <2>5, <2>6 DEF StatusNext
<1>2. StatusInv /\ [StatusNext]_crVars
        => [memo'.edge \notin {memo.edge, {}} => ~(memo'.edge \subseteq record.told)]_crVars
  BY Zenon, <1>1
<1> QED BY <1>2, StatusInvariant, PTL DEF StatusSpec, SplitPagedOnce
=============================================================================
