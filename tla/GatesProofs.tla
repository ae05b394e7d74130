---------------------------- MODULE GatesProofs -----------------------------
(***************************************************************************)
(* Proofs about ReadinessGates: GatesInv is kept by every action.  That the *)
(* escape spares the freshest replica and overlooks no master follows.     *)
(***************************************************************************)
EXTENDS ReadinessGates, TLAPS

LEMMA Ordinals ==
    /\ Nodes \subseteq Hosts /\ Hosts \subseteq Nat
    /\ \A n \in Nodes : n + Replicas \in Hosts /\ n + Replicas \notin Nodes
  BY GatesAssumption DEF Nodes, Hosts

\* A pod's replacement is a well-formed step of the cluster.
LEMMA RemovedTypes ==
    ASSUME GatesTypeOK, NEW n \in Nodes, Removed(n)
    PROVE  /\ up' \subseteq Nodes /\ points' \in [Nodes -> Hosts] /\ applied' \in [Nodes -> 0 .. MaxApplied]
           /\ ranked' \subseteq Nodes /\ label' \in [Nodes -> {"primary", "replica", "unset"}]
           /\ gate' \subseteq Nodes /\ monitored' \in Hosts
  <1>1. \A h \in Hosts : Gone(h, n) \in Hosts
    BY Zenon, Ordinals DEF Gone
  <1> QED
    BY Zenon, <1>1 DEF GatesTypeOK, Removed

LEMMA WalkForms ==
    /\ Resting \in Walks /\ NoOffsets \in [Nodes -> NotRead .. MaxApplied]
    /\ \A w \in Walks : Disarmed(w) \in Walks
  <1>1. NoOffsets \in [Nodes -> NotRead .. MaxApplied]
    BY GatesAssumption DEF NoOffsets, NotRead
  <1>2. Resting \in Walks
    BY Zenon, <1>1 DEF Resting, Walks
  <1>3. ASSUME NEW w \in Walks PROVE Disarmed(w) \in Walks
    BY Zenon, <1>1 DEF Walks, Disarmed
  <1> QED
    BY Zenon, <1>1, <1>2, <1>3

\* What a walk is after one reading.
LEMMA ClassifiedTypes ==
    ASSUME GatesTypeOK, NEW n \in Nodes, NEW w \in Walks, NEW answers \in BOOLEAN
    PROVE  Classified(n, w, answers) \in Walks
  <1> DEFINE v == IF n \in ranked THEN applied[n] ELSE Unranked
             e == IF n \in gate /\ label[n] = "replica" /\ Tracked(n, TRUE) = 2
                  THEN w.eligible \cup {n} ELSE w.eligible
  <1>1. v \in NotRead .. MaxApplied
    BY GatesAssumption DEF GatesTypeOK, NotRead, Unranked
  <1>2. [w.offsets EXCEPT ![n] = v] \in [Nodes -> NotRead .. MaxApplied]
    BY Zenon, <1>1 DEF Walks
  <1>3. e \in SUBSET Nodes /\ w.hosts \cup {points[n]} \in SUBSET Hosts
    BY ZenonT(40) DEF Walks, GatesTypeOK
  <1> HIDE DEF v, e
  <1>4. [w EXCEPT !.hosts = @ \cup {points[n]}, !.offsets[n] = v, !.eligible = e] \in Walks
    BY Zenon, <1>2, <1>3 DEF Walks
  <1>5. Classified(n, w, answers) = Disarmed(w)
          \/ Classified(n, w, answers) = [w EXCEPT !.hosts = @ \cup {points[n]}, !.offsets[n] = v, !.eligible = e]
    BY Zenon DEF Classified, v, e
  <1> QED
    BY Zenon, <1>4, <1>5, WalkForms

LEMMA WalkTypes == GatesTypeOK /\ [GatesNext]_gateVars => walk' \in Walks
  <1> SUFFICES ASSUME GatesTypeOK, [GatesNext]_gateVars PROVE walk' \in Walks
      OBVIOUS
  <1> USE GatesAssumption DEF GatesTypeOK, cluster, labels, memory, NotRead, Unranked
  <1>1. CASE Sweep
      BY Zenon, <1>1 DEF Sweep
  <1>2. CASE EscapeBegins
    <2>1. [Resting EXCEPT !.on = TRUE, !.todo = up, !.ips = up] \in Walks
      BY Zenon, WalkForms DEF Walks
    <2> QED
      BY Zenon, <1>2, <2>1, WalkForms DEF EscapeBegins
  <1>3. CASE EscapeEnds
      BY <1>3 DEF EscapeEnds, Resting, Walks, NoOffsets
  <1>4. CASE Restamp
      BY Zenon, <1>4 DEF Restamp
  <1>5. CASE AsksFailover
      BY Zenon, <1>5 DEF AsksFailover
  <1>6. CASE Landed
      BY Zenon, <1>6 DEF Landed
  <1>7. CASE Restarted
      BY <1>7 DEF Restarted, Resting, Walks, NoOffsets
  <1>8. CASE Dwells
      BY Zenon, <1>8 DEF Dwells
  <1>9. ASSUME NEW n \in Nodes, Read(n) PROVE walk' \in Walks
    <2>1. PICK heard \in BOOLEAN, still \in BOOLEAN :
             walk' = Classified(n, [walk EXCEPT !.todo = @ \ {n}], heard /\ still)
      BY Zenon, <1>9 DEF Read, Survey
    <2>2. [walk EXCEPT !.todo = @ \ {n}] \in Walks
      BY Zenon DEF Walks
    <2>3. (heard /\ still) \in BOOLEAN
      BY Zenon
    <2> QED
      BY Zenon, <2>1, <2>2, <2>3, ClassifiedTypes
  <1>10. ASSUME NEW n \in Nodes, Escape(n) PROVE walk' \in Walks
      BY <1>10 DEF Escape, Resting, Walks, NoOffsets
  <1>11. ASSUME NEW n \in Nodes, Promotion(n) PROVE walk' \in Walks
      BY Zenon, <1>11 DEF Promotion
  <1>12. ASSUME NEW n \in Nodes, Dies(n) PROVE walk' \in Walks
      BY Zenon, <1>12 DEF Dies, Walks
  <1>13. ASSUME NEW n \in Nodes, Boots(n) PROVE walk' \in Walks
      BY Zenon, <1>13 DEF Boots
  <1>14. ASSUME NEW n \in Nodes, Elects(n) PROVE walk' \in Walks
      BY Zenon, <1>14 DEF Elects
  <1>15. ASSUME NEW n \in Nodes, Follows(n) PROVE walk' \in Walks
      BY Zenon, <1>15 DEF Follows
  <1>16. CASE UNCHANGED gateVars
      BY Zenon, <1>16 DEF gateVars
  <1> QED
      BY Zenon, <1>1, <1>2, <1>3, <1>4, <1>5, <1>6, <1>7, <1>8, <1>9, <1>10, <1>11, <1>12, <1>13,
         <1>14, <1>15, <1>16 DEF GatesNext, GateSteps

LEMMA CooldownTypes == escaped \in BOOLEAN /\ [GatesNext]_gateVars => escaped' \in BOOLEAN
  <1> SUFFICES ASSUME escaped \in BOOLEAN, [GatesNext]_gateVars PROVE escaped' \in BOOLEAN
      OBVIOUS
  <1> USE DEF memory
  <1>1. CASE Sweep
      BY Zenon, <1>1 DEF Sweep
  <1>2. CASE EscapeBegins
      BY Zenon, <1>2 DEF EscapeBegins
  <1>3. CASE EscapeEnds
      BY Zenon, <1>3 DEF EscapeEnds
  <1>4. CASE Restamp
      BY Zenon, <1>4 DEF Restamp
  <1>5. CASE AsksFailover
      BY Zenon, <1>5 DEF AsksFailover
  <1>6. CASE Landed
      BY Zenon, <1>6 DEF Landed
  <1>7. CASE Restarted
      BY Zenon, <1>7 DEF Restarted
  <1>8. CASE Dwells
      BY Zenon, <1>8 DEF Dwells
  <1>9. ASSUME NEW n \in Nodes, Read(n) PROVE escaped' \in BOOLEAN
      BY Zenon, <1>9 DEF Read
  <1>10. ASSUME NEW n \in Nodes, Escape(n) PROVE escaped' \in BOOLEAN
      BY Zenon, <1>10 DEF Escape
  <1>11. ASSUME NEW n \in Nodes, Promotion(n) PROVE escaped' \in BOOLEAN
      BY Zenon, <1>11 DEF Promotion
  <1>12. ASSUME NEW n \in Nodes, Dies(n) PROVE escaped' \in BOOLEAN
      BY Zenon, <1>12 DEF Dies
  <1>13. ASSUME NEW n \in Nodes, Boots(n) PROVE escaped' \in BOOLEAN
      BY Zenon, <1>13 DEF Boots
  <1>14. ASSUME NEW n \in Nodes, Elects(n) PROVE escaped' \in BOOLEAN
      BY Zenon, <1>14 DEF Elects
  <1>15. ASSUME NEW n \in Nodes, Follows(n) PROVE escaped' \in BOOLEAN
      BY Zenon, <1>15 DEF Follows
  <1>16. CASE UNCHANGED gateVars
      BY Zenon, <1>16 DEF gateVars
  <1> QED
      BY Zenon, <1>1, <1>2, <1>3, <1>4, <1>5, <1>6, <1>7, <1>8, <1>9, <1>10, <1>11, <1>12, <1>13,
         <1>14, <1>15, <1>16 DEF GatesNext, GateSteps

LEMMA GatesTypes == GatesTypeOK /\ [GatesNext]_gateVars => GatesTypeOK'
  <1> SUFFICES ASSUME GatesTypeOK, walk' \in Walks, escaped' \in BOOLEAN, [GatesNext]_gateVars PROVE GatesTypeOK'
      BY Zenon, WalkTypes, CooldownTypes DEF GatesTypeOK
  <1> USE GatesAssumption, Ordinals DEF GatesTypeOK, cluster, labels, memory
  <1>1. CASE Sweep
    <2>1. Conditions({}) \subseteq Nodes /\ \A d : Conditions(d) \subseteq Nodes
      BY Zenon DEF Conditions, Dialled
    <2>2. \A n \in Nodes : \A a : Tracked(n, a) \in 0 .. 2
      BY DEF Tracked
    <2>3. ASSUME NEW deaf
          PROVE  [n \in Nodes |-> IF n \in Dialled THEN Tracked(n, n \notin deaf) ELSE falseFor[n]] \in [Nodes -> 0 .. 2]
      BY Zenon, <2>2
    <2>4. gateFaults' \in 0 .. MaxGateFaults /\ without' \in 0 .. 2
      BY <1>1 DEF Sweep, Mishap, Since
    <2>5. PICK deaf \in {{}} \cup {{n} : n \in Dialled} :
             \E overdue \in {Overdue(deaf)}, conditions \in {Conditions(deaf)} :
             \E tracker \in {[n \in Nodes |-> IF n \in Dialled THEN Tracked(n, n \notin deaf) ELSE falseFor[n]]} :
                \/ Stays /\ falseFor' = tracker /\ opened' \in {opened, conditions}
                \/ \E n \in overdue :
                      Removed(n) /\ falseFor' = [tracker EXCEPT ![n] = 0] /\ opened' = conditions \ {n}
      BY ZenonT(40), <1>1 DEF Sweep
    <2> DEFINE conditions == Conditions(deaf)
               tracker == [n \in Nodes |-> IF n \in Dialled THEN Tracked(n, n \notin deaf) ELSE falseFor[n]]
    <2>8. \/ Stays /\ falseFor' = tracker /\ opened' \in {opened, conditions}
          \/ \E n \in Overdue(deaf) :
                Removed(n) /\ falseFor' = [tracker EXCEPT ![n] = 0] /\ opened' = conditions \ {n}
      BY ZenonT(40), <2>5
    <2>9. tracker \in [Nodes -> 0 .. 2] /\ conditions \subseteq Nodes
      BY Zenon, <2>1, <2>3
    <2> HIDE DEF conditions, tracker
    <2>6. CASE Stays /\ falseFor' = tracker /\ opened' \in {opened, conditions}
      BY Zenon, <1>1, <2>4, <2>6, <2>9 DEF Stays, Sweep
    <2>7. ASSUME NEW n \in Overdue(deaf), Removed(n), falseFor' = [tracker EXCEPT ![n] = 0],
                 opened' = conditions \ {n}
          PROVE  GatesTypeOK'
      <3>1. n \in Nodes
        BY Zenon DEF Overdue, Dialled
      <3>2. falseFor' \in [Nodes -> 0 .. 2] /\ opened' \subseteq Nodes
        <4>1. [tracker EXCEPT ![n] = 0] \in [Nodes -> 0 .. 2]
          BY <2>9, <3>1
        <4> QED
          BY Zenon, <2>7, <2>9, <4>1
      <3> QED
        BY Zenon, <1>1, <2>4, <2>7, <3>1, <3>2, RemovedTypes DEF Sweep
    <2> QED
      BY Zenon, <2>6, <2>7, <2>8
  <1>2. CASE EscapeBegins
      BY <1>2 DEF EscapeBegins, Since
  <1>3. CASE EscapeEnds
      BY <1>3 DEF EscapeEnds, Stays, Mishap
  <1>4. CASE Restamp
    <2>1. label' \in [Nodes -> {"primary", "replica", "unset"}]
      BY Zenon, <1>4 DEF Restamp
    <2>2. gate' \subseteq Nodes /\ opened' \subseteq Nodes
      BY Zenon, <1>4 DEF Restamp, Regated
    <2>3. gateFaults' \in 0 .. MaxGateFaults
      BY <1>4 DEF Restamp, Mishap
    <2> QED
      BY Zenon, <1>4, <2>1, <2>2, <2>3 DEF Restamp
  <1>5. CASE AsksFailover
      BY <1>5 DEF AsksFailover, Mishap
  <1>6. CASE Landed
      BY Zenon, <1>6 DEF Landed
  <1>7. CASE Restarted
      BY <1>7 DEF Restarted, Mishap
  <1>8. CASE Dwells
      BY <1>8 DEF Dwells
  <1>9. ASSUME NEW n \in Nodes, Read(n) PROVE GatesTypeOK'
      BY <1>9 DEF Read, Stays, Tracked, Mishap
  <1>10. ASSUME NEW n \in Nodes, Escape(n) PROVE GatesTypeOK'
    <2>2. opened' = opened \ {n} /\ falseFor' = [falseFor EXCEPT ![n] = 0]
      BY Zenon, <1>10 DEF Escape
    <2>1. opened' \subseteq Nodes /\ falseFor' \in [Nodes -> 0 .. 2]
      BY <2>2
    <2> QED
      BY Zenon, <1>10, <2>1, RemovedTypes DEF Escape
  <1>11. ASSUME NEW n \in Nodes, Promotion(n) PROVE GatesTypeOK'
      BY Zenon, <1>11 DEF Promotion
  <1>12. ASSUME NEW n \in Nodes, Dies(n) PROVE GatesTypeOK'
    <2>1. opened' \subseteq Nodes /\ falseFor' \in [Nodes -> 0 .. 2] /\ gateFaults' \in 0 .. MaxGateFaults
      BY <1>12 DEF Dies, Mishap
    <2> QED
      BY Zenon, <1>12, <2>1, RemovedTypes DEF Dies
  <1>13. ASSUME NEW n \in Nodes, Boots(n) PROVE GatesTypeOK'
    <2>1. PICK s \in Seeds :
             IF s \in Masters THEN points' = [points EXCEPT ![n] = s] /\ Synced(n, s)
             ELSE points' = [points EXCEPT ![n] = IF n = 0 THEN n ELSE s] /\ UNCHANGED <<applied, ranked>>
      BY Zenon, <1>13 DEF Boots
    <2>2. s \in Hosts /\ (s \in Masters => s \in Nodes)
      BY Zenon DEF Seeds, Labelled, Masters
    <2>3. points' \in [Nodes -> Hosts]
      BY <2>1, <2>2
    <2>4. applied' \in [Nodes -> 0 .. MaxApplied] /\ ranked' \subseteq Nodes
      BY Zenon, <2>1, <2>2 DEF Synced
    <2> QED
      BY Zenon, <1>13, <2>3, <2>4 DEF Boots
  <1>14. ASSUME NEW n \in Nodes, Elects(n) PROVE GatesTypeOK'
      BY Zenon, <1>14 DEF Elects
  <1>15. ASSUME NEW n \in Nodes, Follows(n) PROVE GatesTypeOK'
    <2>1. monitored \in Nodes
      BY Zenon, <1>15 DEF Follows, Masters
    <2>2. applied' \in [Nodes -> 0 .. MaxApplied] /\ points' \in [Nodes -> Hosts]
      BY Zenon, <1>15, <2>1 DEF Follows, Synced
    <2> QED
      BY Zenon, <1>15, <2>2 DEF Follows, Synced
  <1>16. CASE UNCHANGED gateVars
      BY Zenon, <1>16 DEF gateVars
  <1> QED
      BY Zenon, <1>1, <1>2, <1>3, <1>4, <1>5, <1>6, <1>7, <1>8, <1>9, <1>10, <1>11, <1>12, <1>13,
         <1>14, <1>15, <1>16 DEF GatesNext, GateSteps

\* A replaced pod leaves the masters that are left as they are.
LEMMA RemovedEffect ==
    ASSUME GatesTypeOK, NEW n \in Nodes, Removed(n)
    PROVE  /\ up' = up \ {n} /\ applied' = applied /\ ranked' = ranked \ {n}
           /\ \A m \in Nodes : m # n => (points'[m] = m <=> points[m] = m)
           /\ Masters' = Masters \ {n}
           /\ monitored' \in Nodes => monitored' = monitored /\ monitored # n
           /\ monitored # n => monitored' = monitored
           /\ Labelled("primary")' \subseteq Labelled("primary")
  <1>1. /\ up' = up \ {n} /\ applied' = applied /\ ranked' = ranked \ {n}
        /\ points' = [m \in Nodes |-> Gone(points[m], n)] /\ monitored' = Gone(monitored, n)
        /\ label' = [label EXCEPT ![n] = "unset"]
    BY Zenon DEF Removed
  <1>2. \A m \in Nodes : m # n => (points'[m] = m <=> points[m] = m)
    BY <1>1, Ordinals DEF Gone
  <1>3. Masters' = Masters \ {n}
    BY Zenon, <1>1, <1>2 DEF Masters, GatesTypeOK
  <1>4. /\ monitored' \in Nodes => monitored' = monitored /\ monitored # n
        /\ monitored # n => monitored' = monitored
    BY Zenon, <1>1, Ordinals DEF Gone
  <1>5. Labelled("primary")' \subseteq Labelled("primary")
    BY Zenon, <1>1 DEF Labelled, GatesTypeOK
  <1> QED
    BY Zenon, <1>1, <1>2, <1>3, <1>4, <1>5

\* A reading that does not forbid the escape is one of a replica, which has not been replaced.
LEMMA ReadEffect ==
    ASSUME GatesTypeOK, NEW n \in Nodes, Read(n)
    PROVE  /\ walk'.on = walk.on
           /\ ~walk'.disarmed =>
                 /\ ~walk.disarmed /\ n \notin walk.replaced /\ points[n] # n
                 /\ walk'.todo = walk.todo \ {n} /\ walk'.ips = walk.ips /\ walk'.replaced = walk.replaced
                 /\ walk'.offsets = [walk.offsets EXCEPT ![n] = IF n \in ranked THEN applied[n] ELSE Unranked]
  <1>1. PICK heard \in BOOLEAN, rest \in {[walk EXCEPT !.todo = @ \ {n}]}, still \in {n \notin walk.replaced} :
           walk' = Classified(n, rest, heard /\ still)
    BY Zenon DEF Read, Survey
  <1>2. rest \in Walks
    BY <1>1 DEF GatesTypeOK, Walks
  <1>3. /\ rest.on = walk.on /\ rest.disarmed = walk.disarmed /\ rest.todo = walk.todo \ {n}
        /\ rest.ips = walk.ips /\ rest.replaced = walk.replaced /\ rest.offsets = walk.offsets
    BY Zenon, <1>1 DEF GatesTypeOK, Walks
  <1>4. CASE walk' = Disarmed(rest)
    <2>1. walk'.on = rest.on /\ walk'.disarmed
      BY Zenon, <1>2, <1>4 DEF Disarmed, Walks
    <2> QED
      BY Zenon, <1>3, <2>1
  <1>5. CASE /\ ~rest.disarmed /\ heard /\ still /\ points[n] # n
             /\ walk' = [rest EXCEPT !.hosts = @ \cup {points[n]},
                           !.offsets[n] = IF n \in ranked THEN applied[n] ELSE Unranked,
                           !.eligible = IF n \in gate /\ label[n] = "replica" /\ Tracked(n, TRUE) = 2
                                        THEN @ \cup {n} ELSE @]
    <2>1. /\ walk'.on = rest.on /\ walk'.todo = rest.todo /\ walk'.ips = rest.ips /\ walk'.replaced = rest.replaced
          /\ walk'.offsets = [rest.offsets EXCEPT ![n] = IF n \in ranked THEN applied[n] ELSE Unranked]
      BY Zenon, <1>2, <1>5 DEF Walks
    <2>2. n \notin walk.replaced
      BY Zenon, <1>1, <1>5
    <2> QED
      BY Zenon, <1>3, <1>5, <2>1, <2>2
  <1> QED
    BY Zenon, <1>1, <1>4, <1>5 DEF Classified

LEMMA MonitoredSteps == GatesInv /\ [GatesNext]_gateVars => MonitoredRuns' /\ Unlabelled'
  <1> SUFFICES ASSUME GatesInv, [GatesNext]_gateVars PROVE MonitoredRuns' /\ Unlabelled'
      OBVIOUS
  <1> USE GatesAssumption DEF GatesInv, GatesTypeOK, MonitoredRuns, Unlabelled, Masters, Labelled, cluster, labels, memory
  <1>1. CASE Sweep
    <2>1. ~walk.on /\ walk' = walk /\ (Stays \/ \E n \in Nodes : Removed(n))
      <3>1. \A d : Overdue(d) \subseteq Nodes
        BY Zenon DEF Overdue, Dialled
      <3> QED
        BY <1>1, <3>1 DEF Sweep
    <2>2. CASE Stays
      BY Zenon, <2>1, <2>2 DEF Stays
    <2>3. ASSUME NEW n \in Nodes, Removed(n) PROVE MonitoredRuns' /\ Unlabelled'
      <3> HIDE DEF Masters, Labelled
      <3> QED
        BY <2>1, <2>3, RemovedEffect
    <2> QED
      BY Zenon, <2>1, <2>2, <2>3
  <1>2. CASE EscapeBegins
      BY <1>2 DEF EscapeBegins, Armed, Since
  <1>3. CASE EscapeEnds
      BY Zenon, <1>3 DEF EscapeEnds, Stays, Resting
  <1>4. CASE Restamp
      BY Zenon, <1>4 DEF Restamp
  <1>5. CASE AsksFailover
      BY Zenon, <1>5 DEF AsksFailover
  <1>6. CASE Landed
      BY Zenon, <1>6 DEF Landed
  <1>7. CASE Restarted
      BY Zenon, <1>7 DEF Restarted, Resting
  <1>8. CASE Dwells
      BY Zenon, <1>8 DEF Dwells
  <1>9. ASSUME NEW n \in Nodes, Read(n) PROVE MonitoredRuns' /\ Unlabelled'
    <2>1. walk'.on = walk.on
      BY Zenon, <1>9, ReadEffect
    <2> QED
      BY Zenon, <1>9, <2>1 DEF Read, Stays
  <1>10. ASSUME NEW n \in Nodes, Escape(n) PROVE MonitoredRuns' /\ Unlabelled'
    <2>1. ~walk'.on
      BY Zenon, <1>10 DEF Escape, Resting
    <2> HIDE DEF Masters, Labelled
    <2> QED
      BY <1>10, <2>1, RemovedEffect DEF Escape
  <1>11. ASSUME NEW n \in Nodes, Promotion(n) PROVE MonitoredRuns' /\ Unlabelled'
      BY Zenon, <1>11 DEF Promotion
  <1>12. ASSUME NEW n \in Nodes, Dies(n) PROVE MonitoredRuns' /\ Unlabelled'
    <2>1. walk'.on = walk.on
      BY Zenon, <1>12 DEF Dies, Walks
    <2> HIDE DEF Masters, Labelled
    <2> QED
      BY <1>12, <2>1, RemovedEffect DEF Dies
  <1>13. ASSUME NEW n \in Nodes, Boots(n) PROVE MonitoredRuns' /\ Unlabelled'
      BY Zenon, <1>13 DEF Boots
  <1>14. ASSUME NEW n \in Nodes, Elects(n) PROVE MonitoredRuns' /\ Unlabelled'
      BY Zenon, <1>14 DEF Elects
  <1>15. ASSUME NEW n \in Nodes, Follows(n) PROVE MonitoredRuns' /\ Unlabelled'
      BY Zenon, <1>15 DEF Follows
  <1>16. CASE UNCHANGED gateVars
      BY Zenon, <1>16 DEF gateVars
  <1> QED
      BY Zenon, <1>1, <1>2, <1>3, <1>4, <1>5, <1>6, <1>7, <1>8, <1>9, <1>10, <1>11, <1>12, <1>13,
         <1>14, <1>15, <1>16 DEF GatesNext, GateSteps

\* A pod that is linked to the monitored master: either that one is still to be read, and its
\* reading will forbid the escape, or it shelters every listed pod.
LEMMA SyncIsSafe ==
    ASSUME GatesInv, Guarded, monitored \in Masters, NEW n \in Nodes \ {monitored}, walk' = walk,
           up \subseteq up', points' = [points EXCEPT ![n] = monitored], monitored' = monitored,
           applied' = [applied EXCEPT ![n] = applied[monitored]]
    PROVE  ElectedFresh' /\ (Sheltered' \/ Forbidden')
  <1> USE DEF GatesInv
  <1>1. monitored \in Nodes /\ monitored \in Masters' /\ applied'[monitored] = applied[monitored]
    BY Zenon DEF Masters, GatesTypeOK
  <1>2. Lasting' = Lasting /\ Lasting \subseteq up' /\ Lasting \subseteq Nodes
    BY Zenon DEF Lasting, ElectedFresh, GatesTypeOK, Walks
  <1>3. ASSUME monitored \notin walk.todo, NEW x \in Lasting
        PROVE  points'[x] = x \/ applied'[x] <= applied'[monitored]
    <2>1. CASE x = n
      BY <1>1, <1>2, <2>1 DEF GatesTypeOK
    <2>2. CASE x # n
      <3>1. points'[x] = points[x] /\ applied'[x] = applied[x]
        BY Zenon, <1>2, <2>2 DEF GatesTypeOK
      <3>2. points[x] = x \/ applied[x] <= applied[monitored]
        BY Zenon, <1>1, <1>3 DEF ElectedFresh
      <3> QED
        BY Zenon, <1>1, <3>1, <3>2
    <2> QED
      BY Zenon, <2>1, <2>2
  <1>4. ElectedFresh'
    BY Zenon, <1>1, <1>2, <1>3 DEF ElectedFresh
  <1>5. CASE monitored \in walk.todo
    BY Zenon, <1>4, <1>5 DEF Forbidden
  <1>6. CASE monitored \notin walk.todo
    <2>1. points'[monitored] = monitored
      BY Zenon, <1>1 DEF Masters
    <2>2. Sheltered'
      BY Zenon, <1>1, <1>2, <1>3, <1>6, <2>1 DEF Sheltered
    <2> QED
      BY Zenon, <1>4, <2>2
  <1> QED
    BY Zenon, <1>5, <1>6

LEMMA WalkKept ==
    ASSUME walk' = walk
    PROVE  Guarded' = Guarded /\ Lasting' = Lasting /\ Surveyed' = Surveyed /\ Ranking' = Ranking /\ Accounted' = Accounted
  BY Zenon DEF Guarded, Lasting, Surveyed, Ranking, Accounted

LEMMA FollowsSafe ==
    ASSUME GatesInv, NEW n \in Nodes, Follows(n), Guarded
    PROVE  ElectedFresh' /\ Accounted' /\ (ReadingsTrue' \/ Sheltered' \/ Forbidden')
  <1>1. Accounted'
    BY Zenon, WalkKept DEF GatesInv, Follows
  <1> QED
    BY Zenon, <1>1, SyncIsSafe DEF Follows, Synced

LEMMA BootsSafe ==
    ASSUME GatesInv, NEW n \in Nodes, Boots(n), Guarded
    PROVE  ElectedFresh' /\ Accounted' /\ (ReadingsTrue' \/ Sheltered' \/ Forbidden')
  <1> USE DEF GatesInv
  <1>1. Seeds = {monitored}
    BY Zenon DEF Seeds, Unlabelled, Guarded
  <1>2. /\ n \notin up /\ up' = up \cup {n} /\ walk' = walk /\ monitored' = monitored
        /\ IF monitored \in Masters THEN points' = [points EXCEPT ![n] = monitored] /\ Synced(n, monitored)
           ELSE points' = [points EXCEPT ![n] = IF n = 0 THEN n ELSE monitored] /\ UNCHANGED <<applied, ranked>>
    BY Zenon, <1>1 DEF Boots
  <1>3. Accounted' /\ Lasting' = Lasting /\ Ranking' = Ranking
    BY Zenon, <1>2, WalkKept
  <1>4. CASE monitored \in Masters
    <2>1. monitored # n
      BY Zenon, <1>2, <1>4 DEF Masters
    <2> QED
      BY Zenon, <1>2, <1>3, <1>4, <2>1, SyncIsSafe DEF Synced
  <1>5. CASE monitored \notin Masters
    <2>1. monitored' \notin Nodes /\ UNCHANGED <<applied, ranked>>
      BY Zenon, <1>2, <1>5 DEF MonitoredRuns
    <2>2. Lasting \subseteq up
      BY Zenon DEF ElectedFresh
    <2>3. \A x \in up : points'[x] = points[x]
      BY Zenon, <1>2, <1>5 DEF GatesTypeOK
    <2>4. ElectedFresh'
      BY Zenon, <1>2, <1>3, <2>1, <2>2 DEF ElectedFresh
    <2>5. ReadingsTrue => ReadingsTrue'
      BY Zenon, <1>2, <1>3, <2>1 DEF ReadingsTrue
    <2>6. Masters \subseteq Masters'
      BY Zenon, <1>2, <2>3 DEF Masters
    <2>7. Sheltered => Sheltered'
      BY Zenon, <1>2, <1>3, <2>1, <2>2, <2>3, <2>6 DEF Sheltered
    <2>8. Forbidden => Forbidden'
      BY Zenon, <1>2 DEF Forbidden
    <2> QED
      BY Zenon, <1>3, <2>4, <2>5, <2>7, <2>8
  <1> QED
    BY Zenon, <1>4, <1>5

LEMMA ElectsSafe ==
    ASSUME GatesInv, NEW n \in Nodes, Elects(n), Guarded
    PROVE  ElectedFresh' /\ Accounted' /\ (ReadingsTrue' \/ Sheltered' \/ Forbidden')
  <1> USE DEF GatesInv
  <1>1. /\ n \in up \ {monitored} /\ \A m \in up \ {monitored} : applied[m] <= applied[n]
        /\ points' = [points EXCEPT ![n] = n] /\ monitored' = n /\ UNCHANGED <<up, applied, ranked, walk>>
    BY Zenon DEF Elects
  <1>2. Accounted' /\ Lasting' = Lasting /\ Ranking' = Ranking /\ Lasting \subseteq up /\ up \subseteq Nodes
    BY Zenon, <1>1, WalkKept DEF ElectedFresh, GatesTypeOK
  <1>3. \A x \in Nodes : points[x] = x => points'[x] = x
    BY Zenon, <1>1 DEF GatesTypeOK
  <1>4. points'[n] = n /\ n \in Masters' /\ Masters \subseteq Masters'
    BY Zenon, <1>1, <1>2, <1>3 DEF Masters, GatesTypeOK
  <1>5. ASSUME NEW x \in Lasting PROVE points'[x] = x \/ applied'[x] <= applied'[n]
    <2>1. CASE x = monitored
      BY Zenon, <1>2, <1>3, <2>1 DEF MonitoredRuns, Masters
    <2>2. CASE x # monitored
      BY Zenon, <1>1, <1>2, <2>2
    <2> QED
      BY Zenon, <2>1, <2>2
  <1>6. ElectedFresh'
    BY Zenon, <1>1, <1>2, <1>5 DEF ElectedFresh
  <1>7. Sheltered'
    BY Zenon, <1>1, <1>2, <1>4, <1>5 DEF Sheltered
  <1> QED
    BY Zenon, <1>2, <1>6, <1>7

LEMMA DiesSafe ==
    ASSUME GatesInv, NEW n \in Nodes, Dies(n), Guarded
    PROVE  ElectedFresh' /\ Accounted' /\ (ReadingsTrue' \/ Sheltered' \/ Forbidden')
  <1> USE DEF GatesInv
  <1>1. walk' = [walk EXCEPT !.replaced = @ \cup {n}] /\ Removed(n)
    BY Zenon DEF Dies, Guarded
  <1>2. /\ walk'.replaced = walk.replaced \cup {n} /\ walk'.todo = walk.todo /\ walk'.ips = walk.ips
        /\ walk'.offsets = walk.offsets
    BY Zenon, <1>1 DEF GatesTypeOK, Walks
  <1>3. /\ up' = up \ {n} /\ applied' = applied /\ ranked' = ranked \ {n}
        /\ \A m \in Nodes : m # n => (points'[m] = m <=> points[m] = m)
        /\ Masters' = Masters \ {n}
        /\ monitored' \in Nodes => monitored' = monitored /\ monitored # n
        /\ monitored # n => monitored' = monitored
    BY Zenon, <1>1, RemovedEffect
  <1>4. /\ Lasting' = Lasting \ {n} /\ Lasting \subseteq up /\ up \subseteq Nodes /\ Ranking' = Ranking
    BY Zenon, <1>2 DEF Lasting, ElectedFresh, GatesTypeOK, Ranking, Surveyed
  <1>5. Accounted'
    BY Zenon, <1>2 DEF Accounted, Surveyed
  <1>6. ElectedFresh'
    BY Zenon, <1>2, <1>3, <1>4 DEF ElectedFresh
  <1>7. ReadingsTrue => ReadingsTrue'
    BY Zenon, <1>2, <1>3, <1>4 DEF ReadingsTrue
  <1>8. Sheltered => Sheltered'
    BY Zenon, <1>2, <1>3, <1>4 DEF Sheltered
  <1>9. Forbidden => Forbidden'
    BY Zenon, <1>2, <1>3 DEF Forbidden
  <1> QED
    BY Zenon, <1>5, <1>6, <1>7, <1>8, <1>9

LEMMA ReadSafe ==
    ASSUME GatesInv, NEW n \in Nodes, Read(n), Guarded'
    PROVE  ElectedFresh' /\ Accounted' /\ (ReadingsTrue' \/ Sheltered' \/ Forbidden')
  <1> USE DEF GatesInv
  <1>1. /\ Guarded /\ n \notin walk.replaced /\ points[n] # n
        /\ walk'.todo = walk.todo \ {n} /\ walk'.ips = walk.ips /\ walk'.replaced = walk.replaced
        /\ walk'.offsets = [walk.offsets EXCEPT ![n] = IF n \in ranked THEN applied[n] ELSE Unranked]
    BY Zenon, ReadEffect DEF Guarded
  <1>2. UNCHANGED <<up, points, applied, ranked, monitored>>
    BY Zenon DEF Read, Stays
  <1>3. Masters' = Masters /\ Lasting' = Lasting /\ Lasting \subseteq Nodes
    BY Zenon, <1>1, <1>2 DEF Masters, Lasting, GatesTypeOK, Walks
  <1>4. monitored # n
    BY Zenon, <1>1 DEF MonitoredRuns, Masters
  <1>5. \A m \in Nodes : walk'.offsets[m] = IF m # n THEN walk.offsets[m] ELSE IF n \in ranked THEN applied[n] ELSE Unranked
    BY Zenon, <1>1 DEF GatesTypeOK, Walks
  <1>6. applied[n] # NotRead /\ Unranked # NotRead
    BY GatesAssumption DEF GatesTypeOK, Unranked, NotRead
  <1>7. Surveyed' = Surveyed \cup {n}
    BY Zenon, <1>5, <1>6 DEF Surveyed
  <1>8. Accounted'
    BY Zenon, <1>1, <1>7 DEF Accounted, Read
  <1>9. ElectedFresh'
    BY Zenon, <1>1, <1>2, <1>3, <1>4 DEF ElectedFresh
  <1>10. ReadingsTrue => ReadingsTrue'
    BY Zenon, <1>1, <1>2, <1>5, <1>7 DEF ReadingsTrue, Ranking, Surveyed
  <1>11. Sheltered => Sheltered'
    BY Zenon, <1>1, <1>2, <1>3 DEF Sheltered
  <1>12. Forbidden => Forbidden'
    BY Zenon, <1>1, <1>2, <1>4 DEF Forbidden
  <1> QED
    BY Zenon, <1>1, <1>8, <1>9, <1>10, <1>11, <1>12

LEMMA BeginsSafe ==
    ASSUME GatesInv, EscapeBegins, Guarded'
    PROVE  ElectedFresh' /\ Accounted' /\ ReadingsTrue'
  <1> DEFINE begun == [Resting EXCEPT !.on = TRUE, !.todo = up, !.ips = up]
  <1>1. begun \in Walks /\ up \subseteq Nodes
    BY Zenon, WalkForms DEF Walks, GatesInv, GatesTypeOK
  <1>2. walk' = begun /\ up = Nodes /\ up' = up
    <2>1. Disarmed(begun).disarmed
      BY Zenon, <1>1 DEF Disarmed, Walks
    <2> HIDE DEF begun
    <2>2. walk' = IF up # Nodes THEN Disarmed(begun) ELSE begun
      BY Zenon DEF EscapeBegins, begun
    <2> QED
      BY Zenon, <2>1, <2>2 DEF Guarded, EscapeBegins, cluster
  <1>3. walk'.todo = up /\ walk'.ips = up /\ walk'.replaced = Resting.replaced /\ walk'.offsets = Resting.offsets
    BY Zenon, <1>2, WalkForms DEF Walks
  <1>4. walk'.replaced = {} /\ walk'.offsets = NoOffsets
    BY Zenon, <1>3 DEF Resting
  <1>5. Accounted'
    BY Zenon, <1>3, <1>4 DEF Accounted, Surveyed, NoOffsets
  <1>6. ElectedFresh'
    BY Zenon, <1>2, <1>3, <1>4 DEF ElectedFresh, Lasting
  <1>7. ReadingsTrue'
    BY Zenon, <1>4 DEF ReadingsTrue, Ranking, Surveyed, NoOffsets
  <1> QED
    BY Zenon, <1>5, <1>6, <1>7

LEMMA GatesSteps == GatesInv /\ [GatesNext]_gateVars => GatesInv'
  <1> SUFFICES ASSUME GatesInv, [GatesNext]_gateVars PROVE GatesInv'
    OBVIOUS
  <1> SUFFICES ASSUME Guarded'
               PROVE  ElectedFresh' /\ Accounted' /\ (ReadingsTrue' \/ Sheltered' \/ Forbidden')
    <2>1. GatesTypeOK' /\ MonitoredRuns' /\ Unlabelled'
      BY Zenon, GatesTypes, MonitoredSteps DEF GatesInv
    <2>2. ~Guarded' => ElectedFresh'
      BY Zenon DEF ElectedFresh
    <2> QED
      BY Zenon, <2>1, <2>2 DEF GatesInv
  <1>1. CASE EscapeBegins
    BY Zenon, <1>1, BeginsSafe
  <1>2. ASSUME NEW n \in Nodes, Read(n)
        PROVE  ElectedFresh' /\ Accounted' /\ (ReadingsTrue' \/ Sheltered' \/ Forbidden')
    BY Zenon, <1>2, ReadSafe
  <1>3. ASSUME NEW n \in Nodes, Dies(n)
        PROVE  ElectedFresh' /\ Accounted' /\ (ReadingsTrue' \/ Sheltered' \/ Forbidden')
    <2>1. Guarded
      <3>1. walk'.on = walk.on /\ walk'.disarmed = walk.disarmed
        BY Zenon, <1>3 DEF Dies, GatesInv, GatesTypeOK, Walks
      <3> QED
        BY Zenon, <3>1 DEF Guarded
    <2> QED
      BY Zenon, <1>3, <2>1, DiesSafe
  <1>4. ASSUME NEW n \in Nodes, Boots(n) \/ Elects(n) \/ Follows(n)
        PROVE  ElectedFresh' /\ Accounted' /\ (ReadingsTrue' \/ Sheltered' \/ Forbidden')
    <2>1. Guarded
      BY Zenon, <1>4, WalkKept DEF Boots, Elects, Follows
    <2> QED
      BY Zenon, <1>4, <2>1, BootsSafe, ElectsSafe, FollowsSafe
  <1>5. CASE Landed \/ UNCHANGED gateVars
    <2>1. UNCHANGED <<cluster, monitored, walk>>
      BY Zenon, <1>5 DEF Landed, gateVars
    <2> QED
      BY Zenon, <2>1 DEF GatesInv, Guarded, ElectedFresh, Accounted, ReadingsTrue, Sheltered,
         Forbidden, cluster,
                  Lasting, Ranking, Surveyed, Masters
  <1>6. ASSUME NEW n \in Nodes, Escape(n) PROVE FALSE
    BY Zenon, <1>6 DEF Escape, Resting, Guarded
  <1>7. ~(EscapeEnds \/ Restarted)
    BY DEF EscapeEnds, Restarted, Resting, Guarded
  <1>8. ~(Sweep \/ Restamp \/ AsksFailover \/ Dwells)
    BY Zenon DEF Sweep, Restamp, AsksFailover, Dwells, Guarded
  <1>9. ASSUME NEW n \in Nodes, Promotion(n) PROVE FALSE
    BY Zenon, <1>9 DEF Promotion, Guarded
  <1> QED
    BY Zenon, <1>1, <1>2, <1>3, <1>4, <1>5, <1>6, <1>7, <1>8, <1>9 DEF GatesNext, GateSteps

LEMMA GatesStart == GatesInit => GatesInv
  <1> SUFFICES ASSUME GatesInit PROVE GatesInv
    OBVIOUS
  <1>1. PICK m \in Nodes, asked \in BOOLEAN, replaced \in BOOLEAN :
           /\ replaced => asked
           /\ landing = IF asked THEN "asked" ELSE "no"
           /\ points = [n \in Nodes |-> IF replaced /\ n # m THEN m + Replicas ELSE m] /\ monitored = m
           /\ applied \in [Nodes -> 0 .. MaxApplied] /\ applied[m] = MaxApplied
           /\ label = [n \in Nodes |-> IF n # m THEN "replica" ELSE IF asked THEN "unset" ELSE "primary"]
           /\ gate = Nodes \ {m} /\ opened = Nodes \ {m}
    BY Zenon DEF GatesInit
  <1>2. /\ up = Nodes /\ ranked = Nodes /\ falseFor = [n \in Nodes |-> 0] /\ without = 0
        /\ walk = Resting /\ gateFaults = 0
    BY Zenon DEF GatesInit
  <1>3. escaped \in BOOLEAN
    BY Zenon DEF GatesInit
  <1>4. GatesTypeOK
    <2>1. points \in [Nodes -> Hosts] /\ monitored \in Hosts
      BY Zenon, <1>1, Ordinals
    <2>2. label \in [Nodes -> {"primary", "replica", "unset"}] /\ landing \in {"no", "asked", "late"}
      BY Zenon, <1>1
    <2> QED
      BY <1>1, <1>2, <1>3, <2>1, <2>2, WalkForms, GatesAssumption DEF GatesTypeOK
  <1>5. MonitoredRuns
    BY Zenon, <1>1, <1>2 DEF MonitoredRuns, Masters
  <1>6. ~walk.on
    BY Zenon, <1>2 DEF Resting
  <1> QED
    BY Zenon, <1>4, <1>5, <1>6 DEF GatesInv, Unlabelled, ElectedFresh, Guarded

\* Phase 8, the pods and the sentinels keep GatesInv.
THEOREM GatesInvariant == GatesSpec => []GatesInv
  BY GatesStart, GatesSteps, PTL DEF GatesSpec

\* A step that deletes n in an escape is Escape(n).
LEMMA EscapedMeans ==
    ASSUME GatesInv, GatesNext, NEW n \in Nodes, Escaped(n)
    PROVE  Escape(n)
  <1> USE DEF Escaped
  <1>1. ~(Sweep \/ EscapeBegins \/ EscapeEnds \/ Restamp \/ AsksFailover \/ Landed \/ Restarted \/ Dwells)
    BY Zenon DEF Sweep, EscapeBegins, EscapeEnds, Restamp, AsksFailover, Landed, Restarted, Dwells,
       Stays, cluster
  <1>2. ASSUME NEW m \in Nodes, Read(m) PROVE FALSE
    BY Zenon, <1>2 DEF Read, Stays
  <1>3. ASSUME NEW m \in Nodes, Promotion(m) \/ Boots(m) \/ Elects(m) \/ Follows(m) PROVE FALSE
    BY Zenon, <1>3 DEF Promotion, Boots, Elects, Follows
  <1>4. ASSUME NEW m \in Nodes, Dies(m) PROVE FALSE
    <2>1. walk'.on = walk.on
      BY Zenon, <1>4 DEF Dies, GatesInv, GatesTypeOK, Walks
    <2> QED
      BY Zenon, <2>1
  <1>5. PICK m \in Nodes : Escape(m)
    BY Zenon, <1>1, <1>2, <1>3, <1>4 DEF GatesNext, GateSteps
  <1>6. m = n
    BY Zenon, <1>5 DEF Escape, Removed
  <1> QED
    BY Zenon, <1>5, <1>6

\* maybeEscapeStaleReplica deletes no pod that is fresher than all that are left, for any
\* number of replicas and faults: the readings are still true, or a master that has run since
\* is at least as fresh.
THEOREM EscapeIsSparing == GatesSpec => EscapeSparesFreshest
  <1>1. ASSUME GatesInv, GatesNext, NEW n \in Nodes, Escaped(n), points[n] # n
        PROVE  \E m \in (ranked \cup Masters \cup walk.replaced) \ {n} : applied[m] >= applied[n]
    <2>1. walk.on /\ walk.todo = {} /\ Admits /\ n \in Victims \ walk.replaced
      BY Zenon, <1>1, EscapedMeans DEF Escape
    <2>2. Guarded /\ n \in Ranking /\ n \notin Candidate
      BY Zenon, <2>1 DEF Guarded, Admits, Victims
    <2>3. \A m \in Nodes : walk.offsets[m] \in Int /\ applied[m] \in Int
      BY <1>1 DEF GatesInv, GatesTypeOK, Walks, NotRead
    <2>4. ~Forbidden
      BY Zenon, <2>1 DEF Forbidden
    <2>5. CASE ReadingsTrue
      <3>1. PICK m \in Ranking \ {n} : ~Fresher(n, m)
        BY Zenon, <2>2 DEF Candidate
      <3>2. n \in Nodes /\ m \in Nodes
        BY Zenon, <3>1 DEF Ranking, Surveyed
      <3>3. walk.offsets[n] <= walk.offsets[m]
        BY <2>3, <3>1, <3>2 DEF Fresher
      <3> QED
        BY Zenon, <2>2, <2>5, <3>1, <3>3 DEF ReadingsTrue
    <2>6. CASE Sheltered
      <3>1. n \in Lasting
        <4>1. n \in walk.ips
          BY Zenon, <1>1, <2>1, <2>2 DEF GatesInv, Accounted, Ranking
        <4> QED
          BY Zenon, <2>1, <4>1 DEF Lasting
      <3> QED
        BY Zenon, <1>1, <2>3, <2>6, <3>1 DEF Sheltered
    <2> QED
      BY Zenon, <1>1, <2>2, <2>4, <2>5, <2>6 DEF GatesInv
  <1>2. GatesInv /\ [GatesNext]_gateVars
          => [\A n \in Nodes : Escaped(n) /\ points[n] # n
                 => \E m \in (ranked \cup Masters \cup walk.replaced) \ {n} : applied[m] >= applied[n]]_gateVars
    BY Zenon, <1>1
  <1> QED
    BY <1>2, GatesInvariant, PTL DEF GatesSpec, EscapeSparesFreshest

\* The escape has read every pod that was listed and lasts, for any number of replicas.
THEOREM EscapeOverlooksNoMaster == GatesSpec => NoMasterOverlooked
  <1>1. ASSUME GatesInv, GatesNext, NEW n \in Nodes, Escaped(n)
        PROVE  (Masters \cap walk.ips) \ walk.replaced \subseteq Surveyed
    <2>1. walk.todo = {} /\ Guarded
      BY Zenon, <1>1, EscapedMeans DEF Escape, Admits, Guarded
    <2> QED
      BY Zenon, <1>1, <2>1 DEF GatesInv, Accounted
  <1>2. GatesInv /\ [GatesNext]_gateVars
          => [\A n \in Nodes : Escaped(n)
                 => (Masters \cap walk.ips) \ walk.replaced \subseteq Surveyed]_gateVars
    BY Zenon, <1>1
  <1> QED
    BY <1>2, GatesInvariant, PTL DEF GatesSpec, NoMasterOverlooked
=============================================================================
