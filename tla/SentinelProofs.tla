--------------------------- MODULE SentinelProofs ---------------------------
(***************************************************************************)
(* Proofs about SentinelRoll and SentinelRecovery, for any sentinels, any  *)
(* quorum and any bounds.                                                  *)
(***************************************************************************)
EXTENDS SentinelRoll, SentinelRecovery, WellFoundedInduction, TLAPS

LEMMA Least ==
    ASSUME NEW T \in SUBSET Nat, T # {}
    PROVE  Min(T) \in T /\ \A y \in T : Min(T) <= y
  <1> DEFINE R == OpToRel(<, Nat)
  <1>1. \E x \in T : \A y \in T : ~(<<y, x>> \in R)
    BY Zenon, NatLessThanWellFounded, WFMin
  <1>2. \A x, y \in Nat : y < x => <<y, x>> \in R
    BY Zenon DEF OpToRel
  <1> HIDE DEF R
  <1>3. PICK x \in T : \A y \in T : ~(<<y, x>> \in R)
    BY Zenon, <1>1
  <1>4. \A y \in T : ~(y < x)
    BY Zenon, <1>2, <1>3
  <1>5. \A y \in T : x <= y
    BY <1>4
  <1> QED
    BY Zenon, <1>5 DEF Min

LEMMA Greatest ==
    ASSUME NEW T \in SUBSET Nat, T # {}, NEW b \in Nat, \A x \in T : x <= b
    PROVE  Max(T) \in T /\ \A y \in T : Max(T) >= y
  <1> DEFINE U == {b - x : x \in T}
  <1>1. U \in SUBSET Nat /\ U # {}
    <2>1. PICK x \in T : TRUE
      BY Zenon
    <2>2. b - x \in U
      BY Zenon, <2>1
    <2>3. \A y \in T : b - y \in Nat
      OBVIOUS
    <2> QED
      BY Zenon, <2>2, <2>3
  <1>2. PICK m \in U : \A u \in U : m <= u
    BY Zenon, <1>1, Least
  <1>3. PICK x \in T : m = b - x
    BY Zenon, <1>2
  <1>4. \A y \in T : x >= y
    BY <1>2, <1>3
  <1> QED
    BY Zenon, <1>4 DEF Max

LEMMA Floor ==
    ASSUME NEW n \in Nat
    PROVE  Max({n - 1, 0}) = IF n = 0 THEN 0 ELSE n - 1
  BY DEF Max

LEMMA Bounds ==
    /\ Ordinals \subseteq Nat /\ 0 \in Ordinals /\ NumSentinels - 1 \in Ordinals
    /\ \A i \in Nat : i \in Ordinals <=> i < NumSentinels
    /\ Revisions \subseteq Nat /\ RollQuorum \in Nat
  BY RollAssumption DEF Ordinals, Revisions

-----------------------------------------------------------------------------
(* The partition. *)

(* The partition lies at, or one below, the lowest pod rolled, or at the top; and one *)
(* below only when that pod has rejoined.                                             *)
LEMMA PartitionIs ==
    ASSUME RollTypeOK
    PROVE  /\ ComputePartition \in Ordinals
           /\ seen[1] # seen[2] /\ Rolled(seen[1]) # Ordinals =>
                 IF Rolled(seen[1]) = {} THEN ComputePartition = NumSentinels - 1
                 ELSE \E low \in Rolled(seen[1]) :
                         /\ \A y \in Rolled(seen[1]) : low <= y
                         /\ \/ ComputePartition = low
                            \/ /\ low > 0 /\ ComputePartition = low - 1
                               /\ RollQuorum <= 1 \/ Rejoined(low)
  <1> DEFINE T == Rolled(seen[1])
  <1>1. T \subseteq Ordinals /\ T \in SUBSET Nat
    BY Zenon, Bounds DEF Rolled
  <1>2. CASE seen[1] = seen[2] \/ T = Ordinals
    BY Zenon, <1>2, Bounds DEF ComputePartition
  <1>3. CASE ~(seen[1] = seen[2] \/ T = Ordinals) /\ T = {}
    BY Zenon, <1>3, Bounds DEF ComputePartition
  <1>4. CASE ~(seen[1] = seen[2] \/ T = Ordinals) /\ T # {}
    <2>1. Min(T) \in T /\ \A y \in T : Min(T) <= y
      BY Zenon, <1>1, <1>4, Least
    <2>2. PICK low \in T : low = Min(T)
      BY Zenon, <2>1
    <2>3. low \in Nat /\ low \in Ordinals /\ \A y \in T : low <= y
      BY Zenon, <1>1, <2>1, <2>2
    <2>4. ComputePartition = Advance(low)
      BY Zenon, <1>4, <2>2 DEF ComputePartition
    <2>5. Max({low - 1, 0}) = IF low = 0 THEN 0 ELSE low - 1
      BY Zenon, <2>3, Floor
    <2>6. \/ ComputePartition = low
          \/ /\ low > 0 /\ ComputePartition = low - 1
             /\ RollQuorum <= 1 \/ Rejoined(low)
      BY <2>3, <2>4, <2>5 DEF Advance
    <2>7. ComputePartition \in Ordinals
      BY <2>3, <2>6, RollAssumption DEF Ordinals
    <2> QED
      BY Zenon, <1>4, <2>3, <2>6, <2>7
  <1> QED
    BY Zenon, <1>2, <1>3, <1>4

-----------------------------------------------------------------------------
(* The invariant. *)

LEMMA RollInitial ==
    RollInit => RollInv
  <1> SUFFICES ASSUME RollInit PROVE RollInv
    OBVIOUS
  <1>1. busy \in BOOLEAN /\ pinned \in BOOLEAN /\ ~pinned
    BY Zenon DEF RollInit
  <1>2. RollTypeOK
    BY <1>1, RollAssumption DEF RollInit, RollTypeOK, Revisions
  <1> QED
    BY <1>1, <1>2 DEF RollInit, RollInv

LEMMA RollTypeStep ==
    ASSUME RollTypeOK, [RollNext]_rollVars
    PROVE  RollTypeOK'
  <1> USE DEF stsVars, statVars, podsVars, histVars
  <1>1. CASE ReconcileInfra
    <2>1. ComputePartition \in 0 .. NumSentinels
      BY PartitionIs, RollAssumption DEF Ordinals
    <2>2. pinned' \in BOOLEAN
      BY Zenon, <1>1 DEF ReconcileInfra
    <2>3. vouched' \subseteq Ordinals
      BY Zenon, <1>1 DEF ReconcileInfra, Rolled, RollTypeOK
    <2> QED
      BY Zenon, <1>1, <2>1, <2>2, <2>3 DEF ReconcileInfra, Applies, RollTypeOK
  <1>2. ASSUME NEW p \in {0, NumSentinels}, ReadFails(p) PROVE RollTypeOK'
    <2>1. pinned' \in BOOLEAN
      BY Zenon, <1>2 DEF ReadFails
    <2> QED
      BY <1>2, <2>1, RollAssumption DEF ReadFails, Applies, RollTypeOK, RollTrouble
  <1>3. CASE Window
    <2>1. busy' \in BOOLEAN
      BY Zenon, <1>3 DEF Window
    <2> QED
      BY <1>3, <2>1, RollAssumption DEF Window, RollTypeOK, RollTrouble
  <1>4. CASE EditTemplate
    BY <1>4, RollAssumption DEF EditTemplate, RollTypeOK, Revisions
  <1>5. CASE StatusUpdate
    BY Zenon, <1>5 DEF StatusUpdate, RollTypeOK
  <1>6. CASE StatusCached
    BY Zenon, <1>6 DEF StatusCached, RollTypeOK
  <1>7. ASSUME NEW i \in Ordinals, PodStep(i) PROVE RollTypeOK'
    BY ZenonT(40), <1>7 DEF PodStep, RollPod, PodComesUp, PodRejoins, RollTypeOK
  <1>8. CASE UNCHANGED rollVars
    BY Zenon, <1>8 DEF rollVars, RollTypeOK
  <1> QED
    BY Zenon, <1>1, <1>2, <1>3, <1>4, <1>5, <1>6, <1>7, <1>8 DEF RollNext

(* An apply moves the template to the revision the CR renders to; the partition is set  *)
(* for that revision only when the status cached is of it, and then the template was.   *)
LEMMA AppliesInv ==
    ASSUME RollInv, RollTypeOK', NEW p, Applies(p)
    PROVE  /\ seen'[1] <= update' /\ update' <= tmpl' /\ tmpl' <= want'
           /\ \A i \in Ordinals : podRev'[i] <= tmpl'
           /\ \A i, j \in Ordinals : i < j /\ podRev'[i] = tmpl' => podRev'[j] = tmpl'
           /\ tmpl # want => Rolled(want) = {}
           /\ Rolled(tmpl)' = Rolled(want)
  <1>1. /\ want \in Nat /\ tmpl \in Nat /\ update \in Nat /\ seen[1] \in Nat
        /\ \A i \in Ordinals : podRev[i] \in Nat
    BY Zenon, Bounds DEF RollInv, RollTypeOK
  <1> QED
    BY <1>1 DEF RollInv, Applies, Rolled, stsVars, statVars, podsVars

LEMMA ReconcileInv ==
    ASSUME RollInv, RollTypeOK', ReconcileInfra
    PROVE  RollInv'
  <1> DEFINE P == ComputePartition
  <1>0. RollTypeOK /\ Applies(P)
    BY Zenon DEF RollInv, ReconcileInfra
  <1>1. CASE seen[1] = want /\ seen[1] # seen[2]
    <2>1. /\ want \in Nat /\ tmpl \in Nat /\ update \in Nat /\ seen[1] \in Nat
          /\ podRev \in [Ordinals -> Revisions]
      BY Zenon, Bounds DEF RollInv, RollTypeOK
    <2>2. tmpl = want /\ tmpl' = tmpl /\ podRev' = podRev /\ part' = P /\ P \in Nat
      <3>1. seen[1] <= update /\ update <= tmpl /\ tmpl <= want
        BY Zenon DEF RollInv
      <3>2. tmpl = want
        BY <1>1, <2>1, <3>1
      <3>3. P \in Nat
        BY Zenon, <1>0, PartitionIs, Bounds
      <3> QED
        BY Zenon, <1>0, <3>2, <3>3 DEF Applies, podsVars
    <2>3. vouched' = vouched \cup {i \in Rolled(tmpl) : Rejoined(i)}
      BY Zenon, <1>1, <2>2 DEF ReconcileInfra
    <2>4. /\ vouched' \subseteq Rolled(tmpl) /\ Rolled(tmpl)' = Rolled(tmpl)
      BY Zenon, <2>2, <2>3 DEF RollInv, Rolled
    <2>5. \A j \in Ordinals : j > P => podRev[j] = tmpl
      <3>1. CASE Rolled(tmpl) = Ordinals
        BY Zenon, <3>1 DEF Rolled
      <3>2. CASE Rolled(tmpl) # Ordinals
        BY <1>0, <1>1, <2>1, <2>2, <3>2, PartitionIs, RollAssumption DEF RollInv, Rolled, Ordinals
      <3> QED
        BY Zenon, <3>1, <3>2
    <2>6. RollQuorum > 1 /\ P + 1 \in Ordinals /\ podRev[P] # tmpl => P + 1 \in vouched'
      <3>1. CASE Rolled(tmpl) = Ordinals
        BY Zenon, <1>0, <3>1, PartitionIs DEF Rolled
      <3>2. CASE Rolled(tmpl) # Ordinals
        BY <1>0, <1>1, <2>1, <2>2, <2>3, <3>2, PartitionIs, RollAssumption DEF RollInv, Rolled, Ordinals
      <3> QED
        BY Zenon, <3>1, <3>2
    <2> QED
      BY Zenon, <1>0, <2>2, <2>4, <2>5, <2>6, AppliesInv DEF RollInv
  <1>2. CASE ~(seen[1] = want /\ seen[1] # seen[2])
    <2>1. ~pinned' /\ vouched' = {}
      BY Zenon, <1>2 DEF ReconcileInfra
    <2> QED
      BY Zenon, <1>0, <2>1, AppliesInv DEF RollInv
  <1> QED
    BY Zenon, <1>1, <1>2

LEMMA RollStep ==
    ASSUME RollInv, [RollNext]_rollVars
    PROVE  RollInv'
  <1> USE DEF stsVars, statVars, podsVars, histVars
  <1>0. RollTypeOK /\ RollTypeOK'
    BY Zenon, RollTypeStep DEF RollInv
  <1>a. /\ want \in Nat /\ tmpl \in Nat /\ update \in Nat /\ seen[1] \in Nat /\ part \in Nat
        /\ podRev \in [Ordinals -> Revisions]
    <2>1. part \in Nat
      BY <1>0, RollAssumption DEF RollTypeOK
    <2> QED
      BY Zenon, <1>0, <2>1, Bounds DEF RollTypeOK
  <1>1. ASSUME NEW p \in {0, NumSentinels}, ReadFails(p) PROVE RollInv'
    <2>1. vouched' \subseteq Rolled(tmpl)' /\ Applies(p)
      BY Zenon, <1>1, AppliesInv, <1>0 DEF ReadFails, RollInv
    <2>2. pinned' => part' = NumSentinels
      BY Zenon, <1>1 DEF ReadFails, Applies
    <2>3. pinned' => \A j \in Ordinals : ~(j > part') /\ part' + 1 \notin Ordinals
      BY <2>2, RollAssumption DEF Ordinals
    <2> QED
      BY Zenon, <1>0, <2>1, <2>3, AppliesInv DEF RollInv
  <1>2. CASE Window
    BY Zenon, <1>0, <1>2 DEF Window, RollInv, Rolled
  <1>3. CASE EditTemplate
    BY <1>0, <1>a, <1>3 DEF EditTemplate, RollInv, Rolled
  <1>4. CASE StatusUpdate
    BY <1>0, <1>a, <1>4 DEF StatusUpdate, RollInv, Rolled
  <1>5. CASE StatusCached
    BY <1>0, <1>a, <1>5 DEF StatusCached, RollInv, Rolled
  <1>6. ASSUME NEW i \in Ordinals, RollPod(i) PROVE RollInv'
    <2>0. /\ UNCHANGED <<want, tmpl, part, update, cur, seen, vouched, pinned>>
          /\ podRev' = [podRev EXCEPT ![i] = tmpl]
          /\ i >= part /\ podRev[i] # tmpl /\ \A j \in Ordinals : j > i => podRev[j] = tmpl
      BY Zenon, <1>6 DEF RollPod
    <2>1. \A k, j \in Ordinals : k < j /\ podRev'[k] = tmpl => podRev'[j] = tmpl
      BY Zenon, <1>a, <2>0, Bounds DEF RollInv
    <2>2. \A j \in Ordinals : podRev[j] = tmpl => podRev'[j] = tmpl
      BY Zenon, <1>a, <2>0
    <2>3. vouched' \subseteq Rolled(tmpl)'
      BY Zenon, <2>0, <2>2 DEF RollInv, Rolled
    <2>4. ASSUME pinned PROVE i = part
      BY <1>a, <2>0, <2>4, Bounds DEF RollInv
    <2>5. \A j \in Ordinals : podRev'[j] <= tmpl
      BY <1>a, <2>0 DEF RollInv
    <2> QED
      BY Zenon, <1>0, <1>a, <2>0, <2>1, <2>2, <2>3, <2>4, <2>5 DEF RollInv
  <1>7. ASSUME NEW i \in Ordinals, PodComesUp(i) \/ PodRejoins(i) PROVE RollInv'
    BY <1>0, <1>7 DEF PodComesUp, PodRejoins, RollInv, Rolled
  <1>8. CASE UNCHANGED rollVars
    BY Zenon, <1>0, <1>8 DEF rollVars, RollInv, Rolled
  <1> QED
    BY Zenon, <1>0, <1>1, <1>2, <1>3, <1>4, <1>5, <1>6, <1>7, <1>8, ReconcileInv DEF RollNext, PodStep

-----------------------------------------------------------------------------
(* The theorem. *)

\* For any number of sentinels, once the partition was set for the revision that rolls, the
\* StatefulSet controller replaces a pod only after the operator saw the one replaced last
\* back with its peers (computeSentinelRollPartition, sentinelPodRejoined).
THEOREM RollIsGated ==
    RollSpec => RollGated
  <1> DEFINE A == \A i \in Ordinals :
                     pinned /\ podRev'[i] # podRev[i] /\ Rolled(tmpl) # {} /\ RollQuorum > 1
                         => Min(Rolled(tmpl)) \in vouched
  <1>1. ASSUME RollInv, [RollNext]_rollVars PROVE A
    <2>1. ASSUME NEW i \in Ordinals, RollPod(i), pinned, Rolled(tmpl) # {}, RollQuorum > 1
          PROVE  Min(Rolled(tmpl)) \in vouched
      <3>1. Rolled(tmpl) \in SUBSET Nat
        BY Zenon, Bounds DEF Rolled
      <3>2. PICK low \in Rolled(tmpl) : low = Min(Rolled(tmpl)) /\ \A y \in Rolled(tmpl) : low <= y
        BY Zenon, <2>1, <3>1, Least
      <3>3. part \in Nat /\ i \in Nat /\ low \in Nat /\ low \in Ordinals /\ podRev[low] = tmpl
        BY <1>1, <3>1, Bounds, RollAssumption DEF RollInv, RollTypeOK, Rolled
      <3>4. i = part /\ podRev[i] # tmpl
        BY <1>1, <2>1, <3>3, Bounds DEF RollInv, RollPod
      <3>5. low > i
        BY <1>1, <3>3, <3>4 DEF RollInv
      <3>6. part + 1 \in Ordinals
        BY <3>3, <3>4, <3>5, RollAssumption DEF Ordinals
      <3>7. part + 1 \in vouched /\ part + 1 \in Rolled(tmpl)
        BY Zenon, <1>1, <2>1, <3>4, <3>6 DEF RollInv
      <3> QED
        BY <3>2, <3>3, <3>4, <3>5, <3>7
    <2>2. (\E i \in Ordinals : RollPod(i)) \/ UNCHANGED podRev
      BY Zenon, <1>1 DEF RollNext, ReconcileInfra, ReadFails, Applies, Window, EditTemplate, StatusUpdate,
         StatusCached, PodStep, PodComesUp, PodRejoins, rollVars, podsVars
    <2> QED
      BY Zenon, <2>1, <2>2
  <1>2. [RollNext]_rollVars /\ RollInv => [A]_rollVars
    BY Zenon, <1>1
  <1> QED
    BY <1>2, RollInitial, RollStep, PTL DEF RollSpec, RollGated

-----------------------------------------------------------------------------
(* Surgery: the epochs. *)

LEMMA Entries ==
    ASSUME RecoveryTypeOK, NEW s \in Sentinels
    PROVE  /\ entry[s] \in Entry /\ entry[s].epoch \in Nat /\ entry[s].epoch <= MaxEpoch
           /\ NoEntry \in Entry /\ NoEntry.epoch = 0
  BY RecoveryAssumption DEF RecoveryTypeOK, Entry, NoEntry

LEMMA MaxOverIs ==
    ASSUME RecoveryTypeOK, NEW S \in SUBSET Sentinels
    PROVE  /\ MaxOver(S) \in 0 .. MaxEpoch
           /\ \A s \in S : entry[s].epoch <= MaxOver(S)
           /\ S # {} => \E s \in S : entry[s].epoch = MaxOver(S)
  <1> DEFINE T == {entry[s].epoch : s \in S}
  <1>1. T \in SUBSET Nat /\ MaxEpoch \in Nat /\ \A x \in T : x <= MaxEpoch
    BY Zenon, Entries, RecoveryAssumption
  <1>2. CASE S = {}
    BY <1>1, <1>2 DEF MaxOver
  <1>3. CASE S # {}
    <2>1. MaxOver(S) = Max(T)
      BY Zenon, <1>3 DEF MaxOver
    <2>2. Max(T) \in T /\ \A y \in T : Max(T) >= y
      BY Zenon, <1>1, <1>3, Greatest
    <2> QED
      BY <1>1, <1>3, <2>1, <2>2
  <1> QED
    BY Zenon, <1>2, <1>3

-----------------------------------------------------------------------------
(* Surgery: types. *)

LEMMA IdleIs ==
    Idle \in PassState /\ Idle.ghost = {} /\ Idle.wipe = {} /\ Idle.at = "idle"
  BY RecoveryAssumption DEF Idle, PassState

LEMMA PassFields ==
    ASSUME RecoveryTypeOK, NEW p \in Passes
    PROVE  /\ pass[p].wipe \subseteq Sentinels /\ pass[p].stale \subseteq Sentinels
           /\ pass[p].ghost \subseteq Sentinels /\ pass[p].ip \in Addresses \cup {NoAddr}
           /\ pass[p].holders \subseteq Sentinels /\ pass[p].spare \subseteq Sentinels
  BY Zenon DEF RecoveryTypeOK, PassState

LEMMA AttachedType ==
    ASSUME RecoveryTypeOK, NEW a \in Addresses \cup {NoAddr}, NEW e \in 0 .. MaxEpoch,
           NEW p \in {"none", "live", "ghost"}
    PROVE  Attached(a, e, p) \in Entry
  BY Zenon DEF Attached, Entry, RecoveryTypeOK

LEMMA EndsType ==
    ASSUME RecoveryTypeOK, NEW p \in Passes, Ends(p)
    PROVE  pass' \in [Passes -> PassState] /\ \A q \in Passes : \A g, h \in pass'[q].ghost : g = h
  BY IdleIs DEF Ends, RecoveryTypeOK

LEMMA PeersState ==
    ASSUME NEW ip \in Addresses, NEW w \in SUBSET Sentinels, NEW sp \in SUBSET Sentinels,
           NEW q \in BOOLEAN, NEW h \in SUBSET Sentinels
    PROVE  /\ [Idle EXCEPT !.at = "peers", !.ip = ip, !.wipe = w, !.spare = sp, !.quorate = q,
                                !.holders = h] \in PassState
           /\ [Idle EXCEPT !.at = "peers", !.ip = ip, !.wipe = w, !.spare = sp, !.quorate = q,
                                !.holders = h].ghost = {}
  <1>1. ASSUME NEW r \in PassState
        PROVE  [r EXCEPT !.at = "peers", !.ip = ip, !.wipe = w, !.spare = sp, !.quorate = q,
                                !.holders = h] \in PassState
    BY Zenon DEF PassState
  <1> QED
    BY Zenon, <1>1, IdleIs DEF Idle

LEMMA LoopReadsType ==
    ASSUME RecoveryTypeOK, LoopReadsPeers
    PROVE  RecoveryTypeOK'
  <1>1. PICK ip \in ObservedMasters : pass' = [pass EXCEPT !["loop"] =
                      [Idle EXCEPT !.at = "peers", !.ip = ip,
                                   !.wipe = Stranded("loop"),
                                   !.spare = Answers \ Stranded("loop"),
                                   !.quorate = QuorumReachable("loop"),
                                   !.holders = GhostHolders]]
    BY Zenon DEF LoopReadsPeers
  <1>2. /\ Stranded("loop") \subseteq Sentinels /\ GhostHolders \subseteq Sentinels
        /\ Answers \ Stranded("loop") \subseteq Sentinels
    BY Zenon DEF Stranded, Reached, GhostHolders, Answers
  <1>3. QuorumReachable("loop") \in BOOLEAN
    BY DEF QuorumReachable
  <1>4. ip \in Addresses
    BY Zenon DEF RecoveryTypeOK, ObservedMasters
  <1>5. [Idle EXCEPT !.at = "peers", !.ip = ip, !.wipe = Stranded("loop"),
                     !.spare = Answers \ Stranded("loop"),
                     !.quorate = QuorumReachable("loop"), !.holders = GhostHolders] \in PassState
    BY Zenon, <1>2, <1>3, <1>4, PeersState
  <1>6. pass' \in [Passes -> PassState] /\ \A q \in Passes : \A g, h \in pass'[q].ghost : g = h
    BY Zenon, <1>1, <1>5 DEF RecoveryTypeOK, Idle, Passes
  <1> QED
    BY Zenon, <1>6 DEF LoopReadsPeers, Reading, RecoveryTypeOK, worldVars

LEMMA GatesState ==
    ASSUME NEW ip \in Addresses \cup {NoAddr}, NEW w \in SUBSET Sentinels, NEW st \in SUBSET Sentinels,
           NEW co \in SUBSET Sentinels, NEW ag \in 0 .. MaxEpoch, NEW gh \in SUBSET Sentinels,
           NEW sp \in SUBSET Sentinels
    PROVE  [Idle EXCEPT !.at = "gates", !.ip = ip, !.wipe = w, !.stale = st, !.cohort = co,
                        !.agree = ag, !.ghost = gh, !.spare = sp] \in PassState
  <1>1. ASSUME NEW r \in PassState
        PROVE  [r EXCEPT !.at = "gates", !.ip = ip, !.wipe = w, !.stale = st, !.cohort = co,
                         !.agree = ag, !.ghost = gh, !.spare = sp] \in PassState
    BY ZenonT(40) DEF PassState
  <1> QED
    BY Zenon, <1>1, IdleIs

LEMMA SurgeryStates ==
    ASSUME NEW ip \in Addresses \cup {NoAddr}, NEW w \in SUBSET Sentinels
    PROVE  /\ \A gh \in SUBSET Sentinels :
                 [Idle EXCEPT !.at = "remove", !.ip = ip, !.wipe = w, !.ghost = gh] \in PassState
           /\ [Idle EXCEPT !.at = "remove", !.ip = ip, !.wipe = w] \in PassState
           /\ [Idle EXCEPT !.at = "monitor", !.wipe = w, !.ip = ip] \in PassState
           /\ [Idle EXCEPT !.at = "boot"] \in PassState
  <1>1. ASSUME NEW r \in PassState
        PROVE  /\ \A gh \in SUBSET Sentinels :
                     [r EXCEPT !.at = "remove", !.ip = ip, !.wipe = w, !.ghost = gh] \in PassState
               /\ [r EXCEPT !.at = "remove", !.ip = ip, !.wipe = w] \in PassState
               /\ [r EXCEPT !.at = "monitor", !.wipe = w, !.ip = ip] \in PassState
               /\ [r EXCEPT !.at = "boot"] \in PassState
    BY Zenon DEF PassState
  <1> QED
    BY Zenon, <1>1, IdleIs

(* What the selection adds to the stranded sentinels: corpses and older entries. *)
LEMMA LoopSelectsIs ==
    ASSUME RecoveryTypeOK, LoopSelects
    PROVE  \/ Ends("loop") /\ changed' = {}
           \/ /\ changed' = changed
              /\ \E r \in PassState :
                    /\ pass' = [pass EXCEPT !["loop"] = r]
                    /\ r.at = "gates" /\ \A g, h \in r.ghost : g = h
                    /\ r.wipe \subseteq pass["loop"].wipe \cup DeadMaster(pass["loop"].ip)
                                           \cup StaleEpoch(pass["loop"].ip)
  <1> DEFINE l     == pass["loop"]
             dead  == IF RepointArmed THEN DeadMaster(l.ip) \ l.wipe ELSE {}
             stale == IF RepointArmed /\ ReapAllowed THEN StaleEpoch(l.ip) \ l.wipe ELSE {}
             wipe  == l.wipe \cup dead \cup stale
             reap  == IF ReapAllowed THEN Debounced(l.holders) ELSE {}
             co    == IF stale = {} THEN {} ELSE OnAddr(Answers, l.ip)
             ag    == IF stale = {} THEN 0 ELSE MaxOver(OnAddr(Answers, l.ip))
             R(gh) == [Idle EXCEPT !.at = "gates", !.ip = l.ip, !.wipe = wipe, !.stale = stale,
                                   !.cohort = co, !.agree = ag, !.ghost = gh,
                                   !.spare = l.spare \ (wipe \cup gh)]
  <1>1. PICK g \in {{h} : h \in reap} \cup (IF reap = {} THEN {{}} ELSE {}) :
             \/ Ends("loop") /\ changed' = {}
             \/ pass' = [pass EXCEPT !["loop"] = R(g \ wipe)] /\ UNCHANGED changed
    BY Zenon DEF LoopSelects
  <1>2. /\ l.wipe \subseteq Sentinels /\ l.holders \subseteq Sentinels
        /\ l.spare \subseteq Sentinels /\ l.ip \in Addresses \cup {NoAddr}
    BY Zenon, PassFields DEF Passes
  <1>3. dead \subseteq Sentinels /\ stale \subseteq Sentinels /\ reap \subseteq Sentinels
    BY Zenon, <1>2 DEF DeadMaster, StaleEpoch, Answers, Debounced
  <1>4. OnAddr(Answers, l.ip) \in SUBSET Sentinels
    BY Zenon DEF OnAddr, Answers
  <1>5. co \in SUBSET Sentinels /\ ag \in 0 .. MaxEpoch
    BY <1>4, MaxOverIs, RecoveryAssumption
  <1>6. g \ wipe \in SUBSET Sentinels /\ \A a, b \in g \ wipe : a = b
    BY Zenon, <1>3
  <1>7. l.spare \ (wipe \cup (g \ wipe)) \in SUBSET Sentinels
    BY Zenon, <1>2
  <1>8. wipe \in SUBSET Sentinels /\ stale \in SUBSET Sentinels
    BY Zenon, <1>2, <1>3
  <1> HIDE DEF wipe, stale, co, ag
  <1>9. R(g \ wipe) \in PassState /\ R(g \ wipe).at = "gates" /\ R(g \ wipe).ghost = g \ wipe /\ R(g \ wipe).wipe = wipe
    <2>1. R(g \ wipe) \in PassState
      BY ZenonT(40), <1>2, <1>5, <1>6, <1>7, <1>8, GatesState
    <2>2. R(g \ wipe).at = "gates" /\ R(g \ wipe).ghost = g \ wipe /\ R(g \ wipe).wipe = wipe
      BY Zenon DEF Idle
    <2> QED
      BY Zenon, <2>1, <2>2
  <1>10. wipe \subseteq l.wipe \cup DeadMaster(l.ip) \cup StaleEpoch(l.ip)
    BY Zenon DEF wipe, stale
  <1> QED
    BY ZenonT(40), <1>1, <1>6, <1>9, <1>10

-----------------------------------------------------------------------------
(* Surgery: the invariant. *)

LEMMA SpentKept ==
    ASSUME RecoveryTypeOK, RecoveryTypeOK', NEW s \in Sentinels, Spent(s), entry'[s] = entry[s],
           Doomed(s) => Doomed(s)',
           \A t \in Sentinels : entry[t].epoch > entry[s].epoch => entry'[t].epoch >= entry[t].epoch
    PROVE  Spent(s)'
  <1>1. \A t \in Sentinels : entry[t].epoch \in Nat
    BY Zenon, Entries
  <1>2. \A t \in Sentinels : entry'[t].epoch \in Nat
    BY RecoveryAssumption DEF RecoveryTypeOK, Entry
  <1> QED
    BY <1>1, <1>2 DEF Spent, Gossips

LEMMA DoomedKept ==
    ASSUME NEW s \in Sentinels, entry'[s] = entry[s], Doomed(s),
           live' \cap entry[s].table \subseteq live
    PROVE  Doomed(s)'
  BY Zenon DEF Doomed

(* A sentinel moves: its epoch does not fall, and the history knows. *)
LEMMA OneMoves ==
    ASSUME RecoveryInv, RecoveryTypeOK', NEW s \in Sentinels,
           \A t \in Sentinels \ {s} : entry'[t] = entry[t],
           entry'[s].epoch >= entry[s].epoch,
           entry'[s].mon = NoAddr => entry'[s].epoch = 0,
           changed' = Touched({s}), UNCHANGED <<live, pass>>
    PROVE  RecoveryInv'
  <1>1. RecoveryTypeOK
    BY Zenon DEF RecoveryInv
  <1>2. \A t \in Sentinels : entry[t].epoch \in Nat
    BY Zenon, <1>1, Entries
  <1>3. ASSUME pass["loop"].at \in {"peers", "gates", "remove"},
               NEW t \in pass["loop"].wipe \ (changed' \cup pass["loop"].ghost)
        PROVE  Spent(t)'
    <2>1. t \in Sentinels /\ t # s /\ Spent(t)
      BY Zenon, <1>1, <1>3, PassFields DEF RecoveryInv, Touched, Passes
    <2>2. entry'[t] = entry[t] /\ (Doomed(t) => Doomed(t)')
      BY Zenon, <2>1, DoomedKept
    <2> QED
      BY <1>1, <1>2, <2>1, <2>2, SpentKept
  <1>4. \A t \in Sentinels : ~Has(t)' => entry'[t].epoch = 0
    BY Zenon DEF RecoveryInv, Has
  <1> QED
    BY Zenon, <1>3, <1>4 DEF RecoveryInv

(* Nothing happens to the entries, nor to the loop's pass. *)
LEMMA NoneMoves ==
    ASSUME RecoveryInv, RecoveryTypeOK', UNCHANGED <<entry, changed>>,
           pass'["loop"] = pass["loop"],
           \A s \in Sentinels : live' \cap entry[s].table \subseteq live
    PROVE  RecoveryInv'
  <1>1. RecoveryTypeOK /\ \A t \in Sentinels : entry[t].epoch \in Nat
    BY Zenon, Entries DEF RecoveryInv
  <1>2. ASSUME NEW t \in Sentinels, Spent(t) PROVE Spent(t)'
    BY <1>1, <1>2, DoomedKept, SpentKept
  <1>3. pass["loop"].wipe \subseteq Sentinels
    BY Zenon, <1>1, PassFields DEF Passes
  <1> QED
    BY Zenon, <1>2, <1>3 DEF RecoveryInv, Has

LEMMA LoopReadsInv ==
    ASSUME RecoveryInv, LoopReadsPeers
    PROVE  RecoveryInv'
  <1>1. RecoveryTypeOK /\ RecoveryTypeOK'
    BY Zenon, LoopReadsType DEF RecoveryInv
  <1>2. /\ pass'["loop"].wipe = Stranded("loop") /\ pass'["loop"].ghost = {}
        /\ UNCHANGED entry
    BY <1>1 DEF LoopReadsPeers, RecoveryTypeOK, Idle, Passes, Reading
  <1>3. \A s \in Stranded("loop") : ~Gossips(entry[s])
    BY Zenon DEF Stranded, Gossips
  <1> QED
    BY Zenon, <1>1, <1>2, <1>3 DEF RecoveryInv, Spent, Has

LEMMA SelectedSpent ==
    ASSUME RecoveryTypeOK, NEW ip, NEW s \in DeadMaster(ip) \cup StaleEpoch(ip)
    PROVE  s \in Sentinels /\ Spent(s)
  <1>1. CASE s \in DeadMaster(ip)
    BY Zenon, <1>1 DEF DeadMaster, Spent, Answers
  <1>2. CASE s \in StaleEpoch(ip)
    <2> DEFINE on == OnAddr({t \in Answers : Has(t)}, ip)
    <2>1. on # {} /\ s \in Sentinels /\ entry[s].epoch < MaxOver(on)
      BY Zenon, <1>2 DEF StaleEpoch, Answers
    <2>2. on \in SUBSET Sentinels
      BY Zenon DEF OnAddr, Answers
    <2>3. PICK t \in on : entry[t].epoch = MaxOver(on)
      BY Zenon, <2>1, <2>2, MaxOverIs
    <2>4. entry[s].epoch \in Nat /\ entry[t].epoch \in Nat /\ t \in Sentinels
      BY Zenon, <2>1, <2>2, Entries
    <2> QED
      BY Zenon, <2>1, <2>3, <2>4 DEF Spent
  <1> QED
    BY Zenon, <1>1, <1>2

LEMMA LoopSelectsInv ==
    ASSUME RecoveryInv, LoopSelects
    PROVE  RecoveryInv'
  <1>1. RecoveryTypeOK /\ At("loop", "peers") /\ UNCHANGED <<entry, cut, live, masters, label, inFlight, troubles>>
    BY Zenon DEF RecoveryInv, LoopSelects, Reading, worldVars
  <1>2. ghostSeen' \in 0 .. 1
    BY DEF LoopSelects
  <1>3. CASE Ends("loop") /\ changed' = {}
    <2>1. RecoveryTypeOK'
      BY Zenon, <1>1, <1>2, <1>3, EndsType DEF RecoveryTypeOK, Passes
    <2>2. pass'["loop"] = Idle
      BY Zenon, <1>1, <1>3 DEF Ends, RecoveryTypeOK, Passes
    <2> QED
      BY Zenon, <1>1, <2>1, <2>2, IdleIs DEF RecoveryInv, Has
  <1>4. ASSUME changed' = changed, NEW r \in PassState, pass' = [pass EXCEPT !["loop"] = r],
               r.at = "gates", \A g, h \in r.ghost : g = h,
               r.wipe \subseteq pass["loop"].wipe \cup DeadMaster(pass["loop"].ip)
                                     \cup StaleEpoch(pass["loop"].ip)
        PROVE  RecoveryInv'
    <2>1. RecoveryTypeOK'
      BY Zenon, <1>1, <1>2, <1>4 DEF RecoveryTypeOK, Passes
    <2>2. pass'["loop"] = r
      BY Zenon, <1>1, <1>4 DEF RecoveryTypeOK, Passes
    <2>3. pass["loop"].ghost = {}
      BY ZenonT(40), <1>1 DEF RecoveryInv, At
    <2>4. ASSUME NEW s \in r.wipe, s \notin changed PROVE s \in Sentinels /\ Spent(s)
      BY ZenonT(40), <1>1, <1>4, <2>3, <2>4, SelectedSpent, PassFields DEF RecoveryInv, At, Passes
    <2>5. \A s \in Sentinels : Spent(s) => Spent(s)'
      BY Zenon, <1>1 DEF Spent, Doomed, Gossips
    <2> QED
      BY Zenon, <1>1, <1>4, <2>1, <2>2, <2>4, <2>5 DEF RecoveryInv, Has
  <1> QED
    BY Zenon, <1>1, <1>3, <1>4, LoopSelectsIs

(* The loop's pass is over, or about to attach what it erased. *)
LEMMA LoopDone ==
    ASSUME RecoveryTypeOK', \A s \in Sentinels : ~Has(s)' => entry'[s].epoch = 0,
           pass'["loop"].at \in {"idle", "monitor"}
    PROVE  RecoveryInv'
  BY Zenon DEF RecoveryInv, Has

LEMMA LoopGatesInv ==
    ASSUME RecoveryInv, LoopGates
    PROVE  RecoveryInv'
  <1> DEFINE l    == pass["loop"]
             wipe == (l.wipe \ (l.stale \ StaleKept(l))) \cup l.ghost
             r    == [Idle EXCEPT !.at = "remove", !.ip = l.ip, !.wipe = wipe, !.ghost = l.ghost]
  <1>1. RecoveryTypeOK /\ UNCHANGED <<entry, cut, live, masters, label, inFlight, troubles, ghostSeen>>
    BY Zenon DEF RecoveryInv, LoopGates, Reading, worldVars
  <1>2. CASE Ends("loop") /\ changed' = {}
    <2>1. RecoveryTypeOK'
      BY Zenon, <1>1, <1>2, EndsType DEF RecoveryTypeOK, Passes
    <2>2. pass'["loop"].at = "idle"
      BY Zenon, <1>1, <1>2, IdleIs DEF Ends, RecoveryTypeOK, Passes
    <2> QED
      BY Zenon, <1>1, <2>1, <2>2, LoopDone DEF RecoveryInv, Has
  <1>3. CASE pass' = [pass EXCEPT !["loop"] = r] /\ UNCHANGED changed
    <2>1. /\ l.wipe \subseteq Sentinels /\ l.ghost \subseteq Sentinels
          /\ l.ip \in Addresses \cup {NoAddr} /\ \A g, h \in l.ghost : g = h
      BY Zenon, <1>1, PassFields DEF RecoveryTypeOK, Passes
    <2>2. wipe \in SUBSET Sentinels /\ wipe \subseteq l.wipe \cup l.ghost
      BY Zenon, <2>1
    <2> HIDE DEF wipe
    <2>3. r \in PassState
      BY Zenon, <2>1, <2>2, SurgeryStates
    <2>4. r.at = "remove" /\ r.wipe = wipe /\ r.ghost = l.ghost
      BY Zenon DEF Idle
    <2>5. pass'["loop"] = r /\ RecoveryTypeOK'
      BY Zenon, <1>1, <1>3, <2>1, <2>3, <2>4 DEF RecoveryTypeOK, Passes
    <2>6. \A s \in wipe \ (changed \cup l.ghost) : s \in Sentinels /\ Spent(s)
      BY Zenon, <2>2 DEF RecoveryInv, LoopGates, At
    <2>7. \A s \in Sentinels : Spent(s) => Spent(s)'
      BY Zenon, <1>1 DEF Spent, Doomed, Gossips
    <2> HIDE DEF r
    <2> QED
      BY Zenon, <1>1, <1>3, <2>4, <2>5, <2>6, <2>7 DEF RecoveryInv, Has
  <1> QED
    BY Zenon, <1>2, <1>3 DEF LoopGates

LEMMA StartupReadsInv ==
    ASSUME RecoveryInv, StartupReads
    PROVE  RecoveryInv'
  <1>1. RecoveryTypeOK /\ UNCHANGED <<entry, cut, live, masters, label, inFlight, troubles, ghostSeen, changed>>
    BY Zenon DEF RecoveryInv, StartupReads, Reading, worldVars
  <1>2. CASE Ends("startup")
    <2>1. RecoveryTypeOK'
      BY Zenon, <1>1, <1>2, EndsType DEF RecoveryTypeOK, Passes
    <2>2. pass'["loop"] = pass["loop"]
      BY Zenon, <1>1, <1>2 DEF Ends, RecoveryTypeOK, Passes
    <2> QED
      BY Zenon, <1>1, <2>1, <2>2, NoneMoves
  <1>3. ASSUME NEW ip \in Addresses,
               pass' = [pass EXCEPT !["startup"] =
                           [Idle EXCEPT !.at = "remove", !.ip = ip, !.wipe = Stranded("startup")]]
        PROVE  RecoveryInv'
    <2>1. Stranded("startup") \in SUBSET Sentinels
      BY Zenon DEF Stranded, Reached, Answers
    <2>2. [Idle EXCEPT !.at = "remove", !.ip = ip, !.wipe = Stranded("startup")] \in PassState
      BY Zenon, <2>1, SurgeryStates, RecoveryAssumption
    <2>3. [Idle EXCEPT !.at = "remove", !.ip = ip, !.wipe = Stranded("startup")].ghost = {}
      BY Zenon DEF Idle
    <2>4. RecoveryTypeOK' /\ pass'["loop"] = pass["loop"]
      BY Zenon, <1>1, <1>3, <2>2, <2>3 DEF RecoveryTypeOK, Passes
    <2> QED
      BY Zenon, <1>1, <2>4, NoneMoves
  <1>4. label \in Addresses /\ masters \subseteq Addresses
    BY Zenon, <1>1 DEF RecoveryTypeOK
  <1> QED
    BY Zenon, <1>2, <1>3, <1>4 DEF StartupReads

LEMMA RemoveAllInv ==
    ASSUME RecoveryInv, NEW p \in Passes, RemoveAll(p)
    PROVE  RecoveryInv'
  <1> DEFINE open == pass[p].wipe \ cut
  <1>1. /\ RecoveryTypeOK /\ \A t \in Sentinels : entry[t] \in Entry /\ entry[t].epoch \in Nat
        /\ UNCHANGED <<cut, live, masters, label, inFlight, ghostSeen>>
    BY Zenon, Entries DEF RecoveryInv, RemoveAll, worldVars
  <1>2. PICK erased \in SUBSET open, ok \in SUBSET open :
              /\ BadReply(ok # open)
              /\ entry' = [s \in Sentinels |-> IF s \in erased THEN NoEntry ELSE entry[s]]
              /\ \/ Ends(p)
                 \/ pass' = [pass EXCEPT ![p] = [Idle EXCEPT !.at = "monitor", !.wipe = ok,
                                                               !.ip = pass[p].ip]]
              /\ changed' = IF p = "startup" THEN Touched(erased \cup Older(erased)) ELSE {}
    BY Zenon DEF RemoveAll
  <1>3. pass[p].wipe \subseteq Sentinels /\ pass[p].ip \in Addresses \cup {NoAddr}
    BY Zenon, <1>1, PassFields
  <1> DEFINE r == [Idle EXCEPT !.at = "monitor", !.wipe = ok, !.ip = pass[p].ip]
  <1>4. r \in PassState /\ r.at = "monitor" /\ r.ghost = {}
    <2>1. r \in PassState
      BY Zenon, <1>2, <1>3, SurgeryStates, RecoveryAssumption
    <2>2. r.at = "monitor" /\ r.ghost = {}
      BY Zenon DEF Idle
    <2> QED
      BY Zenon, <2>1, <2>2
  <1> HIDE DEF r
  <1>5. PICK q \in {Idle, r} : pass' = [pass EXCEPT ![p] = q]
    BY Zenon, <1>2 DEF Ends, r
  <1>6. q \in PassState /\ q.at \in {"idle", "monitor"} /\ q.ghost = {}
    BY Zenon, <1>4, <1>5, IdleIs
  <1>7. RecoveryTypeOK'
    <2>1. entry' \in [Sentinels -> Entry]
      BY Zenon, <1>1, <1>2, Entries
    <2>2. changed' \subseteq Sentinels
      BY Zenon, <1>1, <1>2, <1>3 DEF Touched, Older, RecoveryTypeOK
    <2>3. troubles' \in 0 .. MaxTroubles
      BY <1>1, <1>2, RecoveryAssumption DEF BadReply, Trouble, RecoveryTypeOK
    <2>4. pass' \in [Passes -> PassState] /\ \A x \in Passes : \A g, h \in pass'[x].ghost : g = h
      BY ZenonT(40), <1>1, <1>5, <1>6 DEF RecoveryTypeOK
    <2> QED
      BY Zenon, <1>1, <2>1, <2>2, <2>3, <2>4 DEF RecoveryTypeOK
  <1>8. \A s \in Sentinels : ~Has(s)' => entry'[s].epoch = 0
    BY Zenon, <1>2 DEF RecoveryInv, Has, NoEntry
  <1>9. CASE p = "loop"
    BY Zenon, <1>1, <1>5, <1>6, <1>7, <1>8, <1>9, LoopDone DEF RecoveryTypeOK
  <1>10. CASE p = "startup"
    <2>1. pass'["loop"] = pass["loop"]
      BY Zenon, <1>1, <1>5, <1>10 DEF RecoveryTypeOK, Passes
    <2>2. ASSUME pass["loop"].at \in {"peers", "gates", "remove"},
                 NEW s \in pass["loop"].wipe \ (changed' \cup pass["loop"].ghost)
          PROVE  Spent(s)'
      <3>1. s \in Sentinels /\ s \notin changed /\ s \notin erased /\ s \notin Older(erased)
        BY Zenon, <1>1, <1>2, <1>10, <2>2, PassFields DEF Touched, Passes
      <3>2. Spent(s)
        BY Zenon, <2>2, <3>1 DEF RecoveryInv
      <3>3. \A t \in Sentinels : entry[t].epoch > entry[s].epoch => entry'[t] = entry[t]
        BY Zenon, <1>2, <3>1 DEF Older
      <3>4. entry'[s] = entry[s] /\ (Doomed(s) => Doomed(s)')
        BY Zenon, <1>1, <1>2, <3>1, DoomedKept
      <3> QED
        BY <1>1, <1>7, <3>1, <3>2, <3>3, <3>4, SpentKept
    <2> QED
      BY Zenon, <1>7, <1>8, <2>1, <2>2 DEF RecoveryInv
  <1> QED
    BY Zenon, <1>9, <1>10 DEF Passes

LEMMA MonitorAllInv ==
    ASSUME RecoveryInv, NEW p \in Passes, MonitorAll(p)
    PROVE  RecoveryInv'
  <1> DEFINE open == {s \in pass[p].wipe \ cut : ~Has(s)}
             at0  == Attached(pass[p].ip, 0, "none")
  <1>1. /\ RecoveryTypeOK /\ \A t \in Sentinels : entry[t] \in Entry /\ entry[t].epoch \in Nat
        /\ UNCHANGED <<cut, live, masters, label, inFlight, ghostSeen>> /\ Ends(p)
    BY ZenonT(40), Entries DEF RecoveryInv, MonitorAll, worldVars
  <1>2. PICK done \in SUBSET open :
              /\ BadReply(done # open)
              /\ entry' = [s \in Sentinels |-> IF s \in done THEN at0 ELSE entry[s]]
              /\ changed' = IF p = "startup" THEN Touched(done) ELSE {}
    BY Zenon DEF MonitorAll
  <1>3. pass[p].wipe \subseteq Sentinels /\ pass[p].ip \in Addresses \cup {NoAddr}
    BY Zenon, <1>1, PassFields
  <1>4. at0 \in Entry /\ at0.epoch = 0
    <2>1. at0 \in Entry
      BY <1>1, <1>3, AttachedType, RecoveryAssumption
    <2>2. at0.epoch = 0
      BY Zenon DEF Attached
    <2> QED
      BY Zenon, <2>1, <2>2
  <1> HIDE DEF at0
  <1>5. RecoveryTypeOK'
    <2>1. entry' \in [Sentinels -> Entry]
      BY Zenon, <1>1, <1>2, <1>4
    <2>2. changed' \subseteq Sentinels
      BY ZenonT(40), <1>1, <1>2, <1>3 DEF Touched, RecoveryTypeOK
    <2>3. troubles' \in 0 .. MaxTroubles
      BY <1>1, <1>2, RecoveryAssumption DEF BadReply, Trouble, RecoveryTypeOK
    <2> QED
      BY Zenon, <1>1, <2>1, <2>2, <2>3, EndsType DEF RecoveryTypeOK
  <1>6. \A s \in Sentinels : ~Has(s)' => entry'[s].epoch = 0
    BY Zenon, <1>2, <1>4 DEF RecoveryInv, Has
  <1>7. CASE p = "loop"
    BY Zenon, <1>1, <1>5, <1>6, <1>7, LoopDone, IdleIs DEF RecoveryTypeOK, Ends
  <1>8. CASE p = "startup"
    <2>1. pass'["loop"] = pass["loop"]
      BY Zenon, <1>1, <1>8 DEF RecoveryTypeOK, Passes, Ends
    <2>2. ASSUME pass["loop"].at \in {"peers", "gates", "remove"},
                 NEW s \in pass["loop"].wipe \ (changed' \cup pass["loop"].ghost)
          PROVE  Spent(s)'
      <3>1. s \in Sentinels /\ s \notin changed /\ s \notin done
        BY Zenon, <1>1, <1>2, <1>8, <2>2, PassFields DEF Touched, Passes
      <3>2. Spent(s)
        BY Zenon, <2>2, <3>1 DEF RecoveryInv
      <3>3. \A t \in Sentinels : entry[t].epoch > entry[s].epoch => entry'[t] = entry[t]
        BY <1>1, <1>2, <3>1 DEF RecoveryInv
      <3>4. entry'[s] = entry[s] /\ (Doomed(s) => Doomed(s)')
        BY ZenonT(40), <1>1, <1>2, <3>1, DoomedKept
      <3> QED
        BY <1>1, <1>5, <3>1, <3>2, <3>3, <3>4, SpentKept
    <2> QED
      BY ZenonT(40), <1>5, <1>6, <2>1, <2>2 DEF RecoveryInv
  <1> QED
    BY Zenon, <1>7, <1>8 DEF Passes

LEMMA NewLeaderInv ==
    ASSUME RecoveryInv, NewLeader
    PROVE  RecoveryInv'
  <1>1. RecoveryTypeOK /\ UNCHANGED <<entry, cut, live, masters, label>>
    BY Zenon DEF RecoveryInv, NewLeader, worldVars
  <1>2. [Idle EXCEPT !.at = "boot"] \in PassState /\ [Idle EXCEPT !.at = "boot"].ghost = {}
    <2>1. [Idle EXCEPT !.at = "boot"] \in PassState
      BY Zenon, SurgeryStates, RecoveryAssumption
    <2>2. [Idle EXCEPT !.at = "boot"].ghost = {}
      BY Zenon DEF Idle
    <2> QED
      BY Zenon, <2>1, <2>2
  <1>3. /\ pass' \in [Passes -> PassState] /\ pass'["loop"].at = "idle"
        /\ \A p \in Passes : \A g, h \in pass'[p].ghost : g = h
    BY Zenon, <1>2, IdleIs DEF NewLeader, Passes
  <1>4. inFlight' \in BOOLEAN
    BY Zenon DEF NewLeader
  <1>5. RecoveryTypeOK'
    BY SMTT(30), <1>1, <1>3, <1>4, RecoveryAssumption DEF NewLeader, RecoveryTypeOK, Trouble
  <1> QED
    BY Zenon, <1>1, <1>3, <1>5, LoopDone DEF RecoveryInv, Has

LEMMA ReplaceInv ==
    ASSUME RecoveryInv, NEW s \in Sentinels, Replace(s)
    PROVE  RecoveryInv'
  <1> DEFINE fresh == Attached(label, 0, "none")
  <1>1. /\ RecoveryTypeOK /\ UNCHANGED <<live, masters, label, inFlight, pass, ghostSeen>>
        /\ changed' = Touched(Sentinels)
    BY Zenon DEF RecoveryInv, Replace, Moves, OperatorIdle, worldVars
  <1>2. fresh \in Entry /\ fresh.epoch = 0
    <2>1. label \in Addresses \cup {NoAddr} /\ 0 \in 0 .. MaxEpoch
      BY <1>1, RecoveryAssumption DEF RecoveryTypeOK
    <2>2. fresh \in Entry
      BY Zenon, <1>1, <2>1, AttachedType
    <2>3. fresh.epoch = 0
      BY Zenon DEF Attached
    <2> QED
      BY Zenon, <2>2, <2>3
  <1>3. entry' = [t \in Sentinels |->
                    IF t = s THEN fresh
                    ELSE IF entry[t].peers = "live" THEN [entry[t] EXCEPT !.peers = "ghost"]
                    ELSE entry[t]]
    BY Zenon DEF Replace, Moves
  <1> HIDE DEF fresh
  <1>4. ASSUME NEW t \in Sentinels
        PROVE  entry'[t] \in Entry /\ (entry'[t].mon = NoAddr => entry'[t].epoch = 0)
    <2>1. entry[t] \in Entry /\ [entry[t] EXCEPT !.peers = "ghost"] \in Entry
      BY ZenonT(40), <1>1 DEF RecoveryTypeOK, Entry
    <2>2. /\ [entry[t] EXCEPT !.peers = "ghost"].mon = entry[t].mon
          /\ [entry[t] EXCEPT !.peers = "ghost"].epoch = entry[t].epoch
      BY Zenon, <2>1 DEF Entry
    <2> QED
      BY Zenon, <1>2, <1>3, <2>1, <2>2 DEF RecoveryInv, Has
  <1>5. RecoveryTypeOK'
    <2>1. entry' \in [Sentinels -> Entry]
      BY Zenon, <1>3, <1>4
    <2>2. changed' \subseteq Sentinels /\ cut' \subseteq Sentinels /\ troubles' \in 0 .. MaxTroubles
      BY <1>1, RecoveryAssumption DEF Touched, RecoveryTypeOK, Replace, Trouble
    <2> QED
      BY Zenon, <1>1, <2>1, <2>2 DEF RecoveryTypeOK
  <1>6. pass["loop"].wipe \subseteq changed'
    BY Zenon, <1>1, PassFields DEF Touched, Passes
  <1> QED
    BY Zenon, <1>1, <1>4, <1>5, <1>6 DEF RecoveryInv, Has

(* One sentinel's entry changes, for any reason of its own. *)
LEMMA SentinelMoves ==
    ASSUME RecoveryInv, NEW s \in Sentinels, NEW e \in Entry, Moves([entry EXCEPT ![s] = e], {s}),
           e.epoch >= entry[s].epoch, e.mon = NoAddr => e.epoch = 0,
           UNCHANGED <<cut, live, label, pass, ghostSeen>>,
           masters' \subseteq live, inFlight' \in BOOLEAN, troubles' \in 0 .. MaxTroubles
    PROVE  RecoveryInv'
  <1>1. /\ RecoveryTypeOK /\ entry' = [entry EXCEPT ![s] = e] /\ changed' = Touched({s})
        /\ entry \in [Sentinels -> Entry]
    BY Zenon DEF RecoveryInv, Moves, RecoveryTypeOK
  <1>2. changed' \subseteq Sentinels
    BY Zenon, <1>1 DEF Touched, RecoveryTypeOK
  <1>3. RecoveryTypeOK'
    BY Zenon, <1>1, <1>2 DEF RecoveryTypeOK
  <1> QED
    BY Zenon, <1>1, <1>3, OneMoves

(* The moves that only set the flag. *)
LEMMA Flagged ==
    ASSUME RecoveryInv, NEW s \in Sentinels, NEW f \in {"quiet", "down", "failover"},
           Moves([entry EXCEPT ![s].flag = f], {s}),
           UNCHANGED <<cut, live, masters, label, pass, ghostSeen>>,
           inFlight' \in BOOLEAN, troubles' \in 0 .. MaxTroubles
    PROVE  RecoveryInv'
  <1>1. entry[s] \in Entry /\ entry \in [Sentinels -> Entry] /\ masters \subseteq live
    BY Zenon DEF RecoveryInv, RecoveryTypeOK
  <1>2. PICK e \in Entry : e = [entry[s] EXCEPT !.flag = f]
    BY Zenon, <1>1 DEF Entry
  <1>3. e.epoch = entry[s].epoch /\ e.mon = entry[s].mon /\ e.epoch \in Nat
    BY <1>1, <1>2, RecoveryAssumption DEF Entry
  <1>4. Moves([entry EXCEPT ![s] = e], {s})
    BY Zenon, <1>1, <1>2 DEF Moves
  <1>5. e.epoch >= entry[s].epoch /\ (e.mon = NoAddr => e.epoch = 0)
    BY <1>3 DEF RecoveryInv, Has
  <1>6. masters' \subseteq live
    BY Zenon, <1>1
  <1> QED
    BY Zenon, <1>4, <1>5, <1>6, SentinelMoves

LEMMA PromotesInv ==
    ASSUME RecoveryInv, NEW s \in Sentinels, Promotes(s)
    PROVE  RecoveryInv'
  <1>1. RecoveryTypeOK /\ entry[s] \in Entry
    BY Zenon DEF RecoveryInv, RecoveryTypeOK
  <1>2. PICK a \in entry[s].table \cap live :
          /\ masters' = (masters \ {entry[s].mon}) \cup {a}
          /\ Moves([entry EXCEPT ![s] = Attached(a, MaxOver(Sentinels) + 1, entry[s].peers)], {s})
    BY Zenon DEF Promotes
  <1>3. a \in Addresses /\ a # NoAddr /\ masters' \subseteq live
    BY Zenon, <1>1, <1>2, RecoveryAssumption DEF RecoveryTypeOK
  <1>4. /\ MaxOver(Sentinels) + 1 \in 0 .. MaxEpoch /\ entry[s].epoch <= MaxOver(Sentinels)
        /\ entry[s].epoch \in Nat /\ MaxOver(Sentinels) \in Nat
    <2>1. MaxOver(Sentinels) \in 0 .. MaxEpoch /\ entry[s].epoch <= MaxOver(Sentinels)
      BY Zenon, <1>1, MaxOverIs
    <2> QED
      BY <1>1, <2>1, Entries, RecoveryAssumption DEF Promotes
  <1>5. PICK e \in Entry : e = Attached(a, MaxOver(Sentinels) + 1, entry[s].peers)
    BY ZenonT(40), <1>1, <1>3, <1>4, AttachedType DEF Entry
  <1>6. e.epoch >= entry[s].epoch /\ e.mon = a
    BY <1>4, <1>5 DEF Attached
  <1>7. /\ UNCHANGED <<cut, live, label, pass, ghostSeen>>
        /\ inFlight' \in BOOLEAN /\ troubles' \in 0 .. MaxTroubles
    BY Zenon, <1>1 DEF Promotes, OperatorIdle, RecoveryTypeOK
  <1> QED
    BY Zenon, <1>2, <1>3, <1>5, <1>6, <1>7, SentinelMoves

LEMMA HearsInv ==
    ASSUME RecoveryInv, NEW s \in Sentinels, NEW t \in Sentinels, Hears(s, t)
    PROVE  RecoveryInv'
  <1> DEFINE known == IF entry[s].peers = "none" THEN "live" ELSE entry[s].peers
             newer == entry[t].epoch > entry[s].epoch /\ entry[t].flag = "quiet"
  <1>1. /\ RecoveryTypeOK /\ entry[s] \in Entry /\ entry[t] \in Entry
        /\ entry[s].epoch \in Nat /\ entry[t].epoch \in 0 .. MaxEpoch
    BY Zenon, Entries DEF RecoveryInv, RecoveryTypeOK, Entry
  <1>2. known \in {"none", "live", "ghost"} /\ entry[t].mon \in Addresses \cup {NoAddr}
    BY Zenon, <1>1 DEF Entry
  <1>3. /\ UNCHANGED <<cut, live, label, pass, ghostSeen>> /\ masters' \subseteq live
        /\ inFlight' \in BOOLEAN /\ troubles' \in 0 .. MaxTroubles
    BY Zenon, <1>1 DEF Hears, OperatorIdle, RecoveryTypeOK, worldVars
  <1>4. CASE newer
    <2>1. PICK e \in Entry : e = Attached(entry[t].mon, entry[t].epoch, known)
      BY Zenon, <1>1, <1>2, AttachedType
    <2>2. e.epoch = entry[t].epoch /\ e.mon = entry[t].mon
      BY Zenon, <2>1 DEF Attached
    <2>3. Moves([entry EXCEPT ![s] = e], {s})
      BY Zenon, <1>4, <2>1 DEF Hears
    <2>4. e.epoch >= entry[s].epoch /\ (e.mon = NoAddr => e.epoch = 0)
      BY <1>1, <1>4, <2>2, RecoveryAssumption DEF RecoveryInv, Has
    <2> QED
      BY Zenon, <1>3, <2>3, <2>4, SentinelMoves
  <1>5. CASE ~newer
    <2>1. PICK e \in Entry : e = [entry[s] EXCEPT !.peers = known]
      BY Zenon, <1>1, <1>2 DEF Entry
    <2>2. e.epoch = entry[s].epoch /\ e.mon = entry[s].mon
      BY Zenon, <1>1, <2>1 DEF Entry
    <2>3. Moves([entry EXCEPT ![s] = e], {s})
      BY Zenon, <1>5, <2>1 DEF Hears
    <2>4. e.epoch >= entry[s].epoch /\ (e.mon = NoAddr => e.epoch = 0)
      BY <1>1, <2>2 DEF RecoveryInv, Has
    <2> QED
      BY <1>3, <2>3, <2>4, SentinelMoves
  <1> QED
    BY Zenon, <1>4, <1>5

LEMMA SentinelStepInv ==
    ASSUME RecoveryInv, NEW s \in Sentinels, SentinelStep(s) \/ OperatorFailover(s)
    PROVE  RecoveryInv'
  <1>1. RecoveryTypeOK
    BY Zenon DEF RecoveryInv
  <1>2. CASE SeesDown(s) \/ StartsFailover(s) \/ GivesUp(s)
    <2>1. \E f \in {"quiet", "down", "failover"} : Moves([entry EXCEPT ![s].flag = f], {s})
      BY Zenon, <1>2 DEF SeesDown, StartsFailover, GivesUp
    <2>2. /\ UNCHANGED <<cut, live, masters, label, pass, ghostSeen>>
          /\ inFlight' \in BOOLEAN /\ troubles' \in 0 .. MaxTroubles
      BY Zenon, <1>1, <1>2 DEF SeesDown, StartsFailover, GivesUp, OperatorIdle, worldVars, RecoveryTypeOK
    <2> QED
      BY Zenon, <2>1, <2>2, Flagged
  <1>3. CASE OperatorFailover(s)
    <2>1. Moves([entry EXCEPT ![s].flag = "failover"], {s})
      BY Zenon, <1>3 DEF OperatorFailover
    <2>2. inFlight' \in BOOLEAN
      BY Zenon, <1>3 DEF OperatorFailover
    <2>3. UNCHANGED <<cut, live, masters, label, pass, ghostSeen>> /\ troubles' \in 0 .. MaxTroubles
      BY <1>1, <1>3, RecoveryAssumption DEF OperatorFailover, worldVars, RecoveryTypeOK, Trouble
    <2> QED
      BY Zenon, <2>1, <2>2, <2>3, Flagged
  <1> QED
    BY Zenon, <1>2, <1>3, PromotesInv, HearsInv DEF SentinelStep

(* The steps that move no entry and no pass of the loop. *)
LEMMA QuietSteps ==
    ASSUME RecoveryInv,
           \/ LatchClears \/ Relabel \/ UNCHANGED recoveryVars
           \/ \E s \in Sentinels : Cut(s) \/ Mend(s)
           \/ \E a \in Addresses : PodLost(a) \/ PodBack(a)
    PROVE  RecoveryInv'
  <1>1. RecoveryTypeOK
    BY Zenon DEF RecoveryInv
  <1>2. UNCHANGED <<entry, changed, pass, ghostSeen>>
    BY Zenon DEF LatchClears, Relabel, recoveryVars, Cut, Mend, PodLost, PodBack, OperatorIdle
  <1>3. inFlight' \in BOOLEAN
    <2>1. CASE LatchClears
      BY Zenon, <2>1 DEF LatchClears
    <2>2. CASE UNCHANGED inFlight
      BY ZenonT(40), <1>1, <2>2 DEF RecoveryTypeOK
    <2> QED
      BY Zenon, <2>1, <2>2 DEF Relabel, recoveryVars, Cut, Mend, PodLost, PodBack, OperatorIdle
  <1>4. troubles' \in 0 .. MaxTroubles /\ cut' \subseteq Sentinels
    BY <1>1, RecoveryAssumption DEF LatchClears, Relabel, recoveryVars, Cut, Mend, PodLost, PodBack, Trouble,
       RecoveryTypeOK
  <1>5. live' \subseteq Addresses /\ masters' \subseteq live' /\ label' \in Addresses
    BY Zenon, <1>1 DEF LatchClears, Relabel, recoveryVars, Cut, Mend, PodLost, PodBack, worldVars,
       RecoveryTypeOK
  <1>6. RecoveryTypeOK'
    BY ZenonT(40), <1>1, <1>2, <1>3, <1>4, <1>5 DEF RecoveryTypeOK
  <1>7. \A s \in Sentinels : live' \cap entry[s].table \subseteq live
    BY Zenon DEF LatchClears, Relabel, recoveryVars, Cut, Mend, PodLost, PodBack, worldVars
  <1> QED
    BY Zenon, <1>2, <1>6, <1>7, NoneMoves

LEMMA RecoveryStep ==
    ASSUME RecoveryInv, [RecoveryNext]_recoveryVars
    PROVE  RecoveryInv'
  BY ZenonT(40), LoopReadsInv, LoopSelectsInv, LoopGatesInv, StartupReadsInv, RemoveAllInv, MonitorAllInv,
     NewLeaderInv,
     ReplaceInv, SentinelStepInv, QuietSteps DEF RecoveryNext, LoopStep, StartupStep, Passes

LEMMA RecoveryInitial ==
    RecoveryInit => RecoveryInv
  <1> SUFFICES ASSUME RecoveryInit PROVE RecoveryInv
    OBVIOUS
  <1>1. inFlight \in BOOLEAN
    BY Zenon DEF RecoveryInit
  <1>2. \A p \in Passes : pass[p] = Idle
    BY Zenon DEF RecoveryInit
  <1>3. pass \in [Passes -> PassState]
    BY Zenon, IdleIs DEF RecoveryInit
  <1>4. entry \in [Sentinels -> Entry] /\ \A s \in Sentinels : entry[s].mon # NoAddr
    <2>1. [mon |-> Seed, epoch |-> 1, peers |-> "live", flag |-> "quiet", table |-> {Other}] \in Entry
      BY RecoveryAssumption DEF Entry
    <2> QED
      BY Zenon, <2>1, RecoveryAssumption DEF RecoveryInit
  <1>5. RecoveryTypeOK
    <2>1. live \subseteq Addresses /\ masters \subseteq live /\ label \in Addresses
      BY Zenon, RecoveryAssumption DEF RecoveryInit
    <2>2. \A p \in Passes : \A g, h \in pass[p].ghost : g = h
      BY Zenon, <1>2, IdleIs
    <2>3. /\ cut \subseteq Sentinels /\ changed \subseteq Sentinels
          /\ ghostSeen \in 0 .. 1 /\ troubles \in 0 .. MaxTroubles
      BY RecoveryAssumption DEF RecoveryInit
    <2> QED
      BY Zenon, <1>1, <1>3, <1>4, <2>1, <2>2, <2>3 DEF RecoveryTypeOK
  <1> QED
    BY Zenon, <1>2, <1>4, <1>5, IdleIs DEF RecoveryInv, Has, Passes

\* For any sentinels, addresses, quorum and number of troubles: surgery erases no gossiping
\* sentinel's entry but one whose knowledge is of no more use, the ghost holder's, or one
\* that changed under the pass (RecoverStrandedSentinels, classifyStaleEpochTargets,
\* replicaTableDoomed).
THEOREM SurgeryErasesNothingUseful ==
    RecoverySpec => NoUsefulEntryErased
  <1> DEFINE A == \A s \in Sentinels \ (changed \cup pass["loop"].ghost) :
                     LoopErases(s) /\ Gossips(entry[s]) =>
                         Doomed(s) \/ \E t \in Sentinels : entry[t].epoch > entry[s].epoch
  <1>1. ASSUME RecoveryInv, [RecoveryNext]_recoveryVars PROVE A
    <2> SUFFICES ASSUME NEW s \in Sentinels \ (changed \cup pass["loop"].ghost), LoopErases(s),
                        Gossips(entry[s])
                 PROVE  Spent(s)
      BY Zenon DEF Spent
    <2>1. RecoveryTypeOK
      BY Zenon, <1>1 DEF RecoveryInv
    <2>2. CASE RemoveAll("loop")
      <3>1. s \in pass["loop"].wipe
        BY <2>1, <2>2 DEF RemoveAll, LoopErases, Has, NoEntry, RecoveryTypeOK
      <3> QED
        BY Zenon, <1>1, <3>1 DEF RecoveryInv, LoopErases, At
    <2>3. CASE NewLeader
      BY <2>3 DEF NewLeader, LoopErases, Has, NoEntry
    <2>4. CASE \E p \in Passes : p # "loop" /\ (RemoveAll(p) \/ MonitorAll(p))
      <3>1. pass'["loop"] = pass["loop"]
        BY ZenonT(40), <2>1, <2>4 DEF RemoveAll, MonitorAll, Ends, RecoveryTypeOK, Passes
      <3> QED
        BY Zenon, <3>1 DEF LoopErases, At
    <2>5. CASE LoopReadsPeers \/ LoopSelects \/ LoopGates \/ MonitorAll("loop")
      BY Zenon, <2>5 DEF LoopReadsPeers, LoopSelects, LoopGates, MonitorAll, LoopErases, At
    <2>6. CASE StartupReads
      BY <2>6 DEF StartupReads, Reading, LoopErases, Has, NoEntry
    <2>7. CASE UNCHANGED pass
      BY Zenon, <2>7 DEF LoopErases, At
    <2> QED
      BY ZenonT(40), <1>1, <2>2, <2>3, <2>4, <2>5, <2>6, <2>7 DEF RecoveryNext, LoopStep, StartupStep, Passes,
         LatchClears, Relabel, SentinelStep, SeesDown, StartsFailover, Promotes, GivesUp, Hears,
         OperatorFailover, Replace, Cut, Mend, PodLost, PodBack, OperatorIdle, recoveryVars
  <1>2. [RecoveryNext]_recoveryVars /\ RecoveryInv => [A]_recoveryVars
    BY Zenon, <1>1
  <1> QED
    BY <1>2, RecoveryInitial, RecoveryStep, PTL DEF RecoverySpec, NoUsefulEntryErased
=============================================================================
