---------------------------- MODULE DataSetProofs ----------------------------
(***************************************************************************)
(* Proofs about Scaling and Volumes, the decisions on the data             *)
(* StatefulSet, for any replicas, images, claims, sizes and bounds.        *)
(***************************************************************************)
EXTENDS Scaling, Volumes, WellFoundedInduction, TLAPS

LEMMA Lowest ==
    ASSUME NEW T \in SUBSET Nat, T # {}
    PROVE  \E x \in T : \A y \in T : x <= y
  <1> DEFINE R == OpToRel(<, Nat)
  <1>1. \E x \in T : \A y \in T : ~(<<y, x>> \in R)
    BY Zenon, NatLessThanWellFounded, WFMin
  <1>2. \A x, y \in Nat : y < x => <<y, x>> \in R
    BY Zenon DEF OpToRel
  <1> HIDE DEF R
  <1>3. PICK x \in T : \A y \in T : ~(<<y, x>> \in R)
    BY Zenon, <1>1
  <1>4. \A y \in T : ~(y < x)
    BY Zenon, <1>2, <1>3
  <1> QED
    BY <1>4

-----------------------------------------------------------------------------
(* Scaling. *)

LEMMA PrimaryOrdinalIs ==
    ASSUME ScaleTypeOK
    PROVE  /\ PrimaryOrdinal \in -2 .. MaxReplicas
           /\ cached # {} => PrimaryOrdinal \in cached
  <1>1. cached \in SUBSET Nat /\ \A o \in cached : o <= MaxReplicas
    BY ScalingAssumption DEF ScaleTypeOK
  <1>2. CASE cached = {}
    BY <1>2, ScalingAssumption DEF PrimaryOrdinal, NoPrimary
  <1>3. CASE cached # {}
    <2>1. \E x \in cached : \A y \in cached : x <= y
      BY Zenon, <1>1, <1>3, Lowest
    <2>2. PrimaryOrdinal \in cached
      BY Zenon, <1>3, <2>1 DEF PrimaryOrdinal
    <2> QED
      BY <1>1, <2>2, ScalingAssumption
  <1> QED
    BY Zenon, <1>2, <1>3

BlankTypeOK ==
    /\ Blank.spec \in Specs /\ Blank.rolling \in BOOLEAN
    /\ Blank.ordinal \in -2 .. MaxReplicas /\ Blank.labels = {}

LEMMA BlankIs ==
    ASSUME NEW image \in Versions
    PROVE  BlankTypeOK
  <1> DEFINE i == CHOOSE j \in Versions : TRUE
  <1>1. i \in Versions
    OBVIOUS
  <1>2. 1 \in 1 .. MaxReplicas /\ NoPrimary \in -2 .. MaxReplicas
    BY ScalingAssumption DEF NoPrimary
  <1>3. Blank = [spec |-> [replicas |-> 1, image |-> i, preflight |-> TRUE],
                 rolling |-> FALSE, labels |-> {}, ordinal |-> NoPrimary]
    BY Zenon DEF Blank
  <1> HIDE DEF i
  <1>4. [replicas |-> 1, image |-> i, preflight |-> TRUE] \in Specs
    BY Zenon, <1>1, <1>2 DEF Specs
  <1>5. Blank.spec = [replicas |-> 1, image |-> i, preflight |-> TRUE] /\ Blank.ordinal = NoPrimary
    BY Zenon, <1>3
  <1>6. Blank.rolling = FALSE /\ Blank.labels = {}
    BY Zenon, <1>3
  <1> QED
    BY Zenon, <1>2, <1>4, <1>5, <1>6 DEF BlankTypeOK

LEMMA AppliedIs ==
    ASSUME ScaleTypeOK
    PROVE  Applied(copy) \in 1 .. MaxReplicas
  BY Zenon DEF ScaleTypeOK, Applied, Specs

LEMMA ScaleTypeStep ==
    ASSUME ScaleTypeOK, [ScaleNext]_scaleVars
    PROVE  ScaleTypeOK'
  <1>1. CASE Precheck
    <2>1. PICK ordinal \in {PrimaryOrdinal, Unknown} :
          /\ IF ordinal = Unknown
             THEN asked.replicas < have.replicas /\ ScaleFault
             ELSE UNCHANGED scaleFaults
          /\ IF ImageRefused(asked)
             THEN stage' = "promote" /\ UNCHANGED copy
             ELSE /\ stage' = "apply"
                  /\ copy' = [spec |-> asked, rolling |-> rolling, labels |-> cached,
                               ordinal |-> ordinal]
      BY Zenon, <1>1 DEF Precheck
    <2>2. ordinal \in -2 .. MaxReplicas
      BY PrimaryOrdinalIs, ScalingAssumption DEF Unknown
    <2>3. /\ copy'.spec \in Specs /\ copy'.ordinal \in -2 .. MaxReplicas
          /\ copy'.labels \subseteq 0 .. MaxReplicas - 1
      BY <2>1, <2>2 DEF ScaleTypeOK
    <2>4. copy'.rolling \in BOOLEAN
      <3>1. copy' = copy \/ copy'.rolling = rolling
        BY <2>1
      <3> QED
        BY Zenon, <3>1 DEF ScaleTypeOK
    <2>5. scaleFaults' \in 0 .. MaxScaleFaults /\ stage' \in {"apply", "promote"}
      BY <2>1, ScalingAssumption DEF ScaleFault, ScaleTypeOK
    <2> QED
      BY Zenon, <1>1, <2>3, <2>4, <2>5 DEF Precheck, ScaleTypeOK, Pods
  <1>2. CASE ApplySet
    <2>1. have' \in [replicas : 1 .. MaxReplicas, image : Versions]
      BY Zenon, <1>2, AppliedIs DEF ApplySet, ScaleTypeOK, Specs
    <2>2. master' \in Pods' /\ labelled' \subseteq Pods'
      BY <1>2, <2>1, ScalingAssumption DEF ApplySet, ScaleTypeOK, Pods
    <2>3. BlankTypeOK
      BY Zenon, BlankIs DEF ScaleTypeOK, Specs
    <2> QED
      BY Zenon, <1>2, <2>1, <2>2, <2>3 DEF ApplySet, ScaleTypeOK, BlankTypeOK
  <1>3. CASE Promote \/ Demote
    <2>1. BlankTypeOK
      BY Zenon, BlankIs DEF ScaleTypeOK, Specs
    <2>2. copy' = [Blank EXCEPT !.labels = cached, !.ordinal = master] \/ copy' = Blank
      BY Zenon, <1>3 DEF Promote, Demote
    <2>3. master \in -2 .. MaxReplicas
      BY ScalingAssumption DEF ScaleTypeOK, Pods
    <2>4. Blank.labels \subseteq 0 .. MaxReplicas - 1
      BY Zenon, <2>1 DEF BlankTypeOK
    <2>5. /\ copy'.spec \in Specs /\ copy'.rolling \in BOOLEAN
          /\ copy'.ordinal \in -2 .. MaxReplicas /\ copy'.labels \subseteq 0 .. MaxReplicas - 1
      <3>1. CASE copy' = Blank
        BY Zenon, <2>1, <2>4, <3>1 DEF BlankTypeOK
      <3>2. CASE copy' = [Blank EXCEPT !.labels = cached, !.ordinal = master]
        <4>1. /\ copy'.spec = Blank.spec /\ copy'.rolling = Blank.rolling
              /\ copy'.ordinal = master /\ copy'.labels = cached
          BY <3>2 DEF Blank
        <4> QED
          BY Zenon, <2>1, <2>3, <4>1 DEF BlankTypeOK, ScaleTypeOK
      <3> QED
        BY Zenon, <2>2, <3>1, <3>2
    <2> QED
      BY Zenon, <1>3, <2>5 DEF Promote, Demote, ScaleTypeOK, Pods
  <1>4. CASE Strip \/ FailsOver
    <2>1. scaleFaults' \in 0 .. MaxScaleFaults
      BY <1>4, ScalingAssumption DEF Strip, FailsOver, ScaleFault, ScaleTypeOK
    <2>2. master' \in Pods /\ labelled' \subseteq Pods
      BY Zenon, <1>4 DEF Strip, FailsOver, ScaleTypeOK
    <2> QED
      BY Zenon, <1>4, <2>1, <2>2 DEF Strip, FailsOver, ScaleTypeOK, Pods
  <1>5. CASE PassCutShort
    <2>1. BlankTypeOK
      BY Zenon, BlankIs DEF ScaleTypeOK, Specs
    <2>2. scaleFaults' \in 0 .. MaxScaleFaults
      BY <1>5, ScalingAssumption DEF PassCutShort, ScaleFault, ScaleTypeOK
    <2> QED
      BY Zenon, <1>5, <2>1, <2>2 DEF PassCutShort, ScaleTypeOK, BlankTypeOK, Pods
  <1>6. CASE RolloutStarts \/ RolloutEnds
    <2>1. rolling' \in BOOLEAN
      BY Zenon, <1>6 DEF RolloutStarts, RolloutEnds
    <2>2. scaleFaults' \in 0 .. MaxScaleFaults
      BY <1>6, ScalingAssumption DEF RolloutStarts, RolloutEnds, ScaleFault, ScaleTypeOK
    <2> QED
      BY Zenon, <1>6, <2>1, <2>2 DEF RolloutStarts, RolloutEnds, ScaleTypeOK, Pods
  <1>7. CASE SpecEdited
    BY <1>7, ScalingAssumption DEF SpecEdited, ScaleTypeOK, Pods
  <1>8. CASE LabelsSync
    <2>1. Pods \subseteq 0 .. MaxReplicas - 1
      BY ScalingAssumption DEF Pods, ScaleTypeOK
    <2> QED
      BY Zenon, <1>8, <2>1 DEF LabelsSync, ScaleTypeOK, Pods
  <1>9. CASE UNCHANGED scaleVars
    BY Zenon, <1>9 DEF scaleVars, ScaleTypeOK, Pods
  <1> QED
    BY Zenon, <1>1, <1>2, <1>3, <1>4, <1>5, <1>6, <1>7, <1>8, <1>9 DEF ScaleNext, ScaleSteps

LEMMA ScaleStep ==
    ASSUME ScaleInv, [ScaleNext]_scaleVars
    PROVE  ScaleInv'
  <1>1. ScaleTypeOK /\ ScaleTypeOK'
    BY Zenon, ScaleTypeStep DEF ScaleInv
  <1>2. CASE Precheck
    BY <1>1, <1>2, PrimaryOrdinalIs DEF Precheck, ScaleInv
  <1>3. CASE ~Precheck
    BY Zenon, <1>1, <1>3 DEF ScaleInv, ScaleNext, ScaleSteps, ApplySet, Promote, Demote, Strip, PassCutShort,
       FailsOver, RolloutStarts, RolloutEnds, SpecEdited, LabelsSync, scaleVars
  <1> QED
    BY Zenon, <1>2, <1>3

LEMMA ScaleInitial ==
    ScaleInit => ScaleInv
  <1> SUFFICES ASSUME ScaleInit PROVE ScaleInv
    OBVIOUS
  <1>1. PICK image \in Versions, preflight \in BOOLEAN :
          /\ asked = [replicas |-> MaxReplicas, image |-> image, preflight |-> preflight]
          /\ have = [replicas |-> MaxReplicas, image |-> image]
    BY Zenon DEF ScaleInit
  <1>2. MaxReplicas \in 1 .. MaxReplicas
    BY ScalingAssumption
  <1>3. asked \in Specs /\ have \in [replicas : 1 .. MaxReplicas, image : Versions]
    BY Zenon, <1>1, <1>2 DEF Specs
  <1>4. rolling \in BOOLEAN
    BY Zenon DEF ScaleInit
  <1>5. BlankTypeOK
    BY Zenon, <1>1, BlankIs
  <1>6. ScaleTypeOK
    BY <1>3, <1>4, <1>5, ScalingAssumption DEF ScaleInit, ScaleTypeOK, BlankTypeOK, Pods
  <1> QED
    BY Zenon, <1>6 DEF ScaleInit, ScaleInv

\* For any number of replicas: with a list that shows the labels as they are, a scale-down
\* never takes the last pod labelled primary (scaleDownPrimaryRefusal on
\* findPrimaryOrdinal's lowest ordinal).
THEOREM ScaleKeepsEndpoint ==
    ScaleSpec => EndpointKept
  <1> DEFINE A == have'.replicas < have.replicas /\ labelled # {} /\ labelled' = {}
                     => copy.labels # labelled
  <1>1. ASSUME ScaleInv, [ScaleNext]_scaleVars PROVE A
    <2>1. CASE ApplySet
      <3> SUFFICES ASSUME have'.replicas < have.replicas, labelled # {}, copy.labels = labelled
                   PROVE  labelled' # {}
        OBVIOUS
      <3>1. /\ have.replicas \in Nat /\ copy.ordinal \in Int /\ copy.spec.replicas \in Nat
            /\ labelled \subseteq Nat
        BY <1>1, ScalingAssumption DEF ScaleInv, ScaleTypeOK, Specs, Pods
      <3>2. have'.replicas = Applied(copy)
        BY Zenon, <2>1 DEF ApplySet
      <3>3. /\ have'.replicas = copy.spec.replicas
            /\ ~Refused(copy.spec.replicas, have.replicas, copy.ordinal)
        BY <3>1, <3>2 DEF Applied
      <3>4. copy.ordinal # Unknown
        BY Zenon, <3>3 DEF Refused
      <3>5. copy.ordinal \in labelled
        BY Zenon, <1>1, <2>1, <3>4 DEF ScaleInv, ApplySet
      <3>6. copy.ordinal < copy.spec.replicas
        BY <3>1, <3>3, <3>5 DEF Refused
      <3>7. copy.ordinal \in labelled'
        BY <2>1, <3>1, <3>3, <3>5, <3>6 DEF ApplySet
      <3> QED
        BY Zenon, <3>7
    <2>2. CASE UNCHANGED have
      <3>1. have.replicas \in Nat
        BY <1>1, ScalingAssumption DEF ScaleInv, ScaleTypeOK
      <3> QED
        BY <2>2, <3>1
    <2> QED
      BY Zenon, <1>1, <2>1, <2>2 DEF ScaleNext, ScaleSteps, Precheck, Promote, Demote, Strip, PassCutShort,
         FailsOver, RolloutStarts, RolloutEnds, SpecEdited, LabelsSync, scaleVars
  <1>2. [ScaleNext]_scaleVars /\ ScaleInv => [A]_scaleVars
    BY Zenon, <1>1
  <1> QED
    BY <1>2, ScaleInitial, ScaleStep, PTL DEF ScaleSpec, EndpointKept

-----------------------------------------------------------------------------
(* Volumes. *)

LEMMA SizesAre ==
    /\ Sizes \subseteq 0 .. MaxSize
    /\ \A s \in Sizes : s \in Nat /\ s > 0
  BY VolumesAssumption DEF Sizes

LEMMA InIs ==
    ASSUME NEW c \in CRs, NEW phase \in Phases
    PROVE  /\ In(phase, c) \in CRs
           /\ In(phase, c).phase = phase
           /\ In(phase, c).size = c.size
           /\ In(phase, c).policy = c.policy
           /\ In(phase, c).accept = c.accept
  BY Zenon DEF In, CRs

\* What a write of the phase leaves behind.
LEMMA EnteredIs ==
    ASSUME VolTypeOK, NEW phase \in Phases, Entered(phase)
    PROVE  /\ cr' \in CRs /\ before' \in CRs /\ v' \in CRs
           /\ v'.phase = phase
           /\ v.phase = cr.phase => cr'.phase = phase
           /\ v'.size = v.size /\ cr'.size = cr.size
           /\ v'.policy = v.policy /\ v'.accept = v.accept
  <1>1. cr \in CRs /\ before \in CRs /\ v \in CRs
    BY Zenon DEF VolTypeOK
  <1>2. CASE v.phase = phase
    BY Zenon, <1>1, <1>2 DEF Entered
  <1>3. CASE v.phase # phase
    <2>1. before' = cr /\ cr' = In(phase, cr) /\ v' = In(phase, v)
      BY Zenon, <1>3 DEF Entered, Write
    <2> QED
      BY Zenon, <1>1, <2>1, InIs
  <1> QED
    BY Zenon, <1>2, <1>3

LEMMA PhasesAre ==
    {"", "Aborted", "Validated", "StsOrphaned", "PVCsPatched", "StsRecreated", "Verified"} = Phases
  BY Zenon DEF Phases, InFlight

LEMMA Spent1 ==
    ASSUME VolTypeOK, mishaps' = mishaps \/ Spend
    PROVE  mishaps' \in 0 .. MaxMishaps
  BY VolumesAssumption DEF VolTypeOK, Spend

\* Growing a request, a volume, making, dooming and dropping claims.
LEMMA PatchedIs ==
    ASSUME VolTypeOK, NEW o \in Slots, NEW s \in Sizes, claim' = [claim EXCEPT ![o].req = s]
    PROVE  /\ claim' \in [Slots -> ClaimStates]
           /\ claim'[o].req = s /\ claim'[o] # NoClaim
           /\ \A p \in Slots : p # o => claim'[p] = claim[p]
  <1>1. claim[o] \in ClaimStates /\ s \in 0 .. MaxSize /\ s # 0
    BY SizesAre DEF VolTypeOK
  <1>2. [claim[o] EXCEPT !.req = s] \in ClaimStates
    BY Zenon, <1>1 DEF ClaimStates
  <1>3. claim' = [claim EXCEPT ![o] = [claim[o] EXCEPT !.req = s]]
    BY Zenon DEF VolTypeOK
  <1>4. claim'[o] = [claim[o] EXCEPT !.req = s]
    BY Zenon, <1>3 DEF VolTypeOK
  <1>5. claim'[o].req = s
    BY Zenon, <1>1, <1>4 DEF ClaimStates
  <1>6. claim'[o] # NoClaim
    BY <1>1, <1>5 DEF NoClaim
  <1> QED
    BY Zenon, <1>2, <1>3, <1>5, <1>6 DEF VolTypeOK

LEMMA GrewIs ==
    ASSUME VolTypeOK, NEW o \in Claims, claim[o].cap < claim[o].req,
           claim' = [claim EXCEPT ![o].cap = claim[o].req]
    PROVE  /\ claim' \in [Slots -> ClaimStates]
           /\ claim'[o].req = claim[o].req /\ claim'[o].cap = claim[o].req /\ claim'[o] # NoClaim
           /\ \A p \in Slots : p # o => claim'[p] = claim[p]
  <1>1. claim[o] \in ClaimStates /\ o \in Slots
    BY Zenon DEF VolTypeOK, Claims
  <1>2. claim[o].req \in 0 .. MaxSize /\ claim[o].cap \in Nat /\ claim[o].req # 0
    BY <1>1, VolumesAssumption DEF ClaimStates
  <1>3. [claim[o] EXCEPT !.cap = claim[o].req] \in ClaimStates
    BY Zenon, <1>1, <1>2 DEF ClaimStates
  <1>4. claim' = [claim EXCEPT ![o] = [claim[o] EXCEPT !.cap = claim[o].req]]
    BY Zenon DEF VolTypeOK
  <1>5. claim'[o] = [claim[o] EXCEPT !.cap = claim[o].req]
    BY Zenon, <1>1, <1>4 DEF VolTypeOK
  <1>6. claim'[o].req = claim[o].req /\ claim'[o].cap = claim[o].req
    BY Zenon, <1>1, <1>5 DEF ClaimStates
  <1>7. claim'[o] # NoClaim
    BY <1>2, <1>6 DEF NoClaim
  <1> QED
    BY Zenon, <1>1, <1>3, <1>4, <1>6, <1>7 DEF VolTypeOK

LEMMA MadeIs ==
    ASSUME VolTypeOK, set > 0, NEW o \in Slots,
           claim' = [claim EXCEPT ![o] = [req |-> set, cap |-> set, dying |-> FALSE]]
    PROVE  /\ claim' \in [Slots -> ClaimStates]
           /\ claim'[o].req = set /\ claim'[o].cap = set /\ claim'[o] # NoClaim
           /\ \A p \in Slots : p # o => claim'[p] = claim[p]
  <1>1. set \in 0 .. MaxSize /\ set # 0
    BY VolumesAssumption DEF VolTypeOK
  <1>2. [req |-> set, cap |-> set, dying |-> FALSE] \in ClaimStates
    BY Zenon, <1>1 DEF ClaimStates
  <1>3. claim'[o] = [req |-> set, cap |-> set, dying |-> FALSE]
    BY Zenon DEF VolTypeOK
  <1>4. claim'[o].req = set /\ claim'[o].cap = set
    BY <1>3
  <1>5. claim'[o] # NoClaim
    BY <1>1, <1>4 DEF NoClaim
  <1> QED
    BY Zenon, <1>2, <1>4, <1>5 DEF VolTypeOK

LEMMA NoClaimIs ==
    NoClaim \in ClaimStates /\ NoClaim.req = 0 /\ NoClaim.cap = 0
  <1>1. 0 \in 0 .. MaxSize
    BY VolumesAssumption
  <1> QED
    BY Zenon, <1>1 DEF NoClaim, ClaimStates

LEMMA DoomedIs ==
    ASSUME VolTypeOK,
           claim' = [o \in Slots |-> IF o \in Live THEN [claim[o] EXCEPT !.dying = TRUE] ELSE claim[o]]
    PROVE  /\ claim' \in [Slots -> ClaimStates]
           /\ \A o \in Slots : /\ claim'[o].req = claim[o].req /\ claim'[o].cap = claim[o].cap
                               /\ claim[o] # NoClaim => claim'[o] # NoClaim
  <1>1. ASSUME NEW o \in Slots
        PROVE  /\ claim'[o] \in ClaimStates
               /\ claim'[o].req = claim[o].req /\ claim'[o].cap = claim[o].cap
               /\ claim[o] # NoClaim => claim'[o] # NoClaim
    <2>1. claim[o] \in ClaimStates
      BY Zenon DEF VolTypeOK
    <2>2. CASE o \in Live
      <3>1. claim'[o] = [claim[o] EXCEPT !.dying = TRUE]
        BY Zenon, <2>2
      <3>2. claim'[o] \in ClaimStates /\ claim'[o].req = claim[o].req /\ claim'[o].cap = claim[o].cap
        BY Zenon, <2>1, <3>1 DEF ClaimStates
      <3>3. claim'[o].dying = TRUE
        BY Zenon, <2>1, <3>1 DEF ClaimStates
      <3>4. claim'[o] # NoClaim
        BY <3>3 DEF NoClaim
      <3> QED
        BY Zenon, <3>2, <3>4
    <2>3. CASE o \notin Live
      BY Zenon, <2>1, <2>3
    <2> QED
      BY Zenon, <2>2, <2>3
  <1> QED
    BY Zenon, <1>1

LEMMA CRWrites ==
    ASSUME NEW c \in CRs
    PROVE  /\ [c EXCEPT !.fin = TRUE] \in CRs
           /\ [c EXCEPT !.flagged = TRUE] \in CRs
           /\ [c EXCEPT !.accept = FALSE] \in CRs
           /\ [c EXCEPT !.accept = TRUE] \in CRs
           /\ [c EXCEPT !.deleting = TRUE] \in CRs
           /\ [c EXCEPT !.fin = FALSE, !.gone = TRUE] \in CRs
  BY Zenon DEF CRs

LEMMA AgedIs ==
    ASSUME NEW c \in CRs
    PROVE  Aged(c) \in CRs /\ Aged(c).phase = c.phase /\ Aged(c).size = c.size
  <1>1. (c.phase # "") \in BOOLEAN
    OBVIOUS
  <1> QED
    BY Zenon, <1>1 DEF Aged, CRs

LEMMA FreshIs ==
    ASSUME NEW s \in Sizes, NEW p \in Policies
    PROVE  Fresh(s, p) \in CRs /\ Fresh(s, p).phase = "" /\ Fresh(s, p).size = s
  BY Zenon DEF Fresh, CRs, Phases

\* The pass's steps: the CR and its copy stay records, the rest is left or plain.
LEMMA VolTypePass ==
    ASSUME VolTypeOK, PassSteps
    PROVE  VolTypeOK'
  <1>0. cr \in CRs /\ before \in CRs /\ v \in CRs
    BY Zenon DEF VolTypeOK
  <1>1. CASE PassBegins
    <2>1. PICK c \in {cr, before} :
          /\ IF c = cr THEN UNCHANGED mishaps ELSE Spend
          /\ hadFin' = c.fin
          /\ IF c.deleting \/ c.fin
             THEN v' = c /\ before' = (IF c = cr THEN cr ELSE before) /\ UNCHANGED cr
             ELSE /\ before' = cr
                  /\ cr' = [cr EXCEPT !.fin = TRUE]
                  /\ v' = [c EXCEPT !.fin = TRUE]
          /\ at' = IF c.deleting THEN "delete" ELSE "auth"
          /\ listed' = IF c.deleting THEN Claims ELSE {}
          /\ doubt' = (c # cr \/ (doubt /\ (cr.phase # "" \/ Growing # {})))
      BY Zenon, <1>1 DEF PassBegins
    <2>2. c \in CRs
      BY Zenon, <1>0, <2>1
    <2>3. cr' \in CRs /\ before' \in CRs /\ v' \in CRs
      BY Zenon, <1>0, <2>1, <2>2, CRWrites
    <2>4. mishaps' \in 0 .. MaxMishaps
      BY Zenon, <2>1, Spent1
    <2>5. hadFin' \in BOOLEAN
      <3>1. c.fin \in BOOLEAN
        BY Zenon, <2>2 DEF CRs
      <3> QED
        BY Zenon, <2>1, <3>1
    <2>6. doubt' \in BOOLEAN
      BY Zenon, <2>1
    <2>7. failed' \in BOOLEAN
      BY Zenon, <1>1 DEF PassBegins
    <2>8. listed' \subseteq Slots /\ todo' \subseteq Slots
      BY Zenon, <1>1, <2>1 DEF PassBegins, Claims
    <2>9. at' \in {"delete", "auth"}
      BY Zenon, <2>1
    <2> QED
      BY Zenon, <1>1, <2>3, <2>4, <2>5, <2>6, <2>7, <2>8, <2>9 DEF PassBegins, VolTypeOK
  <1>2. CASE AuthResolved
    BY Zenon, <1>2 DEF AuthResolved, VolTypeOK
  <1>3. CASE Gate
    <2>1. lost' \in BOOLEAN
      BY Zenon, <1>3 DEF Gate
    <2>2. at' \in {"phase4", "idle"}
      BY Zenon, <1>3 DEF Gate
    <2> QED
      BY Zenon, <1>3, <2>1, <2>2 DEF Gate, VolTypeOK
  <1>4. CASE Phase4
    <2>1. cr' \in CRs /\ before' \in CRs /\ v' \in CRs
      BY Zenon, <1>0, <1>4, EnteredIs, PhasesAre, CRWrites DEF Phase4, Write
    <2>2. at' \in {"phase2", "drive", "idle"}
      BY Zenon, <1>4 DEF Phase4
    <2> QED
      BY ZenonT(40), <1>4, <2>1, <2>2 DEF Phase4, VolTypeOK
  <1>5. CASE FromValidated
    <2>1. cr' \in CRs /\ before' \in CRs /\ v' \in CRs
      BY Zenon, <1>0, <1>5, EnteredIs, PhasesAre DEF FromValidated
    <2>2. ready' \in BOOLEAN
      <3>1. ready' = FALSE \/ ready' = ready
        BY Zenon, <1>5 DEF FromValidated
      <3> QED
        BY Zenon, <3>1 DEF VolTypeOK
    <2>3. at' \in {"phase2", "orphaned"} /\ set' \in 0 .. MaxSize
      BY <1>5, VolumesAssumption DEF FromValidated, VolTypeOK
    <2> QED
      BY Zenon, <1>5, <2>1, <2>2, <2>3 DEF FromValidated, VolTypeOK, driveRest
  <1>6. CASE FromStsOrphaned
    <2>1. cr' \in CRs /\ before' \in CRs /\ v' \in CRs
      BY Zenon, <1>0, <1>6, EnteredIs, PhasesAre DEF FromStsOrphaned
    <2>2. claim' \in [Slots -> ClaimStates]
      <3>1. CASE UNCHANGED claim
        BY Zenon, <3>1 DEF VolTypeOK
      <3>2. CASE \E o \in Claims : claim' = [claim EXCEPT ![o].req = v.size]
        <4>1. PICK o \in Claims : claim' = [claim EXCEPT ![o].req = v.size]
          BY Zenon, <3>2
        <4>2. v.size \in Sizes /\ o \in Slots
          BY Zenon, <1>0 DEF CRs, Claims
        <4> QED
          BY Zenon, <4>1, <4>2, PatchedIs
      <3> QED
        BY Zenon, <1>6, <3>1, <3>2 DEF FromStsOrphaned
    <2>3. mishaps' \in 0 .. MaxMishaps
      BY Zenon, <1>6, Spent1 DEF FromStsOrphaned
    <2>4. at' \in {"phase2", "idle", "drive"}
      BY Zenon, <1>6 DEF FromStsOrphaned
    <2> QED
      BY ZenonT(40), <1>6, <2>1, <2>2, <2>3, <2>4 DEF FromStsOrphaned, VolTypeOK, driveRest
  <1>7. CASE FromPVCsPatched
    <2>1. cr' \in CRs /\ before' \in CRs /\ v' \in CRs
      BY Zenon, <1>0, <1>7, EnteredIs, PhasesAre DEF FromPVCsPatched
    <2>2. at' \in {"phase2", "idle"}
      BY Zenon, <1>7 DEF FromPVCsPatched
    <2> QED
      BY ZenonT(40), <1>7, <2>1, <2>2 DEF FromPVCsPatched, VolTypeOK, driveRest
  <1>8. CASE FromStsRecreated \/ FromVerified \/ FromAborted
    <2>1. cr' \in CRs /\ before' \in CRs /\ v' \in CRs
      BY Zenon, <1>0, <1>8, EnteredIs, PhasesAre DEF FromStsRecreated, FromVerified, FromAborted
    <2> QED
      BY ZenonT(40), <1>8, <2>1 DEF FromStsRecreated, FromVerified, FromAborted, VolTypeOK, driveRest
  <1>9. CASE Phase2
    <2>1. set' \in 0 .. MaxSize /\ at' \in {"late", "idle"}
      BY Zenon, <1>0, <1>9, SizesAre DEF Phase2, VolTypeOK, CRs
    <2>2. ready' = FALSE \/ ready' = ready
      BY Zenon, <1>9 DEF Phase2
    <2>3. born' = TRUE \/ born' = born
      BY Zenon, <1>9 DEF Phase2
    <2>4. ready' \in BOOLEAN /\ born' \in BOOLEAN
      BY Zenon, <2>2, <2>3 DEF VolTypeOK
    <2> QED
      BY Zenon, <1>9, <2>1, <2>4 DEF Phase2, VolTypeOK
  <1>10. CASE PassEnds
    <2>1. cr' \in CRs /\ before' \in CRs /\ v' \in CRs
      BY Zenon, <1>0, <1>10, CRWrites DEF PassEnds, Write
    <2> QED
      BY Zenon, <1>10, <2>1 DEF PassEnds, VolTypeOK
  <1>11. CASE DeleteVisits
    <2>1. PICK o \in todo :
          /\ todo' = todo \ {o}
          /\ \/ UNCHANGED <<owned, failed, mishaps>>
             \/ /\ owned' = IF v.policy = "Delete" THEN owned \cup {o} ELSE owned \ {o}
                /\ UNCHANGED <<failed, mishaps>>
             \/ /\ IF o \in Claims THEN Spend ELSE UNCHANGED mishaps
                /\ failed' = TRUE
                /\ UNCHANGED owned
      BY Zenon, <1>11 DEF DeleteVisits
    <2>2. mishaps' \in 0 .. MaxMishaps
      BY Zenon, <2>1, Spent1
    <2>3. failed' = TRUE \/ failed' = failed
      BY Zenon, <2>1
    <2>4. failed' \in BOOLEAN
      BY Zenon, <2>3 DEF VolTypeOK
    <2>5. owned' \subseteq Slots /\ todo' \subseteq Slots
      BY Zenon, <2>1 DEF VolTypeOK
    <2> QED
      BY Zenon, <1>11, <2>2, <2>4, <2>5 DEF DeleteVisits, VolTypeOK
  <1>12. CASE DeleteEnds
    <2>1. cr' \in CRs /\ before' \in CRs
      BY Zenon, <1>0, <1>12, CRWrites DEF DeleteEnds
    <2> QED
      BY Zenon, <1>12, <2>1 DEF DeleteEnds, VolTypeOK
  <1> QED
    BY Zenon, <1>1, <1>2, <1>3, <1>4, <1>5, <1>6, <1>7, <1>8, <1>9, <1>10, <1>11, <1>12 DEF PassSteps

\* A user's command: the CR it stores is the one the cache has.
LEMMA EditIs ==
    ASSUME VolTypeOK, NEW c \in CRs, Edit(c)
    PROVE  /\ cr' = c /\ cr' \in CRs /\ before' \in CRs
           /\ edits' \in 0 .. MaxEdits
           /\ UNCHANGED <<mishaps, passVars>>
  BY VolumesAssumption DEF Edit, VolTypeOK

LEMMA UserEditsAre ==
    ASSUME VolTypeOK, UserEdits
    PROVE  /\ cr' \in CRs /\ before' \in CRs
           /\ cr'.phase = cr.phase /\ cr.size <= cr'.size
           /\ edits' \in 0 .. MaxEdits
           /\ UNCHANGED <<mishaps, passVars>>
  <1>1. cr \in CRs /\ cr.size \in Nat
    BY Zenon, SizesAre DEF VolTypeOK, CRs
  <1>2. CASE \E s \in cr.size + 1 .. MaxSize : Edit([cr EXCEPT !.size = s])
    <2>1. PICK s \in cr.size + 1 .. MaxSize : Edit([cr EXCEPT !.size = s])
      BY Zenon, <1>2
    <2>2. s \in Sizes /\ cr.size <= s
      BY <1>1, VolumesAssumption DEF Sizes
    <2>3. [cr EXCEPT !.size = s] \in CRs
      BY Zenon, <1>1, <2>2 DEF CRs
    <2>4. [cr EXCEPT !.size = s].phase = cr.phase /\ [cr EXCEPT !.size = s].size = s
      BY Zenon, <1>1 DEF CRs
    <2> QED
      BY Zenon, <2>1, <2>2, <2>3, <2>4, EditIs
  <1>3. CASE \E p \in Policies : Edit([cr EXCEPT !.policy = p])
    <2>1. PICK p \in Policies : Edit([cr EXCEPT !.policy = p])
      BY Zenon, <1>3
    <2>2. [cr EXCEPT !.policy = p] \in CRs
      BY Zenon, <1>1 DEF CRs
    <2>3. [cr EXCEPT !.policy = p].phase = cr.phase /\ [cr EXCEPT !.policy = p].size = cr.size
      BY Zenon, <1>1 DEF CRs
    <2>4. /\ cr' = [cr EXCEPT !.policy = p] /\ cr' \in CRs /\ before' \in CRs
          /\ edits' \in 0 .. MaxEdits /\ UNCHANGED <<mishaps, passVars>>
      BY Zenon, <2>1, <2>2, EditIs
    <2>5. cr'.phase = cr.phase /\ cr'.size = cr.size
      BY Zenon, <2>3, <2>4
    <2> QED
      BY <1>1, <2>4, <2>5
  <1>4. CASE Edit([cr EXCEPT !.accept = TRUE])
    <2>1. [cr EXCEPT !.accept = TRUE].phase = cr.phase /\ [cr EXCEPT !.accept = TRUE].size = cr.size
      BY Zenon, <1>1 DEF CRs
    <2>2. /\ cr' = [cr EXCEPT !.accept = TRUE] /\ cr' \in CRs /\ before' \in CRs
          /\ edits' \in 0 .. MaxEdits /\ UNCHANGED <<mishaps, passVars>>
      BY Zenon, <1>1, <1>4, CRWrites, EditIs
    <2>3. cr'.phase = cr.phase /\ cr'.size = cr.size
      BY Zenon, <2>1, <2>2
    <2> QED
      BY <1>1, <2>2, <2>3
  <1>5. CASE Edit([cr EXCEPT !.deleting = TRUE])
    <2>1. [cr EXCEPT !.deleting = TRUE].phase = cr.phase /\ [cr EXCEPT !.deleting = TRUE].size = cr.size
      BY Zenon, <1>1 DEF CRs
    <2>2. /\ cr' = [cr EXCEPT !.deleting = TRUE] /\ cr' \in CRs /\ before' \in CRs
          /\ edits' \in 0 .. MaxEdits /\ UNCHANGED <<mishaps, passVars>>
      BY Zenon, <1>1, <1>5, CRWrites, EditIs
    <2>3. cr'.phase = cr.phase /\ cr'.size = cr.size
      BY Zenon, <2>1, <2>2
    <2> QED
      BY <1>1, <2>2, <2>3
  <1> QED
    BY Zenon, <1>2, <1>3, <1>4, <1>5 DEF UserEdits

WorldSteps ==
    \/ PassCut
    \/ DriveFails
    \/ UserEdits
    \/ UserDisturbs
    \/ UserRecreates
    \/ ClaimGoes
    \/ ClaimMade
    \/ DriverGrows
    \/ PodsReady
    \/ BackoffEnds
    \/ TimePasses
    \/ Collected
    \/ UNCHANGED volVars

LEMMA VolTypeWorld ==
    ASSUME VolTypeOK, WorldSteps
    PROVE  VolTypeOK'
  <1>0. cr \in CRs /\ before \in CRs /\ v \in CRs
    BY DEF VolTypeOK
  <1>1. CASE PassCut \/ DriveFails
    <2>1. mishaps' \in 0 .. MaxMishaps
      BY Zenon, <1>1, Spent1 DEF PassCut, DriveFails
    <2> QED
      BY Zenon, <1>1, <2>1 DEF PassCut, DriveFails, driveRest, VolTypeOK
  <1>2. CASE UserEdits
    <2>1. UNCHANGED <<set, ready, claim, owned, growable, born, doubt>>
      BY Zenon, <1>2 DEF UserEdits
    <2> QED
      BY <1>2, <2>1, UserEditsAre DEF VolTypeOK, passVars
  <1>3. CASE UserDisturbs
    <2>1. cr' \in CRs /\ before' \in CRs /\ edits' \in 0 .. MaxEdits /\ UNCHANGED <<mishaps, passVars>>
      BY Zenon, <1>0, <1>3, EditIs DEF UserDisturbs
    <2>2. claim' \in [Slots -> ClaimStates] /\ set' \in 0 .. MaxSize
      BY <1>3, DoomedIs, VolumesAssumption DEF UserDisturbs, VolTypeOK
    <2>3. ready' = FALSE \/ ready' = ready
      BY Zenon, <1>3 DEF UserDisturbs
    <2>4. growable' = ~growable \/ growable' = growable
      BY Zenon, <1>3 DEF UserDisturbs
    <2>5. ready' \in BOOLEAN /\ growable' \in BOOLEAN
      BY Zenon, <2>3, <2>4 DEF VolTypeOK
    <2> QED
      BY ZenonT(40), <1>3, <2>1, <2>2, <2>5 DEF UserDisturbs, VolTypeOK, passVars
  <1>4. CASE UserRecreates
    <2>1. PICK s \in Sizes : Edit(Fresh(s, cr.policy))
      BY Zenon, <1>4 DEF UserRecreates
    <2>2. cr.policy \in Policies
      BY Zenon, <1>0 DEF CRs
    <2>3. cr' \in CRs /\ before' \in CRs /\ edits' \in 0 .. MaxEdits /\ UNCHANGED <<mishaps, passVars>>
      BY Zenon, <2>1, <2>2, FreshIs, EditIs
    <2>4. doubt' \in BOOLEAN
      BY Zenon, <1>4 DEF UserRecreates
    <2>5. born' \in BOOLEAN
      BY Zenon, <1>4 DEF UserRecreates
    <2> QED
      BY Zenon, <1>4, <2>3, <2>4, <2>5 DEF UserRecreates, VolTypeOK, passVars
  <1>5. CASE ClaimGoes
    <2>1. PICK o \in Claims \ Live : /\ claim' = [claim EXCEPT ![o] = NoClaim]
                                     /\ owned' = owned \ {o}
                                     /\ listed' = listed \ {o}
      BY Zenon, <1>5 DEF ClaimGoes
    <2>2. claim' \in [Slots -> ClaimStates]
      BY Zenon, <2>1, NoClaimIs DEF VolTypeOK
    <2> QED
      BY <1>5, <2>1, <2>2 DEF ClaimGoes, VolTypeOK
  <1>6. CASE ClaimMade
    <2>1. claim' \in [Slots -> ClaimStates]
      BY Zenon, <1>6, MadeIs DEF ClaimMade
    <2> QED
      BY <1>6, <2>1 DEF ClaimMade, VolTypeOK, worldRest, passVars
  <1>7. CASE DriverGrows
    <2>1. claim' \in [Slots -> ClaimStates]
      BY Zenon, <1>7, GrewIs DEF DriverGrows
    <2> QED
      BY <1>7, <2>1 DEF DriverGrows, VolTypeOK, worldRest, passVars
  <1>8. CASE PodsReady
    <2>1. ready' \in BOOLEAN
      BY Zenon, <1>8 DEF PodsReady
    <2> QED
      BY ZenonT(40), <1>8, <2>1 DEF PodsReady, VolTypeOK, worldRest, passVars
  <1>9. CASE BackoffEnds \/ TimePasses
    <2>1. cr' \in CRs /\ before' \in CRs
      BY Zenon, <1>0, <1>9, AgedIs DEF BackoffEnds, TimePasses
    <2>2. mishaps' \in 0 .. MaxMishaps
      BY Zenon, <1>9, Spent1 DEF BackoffEnds, TimePasses
    <2> QED
      BY <1>9, <2>1, <2>2 DEF BackoffEnds, TimePasses, VolTypeOK, worldRest, passVars
  <1>10. CASE Collected
    <2>1. claim' \in [Slots -> ClaimStates] /\ set' \in 0 .. MaxSize
      BY <1>10, NoClaimIs, VolumesAssumption DEF Collected, VolTypeOK
    <2>2. ready' \in BOOLEAN
      BY Zenon, <1>10 DEF Collected
    <2> QED
      BY Zenon, <1>10, <2>1, <2>2 DEF Collected, VolTypeOK, passVars
  <1>11. CASE UNCHANGED volVars
    BY <1>11 DEF volVars, VolTypeOK
  <1> QED
    BY Zenon, <1>1, <1>2, <1>3, <1>4, <1>5, <1>6, <1>7, <1>8, <1>9, <1>10, <1>11 DEF WorldSteps

LEMMA VolTypeStep ==
    ASSUME VolTypeOK, [VolNext]_volVars
    PROVE  VolTypeOK'
  BY Zenon, VolTypePass, VolTypeWorld DEF VolNext, WorldSteps

\* Whatever a step but a patch of FromStsOrphaned does to the claims, no volume starts to
\* grow, and one that grows has the request it had.
LEMMA GrowingStep ==
    ASSUME VolTypeOK, [VolNext]_volVars, ~FromStsOrphaned
    PROVE  \A o \in Growing' : o \in Growing /\ claim'[o].req = claim[o].req
  <1> SUFFICES ASSUME NEW o \in Slots, claim'[o].cap < claim'[o].req
               PROVE  claim[o].cap < claim[o].req /\ claim'[o].req = claim[o].req
    BY Zenon DEF Growing
  <1>0. claim[o] \in ClaimStates /\ claim \in [Slots -> ClaimStates] /\ set \in Nat
    BY VolumesAssumption DEF VolTypeOK
  <1>1. CASE UNCHANGED claim
    BY Zenon, <1>1
  <1>2. CASE UserDisturbs
    BY Zenon, <1>1, <1>2, DoomedIs DEF UserDisturbs
  <1>3. CASE ClaimGoes
    <2>1. PICK p \in Claims \ Live : claim' = [claim EXCEPT ![p] = NoClaim]
      BY Zenon, <1>3 DEF ClaimGoes
    <2>2. o # p
      BY <1>0, <2>1, NoClaimIs
    <2> QED
      BY Zenon, <1>0, <2>1, <2>2
  <1>4. CASE ClaimMade
    <2>1. PICK p \in Slots : claim' = [claim EXCEPT ![p] = [req |-> set, cap |-> set, dying |-> FALSE]]
      BY Zenon, <1>4 DEF ClaimMade
    <2>2. /\ claim'[p].req = set /\ claim'[p].cap = set
          /\ \A q \in Slots : q # p => claim'[q] = claim[q]
      BY Zenon, <1>4, <2>1, MadeIs DEF ClaimMade
    <2> QED
      BY <1>0, <2>2
  <1>5. CASE DriverGrows
    <2>1. PICK p \in Claims : claim[p].cap < claim[p].req /\ claim' = [claim EXCEPT ![p].cap = claim[p].req]
      BY Zenon, <1>5 DEF DriverGrows
    <2>2. /\ claim'[p].req = claim[p].req /\ claim'[p].cap = claim[p].req
          /\ \A q \in Slots : q # p => claim'[q] = claim[q]
      BY Zenon, <2>1, GrewIs
    <2>3. p \in Slots /\ claim[p].req \in Nat
      BY <2>1, VolumesAssumption DEF Claims, VolTypeOK, ClaimStates
    <2> QED
      BY <1>0, <2>2, <2>3
  <1>6. CASE Collected
    <2>1. claim'[o] = IF o \in owned THEN NoClaim ELSE claim[o]
      BY Zenon, <1>6 DEF Collected
    <2> QED
      BY <2>1, NoClaimIs
  <1> QED
    BY ZenonT(40), <1>1, <1>2, <1>3, <1>4, <1>5, <1>6 DEF VolNext, PassSteps, PassBegins, AuthResolved,
       Gate, Phase4,
       FromValidated, FromPVCsPatched, FromStsRecreated, FromVerified, FromAborted, Phase2, PassEnds,
       DeleteVisits, DeleteEnds, PassCut, DriveFails, UserEdits, UserRecreates, PodsReady, BackoffEnds, TimePasses, volVars

\* Between the steps that begin a pass or a CR, sizes never go back, and a pass whose copy
\* has the stored phase writes both.
LEMMA SameStep ==
    ASSUME VolTypeOK, [VolNext]_volVars, ~PassBegins, ~UserRecreates
    PROVE  /\ cr.size <= cr'.size /\ v'.size = v.size
           /\ v.phase = cr.phase => v'.phase = cr'.phase \/ at' = "idle"
  <1>0. cr \in CRs /\ v \in CRs /\ cr.size \in Nat
    BY Zenon, SizesAre DEF VolTypeOK, CRs
  <1> DEFINE Same == cr'.size = cr.size /\ v'.size = v.size
                     /\ (v.phase = cr.phase => v'.phase = cr'.phase)
  <1>1. CASE UNCHANGED <<cr, v>>
    BY <1>0, <1>1
  <1>2. CASE UserEdits
    BY Zenon, <1>0, <1>2, UserEditsAre DEF passVars
  <1>3. CASE BackoffEnds \/ TimePasses
    BY <1>0, <1>3, AgedIs DEF BackoffEnds, TimePasses, worldRest, passVars
  <1>4. CASE \E phase \in Phases : Entered(phase)
    <2>1. Same
      BY Zenon, <1>4, EnteredIs
    <2> QED
      BY <1>0, <2>1
  <1>5. CASE Write([cr EXCEPT !.flagged = TRUE], [v EXCEPT !.flagged = TRUE])
    <2>1. Same
      BY Zenon, <1>0, <1>5 DEF Write, CRs
    <2> QED
      BY <1>0, <2>1
  <1>6. CASE PassEnds
    <2>1. Same
      BY Zenon, <1>0, <1>6 DEF PassEnds, Write, CRs
    <2> QED
      BY <1>0, <2>1
  <1>7. CASE DeleteEnds
    <2>1. cr'.size = cr.size /\ v' = v /\ at' = "idle"
      BY Zenon, <1>0, <1>7 DEF DeleteEnds, CRs
    <2> QED
      BY <1>0, <2>1
  <1>8. CASE Phase4 \/ FromValidated \/ FromStsOrphaned \/ FromPVCsPatched \/ FromStsRecreated
             \/ FromVerified \/ FromAborted
    <2>1. \/ UNCHANGED <<cr, v>>
          \/ \E phase \in Phases : Entered(phase)
          \/ Write([cr EXCEPT !.flagged = TRUE], [v EXCEPT !.flagged = TRUE])
      BY Zenon, <1>8, PhasesAre DEF Phase4, FromValidated, FromStsOrphaned, FromPVCsPatched, FromStsRecreated,
         FromVerified, FromAborted
    <2> QED
      BY Zenon, <1>1, <1>4, <1>5, <2>1
  <1> QED
    BY ZenonT(40), <1>1, <1>2, <1>3, <1>6, <1>7, <1>8 DEF VolNext, PassSteps, AuthResolved, Gate, Phase2,
       DeleteVisits, PassCut, DriveFails, UserDisturbs, ClaimGoes, ClaimMade, DriverGrows, PodsReady, Collected,
       worldRest, volVars, passVars, Edit

LEMMA SureStep ==
    ASSUME VolInv, [VolNext]_volVars, VolTypeOK'
    PROVE  (doubt \/ Sure)'
  <1> SUFFICES ASSUME ~doubt' PROVE Sure'
    OBVIOUS
  <1>0. /\ VolTypeOK /\ cr \in CRs /\ v \in CRs /\ cr.size \in Nat /\ v.size \in Nat
        /\ cr' \in CRs /\ v' \in CRs /\ cr'.size \in Nat /\ v'.size \in Nat
        /\ \A o \in Slots : claim[o].req \in Nat /\ claim'[o].req \in Nat
    <2>1. /\ VolTypeOK /\ cr \in CRs /\ v \in CRs /\ claim \in [Slots -> ClaimStates]
          /\ cr' \in CRs /\ v' \in CRs /\ claim' \in [Slots -> ClaimStates]
      BY Zenon DEF VolInv, VolTypeOK
    <2>2. \A c \in CRs : c.size \in Nat
      BY Zenon, SizesAre DEF CRs
    <2>3. \A d \in ClaimStates : d.req \in Nat
      BY VolumesAssumption DEF ClaimStates
    <2> QED
      BY Zenon, <2>1, <2>2, <2>3
  <1>1. CASE PassBegins
    <2>1. ~(doubt /\ (cr.phase # "" \/ Growing # {})) /\ UNCHANGED claim
      BY Zenon, <1>1 DEF PassBegins
    <2>2. v'.phase = cr'.phase /\ v'.size = cr'.size /\ cr'.phase = cr.phase /\ cr'.size = cr.size
      <3>1. \/ v' = cr /\ cr' = cr
            \/ v' = [cr EXCEPT !.fin = TRUE] /\ cr' = [cr EXCEPT !.fin = TRUE]
        BY Zenon, <1>1 DEF PassBegins
      <3> QED
        BY <1>0, <3>1 DEF CRs
    <2>3. Growing' = Growing
      BY Zenon, <2>1 DEF Growing
    <2>4. v'.size <= cr'.size
      BY <1>0, <2>2
    <2>5. \A o \in Growing : claim[o].req <= cr.size
      BY Zenon, <2>1 DEF VolInv, Sure
    <2>6. cr.phase \in {"StsRecreated", "Verified"} => Growing = {}
      BY Zenon, <2>1 DEF VolInv, Sure
    <2>7. \A o \in Growing' : claim'[o].req <= cr'.size /\ claim'[o].req <= v'.size
      BY Zenon, <2>1, <2>2, <2>3, <2>5
    <2>8. cr'.phase \in {"StsRecreated", "Verified"} => Growing' = {}
      BY Zenon, <2>2, <2>3, <2>6
    <2> QED
      BY Zenon, <2>2, <2>4, <2>7, <2>8 DEF Sure
  <1>2. CASE UserRecreates
    <2>1. Growing = {} /\ UNCHANGED claim /\ at = "idle"
      BY Zenon, <1>2 DEF UserRecreates
    <2>2. Growing' = {} /\ at' = "idle"
      BY Zenon, <1>2, <2>1 DEF Growing, UserRecreates, Edit, passVars
    <2> QED
      BY Zenon, <2>2 DEF Sure
  <1>3. CASE ~PassBegins /\ ~UserRecreates
    <2>1. doubt' = doubt
      BY Zenon, <1>3 DEF VolNext, PassSteps, AuthResolved, Gate, Phase4, FromValidated, FromStsOrphaned,
         FromPVCsPatched, FromStsRecreated, FromVerified, FromAborted, Phase2, PassEnds,
         DeleteVisits, DeleteEnds, PassCut, DriveFails, UserEdits, UserDisturbs, ClaimGoes, ClaimMade, DriverGrows,
         PodsReady, BackoffEnds, TimePasses, Collected, driveRest, worldRest, volVars
    <2>2. Sure
      BY Zenon, <2>1 DEF VolInv
    <2>3. CASE FromStsOrphaned
      <3>1. v.phase = cr.phase /\ v.phase = "StsOrphaned" /\ v.size <= cr.size /\ at = "drive"
        BY Zenon, <2>2, <2>3 DEF FromStsOrphaned, Sure
      <3>2. \/ UNCHANGED <<cr, v>>
            \/ Entered("Aborted") /\ UNCHANGED claim
            \/ Entered("PVCsPatched") /\ UNCHANGED claim
        BY Zenon, <2>3 DEF FromStsOrphaned
      <3>3. /\ v'.phase = cr'.phase /\ cr'.phase \notin {"StsRecreated", "Verified"}
            /\ v'.size = v.size /\ cr'.size = cr.size
        BY Zenon, <1>0, <3>1, <3>2, EnteredIs, PhasesAre
      <3>4. \A o \in Growing' : claim'[o].req <= v.size
        <4>1. CASE UNCHANGED claim
          BY Zenon, <2>2, <3>1, <4>1 DEF Growing, Sure
        <4>2. CASE \E o \in Claims : claim' = [claim EXCEPT ![o].req = v.size]
          <5>1. PICK o \in Claims : claim' = [claim EXCEPT ![o].req = v.size]
            BY Zenon, <4>2
          <5>2. v.size \in Sizes /\ o \in Slots
            BY Zenon, <1>0 DEF CRs, Claims
          <5>3. claim'[o].req = v.size /\ \A p \in Slots : p # o => claim'[p] = claim[p]
            BY Zenon, <1>0, <5>1, <5>2, PatchedIs
          <5> SUFFICES ASSUME NEW p \in Growing' PROVE claim'[p].req <= v.size
            OBVIOUS
          <5>4. p \in Slots
            BY Zenon DEF Growing
          <5>5. CASE p = o
            BY <1>0, <5>3, <5>5
          <5>6. CASE p # o
            <6>1. p \in Growing /\ claim'[p] = claim[p]
              BY Zenon, <5>3, <5>4, <5>6 DEF Growing
            <6> QED
              BY Zenon, <2>2, <3>1, <6>1 DEF Sure
          <5> QED
            BY Zenon, <5>5, <5>6
        <4> QED
          BY Zenon, <2>3, <4>1, <4>2 DEF FromStsOrphaned
      <3>5. \A o \in Growing' : claim'[o].req \in Nat
        BY Zenon, <1>0 DEF Growing
      <3> QED
        BY <1>0, <3>1, <3>3, <3>4, <3>5 DEF Sure
    <2>4. CASE ~FromStsOrphaned
      <3>1. \A o \in Growing' : o \in Growing /\ claim'[o].req = claim[o].req
        BY Zenon, <1>0, <2>4, GrowingStep
      <3>2. \A o \in Growing : o \in Slots /\ claim[o].req \in Nat
        BY Zenon, <1>0 DEF Growing
      <3>3. cr.size <= cr'.size /\ v'.size = v.size
        BY Zenon, <1>0, <1>3, SameStep
      <3>4. at' # "idle" => at # "idle"
        BY ZenonT(40), <1>3 DEF VolNext, PassSteps, AuthResolved, Gate, Phase4, FromValidated, FromStsOrphaned,
           FromPVCsPatched, FromStsRecreated, FromVerified, FromAborted, Phase2, PassEnds,
           DeleteVisits, DeleteEnds, PassCut, DriveFails, UserEdits, UserDisturbs, ClaimGoes, ClaimMade, DriverGrows,
           PodsReady, BackoffEnds, TimePasses, Collected, worldRest, volVars, passVars, Edit
      <3>5. \A o \in Growing' : /\ claim'[o].req <= cr'.size
                                /\ at' # "idle" => claim'[o].req <= v'.size
        BY <1>0, <2>2, <3>1, <3>2, <3>3, <3>4 DEF Sure
      <3>6. CASE FromPVCsPatched
        <4>1. at # "idle" /\ v.phase = cr.phase /\ v.size <= cr.size
          BY Zenon, <2>2, <3>6 DEF FromPVCsPatched, Sure
        <4>2. \/ UNCHANGED <<cr, v>>
              \/ Entered("Aborted")
              \/ Entered("StsRecreated") /\ \A o \in Claims : Grown(o)
          BY Zenon, <3>6 DEF FromPVCsPatched
        <4>3. v'.phase = cr'.phase
          BY Zenon, <1>0, <4>1, <4>2, EnteredIs, PhasesAre
        <4>4. ASSUME cr'.phase \in {"StsRecreated", "Verified"} PROVE Growing' = {}
          <5>1. v.phase = "PVCsPatched"
            BY Zenon, <3>6 DEF FromPVCsPatched
          <5>2. \A o \in Claims : claim[o].cap >= v.size
            BY Zenon, <1>0, <4>1, <4>2, <4>4, <5>1, EnteredIs, PhasesAre DEF Grown
          <5>3. ASSUME NEW o \in Growing PROVE FALSE
            <6>1. o \in Slots /\ claim[o].cap < claim[o].req /\ claim[o].cap \in Nat
              BY <1>0, <5>3, VolumesAssumption DEF Growing, VolTypeOK, ClaimStates
            <6>2. claim[o].req <= v.size
              BY Zenon, <2>2, <4>1, <5>3 DEF Sure
            <6>3. claim[o] # NoClaim
              BY <6>1, NoClaimIs
            <6>4. claim[o].cap >= v.size
              BY Zenon, <5>2, <6>1, <6>3 DEF Claims
            <6> QED
              BY <1>0, <6>1, <6>2, <6>4
          <5> QED
            BY Zenon, <3>1, <5>3
        <4> QED
          BY <1>0, <3>3, <3>5, <4>1, <4>3, <4>4 DEF Sure
      <3>7. CASE ~FromPVCsPatched
        <4>1. ASSUME at # "idle", v.phase = cr.phase PROVE v'.phase = cr'.phase \/ at' = "idle"
          BY Zenon, <1>0, <1>3, <4>1, SameStep
        <4>2. \/ cr'.phase = cr.phase
              \/ cr'.phase \notin {"StsRecreated", "Verified"}
              \/ cr.phase = "StsRecreated"
          <5>1. CASE UserEdits
            BY Zenon, <1>0, <5>1, UserEditsAre
          <5>2. CASE FromStsRecreated
            BY Zenon, <2>2, <5>2 DEF FromStsRecreated, Sure
          <5>3. CASE BackoffEnds \/ TimePasses
            BY Zenon, <1>0, <5>3, AgedIs DEF BackoffEnds, TimePasses
          <5>4. CASE Phase4 \/ FromValidated \/ FromVerified
            <6>1. at # "idle" /\ v.phase = cr.phase
              BY Zenon, <2>2, <5>4 DEF Phase4, FromValidated, FromVerified, Sure
            <6>2. \/ UNCHANGED cr
                  \/ Entered("Aborted")
                  \/ Entered("Validated")
                  \/ cr' = [cr EXCEPT !.flagged = TRUE]
                  \/ Entered("StsOrphaned")
                  \/ Entered("")
              BY Zenon, <5>4 DEF Phase4, FromValidated, FromVerified, Write
            <6>3. [cr EXCEPT !.flagged = TRUE].phase = cr.phase
              BY Zenon, <1>0 DEF CRs
            <6> QED
              BY Zenon, <1>0, <6>1, <6>2, <6>3, EnteredIs, PhasesAre
          <5>5. CASE PassEnds \/ DeleteEnds
            BY ZenonT(40), <1>0, <5>5 DEF PassEnds, DeleteEnds, Write, CRs
          <5> QED
            BY ZenonT(40), <1>3, <2>4, <3>7, <5>1, <5>2, <5>3, <5>4, <5>5
               DEF VolNext, PassSteps, AuthResolved, Gate, FromAborted, Phase2, DeleteVisits,
               PassCut, DriveFails, UserDisturbs, ClaimGoes, ClaimMade, DriverGrows, PodsReady,
               Collected, volVars, Edit
        <4>3. cr'.phase \in {"StsRecreated", "Verified"} => Growing' = {}
          BY Zenon, <2>2, <3>1, <4>2 DEF Sure
        <4>4. at' # "idle" => v'.phase = cr'.phase /\ v'.size <= cr'.size
          BY <1>0, <2>2, <3>3, <3>4, <4>1 DEF Sure
        <4> QED
          BY Zenon, <3>5, <4>3, <4>4 DEF Sure
      <3> QED
        BY <3>6, <3>7
    <2> QED
      BY Zenon, <2>3, <2>4
  <1> QED
    BY Zenon, <1>1, <1>2, <1>3

LEMMA ConsentedStep ==
    ASSUME VolInv, [VolNext]_volVars
    PROVE  Consented'
  <1> SUFFICES ASSUME at' \in {"phase4", "drive", "orphaned", "phase2"}, lost', v'.policy = "Retain"
               PROVE  v'.accept
    BY Zenon DEF Consented
  <1>0. VolTypeOK /\ cr \in CRs /\ v \in CRs
    BY Zenon DEF VolInv, VolTypeOK
  <1>1. CASE Gate
    <2>1. Proceeds /\ v' = v
      BY Zenon, <1>1 DEF Gate
    <2>2. hadFin /\ set = 0 /\ Live = {}
      BY Zenon, <1>1 DEF Gate
    <2>3. ~(set > 0)
      BY <2>2
    <2> QED
      BY Zenon, <2>1, <2>2, <2>3 DEF Proceeds, LiveClaims
  <1>2. CASE Phase4 \/ FromValidated \/ FromStsOrphaned \/ FromPVCsPatched \/ FromStsRecreated
             \/ FromVerified \/ FromAborted
    <2>1. at \in {"phase4", "drive", "orphaned", "phase2"} /\ lost' = lost
      BY Zenon, <1>2 DEF Phase4, FromValidated, FromStsOrphaned, FromPVCsPatched, FromStsRecreated,
         FromVerified, FromAborted, driveRest
    <2>2. \/ UNCHANGED v
          \/ \E phase \in Phases : Entered(phase)
          \/ v' = [v EXCEPT !.flagged = TRUE]
      BY Zenon, <1>2, PhasesAre DEF Phase4, FromValidated, FromStsOrphaned, FromPVCsPatched, FromStsRecreated,
         FromVerified, FromAborted, Write
    <2>3. /\ [v EXCEPT !.flagged = TRUE].policy = v.policy
          /\ [v EXCEPT !.flagged = TRUE].accept = v.accept
      BY Zenon, <1>0 DEF CRs
    <2>4. v'.policy = v.policy /\ v'.accept = v.accept
      BY Zenon, <1>0, <2>2, <2>3, EnteredIs
    <2> QED
      BY Zenon, <2>1, <2>4 DEF VolInv, Consented
  <1>3. CASE UNCHANGED <<at, lost, v>>
    BY Zenon, <1>3 DEF VolInv, Consented
  <1>4. CASE DriveFails
    <2>1. /\ at \in {"phase4", "drive", "orphaned", "phase2"}
          /\ lost' = lost /\ v' = v
      BY Zenon, <1>4 DEF DriveFails, driveRest
    <2> QED
      BY Zenon, <2>1 DEF VolInv, Consented
  <1> QED
    BY ZenonT(40), <1>1, <1>2, <1>3, <1>4 DEF VolNext, PassSteps, PassBegins, AuthResolved, Phase2,
       PassEnds, DeleteVisits,
       DeleteEnds, PassCut, UserEdits, UserDisturbs, UserRecreates, ClaimGoes, ClaimMade, DriverGrows,
       PodsReady, BackoffEnds, TimePasses, Collected, worldRest, volVars, passVars, Edit

\* Steps outside a deletion leave the owner references to the claims they belong to.
LEMMA ClaimsStep ==
    ASSUME VolTypeOK, [VolNext]_volVars, ~ClaimGoes, ~Collected
    PROVE  Claims \subseteq Claims'
  <1> SUFFICES ASSUME NEW o \in Slots, claim[o] # NoClaim
               PROVE  claim'[o] # NoClaim
    BY Zenon DEF Claims
  <1>0. claim \in [Slots -> ClaimStates]
    BY Zenon DEF VolTypeOK
  <1>1. CASE UNCHANGED claim
    BY Zenon, <1>1
  <1>2. CASE UserDisturbs
    BY Zenon, <1>1, <1>2, DoomedIs DEF UserDisturbs
  <1>3. CASE ClaimMade
    <2>1. PICK p \in Slots : claim' = [claim EXCEPT ![p] = [req |-> set, cap |-> set, dying |-> FALSE]]
      BY Zenon, <1>3 DEF ClaimMade
    <2>2. claim'[p] # NoClaim /\ \A q \in Slots : q # p => claim'[q] = claim[q]
      BY Zenon, <1>3, <2>1, MadeIs DEF ClaimMade
    <2> QED
      BY Zenon, <2>2
  <1>4. CASE DriverGrows
    <2>1. PICK p \in Claims : claim[p].cap < claim[p].req /\ claim' = [claim EXCEPT ![p].cap = claim[p].req]
      BY Zenon, <1>4 DEF DriverGrows
    <2>2. claim'[p] # NoClaim /\ \A q \in Slots : q # p => claim'[q] = claim[q]
      BY Zenon, <2>1, GrewIs
    <2> QED
      BY Zenon, <2>2
  <1>5. CASE FromStsOrphaned
    <2>1. CASE \E p \in Claims : claim' = [claim EXCEPT ![p].req = v.size]
      <3>1. PICK p \in Claims : claim' = [claim EXCEPT ![p].req = v.size]
        BY Zenon, <2>1
      <3>2. v.size \in Sizes /\ p \in Slots
        BY Zenon DEF VolTypeOK, CRs, Claims
      <3>3. claim'[p] # NoClaim /\ \A q \in Slots : q # p => claim'[q] = claim[q]
        BY Zenon, <3>1, <3>2, PatchedIs
      <3> QED
        BY <3>3
    <2> QED
      BY Zenon, <1>1, <1>5, <2>1 DEF FromStsOrphaned
  <1> QED
    BY ZenonT(40), <1>1, <1>2, <1>3, <1>4, <1>5 DEF VolNext, PassSteps, PassBegins, AuthResolved, Gate,
       Phase4,
       FromValidated, FromPVCsPatched, FromStsRecreated, FromVerified, FromAborted, Phase2, PassEnds,
       DeleteVisits, DeleteEnds, PassCut, DriveFails, UserEdits, UserRecreates, PodsReady, BackoffEnds, TimePasses, volVars

LEMMA VisitedStep ==
    ASSUME VolInv, [VolNext]_volVars
    PROVE  Visited'
  <1>0. /\ VolTypeOK /\ Visited /\ owned \subseteq Slots /\ listed \subseteq Slots /\ todo \subseteq Slots
        /\ claim \in [Slots -> ClaimStates]
    BY Zenon DEF VolInv, VolTypeOK
  <1>1. CASE PassBegins
    <2>1. UNCHANGED <<owned, claim>> /\ todo' = listed' /\ (at' = "delete" => listed' = Claims)
      BY Zenon, <1>1 DEF PassBegins
    <2>2. Claims' = Claims
      BY Zenon, <2>1 DEF Claims
    <2> QED
      BY Zenon, <1>0, <2>1, <2>2 DEF Visited
  <1>2. CASE DeleteVisits
    <2>1. PICK o \in todo :
          /\ todo' = todo \ {o}
          /\ LET settled == (o \in owned) = (v.policy = "Delete") IN
             \/ /\ settled
                /\ UNCHANGED <<owned, failed>>
             \/ /\ ~settled /\ o \in Claims
                /\ owned' = IF v.policy = "Delete" THEN owned \cup {o} ELSE owned \ {o}
                /\ UNCHANGED failed
             \/ failed' = TRUE /\ UNCHANGED owned
      BY Zenon, <1>2 DEF DeleteVisits
    <2>2. UNCHANGED <<claim, v, listed, at>> /\ at = "delete"
      BY Zenon, <1>2 DEF DeleteVisits
    <2>3. Claims' = Claims
      BY Zenon, <2>2 DEF Claims
    <2>4. CASE failed' = TRUE /\ UNCHANGED owned
      BY Zenon, <1>0, <2>2, <2>3, <2>4 DEF Visited
    <2>5. CASE UNCHANGED failed /\ v.policy = "Delete"
      <3>1. owned' \subseteq Claims /\ owned \subseteq owned' /\ (o \in owned' \/ failed')
        BY Zenon, <1>0, <2>1, <2>5 DEF Visited
      <3>2. failed \/ listed \subseteq owned' \cup todo'
        BY Zenon, <1>0, <2>1, <2>2, <2>5, <3>1 DEF Visited
      <3> QED
        BY Zenon, <1>0, <2>2, <2>3, <2>5, <3>1, <3>2 DEF Visited
    <2>6. CASE UNCHANGED failed /\ v.policy # "Delete"
      <3>1. owned' \subseteq owned /\ (o \notin owned' \/ failed')
        BY Zenon, <2>1, <2>6
      <3>2. failed \/ owned' \subseteq todo'
        BY Zenon, <1>0, <2>1, <2>2, <2>6, <3>1 DEF Visited
      <3> QED
        BY Zenon, <1>0, <2>2, <2>3, <2>6, <3>1, <3>2 DEF Visited
    <2> QED
      BY Zenon, <2>1, <2>4, <2>5, <2>6
  <1>3. CASE ClaimGoes
    <2>1. PICK o \in Claims \ Live : /\ claim' = [claim EXCEPT ![o] = NoClaim]
                                     /\ owned' = owned \ {o}
                                     /\ listed' = listed \ {o}
      BY Zenon, <1>3 DEF ClaimGoes
    <2>2. UNCHANGED <<v, at, todo, failed>>
      BY Zenon, <1>3 DEF ClaimGoes
    <2>3. Claims' = Claims \ {o}
      BY Zenon, <1>0, <2>1 DEF Claims
    <2> QED
      BY Zenon, <1>0, <2>1, <2>2, <2>3 DEF Visited
  <1>4. CASE Collected
    <2>1. owned' = {} /\ at' = "idle"
      BY Zenon, <1>4 DEF Collected, passVars
    <2> QED
      BY Zenon, <2>1 DEF Visited
  <1>5. CASE ~PassBegins /\ ~DeleteVisits /\ ~ClaimGoes /\ ~Collected
    <2>1. Claims \subseteq Claims'
      BY Zenon, <1>0, <1>5, ClaimsStep
    <2>2. UNCHANGED owned
      BY ZenonT(40), <1>5 DEF VolNext, PassSteps, AuthResolved, Gate, Phase4, FromValidated, FromStsOrphaned,
         FromPVCsPatched, FromStsRecreated, FromVerified, FromAborted, Phase2, PassEnds,
         DeleteEnds, PassCut, DriveFails, UserEdits, UserDisturbs, UserRecreates, ClaimMade, DriverGrows,
         PodsReady, BackoffEnds, TimePasses, driveRest, worldRest, volVars
    <2>3. at' = "delete" => UNCHANGED <<at, v, listed, todo, failed>>
      BY ZenonT(40), <1>5 DEF VolNext, PassSteps, AuthResolved, Gate, Phase4, FromValidated, FromStsOrphaned,
         FromPVCsPatched, FromStsRecreated, FromVerified, FromAborted, Phase2, PassEnds,
         DeleteEnds, PassCut, DriveFails, UserEdits, UserDisturbs, UserRecreates, ClaimMade, DriverGrows,
         PodsReady, BackoffEnds, TimePasses, worldRest, volVars, passVars, Edit
    <2> QED
      BY Zenon, <1>0, <2>1, <2>2, <2>3 DEF Visited
  <1> QED
    BY Zenon, <1>1, <1>2, <1>3, <1>4, <1>5

LEMMA VolInitial ==
    VolInit => VolInv
  <1> SUFFICES ASSUME VolInit PROVE VolInv
    OBVIOUS
  <1>1. PICK policy \in Policies, running \in BOOLEAN, kept \in 0 .. MaxSize :
          /\ running => kept = 1
          /\ cr = [Fresh(1, policy) EXCEPT !.fin = running]
          /\ set = IF running THEN 1 ELSE 0
          /\ ready = running
          /\ born = running
          /\ claim = [o \in Slots |-> [NoClaim EXCEPT !.req = kept, !.cap = kept]]
    BY Zenon DEF VolInit
  <1>2. 1 \in Sizes /\ 1 \in 0 .. MaxSize /\ 0 \in 0 .. MaxSize
    BY VolumesAssumption DEF Sizes
  <1>3. Fresh(1, policy) \in CRs
    BY Zenon, <1>2, FreshIs
  <1>4. cr \in CRs
    BY Zenon, <1>1, <1>3 DEF CRs
  <1>5. [NoClaim EXCEPT !.req = kept, !.cap = kept] \in ClaimStates
    BY Zenon, NoClaimIs DEF ClaimStates
  <1>6. claim \in [Slots -> ClaimStates] /\ set \in 0 .. MaxSize
    BY Zenon, <1>1, <1>2, <1>5
  <1>7. hadFin \in BOOLEAN /\ failed \in BOOLEAN /\ growable \in BOOLEAN /\ lost \in BOOLEAN /\ doubt \in BOOLEAN
    BY Zenon DEF VolInit
  <1>8. ready \in BOOLEAN /\ born \in BOOLEAN
    BY Zenon, <1>1
  <1>9. VolTypeOK
    BY <1>4, <1>6, <1>7, <1>8, VolumesAssumption DEF VolInit, VolTypeOK
  <1>10. cr.phase = ""
    BY Zenon, <1>1 DEF Fresh
  <1>11. ASSUME NEW o \in Slots PROVE claim[o].cap = kept /\ claim[o].req = kept
    BY Zenon, <1>1, <1>11 DEF NoClaim
  <1>12. Growing = {}
    BY <1>11 DEF Growing
  <1>13. Sure
    BY Zenon, <1>10, <1>12 DEF Sure, VolInit
  <1>14. Consented /\ Visited
    BY Zenon DEF Consented, Visited, VolInit
  <1> QED
    BY Zenon, <1>9, <1>13, <1>14 DEF VolInv

LEMMA VolStep ==
    ASSUME VolInv, [VolNext]_volVars
    PROVE  VolInv'
  <1>1. VolTypeOK'
    BY Zenon, VolTypeStep DEF VolInv
  <1> QED
    BY Zenon, <1>1, SureStep, ConsentedStep, VisitedStep DEF VolInv

\* For any claims, sizes, users and failures: Phase 2 brings the StatefulSet back only when
\* the stored phase and, over lost claims, the user let it (reconcileStatefulSet's guard,
\* detectPVCLossAndGate).
THEOREM RecreateIsGuarded ==
    VolSpec => GuardedRecreate
  <1> DEFINE A == set = 0 /\ set' > 0
                     => /\ ~doubt => cr.phase \notin {"Validated", "StsOrphaned", "PVCsPatched"}
                        /\ lost /\ v.policy = "Retain" => v.accept
  <1>1. ASSUME VolInv, [VolNext]_volVars PROVE A
    <2> SUFFICES ASSUME set = 0, set' > 0
                 PROVE  /\ ~doubt => cr.phase \notin {"Validated", "StsOrphaned", "PVCsPatched"}
                        /\ lost /\ v.policy = "Retain" => v.accept
      OBVIOUS
    <2>0. set' # 0 /\ set' # set
      OBVIOUS
    <2>1. Phase2
      BY ZenonT(40), <1>1, <2>0 DEF VolNext, PassSteps, PassBegins, AuthResolved, Gate, Phase4,
         FromValidated, FromStsOrphaned,
         FromPVCsPatched, FromStsRecreated, FromVerified, FromAborted, PassEnds,
         DeleteVisits, DeleteEnds, PassCut, DriveFails, UserEdits, UserDisturbs, UserRecreates, ClaimGoes, ClaimMade,
         DriverGrows, PodsReady, BackoffEnds, TimePasses, Collected, volVars
    <2>2. at = "phase2" /\ v.phase \notin Guarding
      BY <2>1 DEF Phase2
    <2>3. ~doubt => cr.phase \notin Guarding
      BY Zenon, <1>1, <2>2 DEF VolInv, Sure
    <2>4. lost /\ v.policy = "Retain" => v.accept
      BY Zenon, <1>1, <2>2 DEF VolInv, Consented
    <2> QED
      BY Zenon, <2>3, <2>4 DEF Guarding
  <1>2. [VolNext]_volVars /\ VolInv => [A]_volVars
    BY Zenon, <1>1
  <1> QED
    BY <1>2, VolInitial, VolStep, PTL DEF VolSpec, GuardedRecreate

\* A resize reported complete leaves no volume growing (FromPVCsPatched to FromVerified).
THEOREM CompleteIsGrown ==
    VolSpec => CompleteMeansGrown
  <1> DEFINE A == cr.phase = "Verified" /\ cr'.phase = "" /\ ~cr'.gone /\ ~doubt => Growing = {}
  <1>1. [VolNext]_volVars /\ VolInv => [A]_volVars
    BY ZenonT(40) DEF VolInv, Sure
  <1> QED
    BY <1>1, VolInitial, VolStep, PTL DEF VolSpec, CompleteMeansGrown

\* Only the end of a deletion without a failure lets a CR go.
LEMMA GoneStep ==
    ASSUME VolTypeOK, [VolNext]_volVars, ~cr.gone, cr'.gone
    PROVE  DeleteEnds /\ ~failed
  <1>0. cr \in CRs /\ before \in CRs /\ v \in CRs
    BY Zenon DEF VolTypeOK
  <1>1. CASE UNCHANGED cr
    BY Zenon, <1>1
  <1>2. CASE \E phase \in Phases : Entered(phase)
    <2>1. PICK phase \in Phases : Entered(phase)
      BY Zenon, <1>2
    <2>2. cr' = cr \/ cr' = In(phase, cr)
      BY Zenon, <2>1 DEF Entered, Write
    <2>3. In(phase, cr).gone = cr.gone
      BY Zenon, <1>0 DEF In, CRs
    <2> QED
      BY Zenon, <2>2, <2>3
  <1>3. CASE cr' = [cr EXCEPT !.flagged = TRUE] \/ cr' = [cr EXCEPT !.accept = FALSE]
             \/ cr' = [cr EXCEPT !.fin = TRUE] \/ cr' = Aged(cr)
    BY Zenon, <1>0, <1>3 DEF Aged, CRs
  <1>4. CASE UserEdits
    <2>1. \/ \E s \in Int : cr' = [cr EXCEPT !.size = s]
          \/ \E p \in Policies : cr' = [cr EXCEPT !.policy = p]
          \/ cr' = [cr EXCEPT !.accept = TRUE]
          \/ cr' = [cr EXCEPT !.deleting = TRUE]
      BY <1>4 DEF UserEdits, Edit
    <2> QED
      BY Zenon, <1>0, <2>1 DEF CRs
  <1>5. CASE UserRecreates
    BY Zenon, <1>5 DEF UserRecreates
  <1>6. CASE DeleteEnds
    BY Zenon, <1>1, <1>6 DEF DeleteEnds
  <1>7. CASE Phase4 \/ FromValidated \/ FromStsOrphaned \/ FromPVCsPatched \/ FromStsRecreated
             \/ FromVerified \/ FromAborted
    <2>1. \/ UNCHANGED cr
          \/ \E phase \in Phases : Entered(phase)
          \/ cr' = [cr EXCEPT !.flagged = TRUE]
      BY Zenon, <1>7, PhasesAre DEF Phase4, FromValidated, FromStsOrphaned, FromPVCsPatched, FromStsRecreated,
         FromVerified, FromAborted, Write
    <2> QED
      BY Zenon, <1>1, <1>2, <1>3, <2>1
  <1>8. CASE PassBegins \/ PassEnds \/ BackoffEnds \/ TimePasses
    <2>1. \/ UNCHANGED cr
          \/ cr' = [cr EXCEPT !.accept = FALSE]
          \/ cr' = [cr EXCEPT !.fin = TRUE]
          \/ cr' = Aged(cr)
      BY Zenon, <1>8 DEF PassBegins, PassEnds, BackoffEnds, TimePasses, Write
    <2> QED
      BY Zenon, <1>1, <1>3, <2>1
  <1>9. CASE AuthResolved \/ Gate \/ Phase2 \/ DeleteVisits \/ PassCut \/ DriveFails
    BY ZenonT(40), <1>1, <1>9 DEF AuthResolved, Gate, Phase2, DeleteVisits, PassCut, DriveFails
  <1>10. CASE UserDisturbs \/ ClaimGoes \/ ClaimMade \/ DriverGrows \/ PodsReady \/ Collected
              \/ UNCHANGED volVars
    BY ZenonT(40), <1>1, <1>10 DEF UserDisturbs, Edit, ClaimGoes, ClaimMade, DriverGrows, PodsReady,
       Collected, volVars
  <1> QED
    BY Zenon, <1>4, <1>5, <1>6, <1>7, <1>8, <1>9, <1>10 DEF VolNext, PassSteps

\* When the CR goes under the policy its last pass read, the owner references are what that
\* policy asks for, whatever policies and failed passes came before (reconcileDeletion).
THEOREM RetentionIsHonoured ==
    VolSpec => RetentionHonoured
  <1> DEFINE A == ~cr.gone /\ cr'.gone /\ v.policy = cr.policy
                     => IF cr.policy = "Delete" THEN listed \cap Claims \subseteq owned
                                                ELSE owned = {}
  <1>1. ASSUME VolInv, [VolNext]_volVars PROVE A
    <2> SUFFICES ASSUME ~cr.gone, cr'.gone, v.policy = cr.policy
                 PROVE  IF cr.policy = "Delete" THEN listed \cap Claims \subseteq owned ELSE owned = {}
      OBVIOUS
    <2>1. DeleteEnds /\ ~failed
      BY Zenon, <1>1, GoneStep DEF VolInv
    <2> QED
      BY Zenon, <1>1, <2>1 DEF VolInv, Visited, DeleteEnds
  <1>2. [VolNext]_volVars /\ VolInv => [A]_volVars
    BY Zenon, <1>1
  <1> QED
    BY <1>2, VolInitial, VolStep, PTL DEF VolSpec, RetentionHonoured
=============================================================================
