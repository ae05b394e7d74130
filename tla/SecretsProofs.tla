--------------------------- MODULE SecretsProofs ----------------------------
(***************************************************************************)
(* Proofs about the secrets: the passwords (AuthRotation), and the         *)
(* certificates of the webhook (WebhookCA), for any pods, init containers, *)
(* leaves and numbers of edits, faults and restarts.                       *)
(***************************************************************************)
EXTENDS AuthRotation, WebhookCA, TLAPS

(* AuthRotation: the passwords that the Secret, the pods and the operator hold. *)

LEMMA AuthInitial == AuthInit => AuthInv
  <1> SUFFICES ASSUME AuthInit PROVE AuthInv
    OBVIOUS
  <1>1. AuthTypeOK
    <2>1. hold \in BOOLEAN
      BY Zenon DEF AuthInit
    <2>2. 0 \in Passwords /\ 1 \in Passwords
      BY AuthAssumption DEF Passwords
    <2> QED
      BY <2>1, <2>2, AuthAssumption DEF AuthInit, AuthTypeOK, NoPwd, Phases
  <1>2. CredentialKnown /\ walk = "idle"
    BY Zenon DEF AuthInit, CredentialKnown
  <1> QED
    BY Zenon, <1>1, <1>2 DEF AuthInv

LEMMA AuthTypeStep ==
    ASSUME AuthTypeOK, [AuthNext]_authVars
    PROVE  AuthTypeOK'
  <1> USE AuthAssumption DEF AuthTypeOK, Passwords, NoPwd, Phases
  <1>1. CASE ClearAuth
    BY <1>1 DEF ClearAuth, Observes, Persisted, NotPersisted, AuthFault, podVars, statusVars, walkVars,
       boundVars
  <1>2. CASE FirstObservation
    BY <1>2 DEF FirstObservation, Adopt, Unwalked, Observes, Persisted, NotPersisted, AuthFault, podVars,
       statusVars, walkVars, boundVars
  <1>3. CASE Settle
    BY <1>3 DEF Settle, Observes, Persisted, NotPersisted, AuthFault, podVars, statusVars, walkVars, boundVars
  <1>4. CASE SteadyState
    BY Zenon, <1>4 DEF SteadyState, Observes, podVars, statusVars, walkVars, boundVars
  <1>5. CASE AdoptMissed
    BY <1>5 DEF AdoptMissed, Adopt, Unwalked, Observes, Persisted, NotPersisted, AuthFault, podVars,
       statusVars, walkVars, boundVars
  <1>6. CASE DriveAuthRotation
    BY <1>6 DEF DriveAuthRotation, Observes, Persisted, NotPersisted, AuthFault, podVars, statusVars,
       boundVars
  <1>7. ASSUME NEW p \in Members, RotateOne(p) PROVE AuthTypeOK'
    BY Zenon, <1>7 DEF RotateOne, statusVars, boundVars
  <1>8. ASSUME NEW p \in Members, RotateOneFails(p) PROVE AuthTypeOK'
    BY <1>8 DEF RotateOneFails, AuthFault, podVars, statusVars, boundVars
  <1>9. CASE Succeed
    BY <1>9 DEF Succeed, WalkEnds, Persisted, NotPersisted, AuthFault, podVars, statusVars, boundVars
  <1>10. CASE Revert
    BY Zenon, <1>10 DEF Revert, podVars, statusVars, boundVars
  <1>11. CASE Reverted
    BY <1>11 DEF Reverted, WalkEnds, Persisted, NotPersisted, AuthFault, podVars, statusVars, boundVars
  <1>12. CASE EditSecret
    BY <1>12 DEF EditSecret, podVars, statusVars, walkVars
  <1>13. CASE Holds
    <2>1. hold' \in BOOLEAN
      BY Zenon, <1>13 DEF Holds
    <2>2. holds' \in 0 .. MaxHolds
      BY <1>13 DEF Holds
    <2> QED
      BY Zenon, <1>13, <2>1, <2>2 DEF Holds, podVars, statusVars, walkVars
  <1>14. CASE AuthCrash
    BY <1>14 DEF AuthCrash, WalkEnds, Unwalked, podVars, statusVars
  <1>15. ASSUME NEW p \in Members, PodRestart(p) PROVE AuthTypeOK'
    BY <1>15 DEF PodRestart, podVars, statusVars, walkVars
  <1>16. CASE UNCHANGED authVars
    BY Zenon, <1>16 DEF authVars, podVars, statusVars, walkVars, boundVars
  <1> QED
    BY Zenon, <1>1, <1>2, <1>3, <1>4, <1>5, <1>6, <1>7, <1>8, <1>9, <1>10, <1>11, <1>12, <1>13, <1>14,
       <1>15, <1>16 DEF AuthNext, MaybeRotateAuth, AuthWalk

LEMMA AuthStep ==
    ASSUME AuthInv, [AuthNext]_authVars
    PROVE  AuthInv'
  <1> DEFINE Kept == CredentialKnown' /\ (walk' = "forward" => Forward') /\ (walk' = "revert" => Backward')
  <1> SUFFICES Kept
    BY Zenon, AuthTypeStep DEF AuthInv
  <1> USE AuthAssumption DEF AuthInv, CredentialKnown, Has
  <1>t. AuthTypeOK /\ AuthTypeOK'
    BY Zenon, AuthTypeStep
  <1>1. CASE ClearAuth
    BY Zenon, <1>1 DEF ClearAuth, Observes, walkVars
  <1>a. CASE Observes /\ Adopt /\ UNCHANGED walkVars
    BY Zenon, <1>a, <1>t DEF Observes, Adopt, Unwalked, Persisted, NotPersisted, podVars, walkVars, AuthTypeOK
  <1>3. CASE Settle
    BY Zenon, <1>3 DEF Settle, Observes, Persisted, NotPersisted, podVars, walkVars, statusVars
  <1>4. CASE SteadyState
    BY Zenon, <1>4 DEF SteadyState, Observes, podVars, statusVars, walkVars
  <1>6. CASE DriveAuthRotation
    <2>1. walk' = "forward" /\ hash' = hash /\ hash # NoPwd /\ old' = hash /\ UNCHANGED <<podVars, unsure>>
          /\ todo' = Members /\ moved' = {} /\ failed' = {} /\ walk = "idle"
      BY Zenon, <1>6 DEF DriveAuthRotation, Observes, ContentChanged, MissedWindow, Persisted, NotPersisted,
         statusVars
    <2> QED
      BY Zenon, <2>1 DEF Forward, podVars
  <1>7. ASSUME NEW p \in Members, RotateOne(p) PROVE Kept
    BY <1>7, <1>t DEF RotateOne, Visit, Forward, Backward, statusVars, AuthTypeOK
  <1>8. ASSUME NEW p \in Members, RotateOneFails(p) PROVE Kept
    <2>1. \A q \in Members \ unsure' : q \notin unsure /\ requirepass'[q] = requirepass[q]
                                       /\ masterauth'[q] = masterauth[q]
      <3>1. \/ UNCHANGED <<podVars, unsure>>
            \/ /\ masterauth' = [masterauth EXCEPT ![p] = new] /\ unsure' = unsure \cup {p}
               /\ requirepass' = requirepass \/ requirepass' = [requirepass EXCEPT ![p] = new]
        BY Zenon, <1>8 DEF RotateOneFails
      <3> QED
        BY Zenon, <3>1, <1>t DEF podVars, AuthTypeOK
    <2>2. p \in todo /\ todo' = todo \ {p} /\ failed' = failed \cup {p} /\ walk # "idle"
          /\ UNCHANGED <<statusVars, walk, old, new, moved>>
      BY Zenon, <1>8 DEF RotateOneFails, Visit
    <2> QED
      BY ZenonT(40), <2>1, <2>2, <1>t DEF Forward, Backward, statusVars, AuthTypeOK
  <1>9. CASE Succeed
    BY Zenon, <1>9 DEF Succeed, AllMoved, WalkEnds, Persisted, NotPersisted, Forward, podVars
  <1>10. CASE Revert
    BY Zenon, <1>10 DEF Revert, Forward, Backward, podVars, statusVars
  <1>11. CASE Reverted
    BY Zenon, <1>11 DEF Reverted, WalkEnds, Persisted, NotPersisted, Backward, podVars, statusVars
  <1>12. CASE EditSecret
    BY Zenon, <1>12 DEF EditSecret, podVars, statusVars, walkVars, Forward, Backward
  <1>13. CASE Holds
    BY Zenon, <1>13 DEF Holds, podVars, statusVars, walkVars, Forward, Backward
  <1>14. CASE AuthCrash
    BY Zenon, <1>14 DEF AuthCrash, WalkEnds, Unwalked, podVars, statusVars
  <1>15. ASSUME NEW p \in Members, PodRestart(p) PROVE Kept
    <2>1. \A q \in Members \ unsure' : q \notin unsure /\ requirepass'[q] = requirepass[q]
                                       /\ masterauth'[q] = masterauth[q]
      BY Zenon, <1>15, <1>t DEF PodRestart, podVars, AuthTypeOK
    <2> QED
      BY <1>15, <2>1 DEF PodRestart, statusVars, walkVars, Forward, Backward
  <1>16. CASE UNCHANGED authVars
    BY Zenon, <1>16 DEF authVars, podVars, statusVars, walkVars, Forward, Backward
  <1> HIDE DEF Kept
  <1> QED
    BY Zenon, <1>1, <1>a, <1>3, <1>4, <1>6, <1>7, <1>8, <1>9, <1>10, <1>11, <1>12, <1>13, <1>14,
       <1>15, <1>16 DEF AuthNext, MaybeRotateAuth, AuthWalk, FirstObservation, AdoptMissed

(* Between passes the recorded hash is the password every pod the operator can vouch for  *)
(* asks for and presents, through every failed command, lost reply and restart            *)
(* (driveAuthRotation, rotateOne).                                                        *)
THEOREM CredentialsKnown == AuthSpec => []CredentialKnown
  <1>1. AuthInit => AuthInv
    BY Zenon, AuthInitial
  <1>2. AuthInv /\ [AuthNext]_authVars => AuthInv'
    BY Zenon, AuthStep
  <1>3. AuthInv => CredentialKnown
    BY Zenon DEF AuthInv
  <1> QED
    BY <1>1, <1>2, <1>3, PTL DEF AuthSpec
-----------------------------------------------------------------------------
(* WebhookCA: the leaves and their signer. *)

(* The values. *)

LEMMA Constants ==
    /\ NoSecret \in Secrets /\ NoSecret.cert = 0 /\ 0 \in Cert /\ Bad \in Cert
    /\ Wait \in Steps /\ AtCA \in Steps /\ AtLoad \in Steps
    /\ 1 \in Leaves /\ \A i \in Leaves : LeafRead(i) \in Steps /\ LeafEnsure(i) \in Steps
    /\ \A i \in Leaves : i < NumLeaves => i + 1 \in Leaves
    /\ "leader" \in Procs
  BY CAAssumption DEF NoSecret, Secrets, Cert, Bad, Wait, AtCA, AtLoad, Steps, Leaves, LeafRead,
     LeafEnsure, Procs

(* Where a pass stands. *)
LEMMA Places ==
    /\ Wait # AtCA /\ AtLoad # AtCA /\ Wait # AtLoad
    /\ \A i \in Leaves : /\ LeafRead(i) # AtCA /\ LeafEnsure(i) # AtCA
                         /\ LeafRead(i) \in Leaves \X {"read", "ensure"}
                         /\ LeafEnsure(i) \in Leaves \X {"read", "ensure"}
    /\ {Wait, AtCA, AtLoad} \cap (Leaves \X {"read", "ensure"}) = {}
  BY CAAssumption DEF Wait, AtCA, AtLoad, LeafRead, LeafEnsure, Leaves

LEMMA WrittenIs ==
    ASSUME NEW s \in Secrets, NEW c \in Cert, NEW g \in Cert
    PROVE  /\ Written(s, c, g) \in Secrets
           /\ Written(s, c, g).cert = c /\ Written(s, c, g).signer = g
           /\ Written(s, c, g).rv = s.rv + 1
  BY DEF Written, Secrets

LEMMA TouchedIs ==
    ASSUME NEW s \in Secrets, NEW t \in Touched(s)
    PROVE  /\ t \in Secrets /\ t.rv = s.rv + 1
           /\ t.cert \in {0, Bad} \/ (t.cert = s.cert /\ t.signer = s.signer)
  <1>1. s.rv + 1 \in Nat /\ s.cert \in Cert /\ s.signer \in Cert /\ s.force \in BOOLEAN
    BY DEF Secrets
  <1>2. CASE t = [cert |-> s.cert, signer |-> s.signer, rv |-> s.rv + 1, force |-> TRUE]
    BY Zenon, <1>1, <1>2, Constants DEF Secrets
  <1>3. CASE t = [cert |-> Bad, signer |-> s.signer, rv |-> s.rv + 1, force |-> s.force]
    BY Zenon, <1>1, <1>3, Constants DEF Secrets
  <1>4. CASE t = [cert |-> 0, signer |-> 0, rv |-> s.rv + 1, force |-> FALSE]
    BY Zenon, <1>1, <1>4, Constants DEF Secrets
  <1> QED
    BY Zenon, <1>2, <1>3, <1>4 DEF Touched

-----------------------------------------------------------------------------
(* Types. *)

PassTypeOK ==
    /\ at \in [Procs -> Steps] /\ seen \in [Procs -> Secrets] /\ rotated \in [Procs -> BOOLEAN]
    /\ signing \in [Procs -> Cert] /\ erred \in [Procs -> BOOLEAN]

LEMMA ReadsAre ==
    ASSUME CATypeOK, NEW p \in Procs
    PROVE  GetCA(p) \in Secrets /\ \A i \in Leaves : GetLeaf(p, i) \in Secrets
  BY Zenon DEF CATypeOK, GetCA, GetLeaf

LEMMA ReturnsType ==
    ASSUME PassTypeOK, NEW p \in Procs, NEW err \in BOOLEAN, Returns(p, err)
    PROVE  PassTypeOK'
  BY Zenon, Constants DEF PassTypeOK, Returns, GoesTo, Reads

LEMMA NextLeafType ==
    ASSUME CATypeOK, NEW p \in Procs, NEW i \in Leaves, NEW err \in BOOLEAN, NextLeaf(p, i, err),
           leaf' \in [Leaves -> Secrets]
    PROVE  PassTypeOK' /\ ready' \subseteq Boots /\ caCache' \in Secrets /\ leafCache' \in [Leaves -> Secrets]
  <1>0. PassTypeOK
    BY Zenon DEF CATypeOK, PassTypeOK
  <1>1. CASE i < NumLeaves
    BY <1>0, <1>1, Constants DEF NextLeaf, PassTypeOK, CATypeOK, GoesTo, Reads, cacheVars
  <1>2. CASE ~(i < NumLeaves)
    <2>1. Returns(p, err) /\ PassTypeOK'
      BY Zenon, <1>0, <1>2, ReturnsType DEF NextLeaf
    <2> QED
      BY Zenon, <1>2, <2>1 DEF NextLeaf, CATypeOK, cacheVars
  <1> QED
    BY Zenon, <1>1, <1>2

LEMMA MintType ==
    ASSUME CATypeOK, Mint
    PROVE  /\ mints' \in 0 .. MaxMints /\ mints' \in Cert /\ mints' \notin {0, Bad} /\ mints' > 0
           /\ UNCHANGED <<aged, userActs, caFaults>>
  BY CAAssumption DEF CATypeOK, Mint, Cert, Bad

LEMMA UnmintedType ==
    ASSUME CATypeOK, Unminted
    PROVE  mints' \in 0 .. MaxMints /\ mints' \in Cert /\ UNCHANGED <<aged, userActs, caFaults>>
  <1>1. mints' = mints /\ UNCHANGED <<aged, userActs, caFaults>>
    BY Zenon DEF Unminted, caBounds
  <1> QED
    BY <1>1, CAAssumption DEF CATypeOK, Cert, Bad

LEMMA EnsureCAType ==
    ASSUME CATypeOK, NEW p \in Procs, EnsureCA(p)
    PROVE  CATypeOK'
  <1>0. PassTypeOK /\ ca \in Secrets
    BY Zenon DEF CATypeOK, PassTypeOK
  <1>1. ASSUME CAIssued(p) PROVE PassTypeOK'
    BY Zenon, <1>0, <1>1, Constants DEF CAIssued, PassTypeOK, GoesTo
  <1>2. PassTypeOK' /\ ca' \in Secrets /\ mints' \in 0 .. MaxMints /\ UNCHANGED <<aged, userActs, caFaults>>
    <2>0. ASSUME Mint PROVE Written(ca, mints', mints') \in Secrets
      BY Zenon, <1>0, <2>0, MintType, WrittenIs
    <2>1. CASE CreateCA(p)
      <3>1. CASE Mint /\ ca' = Written(ca, mints', mints') /\ CAIssued(p)
        BY Zenon, <1>1, <2>0, <3>1, MintType
      <3>2. CASE Unminted /\ ca' = ca /\ CAIssued(p)
        BY Zenon, <1>0, <1>1, <3>2, UnmintedType
      <3> QED
        BY Zenon, <2>1, <3>1, <3>2 DEF CreateCA
    <2>2. CASE RotateCA(p)
      <3>1. CASE Mint /\ ca' = Written(ca, mints', mints') /\ CAIssued(p)
        BY Zenon, <1>1, <2>0, <3>1, MintType
      <3>2. CASE Unminted /\ ca' = ca /\ Returns(p, TRUE)
        BY Zenon, <1>0, <3>2, UnmintedType, ReturnsType
      <3> QED
        BY Zenon, <2>2, <3>1, <3>2 DEF RotateCA
    <2>3. CASE KeepCA(p)
      BY Zenon, <1>0, <2>3, Constants DEF KeepCA, Goes, GoesTo, Unminted, caBounds, PassTypeOK, CATypeOK
    <2> QED
      BY Zenon, <2>1, <2>2, <2>3 DEF EnsureCA
  <1>3. published' \subseteq 1 .. MaxMints
    <2>1. ca'.cert \in Cert
      BY Zenon, <1>2 DEF Secrets
    <2>2. {ca'.cert} \ {0, Bad} \subseteq 1 .. MaxMints
      BY <2>1, CAAssumption DEF Cert, Bad
    <2> QED
      BY Zenon, <2>2 DEF EnsureCA, CATypeOK
  <1> QED
    BY Zenon, <1>2, <1>3 DEF EnsureCA, CATypeOK, PassTypeOK, cacheVars

LEMMA EnsureLeafType ==
    ASSUME CATypeOK, NEW p \in Procs, NEW i \in Leaves, EnsureLeaf(p, i)
    PROVE  CATypeOK'
  <1>1. CASE IssueLeaf(p, i)
    <2>1. mints' \in 0 .. MaxMints /\ mints' \in Cert /\ UNCHANGED <<aged, userActs, caFaults>>
      BY Zenon, <1>1, MintType, UnmintedType DEF IssueLeaf
    <2>2. PICK err \in BOOLEAN : NextLeaf(p, i, err)
      BY Zenon, <1>1 DEF IssueLeaf
    <2>3. leaf' \in [Leaves -> Secrets]
      <3>1. leaf' = leaf \/ leaf' = [leaf EXCEPT ![i] = Written(leaf[i], mints', signing[p])]
        BY Zenon, <1>1 DEF IssueLeaf, CATypeOK
      <3>2. Written(leaf[i], mints', signing[p]) \in Secrets
        BY ZenonT(40), <2>1, WrittenIs DEF CATypeOK
      <3> QED
        BY Zenon, <3>1, <3>2 DEF CATypeOK
    <2> QED
      BY Zenon, <2>1, <2>2, <2>3, NextLeafType DEF EnsureLeaf, CATypeOK, PassTypeOK
  <1>2. CASE KeepLeaf(p, i)
    <2>1. \E err \in BOOLEAN : NextLeaf(p, i, err)
      BY Zenon, <1>2 DEF KeepLeaf, CATypeOK
    <2> QED
      BY Zenon, <1>2, <2>1, NextLeafType DEF KeepLeaf, Unminted, caBounds, EnsureLeaf, CATypeOK, PassTypeOK
  <1> QED
    BY Zenon, <1>1, <1>2 DEF EnsureLeaf

LEMMA UserActType ==
    ASSUME CATypeOK, UserAct
    PROVE  CATypeOK'
  <1>1. ca' \in Secrets /\ leaf' \in [Leaves -> Secrets] /\ aged' \subseteq 1 .. MaxMints
    <2>1. CASE ca' \in Touched(ca) /\ UNCHANGED <<leaf, aged>>
      BY Zenon, <2>1, TouchedIs DEF CATypeOK
    <2>2. CASE \E i \in Leaves : UNCHANGED <<ca, aged>>
                 /\ \E t \in Touched(leaf[i]) : leaf' = [leaf EXCEPT ![i] = t]
      BY <2>2, TouchedIs DEF CATypeOK
    <2>3. CASE \E n \in {ca.cert} \cup {leaf[i].cert : i \in Leaves} :
                 n > 0 /\ aged' = aged \cup {n} /\ UNCHANGED secretVars
      <3>1. \A n \in {ca.cert} \cup {leaf[i].cert : i \in Leaves} : n \in Cert
        BY DEF CATypeOK, Secrets
      <3>2. \A n \in Cert : n > 0 => n \in 1 .. MaxMints
        BY CAAssumption DEF Cert, Bad
      <3> QED
        BY Zenon, <2>3, <3>1, <3>2 DEF CATypeOK, secretVars
    <2> QED
      BY Zenon, <2>1, <2>2, <2>3 DEF UserAct
  <1>2. userActs' \in 0 .. MaxUserActs
    BY CAAssumption DEF UserAct, CATypeOK
  <1> QED
    BY Zenon, <1>1, <1>2 DEF UserAct, CATypeOK, cacheVars, passVars

LEMMA CATypeStep ==
    ASSUME CATypeOK, [CANext]_caVars
    PROVE  CATypeOK'
  <1>0. PassTypeOK
    BY Zenon DEF CATypeOK, PassTypeOK
  <1>1. ASSUME NEW p \in Procs, BeginPass(p) PROVE CATypeOK'
    BY Zenon, <1>1, ReadsAre, Constants DEF BeginPass, CATypeOK, Reads, GoesTo, secretVars, cacheVars,
       caBounds
  <1>2. ASSUME NEW p \in Procs, LoadCA(p) PROVE CATypeOK'
    <2>1. CAMaterial(p).cert \in Cert
      BY Zenon, <1>2, ReadsAre DEF CAMaterial, Secrets
    <2>2. PassTypeOK'
      <3>1. CASE CAMaterial(p).cert = 0
        BY Zenon, <1>0, <1>2, <3>1, ReturnsType DEF LoadCA
      <3>2. CASE CAMaterial(p).cert # 0
        BY ZenonT(40), <1>0, <1>2, <2>1, <3>2, Constants DEF LoadCA, PassTypeOK, GoesTo, Reads
      <3> QED
        BY Zenon, <3>1, <3>2
    <2> QED
      BY Zenon, <1>2, <2>2 DEF LoadCA, PassTypeOK, CATypeOK, secretVars, cacheVars, caBounds
  <1>3. ASSUME NEW p \in Procs, NEW i \in Leaves, ReadLeaf(p, i) PROVE CATypeOK'
    BY Zenon, <1>3, ReadsAre, Constants DEF ReadLeaf, CATypeOK, Reads, GoesTo, secretVars, cacheVars, caBounds
  <1>4. ASSUME NEW p \in Procs, APIError(p) PROVE CATypeOK'
    <2>1. caFaults' \in 0 .. MaxCAFaults
      BY <1>4, CAAssumption DEF APIError, CATypeOK
    <2>2. CASE Returns(p, TRUE) /\ UNCHANGED <<ready, cacheVars>>
      BY Zenon, <1>0, <1>4, <2>1, <2>2, ReturnsType DEF APIError, CATypeOK, PassTypeOK, secretVars, cacheVars
    <2>3. CASE \E i \in Leaves : NextLeaf(p, i, TRUE)
      <3>1. leaf' \in [Leaves -> Secrets]
        BY Zenon, <1>4 DEF APIError, CATypeOK, secretVars
      <3> QED
        BY Zenon, <1>4, <2>1, <2>3, <3>1, NextLeafType DEF APIError, CATypeOK, PassTypeOK, secretVars
    <2> QED
      BY Zenon, <1>4, <2>2, <2>3 DEF APIError
  <1>5. ASSUME NEW p \in Procs, CACrash(p) PROVE CATypeOK'
    <2>1. caFaults' \in 0 .. MaxCAFaults
      BY <1>5, CAAssumption DEF CACrash, CATypeOK
    <2> QED
      BY Zenon, <1>0, <1>5, <2>1, ReturnsType DEF CACrash, CATypeOK, PassTypeOK, secretVars, cacheVars
  <1>6. ASSUME NEW c \in Configs, Inject(c) PROVE CATypeOK'
    <2>1. caCache.cert \in Cert
      BY Zenon DEF CATypeOK, Secrets
    <2> QED
      BY Zenon, <1>6, <2>1 DEF Inject, CATypeOK, secretVars, cacheVars, passVars, caBounds
  <1>7. CASE StopForCertManager
    BY Zenon, <1>7 DEF StopForCertManager, CATypeOK, secretVars, cacheVars, passVars, caBounds
  <1>8. CASE CacheSync
    BY Zenon, <1>8 DEF CacheSync, CATypeOK, secretVars, passVars, caBounds
  <1>9. CASE OptIn
    <2>1. userActs' \in 0 .. MaxUserActs
      BY <1>9, CAAssumption DEF OptIn, CATypeOK
    <2> QED
      BY Zenon, <1>9, <2>1 DEF OptIn, CATypeOK, secretVars, cacheVars, passVars
  <1>10. CASE UNCHANGED caVars
    BY Zenon, <1>10 DEF caVars, CATypeOK, secretVars, cacheVars, passVars, caBounds
  <1> QED
    BY Zenon, <1>1, <1>2, <1>3, <1>4, <1>5, <1>6, <1>7, <1>8, <1>9, <1>10, UserActType, EnsureCAType,
       EnsureLeafType DEF CANext, PassStep

-----------------------------------------------------------------------------
(* The invariant. *)

PassInv(p) ==
    /\ Known(signing[p])
    /\ at[p] \in Leaves \X {"read", "ensure"} => signing[p] # 0
    /\ at[p] = AtCA => IsCA(seen[p])

(* A step that stores a CA publishes it and moves the resourceVersion on, so what was *)
(* known and what was read stay what they are for every pass the step leaves alone.   *)
LEMMA OthersKept ==
    ASSUME CATypeOK, CATypeOK', published \subseteq published', ca' = ca \/ ca'.rv = ca.rv + 1,
           NEW q \in Procs, PassInv(q), at'[q] = at[q], seen'[q] = seen[q], signing'[q] = signing[q]
    PROVE  PassInv(q)'
  <1>1. seen[q].rv \in Nat /\ ca.rv \in Nat
    BY Zenon DEF CATypeOK, Secrets
  <1>2. IsCA(seen[q]) => IsCA(seen[q])'
    BY <1>1 DEF IsCA
  <1> QED
    BY Zenon, <1>2 DEF PassInv, Known

LEMMA CacheKept ==
    ASSUME CATypeOK, CATypeOK', published \subseteq published', ca' = ca \/ ca'.rv = ca.rv + 1,
           Known(caCache.cert), IsCA(caCache), Known(ca.cert),
           UNCHANGED caCache \/ caCache' = ca
    PROVE  Known(caCache.cert)' /\ IsCA(caCache)'
  <1>1. caCache.rv \in Nat /\ ca.rv \in Nat
    BY Zenon DEF CATypeOK, Secrets
  <1> QED
    BY <1>1 DEF Known, IsCA

(* A pass that returned knows nothing. *)
LEMMA ReturnsInv ==
    ASSUME CATypeOK, NEW p \in Procs, NEW err, Returns(p, err)
    PROVE  PassInv(p)' /\ \A q \in Procs \ {p} :
               at'[q] = at[q] /\ seen'[q] = seen[q] /\ signing'[q] = signing[q]
  BY ZenonT(40), Places DEF CATypeOK, Returns, GoesTo, Reads, PassInv, Known

LEMMA NextLeafInv ==
    ASSUME CATypeOK, NEW p \in Procs, NEW i \in Leaves, NEW err, NextLeaf(p, i, err),
           Known(signing[p]), signing[p] # 0, published \subseteq published'
    PROVE  /\ PassInv(p)'
           /\ \A q \in Procs \ {p} :
                 at'[q] = at[q] /\ seen'[q] = seen[q] /\ signing'[q] = signing[q]
           /\ UNCHANGED caCache \/ caCache' = ca
  <1>1. CASE i < NumLeaves
    <2>1. i + 1 \in Leaves
      BY Zenon, <1>1, Constants
    <2> QED
      BY Zenon, <1>1, <2>1, Places DEF NextLeaf, CATypeOK, GoesTo, Reads, cacheVars, PassInv, Known
  <1>2. CASE ~(i < NumLeaves)
    BY Zenon, <1>2, ReturnsInv DEF NextLeaf, cacheVars
  <1> QED
    BY Zenon, <1>1, <1>2

(* What a step has to show when it changes one pass only. *)
LEMMA OnePass ==
    ASSUME CAInv, CATypeOK', LeafSignerPublished', Known(ca.cert)',
           published \subseteq published', ca' = ca \/ ca'.rv = ca.rv + 1,
           UNCHANGED caCache \/ caCache' = ca,
           NEW p \in Procs, PassInv(p)',
           \A q \in Procs \ {p} :
               at'[q] = at[q] /\ seen'[q] = seen[q] /\ signing'[q] = signing[q]
    PROVE  CAInv'
  <1>1. \A q \in Procs : PassInv(q)
    BY Zenon DEF CAInv, PassInv
  <1>2. \A q \in Procs : PassInv(q)'
    BY Zenon, <1>1, OthersKept DEF CAInv
  <1>3. Known(caCache.cert)' /\ IsCA(caCache)'
    BY Zenon, CacheKept DEF CAInv
  <1> QED
    BY Zenon, <1>2, <1>3 DEF CAInv, PassInv

(* What a step has to show that leaves the passes alone. *)
LEMMA NoPass ==
    ASSUME CAInv, CATypeOK', LeafSignerPublished', Known(ca.cert)',
           published' = published, ca' = ca \/ ca'.rv = ca.rv + 1,
           UNCHANGED caCache \/ caCache' = ca, UNCHANGED <<at, seen, signing>>
    PROVE  CAInv'
  BY ZenonT(40), OnePass, OthersKept, Constants DEF CAInv, PassInv

LEMMA EnsureCAInv ==
    ASSUME CAInv, NEW p \in Procs, EnsureCA(p)
    PROVE  CAInv'
  <1>1. CATypeOK /\ CATypeOK'
    BY Zenon, EnsureCAType DEF CAInv
  <1>2. published \subseteq published' /\ Known(ca.cert)' /\ LeafSignerPublished'
    BY Zenon DEF EnsureCA, Known, CAInv, LeafSignerPublished
  <1>3. ca' = ca \/ ca'.rv = ca.rv + 1
    <2>1. ca' = ca \/ (Mint /\ ca' = Written(ca, mints', mints'))
      BY Zenon DEF EnsureCA, CreateCA, RotateCA, KeepCA
    <2>2. ASSUME Mint PROVE Written(ca, mints', mints').rv = ca.rv + 1
      <3>1. mints' \in Cert /\ ca \in Secrets
        BY Zenon, <1>1, <2>2, MintType DEF CATypeOK
      <3> QED
        BY <3>1, WrittenIs
    <2> QED
      BY Zenon, <2>1, <2>2
  <1>4. /\ PassInv(p)'
        /\ \A q \in Procs \ {p} : at'[q] = at[q] /\ seen'[q] = seen[q] /\ signing'[q] = signing[q]
    <2>1. CASE CAIssued(p) \/ KeepCA(p)
      BY Zenon, <1>1, <1>2, <2>1, Places DEF CAIssued, KeepCA, Goes, GoesTo, CATypeOK, PassInv, CAInv, Known
    <2>2. CASE Returns(p, TRUE)
      BY Zenon, <1>1, <2>2, ReturnsInv
    <2> QED
      BY Zenon, <2>1, <2>2 DEF EnsureCA, CreateCA, RotateCA
  <1>5. UNCHANGED caCache
    BY Zenon DEF EnsureCA, cacheVars
  <1> QED
    BY ZenonT(40), <1>1, <1>2, <1>3, <1>4, <1>5, OnePass

LEMMA EnsureLeafInv ==
    ASSUME CAInv, NEW p \in Procs, NEW i \in Leaves, EnsureLeaf(p, i)
    PROVE  CAInv'
  <1>1. CATypeOK /\ CATypeOK' /\ UNCHANGED <<ca, published>> /\ Known(ca.cert)'
    BY Zenon, EnsureLeafType DEF CAInv, EnsureLeaf, Known
  <1>2. Known(signing[p]) /\ signing[p] # 0
    BY Zenon, Places DEF CAInv, EnsureLeaf
  <1>3. \E err : NextLeaf(p, i, err)
    BY Zenon DEF EnsureLeaf, IssueLeaf, KeepLeaf
  <1>4. LeafSignerPublished'
    <2>1. CASE UNCHANGED leaf
      BY Zenon, <1>1, <2>1 DEF CAInv, LeafSignerPublished
    <2>2. CASE /\ IssueLeaf(p, i)
               /\ leaf' = [leaf EXCEPT ![i] = Written(leaf[i], mints', signing[p])]
      <3>1. mints' \in Cert /\ signing[p] \in Cert
        BY Zenon, <1>1, <2>2, MintType, UnmintedType DEF IssueLeaf, CATypeOK
      <3>2. leaf'[i].signer = signing[p]
        <4>1. leaf[i] \in Secrets /\ leaf'[i] = Written(leaf[i], mints', signing[p])
          BY Zenon, <1>1, <2>2 DEF CATypeOK
        <4>2. Written(leaf[i], mints', signing[p]).signer = signing[p]
          BY <3>1, <4>1, WrittenIs
        <4> QED
          BY Zenon, <4>1, <4>2
      <3>3. signing[p] \in published
        BY Zenon, <1>2, <2>2 DEF Known, IssueLeaf
      <3> QED
        BY ZenonT(40), <1>1, <2>2, <3>2, <3>3 DEF CAInv, LeafSignerPublished, CATypeOK
    <2> QED
      BY Zenon, <1>1, <2>1, <2>2 DEF EnsureLeaf, IssueLeaf, KeepLeaf, CATypeOK
  <1> QED
    BY Zenon, <1>1, <1>2, <1>3, <1>4, NextLeafInv, OnePass

LEMMA UserActInv ==
    ASSUME CAInv, UserAct
    PROVE  CAInv'
  <1>1. CATypeOK /\ CATypeOK' /\ UNCHANGED <<published, caCache, at, seen, signing>>
    BY ZenonT(40), UserActType DEF CAInv, UserAct, cacheVars, passVars
  <1>2. CASE ca' \in Touched(ca) /\ UNCHANGED <<leaf, aged>>
    <2>1. ca'.rv = ca.rv + 1 /\ (ca'.cert \in {0, Bad} \/ ca'.cert = ca.cert)
      BY Zenon, <1>1, <1>2, TouchedIs DEF CATypeOK
    <2> QED
      BY Zenon, <1>1, <1>2, <2>1, NoPass DEF CAInv, Known, LeafSignerPublished
  <1>3. ASSUME NEW i \in Leaves, UNCHANGED <<ca, aged>>, NEW t \in Touched(leaf[i]),
               leaf' = [leaf EXCEPT ![i] = t]
        PROVE  CAInv'
    <2>1. t.cert \in {0, Bad} \/ (t.cert = leaf[i].cert /\ t.signer = leaf[i].signer)
      BY Zenon, <1>1, <1>3, TouchedIs DEF CATypeOK
    <2>2. LeafSignerPublished'
      BY <1>1, <1>3, <2>1 DEF CAInv, LeafSignerPublished, CATypeOK, Bad
    <2> QED
      BY Zenon, <1>1, <1>3, <2>2, NoPass DEF CAInv, Known
  <1>4. CASE UNCHANGED secretVars
    BY Zenon, <1>1, <1>4, NoPass DEF CAInv, Known, LeafSignerPublished, secretVars
  <1> QED
    BY ZenonT(40), <1>2, <1>3, <1>4 DEF UserAct

LEMMA CAStep ==
    ASSUME CAInv, [CANext]_caVars
    PROVE  CAInv'
  <1>0. CATypeOK /\ CATypeOK'
    BY Zenon, CATypeStep DEF CAInv
  <1>1. ASSUME UNCHANGED <<ca, leaf, published>> PROVE Known(ca.cert)' /\ LeafSignerPublished'
    BY Zenon, <1>1 DEF CAInv, Known, LeafSignerPublished
  <1>2. ASSUME NEW p \in Procs, BeginPass(p) PROVE CAInv'
    <2>1. /\ at'[p] = AtCA /\ seen'[p] = GetCA(p) /\ signing'[p] = signing[p]
          /\ UNCHANGED <<ca, published>>
      BY Zenon, <1>0, <1>2 DEF BeginPass, CATypeOK, Reads, GoesTo, secretVars
    <2>2. IsCA(GetCA(p)) /\ Known(signing[p])
      BY <1>0 DEF GetCA, CAInv, IsCA, CATypeOK, Secrets
    <2>3. PassInv(p)'
      BY Zenon, <2>1, <2>2, Places DEF PassInv, Known, IsCA
    <2> QED
      BY Zenon, <1>0, <1>1, <1>2, <2>3, OnePass DEF BeginPass, CATypeOK, Reads, GoesTo, secretVars, cacheVars
  <1>3. ASSUME NEW p \in Procs, LoadCA(p) PROVE CAInv'
    <2>1. /\ PassInv(p)'
          /\ \A q \in Procs \ {p} : at'[q] = at[q] /\ seen'[q] = seen[q] /\ signing'[q] = signing[q]
      <3>1. CASE CAMaterial(p).cert = 0
        BY Zenon, <1>0, <1>3, <3>1, ReturnsInv DEF LoadCA
      <3>2. CASE CAMaterial(p).cert # 0
        BY ZenonT(40), <1>0, <1>3, <3>2, Places, Constants DEF LoadCA, CATypeOK, Reads, GoesTo,
           CAMaterial, GetCA,
           PassInv, CAInv, Known
      <3> QED
        BY Zenon, <3>1, <3>2
    <2> QED
      BY Zenon, <1>0, <1>1, <1>3, <2>1, OnePass DEF LoadCA, secretVars, cacheVars
  <1>4. ASSUME NEW p \in Procs, NEW i \in Leaves, ReadLeaf(p, i) PROVE CAInv'
    <2>1. PassInv(p)'
      BY ZenonT(40), <1>0, <1>4, Places DEF ReadLeaf, CATypeOK, Reads, GoesTo, PassInv, CAInv, Known
    <2> QED
      BY Zenon, <1>0, <1>1, <1>4, <2>1, OnePass DEF ReadLeaf, CATypeOK, Reads, GoesTo, secretVars, cacheVars
  <1>5. ASSUME NEW p \in Procs, APIError(p) PROVE CAInv'
    <2>1. CASE Returns(p, TRUE) /\ UNCHANGED <<ready, cacheVars>>
      BY Zenon, <1>0, <1>1, <1>5, <2>1, ReturnsInv, OnePass DEF APIError, secretVars, cacheVars
    <2>2. ASSUME NEW i \in Leaves, at[p] = LeafEnsure(i), NextLeaf(p, i, TRUE) PROVE CAInv'
      <3>1. Known(signing[p]) /\ signing[p] # 0
        BY Zenon, <2>2, Places DEF CAInv
      <3> QED
        BY Zenon, <1>0, <1>1, <1>5, <2>2, <3>1, NextLeafInv, OnePass DEF APIError, secretVars
    <2> QED
      BY Zenon, <1>5, <2>1, <2>2 DEF APIError
  <1>6. ASSUME NEW p \in Procs, CACrash(p) PROVE CAInv'
    BY Zenon, <1>0, <1>1, <1>6, ReturnsInv, OnePass DEF CACrash, secretVars, cacheVars
  <1>7. CASE CacheSync
    BY Zenon, <1>0, <1>1, <1>7, NoPass DEF CacheSync, secretVars, passVars
  <1>8. CASE \/ \E c \in Configs : Inject(c)
             \/ StopForCertManager \/ OptIn \/ UNCHANGED caVars
    BY Zenon, <1>0, <1>1, <1>8, NoPass DEF Inject, StopForCertManager, OptIn, caVars, secretVars, cacheVars,
       passVars
  <1> QED
    BY Zenon, <1>2, <1>3, <1>4, <1>5, <1>6, <1>7, <1>8, UserActInv, EnsureCAInv, EnsureLeafInv
       DEF CANext, PassStep

LEMMA CAInitial ==
    CAInit => CAInv
  <1> SUFFICES ASSUME CAInit PROVE CAInv
    OBVIOUS
  <1>1. CATypeOK
    <2>1. optedIn \in BOOLEAN /\ stopped \in BOOLEAN
      BY Zenon DEF CAInit
    <2>2. /\ rotated \in [Procs -> BOOLEAN] /\ erred \in [Procs -> BOOLEAN]
          /\ at \in [Procs -> Steps] /\ seen \in [Procs -> Secrets]
          /\ signing \in [Procs -> Cert]
      BY Zenon, Constants DEF CAInit
    <2> QED
      BY <2>1, <2>2, Constants, CAAssumption DEF CAInit, CATypeOK
  <1> QED
    BY <1>1, Constants, Places DEF CAInit, CAInv, LeafSignerPublished, Known, IsCA, NoSecret

-----------------------------------------------------------------------------
(* The theorems. *)

\* In every state, every leaf is signed by a CA that was stored in the CA Secret, whatever
\* the number of replicas racing for the first install and of crashes between the CA's
\* write and the leaves' (createSecret, loadSecretMaterial, ensureLeaf).
THEOREM LeavesSignedByStored ==
    CASpec => []LeafSignerPublished
  <1>1. CAInv => LeafSignerPublished
    BY Zenon DEF CAInv
  <1> QED
    BY <1>1, CAInitial, CAStep, PTL DEF CASpec

\* A stored CA is only ever replaced because that CA itself was annotated, unparseable or
\* due, however stale the read the pass began with (ensureCA, rotateCA, updateSecret).
THEOREM RotationHasCause ==
    CASpec => RotatedForCause
  <1> DEFINE A == ca.cert # 0 /\ ca'.cert \notin {0, ca.cert, Bad}
                    => ca.cert = Bad \/ ca.force \/ ca.cert \in aged
  <1>1. ASSUME CAInv, [CANext]_caVars PROVE A
    <2>0. CATypeOK
      BY Zenon, <1>1 DEF CAInv
    <2>1. ASSUME NEW p \in Procs, EnsureCA(p) PROVE A
      <3>1. CASE RotateCA(p) /\ NoConflict(seen[p], ca)
        <4>1. seen[p] = ca
          BY Zenon, <1>1, <2>1, <3>1 DEF CAInv, EnsureCA, IsCA, NoConflict
        <4> QED
          BY Zenon, <3>1, <4>1 DEF RotateCA, Due
      <3>2. CASE ca' = ca \/ ca.cert = 0
        BY Zenon, <3>2
      <3> QED
        BY Zenon, <2>1, <3>1, <3>2 DEF EnsureCA, CreateCA, RotateCA, KeepCA
    <2>2. CASE UserAct
      <3>1. CASE ca' \in Touched(ca)
        BY Zenon, <2>0, <3>1, TouchedIs DEF CATypeOK
      <3> QED
        BY Zenon, <2>2, <3>1 DEF UserAct, secretVars
    <2>3. ASSUME UNCHANGED ca PROVE A
      BY Zenon, <2>3
    <2> QED
      BY ZenonT(40), <1>1, <2>1, <2>2, <2>3 DEF CANext, PassStep, BeginPass, LoadCA, ReadLeaf,
         EnsureLeaf, APIError,
         CACrash, Inject, StopForCertManager, CacheSync, OptIn, caVars, secretVars
  <1>2. [CANext]_caVars /\ CAInv => [A]_caVars
    BY Zenon, <1>1
  <1> QED
    BY <1>2, CAInitial, CAStep, PTL DEF CASpec, RotatedForCause
=============================================================================
