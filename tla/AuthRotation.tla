---------------------------- MODULE AuthRotation ----------------------------
(***************************************************************************)
(* Hot rotation of the auth password.  The user edits a Secret; a pass     *)
(* compares its hash with the one recorded in the CR's status and, if they *)
(* differ, walks the data pods with the cached old password: replicas      *)
(* first, the master last.  A walk that fails on some pod is walked back.  *)
(* A password stands for its hash, so 0 is "no password" and "no hash".    *)
(***************************************************************************)
EXTENDS Integers, FiniteSets

CONSTANTS
    Replicas,         \* the replica pods
    Primary,          \* the pod labelled role=primary
    NumPasswords,     \* passwords the user may write
    MaxEdits,         \* bound: edits of the Secret
    MaxAuthFaults,    \* bound: failing commands and status patches
    MaxPodRestarts,   \* bound: container restarts of data pods
    MaxAuthCrashes,   \* bound: restarts of the operator
    MaxHolds          \* bound: failovers that defer a rotation

ASSUME AuthAssumption ==
    /\ IsFiniteSet(Replicas) /\ Primary \notin Replicas
    /\ NumPasswords \in Nat \ {0}
    /\ MaxEdits \in Nat /\ MaxAuthFaults \in Nat /\ MaxPodRestarts \in Nat
    /\ MaxAuthCrashes \in Nat /\ MaxHolds \in Nat

Members   == Replicas \cup {Primary}
NoPwd     == 0
Passwords == 0 .. NumPasswords
Phases    == {"Idle", "InProgress", "Succeeded", "Failed", "Partial"}

VARIABLES
    secret,       \* the password in the auth Secret, 0 when the CR has no auth
    requirepass,  \* what each pod asks its clients for
    masterauth,   \* what each pod presents to its master
    phase,        \* Status.Rollout.AuthRotation.Phase
    hash,         \* Status.Rollout.AuthRotation.ObservedSecretHash
    cached,       \* authPasswordCacheEntry, in memory; 0 is a cold cache
    walk,         \* where the pass is: "idle", "forward" or "revert"
    old, new,     \* the passwords the walk replaces and sets
    todo,         \* pods RotateAuth has still to visit
    moved,        \* pods the current walk has moved
    failed,       \* pods on which the current walk failed
    hold,         \* a failover is in flight (IsFailoverInFlight)
    edits, authFaults, podRestarts, authCrashes, holds,
    unsure        \* history: pods whose password the operator cannot vouch for

statusVars == <<phase, hash>>
podVars    == <<requirepass, masterauth>>
walkVars   == <<walk, old, new, todo, moved, failed>>
boundVars  == <<edits, authFaults, podRestarts, authCrashes, holds>>
authVars   == <<secret, podVars, statusVars, cached, walkVars, hold, boundVars, unsure>>

AuthTypeOK ==
    /\ secret \in Passwords /\ hash \in Passwords /\ cached \in Passwords
    /\ requirepass \in [Members -> Passwords] /\ masterauth \in [Members -> Passwords]
    /\ phase \in Phases /\ walk \in {"idle", "forward", "revert"}
    /\ old \in Passwords /\ new \in Passwords
    /\ todo \subseteq Members /\ moved \subseteq Members /\ failed \subseteq Members
    /\ hold \in BOOLEAN /\ unsure \subseteq Members
    /\ edits \in 0 .. MaxEdits /\ authFaults \in 0 .. MaxAuthFaults
    /\ podRestarts \in 0 .. MaxPodRestarts /\ authCrashes \in 0 .. MaxAuthCrashes
    /\ holds \in 0 .. MaxHolds

AuthInit ==
    /\ secret = 1
    /\ requirepass = [p \in Members |-> 1] /\ masterauth = [p \in Members |-> 1]
    /\ phase = "Idle" /\ hash = NoPwd /\ cached = NoPwd
    /\ walk = "idle" /\ old = NoPwd /\ new = NoPwd
    /\ todo = {} /\ moved = {} /\ failed = {}
    /\ hold = FALSE /\ unsure = {}
    /\ edits = 0 /\ authFaults = 0 /\ podRestarts = 0 /\ authCrashes = 0 /\ holds = 0

AuthFault ==
    /\ authFaults < MaxAuthFaults
    /\ authFaults' = authFaults + 1
    /\ UNCHANGED <<edits, podRestarts, authCrashes, holds>>

-----------------------------------------------------------------------------
(* Status patches. *)

\* The patch lands and the pass knows; it fails; or it lands and its reply is lost.
Persisted(ph, h) == phase' = ph /\ hash' = h /\ UNCHANGED boundVars
NotPersisted(ph, h) ==
    /\ AuthFault
    /\ \/ phase' = ph /\ hash' = h
       \/ UNCHANGED statusVars

\* Pods that differ from a hash recorded without walking them.
Unwalked(h) == unsure \cup {p \in Members : requirepass[p] # h \/ masterauth[p] # h}

\* Mutant: the empty phase of a fresh status is recorded.
AdoptUntyped ==
    phase' = "" /\ hash' = secret /\ cached' = secret /\ UNCHANGED <<boundVars, unsure>>

\* Record the Secret's hash as the cluster's without a walk; the cache follows only
\* what was persisted.
Adopt ==
    \/ /\ Persisted("Idle", secret)
       /\ cached' = secret
       /\ unsure' = Unwalked(secret)
    \/ /\ NotPersisted("Idle", secret)
       /\ unsure' = Unwalked(hash')
       /\ UNCHANGED cached

-----------------------------------------------------------------------------
(* maybeRotateAuth, one action per outcome.  A Partial status is left alone. *)

Observes ==
    /\ walk = "idle"
    /\ UNCHANGED <<secret, podVars, hold>>

\* clearAuthRotationStatus: the CR has no auth.
ClearAuth ==
    /\ Observes /\ secret = NoPwd
    /\ <<phase, hash, cached>> # <<"Idle", NoPwd, NoPwd>>
    /\ cached' = NoPwd
    /\ Persisted("Idle", NoPwd) \/ NotPersisted("Idle", NoPwd)
    /\ unsure' = Members
    /\ UNCHANGED walkVars

FirstObservation ==
    /\ Observes /\ secret # NoPwd /\ phase # "Partial" /\ hash = NoPwd
    /\ Adopt
    /\ UNCHANGED walkVars

\* Succeeded settles to Idle in the next pass.
Settle ==
    /\ Observes /\ secret # NoPwd /\ hash # NoPwd /\ phase = "Succeeded"
    /\ Persisted("Idle", hash) \/ NotPersisted("Idle", hash)
    /\ UNCHANGED <<cached, walkVars, unsure>>

SteadyState ==
    /\ Observes /\ secret # NoPwd /\ phase \notin {"Partial", "Succeeded"}
    /\ secret = hash /\ cached # secret
    /\ cached' = secret
    /\ UNCHANGED <<statusVars, walkVars, boundVars, unsure>>

ContentChanged ==
    /\ secret # NoPwd /\ hash # NoPwd /\ secret # hash
    /\ phase \notin {"Partial", "Succeeded"}
    /\ ~hold

\* No cached old password, or one that is not the recorded one.
MissedWindow == cached # hash

AdoptMissed ==
    /\ Observes /\ ContentChanged /\ MissedWindow
    /\ Adopt
    /\ UNCHANGED walkVars

\* driveAuthRotation up to RotateAuth; stamping InProgress is best effort.  While the
\* labels do not name one primary the pass returns and nothing changes.
DriveAuthRotation ==
    /\ Observes /\ ContentChanged /\ ~MissedWindow
    /\ Persisted("InProgress", hash) \/ NotPersisted("InProgress", hash)
    /\ walk' = "forward" /\ old' = cached /\ new' = secret
    /\ todo' = Members /\ moved' = {} /\ failed' = {}
    /\ UNCHANGED <<cached, unsure>>

-----------------------------------------------------------------------------
(* RotateAuth: the replicas in any order, then the master. *)

\* Mutant: no fallback to the new password.
OldOnly(p) == requirepass[p] = old

\* rotateOne authenticates with the old password and falls back to the new one.
Authenticates(p) == requirepass[p] \in {old, new}

Visit(p) == p \in todo /\ (p = Primary => todo = {Primary})

\* A failed REWRITE counts as success: the running password has changed.
RotateOne(p) ==
    /\ walk # "idle" /\ Visit(p)
    /\ Authenticates(p)
    /\ requirepass' = [requirepass EXCEPT ![p] = new]
    /\ masterauth' = [masterauth EXCEPT ![p] = new]
    /\ todo' = todo \ {p} /\ moved' = moved \cup {p}
    /\ unsure' = unsure \ {p}
    /\ UNCHANGED <<secret, statusVars, cached, walk, old, new, failed, hold, boundVars>>

\* Every attempt fails.  Where a command's reply is lost it may have taken effect.
RotateOneFails(p) ==
    /\ walk # "idle" /\ Visit(p)
    /\ \/ ~Authenticates(p) /\ UNCHANGED <<podVars, boundVars, unsure>>
       \/ /\ Authenticates(p) /\ AuthFault
          /\ \/ UNCHANGED <<podVars, unsure>>
             \/ /\ masterauth' = [masterauth EXCEPT ![p] = new]
                /\ requirepass' \in {requirepass, [requirepass EXCEPT ![p] = new]}
                /\ unsure' = unsure \cup {p}
    /\ todo' = todo \ {p} /\ failed' = failed \cup {p}
    /\ UNCHANGED <<secret, statusVars, cached, walk, old, new, moved, hold>>

WalkEnds == walk' = "idle" /\ UNCHANGED <<old, new, todo, moved, failed>>

\* Mutant: a walk is called a success when it moved some pod.
AnyMoved == moved # {}

AllMoved == failed = {}

\* All pods moved: status first, then the cache.
Succeed ==
    /\ walk = "forward" /\ todo = {} /\ AllMoved
    /\ \/ Persisted("Succeeded", new) /\ cached' = new /\ UNCHANGED unsure
       \/ NotPersisted("Succeeded", new) /\ UNCHANGED cached
          /\ unsure' = IF hash' = new THEN unsure ELSE Members
    /\ WalkEnds
    /\ UNCHANGED <<secret, podVars, hold>>

\* Some pod failed: the moved ones are walked back.
Revert ==
    /\ walk = "forward" /\ todo = {} /\ ~AllMoved
    /\ walk' = "revert" /\ old' = new /\ new' = old
    /\ todo' = moved /\ moved' = {} /\ failed' = {}
    /\ UNCHANGED <<secret, podVars, statusVars, cached, hold, boundVars, unsure>>

Reverted ==
    /\ walk = "revert" /\ todo = {}
    /\ LET outcome == IF failed = {} THEN "Failed" ELSE "Partial"
       IN  Persisted(outcome, hash) \/ NotPersisted(outcome, hash)
    /\ unsure' = unsure \cup failed
    /\ WalkEnds
    /\ UNCHANGED <<secret, podVars, cached, hold>>

-----------------------------------------------------------------------------
(* The environment. *)

EditSecret ==
    /\ edits < MaxEdits
    /\ edits' = edits + 1
    /\ \E s \in Passwords \ {secret} : secret' = s
    /\ UNCHANGED <<podVars, statusVars, cached, walkVars, hold,
                   authFaults, podRestarts, authCrashes, holds, unsure>>

\* A restarted container takes the password from the Secret.
PodRestart(p) ==
    /\ podRestarts < MaxPodRestarts
    /\ podRestarts' = podRestarts + 1
    /\ requirepass' = [requirepass EXCEPT ![p] = secret]
    /\ masterauth' = [masterauth EXCEPT ![p] = secret]
    /\ unsure' = IF UNCHANGED podVars THEN unsure ELSE unsure \cup {p}
    /\ UNCHANGED <<secret, statusVars, cached, walkVars, hold,
                   edits, authFaults, authCrashes, holds>>

Holds ==
    /\ \/ ~hold /\ holds < MaxHolds /\ hold' = TRUE /\ holds' = holds + 1
       \/ hold /\ hold' = FALSE /\ UNCHANGED holds
    /\ UNCHANGED <<secret, podVars, statusVars, cached, walkVars,
                   edits, authFaults, podRestarts, authCrashes, unsure>>

\* The operator restarts; the cache and the walk are lost.
AuthCrash ==
    /\ authCrashes < MaxAuthCrashes
    /\ authCrashes' = authCrashes + 1
    /\ cached' = NoPwd
    /\ unsure' = IF walk = "idle" THEN unsure
                 ELSE Unwalked(hash)
    /\ WalkEnds
    /\ UNCHANGED <<secret, podVars, statusVars, hold, edits, authFaults, podRestarts, holds>>

MaybeRotateAuth ==
    \/ ClearAuth \/ FirstObservation \/ Settle \/ SteadyState
    \/ AdoptMissed \/ DriveAuthRotation

AuthWalk ==
    \/ \E p \in Members : RotateOne(p) \/ RotateOneFails(p)
    \/ Succeed \/ Revert \/ Reverted

AuthNext ==
    \/ MaybeRotateAuth \/ AuthWalk
    \/ EditSecret \/ Holds \/ AuthCrash
    \/ \E p \in Members : PodRestart(p)

AuthSpec == AuthInit /\ [][AuthNext]_authVars

\* The pass is requeued and every step of it ends; a failover ends.
AuthFairness ==
    /\ WF_authVars(MaybeRotateAuth)
    /\ WF_authVars(AuthWalk)
    /\ WF_authVars(hold /\ Holds)

-----------------------------------------------------------------------------
(* Properties. *)

\* Between passes a recorded hash is the password every data pod asks for and presents, save those a
\* restart, a lost reply or a lost record put beyond the operator's knowledge: walking
\* back, retrying and falling back to the new password never leave another pod behind
\* (driveAuthRotation, classifyRotateResults, rotateOne).
Has(p, pwd) == requirepass[p] = pwd /\ masterauth[p] = pwd
CredentialKnown ==
    walk = "idle" /\ hash # NoPwd => \A p \in Members \ unsure : Has(p, hash)

\* Why: a walk forward has moved a pod to the new password or left it on the recorded one,
\* so when no pod failed all are moved, and when one did the walk back has to visit the
\* moved ones only; of those, a pod it fails on is given up.
Forward ==
    /\ old = hash /\ Members = moved \cup failed \cup todo
    /\ moved \cap todo = {} /\ moved \cap failed = {} /\ failed \cap todo = {}
    /\ \A p \in Members \ unsure : Has(p, IF p \in moved THEN new ELSE hash)
Backward == new = hash /\ \A p \in Members \ unsure : p \in todo \cup failed \/ Has(p, hash)
AuthInv ==
    /\ AuthTypeOK /\ CredentialKnown
    /\ walk = "forward" => Forward
    /\ walk = "revert" => Backward

\* Once edits and faults stop, the recorded hash becomes the Secret's, or the status
\* says Partial, or some pod has a password that neither the status nor the Secret
\* knows, which no retry can authenticate with (maybeRotateAuth).
Stranded == \E p \in Members : requirepass[p] \notin {hash, secret}
Settled  == hash = secret \/ phase = "Partial" \/ Stranded
=============================================================================
