------------------------------- MODULE Volumes -------------------------------
(***************************************************************************)
(* The data volumes of one CR: the claims, the StatefulSet whose template  *)
(* sizes them, and the four phases of a pass that decide about them.       *)
(*                                                                         *)
(*   Phase 0b'/0c  the retention finalizer and the deletion policy         *)
(*   Phase 0d'     the gate against recreating lost claims unasked         *)
(*   Phase 4       the resize: orphan-delete the set, patch the claims,    *)
(*                 wait for the driver, let Phase 2 recreate the set       *)
(*   Phase 2       the apply of the set, whose template is immutable       *)
(*                                                                         *)
(* A pass works on the copy v it read.  Every API call is a step of its    *)
(* own, so users, the StatefulSet controller and the storage driver move   *)
(* between any two, and a pass may be cut anywhere: a failed call, the     *)
(* auth Secret missing in Phase 0d, a crash.  The CR cache may be one      *)
(* write behind.  Status writes are merge patches without a resource       *)
(* version and do not conflict.  An attempt's number sets only the length  *)
(* of its backoff, and time is a flag: aged is "ten minutes in flight", or *)
(* "the backoff is over".                                                  *)
(***************************************************************************)
EXTENDS Integers, FiniteSets

CONSTANTS
    Slots,       \* the data pods, one claim each
    MaxSize,     \* sizes are 1..MaxSize
    MaxEdits,    \* bound on what users do
    MaxMishaps   \* bound on failures, crashes, stale reads, stalls

ASSUME VolumesAssumption ==
    /\ MaxSize \in Nat \ {0}
    /\ MaxEdits \in Nat
    /\ MaxMishaps \in Nat

VARIABLES
    cr,        \* the CR as the API server has it
    before,    \* the CR before the operator's last write to it
    v,         \* the copy the pass works on
    hadFin,    \* the finalizer was there when the pass read the CR
    at,        \* where the pass is
    set,       \* the template's size of the StatefulSet, 0 when there is none
    ready,     \* every pod of the set is Ready
    claim,     \* the claim of each ordinal
    owned,     \* the claims that carry the CR's owner reference
    listed,    \* Phase 0c: the claims the pass listed, still there
    todo,      \* Phase 0c: those it has not visited yet
    failed,    \* Phase 0c: some owner-reference patch failed
    growable,  \* the StorageClass allows expansion
    born,      \* this CR has had its StatefulSet
    lost,      \* at the gate, a CR known to have a past had neither set nor live claim
    doubt,     \* the resize has had a pass on an older copy of the CR, or claims that
               \* an earlier CR left growing
    edits,     \* user actions so far
    mishaps    \* mishaps so far

volVars == <<cr, before, v, hadFin, at, set, ready, claim, owned, listed, todo, failed,
             growable, born, lost, doubt, edits, mishaps>>

Sizes == 1 .. MaxSize
Policies == {"Retain", "Delete"}
InFlight == {"Validated", "StsOrphaned", "PVCsPatched", "StsRecreated", "Verified"}
Phases == InFlight \cup {"", "Aborted"}

\* isPVCResizeGuardingPhase2
GuardingLess == {"Validated", "StsOrphaned"}
Guarding == {"Validated", "StsOrphaned", "PVCsPatched"}

ClaimStates == [req : 0 .. MaxSize, cap : 0 .. MaxSize, dying : BOOLEAN]
NoClaim == [req |-> 0, cap |-> 0, dying |-> FALSE]
Claims == {o \in Slots : claim[o] # NoClaim}
Live == {o \in Claims : ~claim[o].dying}
Growing == {o \in Slots : claim[o].cap < claim[o].req}

Fresh(size, policy) ==
    [size |-> size, policy |-> policy, accept |-> FALSE, fin |-> FALSE,
     deleting |-> FALSE, gone |-> FALSE,
     phase |-> "", aged |-> FALSE, flagged |-> FALSE]

CRs == [size : Sizes, policy : Policies, accept : BOOLEAN, fin : BOOLEAN,
        deleting : BOOLEAN, gone : BOOLEAN,
        phase : Phases, aged : BOOLEAN, flagged : BOOLEAN]

VolTypeOK ==
    /\ cr \in CRs /\ before \in CRs /\ v \in CRs
    /\ at \in {"idle", "delete", "auth", "gate", "phase4", "drive",
               "orphaned", "phase2", "late"}
    /\ set \in 0 .. MaxSize
    /\ claim \in [Slots -> ClaimStates]
    /\ owned \subseteq Slots /\ listed \subseteq Slots /\ todo \subseteq Slots
    /\ hadFin \in BOOLEAN /\ ready \in BOOLEAN /\ failed \in BOOLEAN /\ growable \in BOOLEAN
    /\ born \in BOOLEAN /\ lost \in BOOLEAN /\ doubt \in BOOLEAN
    /\ edits \in 0 .. MaxEdits
    /\ mishaps \in 0 .. MaxMishaps

\* A cluster that runs, or a new CR, with or without claims that outlived an
\* earlier CR of its name.
VolInit ==
    /\ \E policy \in Policies, running \in BOOLEAN, kept \in 0 .. MaxSize :
          /\ running => kept = 1
          /\ cr = [Fresh(1, policy) EXCEPT !.fin = running]
          /\ set = IF running THEN 1 ELSE 0
          /\ ready = running
          /\ born = running
          /\ claim = [o \in Slots |-> [NoClaim EXCEPT !.req = kept, !.cap = kept]]
    /\ before = cr
    /\ v = cr
    /\ hadFin = FALSE
    /\ at = "idle"
    /\ owned = {}
    /\ listed = {}
    /\ todo = {}
    /\ failed = FALSE
    /\ growable = TRUE
    /\ lost = FALSE
    /\ doubt = FALSE
    /\ edits = 0
    /\ mishaps = 0

-----------------------------------------------------------------------------
(* The pass. *)

\* A write of the operator to the CR: the server's copy and the pass's copy
\* change, the cache may keep the old one.
Write(stored, held) ==
    /\ before' = cr
    /\ cr' = stored
    /\ v' = held

\* writePVCResizeStatus and clearPVCResizeStatus: a phase already in the
\* pass's copy is not written again.
In(phase, c) == [c EXCEPT !.phase = phase, !.aged = FALSE, !.flagged = FALSE]
Entered(phase) ==
    IF v.phase = phase
    THEN UNCHANGED <<cr, before, v>>
    ELSE Write(In(phase, cr), In(phase, v))

Spend == mishaps < MaxMishaps /\ mishaps' = mishaps + 1

\* Reconcile up to Phase 0c: the read, from a cache that may be one write
\* behind; the finalizer; the branch for a CR being deleted, which lists the
\* claims.
PassBegins ==
    /\ at = "idle"
    /\ ~cr.gone
    /\ \E c \in {cr, before} :
          /\ ~c.gone
          /\ IF c = cr THEN UNCHANGED mishaps ELSE Spend
          /\ hadFin' = c.fin
          /\ IF c.deleting \/ c.fin
             THEN v' = c /\ before' = (IF c = cr THEN cr ELSE before) /\ UNCHANGED cr
             ELSE /\ ~cr.deleting
                  /\ before' = cr
                  /\ cr' = [cr EXCEPT !.fin = TRUE]
                  /\ v' = [c EXCEPT !.fin = TRUE]
          /\ at' = IF c.deleting THEN "delete" ELSE "auth"
          /\ listed' = IF c.deleting THEN Claims ELSE {}
          /\ doubt' = (c # cr \/ (doubt /\ (cr.phase # "" \/ Growing # {})))
    /\ todo' = listed'
    /\ failed' = FALSE
    /\ UNCHANGED <<set, ready, claim, owned, growable, born, lost, edits>>

\* A call fails, the process dies, or resolveAuth finds no Secret.
PassCut ==
    /\ at # "idle"
    /\ Spend
    /\ at' = "idle"
    /\ UNCHANGED <<cr, before, v, hadFin, set, ready, claim, owned, listed, todo, failed,
                   growable, born, lost, doubt, edits>>

\* resolveAuth found its Secret.
AuthResolved ==
    /\ at = "auth"
    /\ at' = "gate"
    /\ UNCHANGED <<cr, before, v, hadFin, set, ready, claim, owned, listed, todo, failed,
                   growable, born, lost, doubt, edits, mishaps>>

\* What the gate counts: claims that are not being deleted.
LiveClaims == Live

\* detectPVCLossAndGate lets the pass on.
Proceeds ==
    \/ ~hadFin
    \/ v.policy # "Retain"
    \/ set > 0
    \/ LiveClaims # {}
    \/ v.accept

\* detectPVCLossAndGate: on, or end of the pass.
Gate ==
    /\ at = "gate"
    /\ at' = IF Proceeds THEN "phase4" ELSE "idle"
    /\ lost' = (hadFin /\ born /\ set = 0 /\ Live = {})
    /\ UNCHANGED <<cr, before, v, hadFin, set, ready, claim, owned, listed, todo, failed,
                   growable, born, doubt, edits, mishaps>>

\* smallestCurrentSize: of the requests, not of the capacities.
Current == CHOOSE s \in {claim[o].req : o \in Claims} : \A o \in Claims : s <= claim[o].req

\* Detect
Outcome(size) ==
    IF Claims = {} THEN "NoChange"
    ELSE IF size = Current THEN "NoChange"
    ELSE IF size < Current THEN "ShrinkRejected"
    ELSE IF ~growable THEN "ExpansionNotSupported"
    ELSE "ResizeNeeded"

\* pvcResizeIsStalled and pvcResizeAbortedWaitRemaining on the pass's copy.
Stalled == v.phase \in InFlight /\ v.aged
BackingOff == v.phase = "Aborted" /\ ~v.aged

\* reconcilePVCResize, up to the dispatch.
Phase4 ==
    /\ at = "phase4"
    /\ \/ /\ Outcome(v.size) = "NoChange"
          /\ at' = IF v.phase = "" THEN "phase2" ELSE "drive"
          /\ UNCHANGED <<cr, before, v>>
       \/ /\ Outcome(v.size) \in {"ShrinkRejected", "ExpansionNotSupported"}
          /\ Entered("Aborted")
          /\ at' = "idle"
       \/ /\ Outcome(v.size) = "ResizeNeeded"
          /\ BackingOff
          /\ at' = "phase2"
          /\ UNCHANGED <<cr, before, v>>
       \/ /\ Outcome(v.size) = "ResizeNeeded"
          /\ v.phase \notin InFlight /\ ~BackingOff
          /\ Entered("Validated")
          /\ at' = "drive"
       \/ /\ Outcome(v.size) = "ResizeNeeded"
          /\ Stalled
          /\ IF v.flagged THEN UNCHANGED <<cr, before, v>>
                          ELSE Write([cr EXCEPT !.flagged = TRUE], [v EXCEPT !.flagged = TRUE])
          /\ at' = "phase2"
       \/ /\ Outcome(v.size) = "ResizeNeeded"
          /\ v.phase \in InFlight /\ ~Stalled
          /\ at' = "drive"
          /\ UNCHANGED <<cr, before, v>>
    /\ UNCHANGED <<hadFin, set, ready, claim, owned, listed, todo, failed, growable,
                   born, lost, doubt, edits, mishaps>>

driveRest == <<hadFin, owned, listed, todo, failed, growable, born, lost, doubt, edits>>

\* FromValidated: the orphan delete, then the phase; a set already gone is
\* taken for deleted.
FromValidated ==
    /\ at \in {"drive", "orphaned"}
    /\ v.phase = "Validated"
    /\ IF set > 0 /\ at = "drive"
       THEN /\ set' = 0
            /\ ready' = FALSE
            /\ at' = "orphaned"
            /\ UNCHANGED <<cr, before, v>>
       ELSE /\ Entered("StsOrphaned")
            /\ at' = "phase2"
            /\ UNCHANGED <<set, ready>>
    /\ UNCHANGED <<claim, mishaps, driveRest>>

\* FromStsOrphaned: one patch per claim below the size, in any order; a
\* rejected patch aborts.
FromStsOrphaned ==
    /\ at = "drive"
    /\ v.phase = "StsOrphaned"
    /\ LET small == {o \in Claims : claim[o].req < v.size} IN
       \/ /\ set > 0
          /\ at' = "phase2"
          /\ UNCHANGED <<cr, before, v, claim, mishaps>>
       \/ /\ set = 0 /\ small # {}
          /\ \E o \in small : claim' = [claim EXCEPT ![o].req = v.size]
          /\ UNCHANGED <<cr, before, v, at, mishaps>>
       \/ /\ set = 0 /\ small # {}
          /\ Spend
          /\ Entered("Aborted")
          /\ at' = "idle"
          /\ UNCHANGED claim
       \/ /\ set = 0 /\ small = {}
          /\ Entered("PVCsPatched")
          /\ at' = "phase2"
          /\ UNCHANGED <<claim, mishaps>>
    /\ UNCHANGED <<set, ready, driveRest>>

\* FromPVCsPatched waits for the capacity, not for the request.
GrownAsked(o) == claim[o].req >= v.size
GrownBeyond(o) == claim[o].cap > v.size
Grown(o) == claim[o].cap >= v.size

FromPVCsPatched ==
    /\ at = "drive"
    /\ v.phase = "PVCsPatched"
    /\ \/ /\ Claims = {}
          /\ Entered("Aborted")
          /\ at' = "idle"
       \/ /\ Claims # {}
          /\ IF \A o \in Claims : Grown(o)
             THEN Entered("StsRecreated")
             ELSE UNCHANGED <<cr, before, v>>
          /\ at' = "phase2"
    /\ UNCHANGED <<set, ready, claim, mishaps, driveRest>>

\* FromStsRecreated waits for Phase 2 to have made the set at the size.
FromStsRecreated ==
    /\ at = "drive"
    /\ v.phase = "StsRecreated"
    /\ IF set >= v.size THEN Entered("Verified") ELSE UNCHANGED <<cr, before, v>>
    /\ at' = "phase2"
    /\ UNCHANGED <<set, ready, claim, mishaps, driveRest>>

\* FromVerified waits for the pods.
FromVerified ==
    /\ at = "drive"
    /\ v.phase = "Verified"
    /\ IF set > 0 /\ ready THEN Entered("") ELSE UNCHANGED <<cr, before, v>>
    /\ at' = "phase2"
    /\ UNCHANGED <<set, ready, claim, mishaps, driveRest>>

\* drivePVCResize has no transition out of Aborted.
FromAborted ==
    /\ at = "drive"
    /\ v.phase = "Aborted"
    /\ at' = "phase2"
    /\ UNCHANGED <<cr, before, v, set, ready, claim, mishaps, driveRest>>

\* A read, the orphan delete or a patch fails in passing: the resize is left where it is
\* (ActionRequeue) and the pass goes on.
DriveFails ==
    /\ at = "drive"
    /\ v.phase \in InFlight
    /\ Spend
    /\ at' = "phase2"
    /\ UNCHANGED <<cr, before, v, set, ready, claim, driveRest>>

\* reconcileStatefulSet: skipped under the guard; creates a missing set at the
\* pass's size; an apply with another size is refused by the API server.
Phase2 ==
    /\ at = "phase2"
    /\ \/ /\ v.phase \in Guarding
          /\ at' = "late"
          /\ UNCHANGED <<set, ready, born>>
       \/ /\ v.phase \notin Guarding /\ set = 0
          /\ set' = v.size
          /\ ready' = FALSE
          /\ born' = TRUE
          /\ at' = "late"
       \/ /\ v.phase \notin Guarding /\ set > 0
          /\ at' = IF set = v.size THEN "late" ELSE "idle"
          /\ UNCHANGED <<set, ready, born>>
    /\ UNCHANGED <<cr, before, v, hadFin, claim, owned, listed, todo, failed, growable,
                   lost, doubt, edits, mishaps>>

\* Phases 3 to 11 succeeded: clearSingleShotAnnotations, and the pass ends.
PassEnds ==
    /\ at = "late"
    /\ at' = "idle"
    /\ IF v.accept THEN Write([cr EXCEPT !.accept = FALSE], [v EXCEPT !.accept = FALSE])
                   ELSE UNCHANGED <<cr, before, v>>
    /\ UNCHANGED <<hadFin, set, ready, claim, owned, listed, todo, failed, growable,
                   born, lost, doubt, edits, mishaps>>

-----------------------------------------------------------------------------
(* Deletion. *)

\* reconcileDeletion, one claim: the owner reference as the policy wants it; a
\* failed patch does not stop the others.
DeleteVisits ==
    /\ at = "delete"
    /\ \E o \in todo :
          /\ todo' = todo \ {o}
          /\ LET settled == (o \in owned) = (v.policy = "Delete") IN
             \/ /\ settled
                /\ UNCHANGED <<owned, failed, mishaps>>
             \/ /\ ~settled /\ o \in Claims
                /\ owned' = IF v.policy = "Delete" THEN owned \cup {o} ELSE owned \ {o}
                /\ UNCHANGED <<failed, mishaps>>
             \/ /\ ~settled
                /\ IF o \in Claims THEN Spend ELSE UNCHANGED mishaps
                /\ failed' = TRUE
                /\ UNCHANGED owned
    /\ UNCHANGED <<cr, before, v, hadFin, at, set, ready, claim, listed,
                   growable, born, lost, doubt, edits>>

DeleteEndsAnyway ==
    /\ at = "delete"
    /\ todo = {}
    /\ at' = "idle"
    /\ cr' = [cr EXCEPT !.fin = FALSE, !.gone = TRUE]
    /\ before' = cr'
    /\ UNCHANGED <<v, hadFin, set, ready, claim, owned, listed, todo, failed,
                   growable, born, lost, doubt, edits, mishaps>>

\* reconcileDeletion, the end: the finalizer goes, and the CR with it, when no
\* patch failed.
DeleteEnds ==
    /\ at = "delete"
    /\ todo = {}
    /\ at' = "idle"
    /\ IF failed
       THEN UNCHANGED <<cr, before>>
       ELSE /\ cr' = [cr EXCEPT !.fin = FALSE, !.gone = TRUE]
            /\ before' = cr'
    /\ UNCHANGED <<v, hadFin, set, ready, claim, owned, listed, todo, failed,
                   growable, born, lost, doubt, edits, mishaps>>

-----------------------------------------------------------------------------
(* Users, the StatefulSet controller, the storage driver, time. *)

passVars == <<v, hadFin, at, listed, todo, failed, lost>>

\* A user's command comes after the cache has caught up; a pass that misses it
\* is one that began before it.
Edit(c) ==
    /\ edits < MaxEdits
    /\ edits' = edits + 1
    /\ cr' = c
    /\ before' = c
    /\ UNCHANGED <<mishaps, passVars>>

\* The size only grows (the CRD's rule); the policy changes at any time, also
\* on a CR being deleted; the annotation; the deletion.
UserEdits ==
    /\ ~cr.gone
    /\ \/ \E s \in cr.size + 1 .. MaxSize : Edit([cr EXCEPT !.size = s])
       \/ \E p \in Policies \ {cr.policy} : Edit([cr EXCEPT !.policy = p])
       \/ ~cr.accept /\ Edit([cr EXCEPT !.accept = TRUE])
       \/ ~cr.deleting /\ cr.fin /\ Edit([cr EXCEPT !.deleting = TRUE])
    /\ UNCHANGED <<set, ready, claim, owned, growable, born, doubt>>

\* The set is deleted; or its claims; or the StorageClass is edited.
UserDisturbs ==
    /\ Edit(cr)
    /\ \/ set > 0 /\ set' = 0 /\ ready' = FALSE /\ UNCHANGED <<claim, growable>>
       \/ /\ Live # {}
          /\ claim' = [o \in Slots |-> IF o \in Live THEN [claim[o] EXCEPT !.dying = TRUE]
                                                        ELSE claim[o]]
          /\ UNCHANGED <<set, ready, growable>>
       \/ growable' = ~growable /\ UNCHANGED <<set, ready, claim>>
    /\ UNCHANGED <<owned, born, doubt>>

\* A new CR of the same name, over the claims that were retained.
UserRecreates ==
    /\ cr.gone /\ at = "idle" /\ set = 0 /\ owned = {}
    /\ \E s \in Sizes : Edit(Fresh(s, cr.policy))
    /\ born' = FALSE
    /\ doubt' = (Growing # {})
    /\ UNCHANGED <<set, ready, claim, owned, growable>>

worldRest == <<owned, growable, born, doubt, edits, passVars>>

\* A claim being deleted goes once no pod uses it.
ClaimGoes ==
    /\ \E o \in Claims \ Live : /\ claim' = [claim EXCEPT ![o] = NoClaim]
                                /\ owned' = owned \ {o}
                                /\ listed' = listed \ {o}
    /\ UNCHANGED <<cr, before, v, hadFin, at, set, ready, todo, failed, growable,
                   born, lost, doubt, edits, mishaps>>

\* The StatefulSet controller makes a missing claim from the template.
ClaimMade ==
    /\ set > 0
    /\ \E o \in Slots \ Claims :
          claim' = [claim EXCEPT ![o] = [req |-> set, cap |-> set, dying |-> FALSE]]
    /\ UNCHANGED <<cr, before, set, ready, mishaps, worldRest>>

\* The storage driver grows a volume to what is asked.
DriverGrows ==
    /\ \E o \in Claims : /\ claim[o].cap < claim[o].req
                         /\ claim' = [claim EXCEPT ![o].cap = claim[o].req]
    /\ UNCHANGED <<cr, before, set, ready, mishaps, worldRest>>

PodsReady ==
    /\ set > 0 /\ ~ready /\ Claims = Slots
    /\ ready' = TRUE
    /\ UNCHANGED <<cr, before, set, claim, mishaps, worldRest>>

Aged(c) == [c EXCEPT !.aged = c.phase # ""]

\* The backoff of an aborted resize ends.
BackoffEnds ==
    /\ cr.phase = "Aborted" /\ ~cr.aged
    /\ cr' = Aged(cr)
    /\ before' = Aged(before)
    /\ UNCHANGED <<set, ready, claim, mishaps, worldRest>>

\* Ten minutes pass without a transition.
TimePasses ==
    /\ cr.phase \in InFlight /\ ~cr.aged
    /\ Spend
    /\ cr' = Aged(cr)
    /\ before' = Aged(before)
    /\ UNCHANGED <<set, ready, claim, worldRest>>

\* The garbage collector follows the owner references of a CR that is gone.
Collected ==
    /\ cr.gone /\ at = "idle"
    /\ set > 0 \/ owned # {}
    /\ set' = 0
    /\ ready' = FALSE
    /\ claim' = [o \in Slots |-> IF o \in owned THEN NoClaim ELSE claim[o]]
    /\ owned' = {}
    /\ UNCHANGED <<cr, before, growable, born, doubt, edits, passVars, mishaps>>

PassSteps ==
    \/ PassBegins
    \/ AuthResolved
    \/ Gate
    \/ Phase4
    \/ FromValidated
    \/ FromStsOrphaned
    \/ FromPVCsPatched
    \/ FromStsRecreated
    \/ FromVerified
    \/ FromAborted
    \/ Phase2
    \/ PassEnds
    \/ DeleteVisits
    \/ DeleteEnds

VolNext ==
    \/ PassSteps
    \/ PassCut
    \/ DriveFails
    \/ UserEdits
    \/ UserDisturbs
    \/ UserRecreates
    \/ ClaimGoes
    \/ ClaimMade
    \/ DriverGrows
    \/ PodsReady
    \/ BackoffEnds
    \/ TimePasses
    \/ Collected

\* What carries the properties below.  Without doubt, the pass's copy has the stored phase
\* and a size no later than the stored one, a volume only grows towards a size the pass
\* knows, and none grows once the set may come back.
Sure ==
    /\ at # "idle" => v.phase = cr.phase /\ v.size <= cr.size
    /\ \A o \in Growing : /\ claim[o].req <= cr.size
                          /\ at # "idle" => claim[o].req <= v.size
    /\ cr.phase \in {"StsRecreated", "Verified"} => Growing = {}

\* After the gate, lost claims have the user's consent.
Consented ==
    at \in {"phase4", "drive", "orphaned", "phase2"} /\ lost /\ v.policy = "Retain" => v.accept

\* A deletion that has met no failure has settled every claim it has visited.
Visited ==
    /\ owned \subseteq Claims
    /\ at = "delete" => /\ listed \subseteq Claims
                        /\ failed \/ IF v.policy = "Delete" THEN listed \subseteq owned \cup todo
                                                           ELSE owned \subseteq todo

VolInv == VolTypeOK /\ (doubt \/ Sure) /\ Consented /\ Visited

VolSpec == VolInit /\ [][VolNext]_volVars

-----------------------------------------------------------------------------
(* Properties. *)

\* Phase 2 brings the StatefulSet back only when it may: never while the stored status
\* says that the resize keeps it away, unless the resize has had a pass on an older copy of
\* the CR; and, under Retain, only with the user's annotation, if the pass read the
\* finalizer and its gate met neither set nor live claim (the substate guard of
\* reconcileStatefulSet, detectPVCLossAndGate).
GuardedRecreate ==
    [][set = 0 /\ set' > 0
          => /\ ~doubt => cr.phase \notin {"Validated", "StsOrphaned", "PVCsPatched"}
             /\ lost /\ v.policy = "Retain" => v.accept]_volVars

\* A resize reported complete is one: no volume is still growing to what was asked for it,
\* unless the resize has had a pass on an older copy of the CR or claims that an earlier CR
\* left growing (FromPVCsPatched, FromStsRecreated, FromVerified).
CompleteMeansGrown ==
    [][cr.phase = "Verified" /\ cr'.phase = "" /\ ~cr'.gone /\ ~doubt
          => Growing = {}]_volVars

\* When the CR goes, the garbage collector finds the owner references that the CR's policy
\* asks for: none under Retain, under Delete one on every claim the last pass listed,
\* although patches fail, passes are cut and the policy was edited while the CR was
\* terminating, after an earlier pass had set the references of the old one.  The policy is
\* the one the last pass read: when it is edited later still, before the finalizer goes,
\* the references stay those of the policy read (reconcileDeletion; removing the finalizer
\* is a patch without a resource version).
RetentionHonoured ==
    [][~cr.gone /\ cr'.gone /\ v.policy = cr.policy
          => IF cr.policy = "Delete" THEN listed \cap Claims \subseteq owned
                                     ELSE owned = {}]_volVars

\* The size was raised again after the claims were patched, or after the set
\* was made: neither phase goes back, and the stall guard is what remains.
Outgrown ==
    \/ cr.phase = "PVCsPatched" /\ \E o \in Claims : claim[o].req < cr.size
    \/ cr.phase = "StsRecreated" /\ set \in 1 .. cr.size - 1

\* Why the operator may leave the set away: the size cannot be had, the resize
\* is outgrown or has stalled, the gate waits for the annotation, the CR is
\* going.
Parked ==
    \/ Outgrown
    \/ Outcome(cr.size) \in {"ShrinkRejected", "ExpansionNotSupported"}
    \/ cr.phase \in InFlight /\ cr.aged
    \/ cr.fin /\ cr.policy = "Retain" /\ set = 0 /\ Live = {} /\ ~cr.accept
    \/ cr.deleting
    \/ cr.gone

\* A resize in flight ends, in success or in an abort, and the StatefulSet that it, a user
\* or nobody's fault took away is back, unless the operator has a reason to leave it away
\* (drivePVCResize and its transitions, detectPVCLossAndGate, reconcileStatefulSet).
ResizeEnds == []<>((set > 0 /\ cr.phase \notin InFlight) \/ Parked)

VolFairness ==
    /\ WF_volVars(PassSteps)
    /\ WF_volVars(ClaimMade)
    /\ WF_volVars(DriverGrows)
    /\ WF_volVars(PodsReady)
    /\ WF_volVars(BackoffEnds)

VolFairSpec == VolSpec /\ VolFairness
=============================================================================
