--------------------------- MODULE HysteresisGate ---------------------------
(***************************************************************************)
(* What the quorum-suppression gate promises, in terms of the observer     *)
(* polls its passes have seen and nothing else.  Suppression starts at a   *)
(* Lost poll newer than one that was seen at least LossThreshold earlier,  *)
(* with no OK seen since; it ends at the RecoveryPolls-th distinct OK poll *)
(* seen since the last Lost.  A reading that decides nothing changes       *)
(* nothing.                                                                *)
(***************************************************************************)
EXTENDS Integers, FiniteSets

CONSTANTS
    Stamps,         \* the stamps of polls
    LossThreshold,  \* how long quorum must be lost
    RecoveryPolls   \* how many OK polls bring it back

VARIABLES
    now,     \* the clock
    active,  \* suppression is on
    lost,    \* <<poll, time>> of the Lost readings seen since the last OK
    ok       \* polls of the OK readings seen since the last Lost

absVars == <<now, active, lost, ok>>

Init ==
    /\ now \in Nat
    /\ active = FALSE /\ lost = {} /\ ok = {}

SeeLost(p) ==
    /\ lost' = lost \cup {<<p, now>>} /\ ok' = {}
    /\ active' = \/ active
                 \/ \E x \in lost : x[1] < p /\ now - x[2] >= LossThreshold
    /\ UNCHANGED now

SeeOK(p) ==
    /\ ok' = ok \cup {p} /\ lost' = {}
    /\ active' = (active /\ Cardinality(ok') < RecoveryPolls)
    /\ UNCHANGED now

Restart ==
    /\ active' = FALSE /\ lost' = {} /\ ok' = {}
    /\ UNCHANGED now

Advance ==
    /\ now' > now
    /\ UNCHANGED <<active, lost, ok>>

Next ==
    \/ \E p \in Stamps : SeeLost(p) \/ SeeOK(p)
    \/ Restart \/ Advance

Spec == Init /\ [][Next]_absVars
=============================================================================
