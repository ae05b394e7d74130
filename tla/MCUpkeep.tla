------------------------------ MODULE MCUpkeep ------------------------------
(* The password, the webhooks' certificates and the status, which share no state: a *)
(* behaviour runs one of them, and the others stay as they start.                   *)
EXTENDS AuthRotation, WebhookCA, CRStatus

VARIABLE loop    \* "auth", "ca" or "status", chosen at the start

upkeepVars == <<authVars, caVars, crVars, loop>>

UpkeepInit == loop \in {"auth", "ca", "status"} /\ AuthInit /\ CAInit /\ StatusInit
UpkeepNext ==
    \/ loop = "auth" /\ AuthNext /\ UNCHANGED <<caVars, crVars, loop>>
    \/ loop = "ca" /\ CANext /\ UNCHANGED <<authVars, crVars, loop>>
    \/ loop = "status" /\ StatusNext /\ UNCHANGED <<authVars, caVars, loop>>

\* AuthFairness, CAFairness and StatusFairness, each in its own loop.
UpkeepFairness ==
    /\ WF_authVars(loop = "auth" /\ MaybeRotateAuth)
    /\ WF_authVars(loop = "auth" /\ AuthWalk)
    /\ WF_authVars(loop = "auth" /\ hold /\ Holds)
    /\ WF_caVars(loop = "ca" /\ \E p \in Procs : PassStep(p))
    /\ WF_caVars(loop = "ca" /\ CacheSync)
    /\ WF_caVars(loop = "ca" /\ \E c \in Configs : Inject(c))
    /\ WF_crVars(loop = "status" /\ (Pass \/ updateStatus))
    /\ WF_crVars(loop = "status" /\ CacheCatchesUp)
    /\ SF_crVars(loop = "status" /\ Elapses)

UpkeepSpec == UpkeepInit /\ [][UpkeepNext]_upkeepVars /\ UpkeepFairness

\* The three loops are well typed and keep what their proofs rest on: the hashes a walk may
\* meet, the CAs that were stored, and memory that stands for what probes and scans met.
UpkeepInv == AuthInv /\ CAInv /\ StatusInv

\* Rotation settles in the behaviours that run it (maybeRotateAuth).
AuthSettles == <>[](loop = "auth" => Settled)

\* The chain of trust heals in the behaviours that run it (Authority, Injector).
TrustHeals == <>[](loop = "ca" => Healed)
=============================================================================
