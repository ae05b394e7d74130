----------------------------- MODULE WebhookCA ------------------------------
(***************************************************************************)
(* The webhook certificates: Authority keeps a CA Secret and the leaf      *)
(* Secrets signed by it, Injector copies the CA into the webhook           *)
(* configurations.  The leader's loop reads through the manager's cache;   *)
(* each replica's init container runs one pass with an uncached client.    *)
(* A certificate is a number, drawn when it is stored: of one that is      *)
(* generated and whose write fails nothing is left.  A Secret also has a   *)
(* resourceVersion and the force-rotate annotation.                        *)
(***************************************************************************)
EXTENDS Integers, FiniteSets

CONSTANTS
    Boots,         \* init containers (Bootstrap passes)
    NumLeaves,     \* leaf Secrets: webhook, metrics
    MaxMints,      \* bound: certificates stored
    MaxUserActs,   \* bound: annotations, damaged or deleted Secrets, certificates ageing
    MaxCAFaults    \* bound: API errors and crashes

ASSUME CAAssumption ==
    /\ IsFiniteSet(Boots) /\ "leader" \notin Boots
    /\ NumLeaves \in Nat \ {0} /\ MaxMints \in Nat /\ MaxUserActs \in Nat /\ MaxCAFaults \in Nat

Leaves  == 1 .. NumLeaves
Configs == {"mutating", "validating"}
Procs   == Boots \cup {"leader"}
Bad     == -1                         \* an unparseable certificate
Cert    == Bad .. MaxMints            \* 0: there is no Secret
NoSecret == [cert |-> 0, signer |-> 0, rv |-> 0, force |-> FALSE]

VARIABLES
    ca, leaf,            \* the CA Secret and the leaf Secrets in the API server
    caCache, leafCache,  \* the manager's cache of them
    bundle,              \* caBundle in the two webhook configurations
    at,                  \* where each Authority pass is (Steps)
    seen,                \* the Secret the pass has read
    rotated, signing,    \* caRotated, and the CA the pass signs leaves with
    erred,               \* the pass met an error
    ready,               \* init containers that completed
    optedIn,             \* a cert-manager Certificate has appeared
    stopped,             \* Authority.Start has returned
    mints, aged,         \* certificates stored, and those due for rotation
    userActs, caFaults,
    published            \* history: every CA ever stored

secretVars == <<ca, leaf>>
cacheVars  == <<caCache, leafCache>>
passVars   == <<at, seen, rotated, signing, erred>>
caBounds   == <<mints, aged, userActs, caFaults>>
caVars     == <<secretVars, cacheVars, bundle, passVars, ready, optedIn, stopped,
                caBounds, published>>

\* Steps of reconcileOnce: read the CA, ensure it, load it, then read and ensure each leaf.
Steps == ({0} \X {"wait", "ensureCA", "load"}) \cup (Leaves \X {"read", "ensure"})
Wait     == <<0, "wait">>
AtCA     == <<0, "ensureCA">>
AtLoad   == <<0, "load">>
LeafRead(i)   == <<i, "read">>
LeafEnsure(i) == <<i, "ensure">>

Secrets == [cert : Cert, signer : Cert, rv : Nat, force : BOOLEAN]

CATypeOK ==
    /\ ca \in Secrets /\ caCache \in Secrets
    /\ leaf \in [Leaves -> Secrets] /\ leafCache \in [Leaves -> Secrets]
    /\ bundle \in [Configs -> Cert]
    /\ at \in [Procs -> Steps] /\ seen \in [Procs -> Secrets]
    /\ rotated \in [Procs -> BOOLEAN] /\ signing \in [Procs -> Cert]
    /\ erred \in [Procs -> BOOLEAN] /\ ready \subseteq Boots
    /\ optedIn \in BOOLEAN /\ stopped \in BOOLEAN
    /\ mints \in 0 .. MaxMints /\ aged \subseteq 1 .. MaxMints
    /\ userActs \in 0 .. MaxUserActs /\ caFaults \in 0 .. MaxCAFaults
    /\ published \subseteq 1 .. MaxMints

CAInit ==
    /\ ca = NoSecret /\ caCache = NoSecret
    /\ leaf = [i \in Leaves |-> NoSecret] /\ leafCache = [i \in Leaves |-> NoSecret]
    /\ bundle = [c \in Configs |-> 0]
    /\ at = [p \in Procs |-> Wait] /\ seen = [p \in Procs |-> NoSecret]
    /\ rotated = [p \in Procs |-> FALSE] /\ signing = [p \in Procs |-> 0]
    /\ erred = [p \in Procs |-> FALSE] /\ ready = {}
    /\ optedIn = FALSE /\ stopped = FALSE
    /\ mints = 0 /\ aged = {} /\ userActs = 0 /\ caFaults = 0 /\ published = {}

-----------------------------------------------------------------------------
(* Secret CRUD. *)

\* getSecret: the leader reads its cache, an init container the API server.
GetCA(p)      == IF p = "leader" THEN caCache ELSE ca
GetLeaf(p, i) == IF p = "leader" THEN leafCache[i] ELSE leaf[i]

\* updateSecret writes at the resourceVersion read and drops the annotation.
Written(s, cert, signer) == [cert |-> cert, signer |-> signer, rv |-> s.rv + 1, force |-> FALSE]

\* Mutant: an update without the resourceVersion precondition.
NeverConflict(s, stored) == TRUE

NoConflict(s, stored) == s.rv = stored.rv

\* ShouldRotate, and shouldForceRotate, of the Secret read.
Due(s) == s.force \/ s.cert \in aged

-----------------------------------------------------------------------------
(* One pass of reconcileOnce. *)

GoesTo(p, step) == at' = [at EXCEPT ![p] = step]
Reads(p, s)     == seen' = [seen EXCEPT ![p] = s]
Goes(p, step)   == GoesTo(p, step) /\ UNCHANGED <<seen, rotated, signing, erred>>

\* The pass returns, with or without an error.
Returns(p, err) ==
    /\ GoesTo(p, Wait) /\ Reads(p, NoSecret)
    /\ rotated' = [rotated EXCEPT ![p] = FALSE]
    /\ signing' = [signing EXCEPT ![p] = 0]
    /\ erred' = [erred EXCEPT ![p] = err]
Mint            == mints < MaxMints /\ mints' = mints + 1 /\ UNCHANGED <<aged, userActs, caFaults>>
Unminted        == UNCHANGED caBounds

\* Start (after the cert-manager probe) or Bootstrap begins a pass: ensureCA's read.
BeginPass(p) ==
    /\ at[p] = Wait
    /\ IF p = "leader" THEN ready # {} /\ ~stopped /\ ~optedIn ELSE p \notin ready
    /\ Reads(p, GetCA(p)) /\ GoesTo(p, AtCA)
    /\ erred' = [erred EXCEPT ![p] = FALSE]
    /\ UNCHANGED <<secretVars, cacheVars, bundle, rotated, signing, ready, optedIn, stopped,
                   caBounds, published>>

StopForCertManager ==
    /\ at["leader"] = Wait /\ optedIn /\ ~stopped
    /\ stopped' = TRUE
    /\ UNCHANGED <<secretVars, cacheVars, bundle, passVars, ready, optedIn, caBounds, published>>

CAIssued(p) ==
    /\ GoesTo(p, AtLoad) /\ rotated' = [rotated EXCEPT ![p] = TRUE]
    /\ UNCHANGED <<seen, signing, erred>>

\* The CA is missing: create; losing the race to another replica is not an error.
CreateCA(p) ==
    /\ seen[p].cert = 0
    /\ IF ca.cert = 0 THEN Mint /\ ca' = Written(ca, mints', mints') ELSE Unminted /\ ca' = ca
    /\ CAIssued(p)

\* Unparseable, annotated or old: reissue at the version read.
RotateCA(p) ==
    /\ seen[p].cert # 0 /\ (seen[p].cert = Bad \/ Due(seen[p]))
    /\ IF NoConflict(seen[p], ca)
       THEN Mint /\ ca' = Written(ca, mints', mints') /\ CAIssued(p)
       ELSE Unminted /\ ca' = ca /\ Returns(p, TRUE)

KeepCA(p) ==
    /\ seen[p].cert \notin {0, Bad} /\ ~Due(seen[p])
    /\ Goes(p, AtLoad)
    /\ UNCHANGED ca /\ Unminted

EnsureCA(p) ==
    /\ at[p] = AtCA
    /\ CreateCA(p) \/ RotateCA(p) \/ KeepCA(p)
    /\ published' = published \cup ({ca'.cert} \ {0, Bad})
    /\ UNCHANGED <<leaf, cacheVars, bundle, ready, optedIn, stopped>>

\* Mutant: a pass that has just made a CA signs with its own copy, which is not the one
\* stored when its create lost the race.
LoadOwnCopy(p) ==
    IF rotated[p] /\ GetCA(p).cert # mints THEN [GetCA(p) EXCEPT !.cert = MaxMints] ELSE GetCA(p)

CAMaterial(p) == GetCA(p)

\* loadSecretMaterial; without a CA the leaves are only observed.
LoadCA(p) ==
    /\ at[p] = AtLoad
    /\ IF CAMaterial(p).cert = 0
       THEN Returns(p, TRUE)
       ELSE /\ GoesTo(p, LeafRead(1)) /\ Reads(p, NoSecret)
            /\ signing' = [signing EXCEPT ![p] = CAMaterial(p).cert]
            /\ UNCHANGED <<rotated, erred>>
    /\ UNCHANGED <<secretVars, cacheVars, bundle, ready, optedIn, stopped, caBounds, published>>

ReadLeaf(p, i) ==
    /\ at[p] = LeafRead(i)
    /\ Reads(p, GetLeaf(p, i)) /\ GoesTo(p, LeafEnsure(i))
    /\ UNCHANGED <<secretVars, cacheVars, bundle, rotated, signing, erred, ready, optedIn, stopped,
                   caBounds, published>>

\* Mutant: only the rotation in this pass, not a stale chain, forces a reissue.
NoChainCheck(p) == FALSE

\* The leaf read is not signed by the CA loaded; a CA that does not parse is not compared.
StaleChain(p) == signing[p] # Bad /\ seen[p].signer # signing[p]

\* A failed init container is run again; the leader sleeps either way.  The manager, and
\* with it the cache, starts after the first init container completes.
NextLeaf(p, i, err) ==
    IF i < NumLeaves
    THEN /\ GoesTo(p, LeafRead(i + 1)) /\ Reads(p, NoSecret)
         /\ erred' = [erred EXCEPT ![p] = err]
         /\ UNCHANGED <<rotated, signing, ready, cacheVars>>
    ELSE /\ Returns(p, err)
         /\ ready' = IF p \in Boots /\ ~err THEN ready \cup {p} ELSE ready
         /\ IF ready = {} /\ ready' # {} THEN caCache' = ca /\ leafCache' = leaf'
                                        ELSE UNCHANGED cacheVars

LeafDue(p) ==
    seen[p].cert \in {0, Bad} \/ rotated[p] \/ StaleChain(p) \/ Due(seen[p])

\* Create (a lost race is not an error) or reissue at the version read.
IssueLeaf(p, i) ==
    /\ LeafDue(p) /\ signing[p] # Bad
    /\ LET lands == IF seen[p].cert = 0 THEN leaf[i].cert = 0 ELSE NoConflict(seen[p], leaf[i])
       IN  /\ IF lands THEN Mint /\ leaf' = [leaf EXCEPT ![i] = Written(@, mints', signing[p])]
                       ELSE Unminted /\ leaf' = leaf
           /\ NextLeaf(p, i, erred[p] \/ (~lands /\ seen[p].cert # 0))

KeepLeaf(p, i) ==
    /\ UNCHANGED leaf /\ Unminted
    /\ \/ ~LeafDue(p) /\ NextLeaf(p, i, erred[p])
       \/ LeafDue(p) /\ signing[p] = Bad /\ NextLeaf(p, i, TRUE)

EnsureLeaf(p, i) ==
    /\ at[p] = LeafEnsure(i)
    /\ IssueLeaf(p, i) \/ KeepLeaf(p, i)
    /\ UNCHANGED <<ca, bundle, optedIn, stopped, published>>

\* An API error ends the pass at the CA and moves on at a leaf.
APIError(p) ==
    /\ caFaults < MaxCAFaults /\ caFaults' = caFaults + 1
    /\ \/ at[p] \in {AtCA, AtLoad} /\ Returns(p, TRUE) /\ UNCHANGED <<ready, cacheVars>>
       \/ \E i \in Leaves : at[p] = LeafEnsure(i) /\ NextLeaf(p, i, TRUE)
    /\ UNCHANGED <<secretVars, bundle, optedIn, stopped, mints, aged, userActs, published>>

\* The process dies between two steps; another leader or a restarted container goes on.
CACrash(p) ==
    /\ at[p] # Wait
    /\ caFaults < MaxCAFaults /\ caFaults' = caFaults + 1
    /\ Returns(p, TRUE)
    /\ UNCHANGED <<secretVars, cacheVars, bundle, ready, optedIn, stopped, mints, aged, userActs,
                   published>>

-----------------------------------------------------------------------------
(* Injector.Reconcile: the two kinds of configuration in turn, from the cached CA. *)

Inject(c) ==
    /\ ready # {} /\ caCache.cert # 0
    /\ bundle[c] # caCache.cert                      \* needsPatch
    /\ c = "validating" => bundle["mutating"] = caCache.cert
    /\ bundle' = [bundle EXCEPT ![c] = caCache.cert]
    /\ UNCHANGED <<secretVars, cacheVars, passVars, ready, optedIn, stopped, caBounds, published>>

CacheSync ==
    /\ \/ caCache # ca /\ caCache' = ca /\ UNCHANGED leafCache
       \/ \E i \in Leaves : leafCache[i] # leaf[i]
             /\ leafCache' = [leafCache EXCEPT ![i] = leaf[i]] /\ UNCHANGED caCache
    /\ UNCHANGED <<secretVars, bundle, passVars, ready, optedIn, stopped, caBounds, published>>

-----------------------------------------------------------------------------
(* The user and time. *)

\* An annotated Secret, a damaged one, a deleted one.
Touched(s) ==
    { [cert |-> s.cert, signer |-> s.signer, rv |-> s.rv + 1, force |-> TRUE],
      [cert |-> Bad, signer |-> s.signer, rv |-> s.rv + 1, force |-> s.force],
      [cert |-> 0, signer |-> 0, rv |-> s.rv + 1, force |-> FALSE] }

UserAct ==
    /\ userActs < MaxUserActs /\ userActs' = userActs + 1
    /\ \/ ca.cert # 0 /\ ca' \in Touched(ca) /\ UNCHANGED <<leaf, aged>>
       \/ \E i \in Leaves : leaf[i].cert # 0 /\ UNCHANGED <<ca, aged>>
             /\ \E s \in Touched(leaf[i]) : leaf' = [leaf EXCEPT ![i] = s]
       \/ \E n \in {ca.cert} \cup {leaf[i].cert : i \in Leaves} :
             n > 0 /\ aged' = aged \cup {n} /\ UNCHANGED secretVars
    /\ UNCHANGED <<cacheVars, bundle, passVars, ready, optedIn, stopped, mints, caFaults, published>>

OptIn ==
    /\ userActs < MaxUserActs /\ userActs' = userActs + 1
    /\ ~optedIn /\ optedIn' = TRUE
    /\ UNCHANGED <<secretVars, cacheVars, bundle, passVars, ready, stopped, mints, aged, caFaults,
                   published>>

PassStep(p) ==
    \/ BeginPass(p) \/ EnsureCA(p) \/ LoadCA(p)
    \/ \E i \in Leaves : ReadLeaf(p, i) \/ EnsureLeaf(p, i)

CANext ==
    \/ \E p \in Procs : PassStep(p) \/ APIError(p) \/ CACrash(p)
    \/ \E c \in Configs : Inject(c)
    \/ StopForCertManager \/ CacheSync \/ UserAct \/ OptIn

CASpec == CAInit /\ [][CANext]_caVars

\* Some pass is always under way or due: the loop's timer fires, an init container is
\* restarted until it completes.  The cache follows the API server and the injector's
\* watches fire.
CAFairness ==
    /\ WF_caVars(\E p \in Procs : PassStep(p))
    /\ WF_caVars(CacheSync)
    /\ WF_caVars(\E c \in Configs : Inject(c))

-----------------------------------------------------------------------------
(* Properties. *)

\* No leaf is signed by a CA that was never in the CA Secret: the replica that loses the
\* first-install race signs with the winner's CA (createSecret, loadSecretMaterial).
LeafSignerPublished ==
    \A i \in Leaves : leaf[i].cert > 0 => leaf[i].signer \in published

\* A stored CA is replaced by another only because that very CA was annotated, unparseable or due;
\* a pass working from a stale read never replaces a CA another pass has just made
\* (ensureCA, rotateCA, updateSecret).
RotatedForCause ==
    [][ca.cert # 0 /\ ca'.cert \notin {0, ca.cert, Bad}
          => ca.cert = Bad \/ ca.force \/ ca.cert \in aged]_caVars

\* Why: a certificate that the CA Secret, the cache or a pass holds was published, or is
\* none, and a pass that has come to the leaves has one; and what a pass read to ensure
\* the CA, or the cache holds, at the resourceVersion stored, is what is stored.
Known(cert) == cert \in {0, Bad} \cup published
IsCA(s) == s.rv <= ca.rv /\ (s.rv = ca.rv => s = ca)
CAInv ==
    /\ CATypeOK /\ LeafSignerPublished
    /\ Known(ca.cert) /\ Known(caCache.cert) /\ IsCA(caCache)
    /\ \A p \in Procs : /\ Known(signing[p])
                        /\ at[p] \in Leaves \X {"read", "ensure"} => signing[p] # 0
                        /\ at[p] = AtCA => IsCA(seen[p])

\* Unless cert-manager takes over, every leaf comes to be signed by the stored CA, the
\* webhook configurations to trust it, and every annotation to be honoured, whatever
\* rotation, crash or stale read came between the CA's write and the leaves'
\* (ensureLeaf's staleChain, Injector.Reconcile).
ChainHolds ==
    /\ ca.cert > 0 /\ ~ca.force
    /\ \A i \in Leaves : leaf[i].cert > 0 /\ leaf[i].signer = ca.cert /\ ~leaf[i].force
    /\ \A c \in Configs : bundle[c] = ca.cert
Healed == ChainHolds \/ optedIn
=============================================================================
