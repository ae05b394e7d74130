---------------------------- MODULE OrphanMasters ----------------------------
(***************************************************************************)
(* Phases 7 and 7a of a reconcile.  The pods are listed once; Phase 7      *)
(* moves the role labels on a list of its own; Phase 7a then asks the      *)
(* listed pods for their role, one by one, and sends REPLICAOF to those    *)
(* that act as a master and should not.  With a labelled primary these are *)
(* the orphans; without one, inside a failover of the operator's and with  *)
(* no usable sentinel view, all masters but the most advanced; without     *)
(* sentinels (mode replication) none.  Clients write, pods are recreated   *)
(* and sentinels elect between any two reads.                              *)
(***************************************************************************)
EXTENDS Integers, FiniteSets, FiniteSetsExt

CONSTANTS
    DataPods,        \* the valkey pods
    Pod0,            \* ... of ordinal 0, the first master
    NoPod,
    Epsilon,         \* dualMasterOffsetEpsilon, in units of writes
    MaxAttempts,     \* dualMasterSelfHealMaxAttempts
    MaxOffset,       \* bound: replication offsets
    MaxUpsets        \* bound: restarts, elections, failovers, lost commands, new leaders

ASSUME OrphanAssumption ==
    /\ IsFiniteSet(DataPods) /\ Pod0 \in DataPods /\ NoPod \notin DataPods
    /\ Epsilon \in Nat /\ MaxAttempts \in Nat \ {0} /\ MaxOffset \in Nat /\ MaxUpsets \in Nat

Labels    == {"none", "primary", "replica"}
Listings  == Labels \cup {"pending"}
Views     == DataPods \cup {NoPod}
Unread    == -1
NoOffset  == -2
Readings  == {Unread, NoOffset} \cup (0 .. MaxOffset)
Scans     == [at : {"idle", "listed", "phase7a", "orphans", "heal", "demote"},
              listed : [DataPods -> Listings], todo : SUBSET DataPods, full : BOOLEAN,
              found : SUBSET DataPods, read : [DataPods -> Readings], target : Views,
              losers : SUBSET DataPods]
Rest      == [at |-> "idle", listed |-> [p \in DataPods |-> "none"], todo |-> {}, full |-> TRUE,
              found |-> {}, read |-> [p \in DataPods |-> Unread], target |-> NoPod, losers |-> {}]

VARIABLES
    sentinels, \* mode sentinel, and not mode replication
    acts,      \* pods that run as a master
    offset,    \* master_repl_offset of each pod
    ip,        \* pods that have an IP
    reach,     \* ... and answer
    same,      \* ... that is the one they had when they were listed
    role,      \* the role label of each pod
    elected,   \* the live pod the sentinels agree on, if any; mode replication: ordinal 0
    section,   \* a failover of the operator's is in flight
    scan,      \* the reconcile: where it is, the list, and what it has read
    attempts,  \* dualMasterSelfHeal.attemptCount
    stamp,     \* dualMasterObserved: the masters of the last verdict
    steady,    \* history: masters since the pods were listed
    fresh,     \* history: writes to each pod since it was read
    upsets

podVars    == <<sentinels, acts, offset, ip, reach, same>>
orphanVars == <<podVars, role, elected, section, scan, attempts, stamp, steady, fresh, upsets>>

OrphanTypeOK ==
    /\ sentinels \in BOOLEAN /\ acts \subseteq DataPods /\ stamp \subseteq DataPods
    /\ reach \subseteq ip /\ ip \subseteq DataPods /\ same \subseteq DataPods
    /\ offset \in [DataPods -> 0 .. MaxOffset] /\ role \in [DataPods -> Labels]
    /\ elected \in Views /\ section \in BOOLEAN /\ scan \in Scans
    /\ attempts \in 0 .. MaxAttempts /\ steady \subseteq acts
    /\ fresh \in [DataPods -> 0 .. Epsilon] /\ upsets \in 0 .. MaxUpsets

Upset == upsets < MaxUpsets /\ upsets' = upsets + 1

\* Either the cluster is healthy, or it is split in a failover: the label of the old
\* primary is stripped, another pod has been promoted and the sentinels fell apart.
OrphanInit ==
    /\ sentinels \in BOOLEAN /\ ip = DataPods /\ reach = DataPods /\ same = {}
    /\ offset = [p \in DataPods |-> 0]
    /\ \/ /\ acts = {Pod0} /\ elected = Pod0 /\ section = FALSE
          /\ role = [p \in DataPods |-> IF p = Pod0 THEN "primary" ELSE "replica"]
       \/ /\ sentinels /\ elected = NoPod /\ section = TRUE
          /\ \E p \in DataPods \ {Pod0} : acts = {Pod0, p}
          /\ role = [p \in DataPods |-> IF p = Pod0 THEN "none" ELSE "replica"]
    /\ scan = Rest /\ attempts = 0 /\ stamp = {}
    /\ steady = {} /\ fresh = [p \in DataPods |-> 0] /\ upsets = 0
-----------------------------------------------------------------------------
(* Phase 7, and the choice of the scan. *)

\* listValkeyPods, before any phase.
ListPods ==
    /\ scan.at = "idle"
    /\ scan' = [Rest EXCEPT !.at = "listed",
                            !.listed = [p \in DataPods |-> IF p \in ip THEN role[p] ELSE "pending"]]
    /\ steady' = acts /\ same' = ip
    /\ UNCHANGED <<sentinels, acts, offset, ip, reach, role, elected, section, attempts, stamp, fresh, upsets>>

\* reconcileRoleLabels: without agreement, or in a failover, the labels stay, and they
\* stay until the new primary has been seen by two polls.  Without sentinels the
\* ordinals decide (bootstrapRoles).
RoleLabels ==
    /\ scan.at = "listed" /\ scan' = [scan EXCEPT !.at = "phase7a"]
    /\ role' \in IF elected = NoPod \/ section THEN {role}
                 ELSE {[p \in DataPods |-> IF p = elected THEN "primary" ELSE "replica"]}
                      \cup (IF sentinels /\ \E p \in DataPods : role[p] = "primary"
                            THEN {role} ELSE {})
    /\ UNCHANGED <<podVars, elected, section, attempts, stamp, steady, fresh, upsets>>

\* The scan is over: nothing of it is remembered.
ScanOver ==
    scan' = Rest /\ steady' = {} /\ same' = {} /\ fresh' = [p \in DataPods |-> 0]
ScanOn   == UNCHANGED <<steady, same, fresh>>

Listed(l)     == {p \in DataPods : scan.listed[p] = l}
Answering       == reach \cap same
ViewUnusable  == elected = NoPod
PodsUntouched == UNCHANGED <<sentinels, acts, offset, ip, reach, role, elected, section>>

\* reconcileOrphanMasters up to its loop: with a labelled primary that answers as a
\* master, the listed replicas are to be read; with none, all pods are, or nothing.
ChooseScan ==
    /\ scan.at = "phase7a"
    /\ IF Listed("primary") # {}
       THEN /\ attempts' = 0
            /\ \E p \in Listed("primary") :
                  IF p \in Answering \cap acts /\ Listed("replica") # {}
                  THEN /\ scan' = [scan EXCEPT !.at = "orphans", !.target = p, !.found = {p},
                                               !.todo = Listed("replica"),
                                               !.full = Listed("replica") = DataPods \ {p}]
                       /\ ScanOn
                  ELSE ScanOver
       ELSE /\ UNCHANGED attempts
            /\ IF ~sentinels \/ (section /\ ViewUnusable)
               THEN /\ scan' = [scan EXCEPT !.at = "heal", !.todo = DataPods \ Listed("pending"),
                                            !.full = Listed("pending") = {}]
                    /\ ScanOn
               ELSE ScanOver
    /\ PodsUntouched /\ UNCHANGED <<stamp, upsets>>
-----------------------------------------------------------------------------
(* The commands. *)

\* IssueReplicaOf: p follows q, and takes q's data if q is still at the address listed.
\* A command may be lost.
ReplicaOf(p, q) ==
    \/ /\ p \in Answering
       /\ acts' = acts \ {p} /\ steady' = steady \ {p}
       /\ offset' = IF q \in same THEN [offset EXCEPT ![p] = offset[q]] ELSE offset
       /\ UNCHANGED upsets
    \/ /\ IF p \in Answering THEN Upset ELSE UNCHANGED upsets
       /\ UNCHANGED <<acts, offset, steady>>

\* stampDualMasterObserved and clearDualMasterObserved; the mutant forgets coverage.
VerdictAlways(full) == stamp' = IF Cardinality(scan.found) >= 2 THEN scan.found ELSE {}
Verdict(full) ==
    stamp' = IF Cardinality(scan.found) >= 2 THEN scan.found
             ELSE IF full THEN {} ELSE stamp
-----------------------------------------------------------------------------
(* The orphan scan. *)

\* One replica of the list: its INFO, and REPLICAOF when it is a master.
OrphanRead(p) ==
    /\ scan.at = "orphans" /\ p \in scan.todo /\ p \notin scan.losers /\ scan.losers = {}
    /\ scan' = IF p \notin Answering THEN [scan EXCEPT !.todo = @ \ {p}, !.full = FALSE]
               ELSE IF p \notin acts THEN [scan EXCEPT !.todo = @ \ {p}]
               ELSE [scan EXCEPT !.losers = {p}, !.found = @ \cup {p}]
    /\ PodsUntouched /\ ScanOn /\ UNCHANGED <<attempts, stamp, upsets>>
OrphanDemote(p) ==
    /\ scan.at = "orphans" /\ scan.losers = {p}
    /\ scan' = [scan EXCEPT !.todo = @ \ {p}, !.losers = {}]
    /\ ReplicaOf(p, scan.target)
    /\ UNCHANGED <<sentinels, ip, reach, same, role, elected, section, attempts, stamp, fresh>>
OrphanEnd ==
    /\ scan.at = "orphans" /\ scan.todo = {} /\ Verdict(scan.full) /\ ScanOver
    /\ PodsUntouched /\ UNCHANGED <<attempts, upsets>>
-----------------------------------------------------------------------------
(* The self-heal. *)

\* scanDeFactoMasters, one pod; a reply may lack the offset.
HealRead(p) ==
    /\ scan.at = "heal" /\ p \in scan.todo
    /\ IF p \notin Answering
       THEN /\ scan' = [scan EXCEPT !.todo = @ \ {p}, !.full = FALSE]
            /\ UNCHANGED <<fresh, upsets>>
       ELSE IF p \notin acts
       THEN scan' = [scan EXCEPT !.todo = @ \ {p}] /\ UNCHANGED <<fresh, upsets>>
       ELSE \E r \in {offset[p], NoOffset} :
               /\ scan' = [scan EXCEPT !.todo = @ \ {p}, !.found = @ \cup {p}, !.read[p] = r]
               /\ fresh' = [fresh EXCEPT ![p] = 0]
               /\ IF r = NoOffset THEN Upset ELSE UNCHANGED upsets
    /\ PodsUntouched /\ UNCHANGED <<attempts, stamp, steady, same>>

\* Mutants: a gap of exactly epsilon is clear enough; an attempt is never allowed again.
ClearOrEdge(gap) == gap >= Epsilon
Clear(gap) == gap > Epsilon
OneAttempt(n) == n < 1
AttemptAllowed(n) == n < MaxAttempts

Ranked    == {p \in scan.found : scan.read[p] # NoOffset}
Ahead(p)  == \A q \in Ranked \ {p} : Clear(scan.read[p] - scan.read[q])

\* reconcileDualMasterSelfHeal after the scan.  The back-off between two attempts
\* may still hold; an epoch below the fence may defer as well.
Freshest ==
    {p \in Ranked : /\ Listed("pending") = {} /\ Ranked = scan.found
                    /\ Cardinality(Ranked) >= 2 /\ AttemptAllowed(attempts) /\ Ahead(p)}
HealDecide ==
    /\ sentinels /\ scan.at = "heal" /\ scan.todo = {} /\ Verdict(scan.full)
    /\ \/ /\ \E p \in Freshest :
                scan' = [scan EXCEPT !.at = "demote", !.target = p, !.losers = Ranked \ {p}]
          /\ attempts' = attempts + 1 /\ ScanOn /\ UNCHANGED upsets
       \/ /\ IF Freshest # {} THEN Upset ELSE UNCHANGED upsets
          /\ ScanOver /\ UNCHANGED attempts
    /\ PodsUntouched

\* observeDualMasterNoPrimary: the verdict only.
ObserveEnd ==
    /\ ~sentinels /\ scan.at = "heal" /\ scan.todo = {} /\ Verdict(scan.full) /\ ScanOver
    /\ PodsUntouched /\ UNCHANGED <<attempts, upsets>>

HealDemote(p) ==
    /\ scan.at = "demote" /\ p \in scan.losers
    /\ scan' = [scan EXCEPT !.losers = @ \ {p}]
    /\ ReplicaOf(p, scan.target)
    /\ UNCHANGED <<sentinels, ip, reach, same, role, elected, section, attempts, stamp, fresh>>
HealEnd ==
    /\ scan.at = "demote" /\ scan.losers = {} /\ ScanOver
    /\ PodsUntouched /\ UNCHANGED <<attempts, stamp, upsets>>
-----------------------------------------------------------------------------
(* Clients, pods, sentinels and the rest of the operator. *)

Elsewhere == UNCHANGED <<scan, attempts, stamp>>

\* At most Epsilon writes reach a pod between its reading and the end of the scan.
Write(p) ==
    /\ p \in acts \cap reach /\ offset[p] < MaxOffset
    /\ offset' = [offset EXCEPT ![p] = @ + 1]
    /\ IF scan.read[p] >= 0 THEN fresh[p] < Epsilon /\ fresh' = [fresh EXCEPT ![p] = @ + 1]
       ELSE UNCHANGED fresh
    /\ UNCHANGED <<sentinels, acts, ip, reach, same, role, elected, section, steady, upsets>>
    /\ Elsewhere

\* A pod does not answer, or is recreated: unlabelled, with its data and under another
\* address.  It is back as a master or not, as its configuration has it.
PodDown(p) ==
    /\ p \in reach /\ Upset /\ reach' = reach \ {p}
    /\ UNCHANGED <<sentinels, acts, offset, ip, same, role, elected, section, steady, fresh>>
    /\ Elsewhere
PodReplaced(p) ==
    /\ p \in ip /\ Upset /\ ip' = ip \ {p} /\ reach' = reach \ {p} /\ same' = same \ {p}
    /\ acts' = acts \ {p} /\ steady' = steady \ {p} /\ role' = [role EXCEPT ![p] = "none"]
    /\ elected' = IF sentinels /\ elected = p THEN NoPod ELSE elected
    /\ UNCHANGED <<sentinels, offset, section, fresh>> /\ Elsewhere
PodUp(p) ==
    /\ p \notin reach /\ reach' = reach \cup {p} /\ ip' = ip \cup {p}
    /\ acts' \in IF p \in ip THEN {acts} ELSE {acts, acts \cup {p}}
    /\ UNCHANGED <<sentinels, offset, same, role, elected, section, steady, fresh, upsets>>
    /\ Elsewhere

\* The sentinels elect, fall apart, and turn the other masters into replicas.
Elect(p) ==
    /\ sentinels /\ p \in reach /\ elected # p /\ Upset
    /\ elected' = p /\ acts' = acts \cup {p} /\ section' = FALSE
    /\ UNCHANGED <<sentinels, offset, ip, reach, same, role, steady, fresh>> /\ Elsewhere
Reconfigure(p) ==
    /\ sentinels /\ elected # NoPod /\ p \in (acts \cap reach) \ {elected}
    /\ acts' = acts \ {p} /\ steady' = steady \ {p}
    /\ offset' = [offset EXCEPT ![p] = offset[elected]]
    /\ UNCHANGED <<sentinels, ip, reach, same, role, elected, section, fresh, upsets>> /\ Elsewhere
Disagree ==
    /\ sentinels /\ elected # NoPod /\ Upset /\ elected' = NoPod
    /\ UNCHANGED <<podVars, role, section, steady, fresh>> /\ Elsewhere

\* The rollout strips the label and opens a failover; the latch expires.
Strip(p) ==
    /\ sentinels /\ scan.at = "idle" /\ role[p] = "primary" /\ ~section /\ Upset
    /\ role' = [role EXCEPT ![p] = "none"] /\ section' = TRUE
    /\ UNCHANGED <<podVars, elected, steady, fresh>> /\ Elsewhere
LatchExpires ==
    /\ section /\ section' = FALSE
    /\ UNCHANGED <<podVars, role, elected, steady, fresh, upsets>> /\ Elsewhere
Restart ==
    /\ Upset /\ ScanOver /\ attempts' = 0 /\ stamp' = {} /\ PodsUntouched
-----------------------------------------------------------------------------
ScanStep ==
    \/ ListPods \/ RoleLabels \/ ChooseScan \/ OrphanEnd \/ HealDecide \/ ObserveEnd \/ HealEnd
    \/ \E p \in DataPods : OrphanRead(p) \/ OrphanDemote(p) \/ HealRead(p) \/ HealDemote(p)

OrphanNext ==
    \/ ScanStep \/ Disagree \/ LatchExpires \/ Restart
    \/ \E p \in DataPods : Write(p) \/ PodDown(p) \/ PodReplaced(p) \/ PodUp(p) \/ Elect(p)
                            \/ Reconfigure(p) \/ Strip(p)

OrphanSpec == OrphanInit /\ [][OrphanNext]_orphanVars /\ WF_orphanVars(ScanStep)
-----------------------------------------------------------------------------
(* Properties. *)

\* What a reading is worth later: a pod that stays a master is no further than the writes
\* since.  A pod found a master has been read, and the survivor is clearly ahead of each loser.
ReadingsAge ==
    \A p \in steady : scan.read[p] >= 0
        => scan.read[p] <= offset[p] /\ offset[p] <= scan.read[p] + fresh[p]
FoundRead == scan.at # "orphans" => \A p \in scan.found : scan.read[p] # Unread
LosersBehind ==
    scan.at = "demote" =>
        /\ scan.target \in DataPods /\ scan.read[scan.target] >= 0
        /\ \A p \in scan.losers : scan.read[p] >= 0 /\ scan.read[scan.target] - scan.read[p] > Epsilon

\* A scan that may call itself complete has found, or will read, each pod that stays a master.
Covered ==
    /\ scan.at \in {"orphans", "heal"} /\ scan.full => steady \subseteq scan.found \cup scan.todo
    /\ scan.at = "orphans" => scan.losers \subseteq scan.found
    /\ scan.at \in {"idle", "listed", "phase7a"} => scan.losers = {}

\* The inductive invariant of the two scans.
OrphanInv == OrphanTypeOK /\ ReadingsAge /\ FoundRead /\ LosersBehind /\ Covered

\* The self-heal sends REPLICAOF only to a master strictly behind the survivor, as the
\* two are now and not as they were read, provided both have been masters since the
\* pods were listed (dualMasterOffsetEpsilon: the offsets are read in sequence) and
\* took at most Epsilon writes meanwhile (Write).
SurvivorAhead ==
    [][\A p \in scan.losers \ scan'.losers :
          scan.at = "demote" /\ p \notin acts' /\ {p, scan.target} \subseteq steady \cap same
              => offset[p] < offset[scan.target]]_orphanVars

\* A verdict that there is no split is about every pod: the observation is cleared only
\* when at most one pod has been a master ever since the pods were listed
\* (coverageComplete, in all scans).
ClearedForCause ==
    [][stamp # {} /\ stamp' = {} /\ scan.at # "idle" /\ upsets' = upsets
          => Cardinality(steady) <= 1]_orphanVars

\* A split does not outlive the conditions it is healed under: while the sentinels
\* disagree, the failover lasts, no pod is labelled primary and the masters answer,
\* a master that is clearly behind another is demoted in the end, if fewer commands are
\* lost than selfHealAttemptAllowed has attempts.
Split     == \E p, q \in acts : Clear(offset[p] - offset[q])
Healable  == sentinels /\ section /\ ViewUnusable /\ reach = DataPods /\ \A p \in DataPods : role[p] # "primary"
SplitHeals == <>[]Healable => []<>~Split
=============================================================================
