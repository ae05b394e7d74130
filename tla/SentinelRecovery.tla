-------------------------- MODULE SentinelRecovery --------------------------
(***************************************************************************)
(* Surgery on the sentinels.  The recovery pass of every reconcile and the *)
(* one-shot pass of a new leader both look for sentinels that cannot come  *)
(* back by gossip alone, and replace their entry of the master: SENTINEL   *)
(* REMOVE, then SENTINEL MONITOR at the master the operator resolved.  The *)
(* sentinels, meanwhile, gossip, lose their master and elect another.      *)
(* Each fan-out over the sentinels is one step.                            *)
(***************************************************************************)
EXTENDS Integers, FiniteSets, FiniteSetsExt

CONSTANTS
    Sentinels,        \* the sentinel pods
    Addresses,        \* pod IPs the data pods may have, the first two taken at the start
    Seed, Other,      \* the master's and the replica's IP at the start
    NoAddr,           \* no entry, or no address resolved
    Quorum,           \* spec.sentinel.quorum
    MaxEpoch,         \* bound: config-epochs
    MaxTroubles       \* bound: pods lost or replaced, sentinels cut off, failovers
                      \* the operator starts, failed commands, restarts of the operator

ASSUME RecoveryAssumption ==
    /\ IsFiniteSet(Sentinels) /\ IsFiniteSet(Addresses)
    /\ {Seed, Other} \subseteq Addresses /\ Seed # Other /\ NoAddr \notin Addresses
    /\ Quorum \in 1 .. Cardinality(Sentinels)
    /\ MaxEpoch \in Nat \ {0} /\ MaxTroubles \in Nat

Passes    == {"loop", "startup"}
Threshold == Cardinality(Sentinels) \div 2 + 1
Entry     == [mon : Addresses \cup {NoAddr}, epoch : 0 .. MaxEpoch,
              peers : {"none", "live", "ghost"}, flag : {"quiet", "down", "failover"},
              table : SUBSET Addresses]
NoEntry   == [mon |-> NoAddr, epoch |-> 0, peers |-> "none", flag |-> "quiet", table |-> {}]
PassState == [at : {"idle", "boot", "peers", "gates", "remove", "monitor"},
              ip : Addresses \cup {NoAddr}, wipe : SUBSET Sentinels, stale : SUBSET Sentinels,
              cohort : SUBSET Sentinels, agree : 0 .. MaxEpoch, holders : SUBSET Sentinels,
              ghost : SUBSET Sentinels, spare : SUBSET Sentinels, quorate : BOOLEAN]
Idle      == [at |-> "idle", ip |-> NoAddr, wipe |-> {}, stale |-> {},
              cohort |-> {}, agree |-> 0, holders |-> {}, ghost |-> {}, spare |-> {}, quorate |-> FALSE]

VARIABLES
    entry,      \* what each sentinel holds of the master, replicas and peers
    cut,        \* sentinels that do not answer
    live,       \* IPs of the data pods that exist
    masters,    \* data pods that self-report role:master
    label,      \* the IP of the pod labelled role=primary
    inFlight,   \* a failover of the operator's is in flight
    pass,       \* where each pass is, and what it has read
    ghostSeen,  \* passes the ghost has been seen for (ghostReapDebounce is one)
    changed,    \* history: entries that changed since the loop's pass read them, or that
                \* were older than one the startup pass has erased since
    troubles

worldVars    == <<live, masters, label>>
recoveryVars == <<entry, cut, worldVars, inFlight, pass, ghostSeen, changed, troubles>>

RecoveryTypeOK ==
    /\ entry \in [Sentinels -> Entry]
    /\ cut \subseteq Sentinels /\ changed \subseteq Sentinels
    /\ live \subseteq Addresses /\ masters \subseteq live /\ label \in Addresses
    /\ inFlight \in BOOLEAN /\ ghostSeen \in 0 .. 1
    /\ pass \in [Passes -> PassState]
    /\ \A p \in Passes : \A g, h \in pass[p].ghost : g = h
    /\ troubles \in 0 .. MaxTroubles

Trouble == troubles < MaxTroubles /\ troubles' = troubles + 1

\* What a sentinel that monitors a live master learns of it.
Attached(a, e, p) ==
    [mon |-> a, epoch |-> e, peers |-> p, flag |-> "quiet",
     table |-> IF a \in live THEN live \ {a} ELSE {}]

RecoveryInit ==
    /\ live = {Seed, Other} /\ masters = {Seed} /\ label = Seed
    /\ entry = [s \in Sentinels |-> [mon |-> Seed, epoch |-> 1, peers |-> "live",
                                     flag |-> "quiet", table |-> {Other}]]
    /\ cut = {} /\ changed = {} /\ inFlight = FALSE
    /\ pass = [p \in Passes |-> Idle] /\ ghostSeen = 0
    /\ troubles = 0
-----------------------------------------------------------------------------
(* Reads.  A sentinel in cut answers nothing. *)

Answers  == Sentinels \ cut
Has(s)   == entry[s].mon # NoAddr
Doomed(s) == entry[s].table \cap live = {}
Electing(s) == entry[s].flag # "quiet"
OnAddr(S, a) == {s \in S : entry[s].mon = a}
MaxOver(S) == IF S = {} THEN 0 ELSE Max({entry[s].epoch : s \in S})

\* classifyStrandedSentinels: recoverErr lets the loop count a sentinel without an
\* entry as reachable and stranded; to the startup pass it is an error.
\* The mutant: a sentinel without an entry is an error to the loop too.
ReachedWithEntry(p) == {s \in Answers : Has(s)}
Reached(p) == IF p = "loop" THEN Answers ELSE {s \in Answers : Has(s)}
Stranded(p) == {s \in Reached(p) : entry[s].peers = "none"}
GhostHolders == {s \in Answers : Has(s) /\ entry[s].peers = "ghost"}
QuorumReachable(p) == Cardinality(Reached(p)) >= Threshold

\* The observer's snapshot at the start of a pass.
Agreed(a) == Cardinality(OnAddr(Answers, a)) >= Threshold
RepointArmed == \A a \in live : ~Agreed(a)
ReapAllowed  == \A s \in Answers : entry[s].flag # "down"

\* selectRepointTargets: corpses whose every known replica is dead too.
DeadMaster(ip) == {s \in Answers : Has(s) /\ entry[s].mon # ip
                                    /\ entry[s].mon \notin live /\ Doomed(s)}

\* classifyStaleEpochTargets, and a mutant that goes by the address alone.
StaleByAddress(ip) ==
    {s \in Answers : Has(s) /\ entry[s].mon \in live \ {ip} /\ ~Electing(s)}

StaleEpoch(ip) ==
    LET seen  == {s \in Answers : Has(s)}
        on    == OnAddr(seen, ip)
        agree == MaxOver(on)
    IN  IF on = {} \/ agree # MaxOver(seen) \/ \E s \in on : Electing(s)
        THEN {}
        ELSE {s \in seen \ on : entry[s].mon \in live /\ entry[s].epoch < agree
                                   /\ ~Electing(s)}
-----------------------------------------------------------------------------
(* The passes. *)

\* Of the entries that change, the history keeps those the loop's pass means to wipe.
Touched(S) == changed \cup (S \cap pass["loop"].wipe)
Older(S) == {s \in Sentinels : \E t \in S : entry[t].epoch > entry[s].epoch}

Ends(p) == pass' = [pass EXCEPT ![p] = Idle]
At(p, step) == pass[p].at = step
Reading == UNCHANGED <<entry, cut, worldVars, inFlight, troubles>>

\* observedMasterIPForCR: the labelled pod unless it disclaims, else the live address a fresh
\* snapshot agrees on, else the one pod that self-reports the role.  No probe of it fails.
ObservedMasters ==
    IF label \in masters THEN {label}
    ELSE {a \in live : Agreed(a) \/ masters = {a}}

\* detectAndRecoverStrandedSentinels, SentinelsAll.  A failover in flight defers the pass;
\* suppression alone does not (shouldBypassQuorumDeferral).
LoopReadsPeers ==
    /\ At("loop", "idle") /\ ~inFlight
    /\ \E ip \in ObservedMasters :
          pass' = [pass EXCEPT !["loop"] =
                      [Idle EXCEPT !.at = "peers", !.ip = ip,
                                   !.wipe = Stranded("loop"),
                                   !.spare = Answers \ Stranded("loop"),
                                   !.quorate = QuorumReachable("loop"),
                                   !.holders = GhostHolders]]
    /\ Reading /\ UNCHANGED <<ghostSeen, changed>>

\* selectRepointTargets, selectGhostReapTarget, and the verdict on the pass.  The one
\* ghost holder taken is the lowest by name: any of them here.  untouchedSurvivors: those
\* that gossiped when SentinelsAll read them, less what the pass touches.
Debounced(holders) == IF ghostSeen = 1 THEN holders ELSE {}

LoopSelects ==
    LET l     == pass["loop"]
        dead  == IF RepointArmed THEN DeadMaster(l.ip) \ l.wipe ELSE {}
        stale == IF RepointArmed /\ ReapAllowed THEN StaleEpoch(l.ip) \ l.wipe ELSE {}
        wipe  == l.wipe \cup dead \cup stale
        reap  == IF ReapAllowed THEN Debounced(l.holders) ELSE {}
    IN  /\ At("loop", "peers")
        /\ ghostSeen' = IF l.holders = {} THEN 0 ELSE 1
        /\ \E g \in {{h} : h \in reap} \cup (IF reap = {} THEN {{}} ELSE {}) :
              LET ghost == g \ wipe
              IN  IF wipe \cup ghost = {} \/ ~l.quorate
                  THEN Ends("loop") /\ changed' = {}
                  ELSE /\ pass' = [pass EXCEPT !["loop"] =
                              [Idle EXCEPT !.at = "gates", !.ip = l.ip, !.wipe = wipe, !.stale = stale,
                                           !.cohort = IF stale = {} THEN {} ELSE OnAddr(Answers, l.ip),
                                           !.agree = IF stale = {} THEN 0
                                                     ELSE MaxOver(OnAddr(Answers, l.ip)),
                                           !.ghost = ghost,
                                           !.spare = l.spare \ (wipe \cup ghost)]]
                       /\ UNCHANGED changed
        /\ Reading

\* The two gates: the master answers PING, and no survivor left alone drives a failover;
\* then the stale targets that elect are dropped, and the ghost holder joins the rest.
MasterReachable(ip) == ip \in live
AnyFailoverInProgress(S) == \E s \in S \ cut : entry[s].flag = "failover"
Quiet(s) == s \notin cut /\ Has(s) /\ ~Electing(s)
CohortQuiet(C, e) == C # {} /\ (\A s \in C : Quiet(s)) /\ MaxOver(C) >= e

\* dropElectingStaleTargets, applyStaleTargetDrops.
StaleKept(l) == IF CohortQuiet(l.cohort, l.agree) THEN {s \in l.stale : Quiet(s)} ELSE {}

LoopGates ==
    LET l     == pass["loop"]
        wipe  == (l.wipe \ (l.stale \ StaleKept(l))) \cup l.ghost
    IN  /\ At("loop", "gates")
        /\ IF ~MasterReachable(l.ip) \/ AnyFailoverInProgress(l.spare) \/ wipe = {}
           THEN Ends("loop") /\ changed' = {}
           ELSE /\ pass' = [pass EXCEPT !["loop"] =
                              [Idle EXCEPT !.at = "remove", !.ip = l.ip, !.wipe = wipe,
                                           !.ghost = l.ghost]]
                /\ UNCHANGED changed
        /\ Reading /\ UNCHANGED ghostSeen

\* RunInitialReset: no PING, no survivor veto, and the label is taken as it is.
StartupReads ==
    /\ At("startup", "boot")
    /\ \E ip \in (IF label \in live THEN {label}
                  ELSE IF Cardinality(masters) = 1 THEN masters ELSE {NoAddr}) :
          IF ip = NoAddr \/ Stranded("startup") = {} \/ ~QuorumReachable("startup")
          THEN Ends("startup")
          ELSE pass' = [pass EXCEPT !["startup"] =
                           [Idle EXCEPT !.at = "remove", !.ip = ip,
                                        !.wipe = Stranded("startup")]]
    /\ Reading /\ UNCHANGED <<ghostSeen, changed>>

\* RemoveAll: some commands fail, some take effect and lose the reply.
BadReply(bad) == IF bad THEN Trouble ELSE UNCHANGED troubles
RemoveAll(p) ==
    LET open == pass[p].wipe \ cut
    IN  /\ At(p, "remove")
        /\ \E erased \in SUBSET open, ok \in SUBSET open :
              /\ ok \subseteq erased /\ BadReply(ok # open)
              /\ entry' = [s \in Sentinels |-> IF s \in erased THEN NoEntry ELSE entry[s]]
              /\ IF ok = {} THEN Ends(p)
                 ELSE pass' = [pass EXCEPT ![p] = [Idle EXCEPT !.at = "monitor", !.wipe = ok,
                                                               !.ip = pass[p].ip]]
              /\ changed' = IF p = "startup" THEN Touched(erased \cup Older(erased)) ELSE {}
        /\ UNCHANGED <<cut, worldVars, inFlight, ghostSeen>>

\* MonitorAll, auth-pass and tuning.  MONITOR where there is an entry is refused.
MonitorAll(p) ==
    LET open == {s \in pass[p].wipe \ cut : ~Has(s)}
    IN  /\ At(p, "monitor")
        /\ \E done \in SUBSET open :
              /\ BadReply(done # open)
              /\ entry' = [s \in Sentinels |-> IF s \in done THEN Attached(pass[p].ip, 0, "none")
                                               ELSE entry[s]]
              /\ changed' = IF p = "startup" THEN Touched(done) ELSE {}
        /\ Ends(p)
        /\ UNCHANGED <<cut, worldVars, inFlight, ghostSeen>>

\* A new leader: passes and in-memory state are lost, the startup pass begins.
NewLeader ==
    /\ Trouble
    /\ pass' = [p \in Passes |-> IF p = "loop" THEN Idle ELSE [Idle EXCEPT !.at = "boot"]]
    /\ ghostSeen' = 0 /\ changed' = {} /\ inFlight' = FALSE
    /\ UNCHANGED <<entry, cut, worldVars>>
-----------------------------------------------------------------------------
(* The sentinels and the data pods (external). *)

Moves(f, S) == entry' = f /\ changed' = Touched(S)
OperatorIdle == UNCHANGED <<inFlight, pass, ghostSeen>>

PodLost(a) ==
    /\ a \in live /\ Trouble
    /\ live' = live \ {a} /\ masters' = masters \ {a}
    /\ OperatorIdle /\ UNCHANGED <<entry, cut, label, changed>>

\* All data pods gone, one comes back with another IP, as a master.
PodBack(a) ==
    /\ a \notin {Seed, Other} /\ live = {}
    /\ \A s \in Sentinels : a \notin {entry[s].mon} \cup entry[s].table
    /\ live' = {a} /\ masters' = {a}
    /\ OperatorIdle /\ UNCHANGED <<entry, cut, label, changed, troubles>>

SeesDown(s) ==
    /\ Has(s) /\ entry[s].mon \notin live /\ entry[s].flag = "quiet"
    /\ Moves([entry EXCEPT ![s].flag = "down"], {s})
    /\ OperatorIdle /\ UNCHANGED <<cut, worldVars, troubles>>

StartsFailover(s) ==
    /\ entry[s].flag = "down" /\ entry[s].peers # "none" /\ MaxOver(Sentinels) < MaxEpoch
    /\ Cardinality({t \in OnAddr(Sentinels, entry[s].mon) : Electing(t)}) >= Quorum
    /\ \A t \in Sentinels : entry[t].flag # "failover"
    /\ Moves([entry EXCEPT ![s].flag = "failover"], {s})
    /\ OperatorIdle /\ UNCHANGED <<cut, worldVars, troubles>>

\* SENTINEL FAILOVER, sent by the operator's rollout with its latch set.
OperatorFailover(s) ==
    /\ At("loop", "idle") /\ ~inFlight /\ inFlight' = TRUE
    /\ entry[s].mon \in masters /\ entry[s].flag = "quiet" /\ entry[s].table \cap live # {}
    /\ MaxOver(Sentinels) < MaxEpoch
    /\ Moves([entry EXCEPT ![s].flag = "failover"], {s}) /\ Trouble
    /\ UNCHANGED <<cut, worldVars, pass, ghostSeen>>
LatchClears ==
    /\ inFlight /\ inFlight' = FALSE
    /\ UNCHANGED <<entry, cut, worldVars, pass, ghostSeen, changed, troubles>>

Promotes(s) ==
    /\ entry[s].flag = "failover" /\ MaxOver(Sentinels) < MaxEpoch
    /\ \E a \in entry[s].table \cap live :
          /\ masters' = (masters \ {entry[s].mon}) \cup {a}
          /\ Moves([entry EXCEPT ![s] = Attached(a, MaxOver(Sentinels) + 1, entry[s].peers)], {s})
    /\ OperatorIdle /\ UNCHANGED <<cut, live, label, troubles>>

\* No candidate, or the bound on epochs.
GivesUp(s) ==
    /\ entry[s].flag = "failover" /\ (Doomed(s) \/ MaxOver(Sentinels) = MaxEpoch)
    /\ Moves([entry EXCEPT ![s].flag = IF entry[s].mon \in live THEN "quiet" ELSE "down"], {s})
    /\ OperatorIdle /\ UNCHANGED <<cut, worldVars, troubles>>

\* Phase 7 moves the role label to a master.
Relabel ==
    /\ label \notin masters /\ \E a \in masters : label' = a
    /\ OperatorIdle /\ UNCHANGED <<entry, cut, live, masters, changed, troubles>>

\* __sentinel__:hello on a data pod both sentinels watch: s learns of t, and takes
\* t's master when t's config-epoch is the greater.
Channels(s) == ({entry[s].mon} \cup entry[s].table) \cap live
Hears(s, t) ==
    /\ s # t /\ Channels(s) \cap Channels(t) # {}
    /\ LET known == IF entry[s].peers = "none" THEN "live" ELSE entry[s].peers
           next  == IF entry[t].epoch > entry[s].epoch /\ entry[t].flag = "quiet"
                    THEN Attached(entry[t].mon, entry[t].epoch, known)
                    ELSE [entry[s] EXCEPT !.peers = known]
       IN  next # entry[s] /\ Moves([entry EXCEPT ![s] = next], {s})
    /\ OperatorIdle /\ UNCHANGED <<cut, worldVars, troubles>>

\* A sentinel pod is replaced: its conf is rendered from the seed, and the others
\* keep a peer that no pod backs.
Replace(s) ==
    /\ Trouble
    /\ Moves([t \in Sentinels |->
                 IF t = s THEN Attached(label, 0, "none")
                 ELSE IF entry[t].peers = "live" THEN [entry[t] EXCEPT !.peers = "ghost"]
                 ELSE entry[t]], Sentinels)
    /\ cut' = cut \ {s}
    /\ OperatorIdle /\ UNCHANGED <<worldVars>>

Cut(s) == /\ s \notin cut /\ Trouble /\ cut' = cut \cup {s}
          /\ OperatorIdle
          /\ UNCHANGED <<entry, changed, worldVars>>
Mend(s) == /\ s \in cut /\ cut' = cut \ {s}
           /\ OperatorIdle /\ UNCHANGED <<entry, changed, worldVars, troubles>>
-----------------------------------------------------------------------------
LoopStep == LoopReadsPeers \/ LoopSelects \/ LoopGates \/ RemoveAll("loop") \/ MonitorAll("loop")
StartupStep == StartupReads \/ RemoveAll("startup") \/ MonitorAll("startup")
SentinelStep(s) ==
    \/ SeesDown(s) \/ StartsFailover(s) \/ Promotes(s) \/ GivesUp(s)
    \/ \E t \in Sentinels : Hears(s, t)

RecoveryNext ==
    \/ LoopStep \/ StartupStep \/ NewLeader \/ LatchClears \/ Relabel
    \/ \E s \in Sentinels : SentinelStep(s) \/ OperatorFailover(s)
                             \/ Replace(s) \/ Cut(s) \/ Mend(s)
    \/ \E a \in Addresses : PodLost(a) \/ PodBack(a)

RecoveryFairness ==
    /\ WF_recoveryVars(LoopStep) /\ WF_recoveryVars(StartupStep)
    /\ WF_recoveryVars(LatchClears)
    /\ \A s \in Sentinels : /\ WF_recoveryVars(SentinelStep(s))
                            /\ WF_recoveryVars(Mend(s))

RecoverySpec == RecoveryInit /\ [][RecoveryNext]_recoveryVars /\ RecoveryFairness
-----------------------------------------------------------------------------
(* Properties. *)

Gossips(e) == e.mon # NoAddr /\ e.peers # "none"
LoopErases(s) == At("loop", "remove") /\ ~At("loop", "remove")' /\ Has(s) /\ entry'[s] = NoEntry

\* Surgery erases a gossiping sentinel's entry only when nothing is lost with it: some
\* sentinel holds a newer config-epoch, or every replica it knows is dead.  The one
\* reaped for its ghost is apart, and so is an entry that changed since the pass read it,
\* or whose newer one the startup pass has erased in the meantime: nothing keeps the two
\* passes apart (RecoverStrandedSentinels, classifyStaleEpochTargets, replicaTableDoomed).
NoUsefulEntryErased ==
    [][\A s \in Sentinels \ (changed \cup pass["loop"].ghost) :
          LoopErases(s) /\ Gossips(entry[s]) =>
              Doomed(s) \/ \E t \in Sentinels : entry[t].epoch > entry[s].epoch]_recoveryVars

\* Why: what the loop's pass is about to erase has been so since the pass read it.
Spent(s) == Gossips(entry[s]) => Doomed(s) \/ \E t \in Sentinels : entry[t].epoch > entry[s].epoch
RecoveryInv ==
    /\ RecoveryTypeOK
    /\ \A s \in Sentinels : ~Has(s) => entry[s].epoch = 0
    /\ pass["loop"].at = "peers" => pass["loop"].ghost = {}
    /\ pass["loop"].at \in {"peers", "gates", "remove"} =>
          \A s \in pass["loop"].wipe \ (changed \cup pass["loop"].ghost) : Spent(s)

\* A sentinel left with no entry (a pass cut off between REMOVE and MONITOR, a lost
\* reply, two passes on one sentinel), or alone at a dead address, is attached to a
\* live one again, as long as there is a master to resolve and whatever else the passes do
\* (isNoSuchMasterErr).
Lost(s) == ~Has(s) \/ (entry[s].peers = "none" /\ entry[s].mon \notin live)
Reattached == []<>(ObservedMasters # {}) => \A s \in Sentinels : []<>~Lost(s)
=============================================================================
