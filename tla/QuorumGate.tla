----------------------------- MODULE QuorumGate -----------------------------
(***************************************************************************)
(* The quorum signal from the sentinels' replies to the operator's gates.  *)
(* The observer polls every sentinel and publishes one tri-state reading;  *)
(* pub/sub frames republish the address under the stamp of the last poll.  *)
(* Every reconcile pass feeds the published snapshot to the split-brain    *)
(* tracker, the failover observation and the suppression gate, however     *)
(* often the same poll is read.                                            *)
(***************************************************************************)
EXTENDS Integers, FiniteSets, Sequences

CONSTANTS
    Sentinels,      \* the observer's endpoints
    NumAddrs,       \* addresses a sentinel may name
    LossThreshold,  \* QuorumSuppressionTunables.lossThreshold, in ticks
    RecoveryPolls,  \* QuorumSuppressionTunables.recoveryPolls
    Staleness,      \* splitBrainConfirmationStaleness, in ticks
    MaxTime,        \* bound: ticks
    MaxPolls        \* bound: polls

ASSUME GateAssumption ==
    /\ IsFiniteSet(Sentinels) /\ Sentinels # {}
    /\ NumAddrs \in Nat /\ MaxTime \in Nat /\ MaxPolls \in Nat
    /\ LossThreshold \in Nat \ {0} /\ RecoveryPolls \in Nat \ {0}
    /\ Staleness \in Nat \ {0}

Addrs  == 1 .. NumAddrs
NoAddr == 0
Stamps == 0 .. MaxPolls  \* LastPolledAt; 0 is the zero time
Times  == 0 .. MaxTime
NoTime == -1             \* a nil *time.Time
Quorum == {"Unknown", "OK", "Lost"}

\* What one sentinel answers: nothing, or an address and its own CKQUORUM.
Unreached == [reached |-> FALSE, addr |-> NoAddr, ckquorum |-> FALSE]
Readings  == [reached : {TRUE}, addr : Addrs \cup {NoAddr}, ckquorum : BOOLEAN]
             \cup {Unreached}

VARIABLES
    now,       \* the clock
    polls,     \* polls published so far
    snap,      \* the published snapshot: quorum, address and poll stamp
    active,    \* crQuorumState.suppressionActive
    loss,      \* crQuorumState: when the loss was first seen, and at which poll
    recovery,  \* crQuorumState: OK polls counted, and the last one counted
    brain,     \* crQuorumState: the split-brain episode
    lastOK,    \* crQuorumState.lastOKAddr
    pass,      \* what the last pass read and reported
    paged,     \* history: the polls for which SplitBrainDetected fired
    lostSeen,  \* history: <<stamp, time>> of Lost readings since the last OK
    okSeen     \* history: stamps of OK readings since the last Lost

observerVars == <<polls, snap>>
stateVars    == <<active, loss, recovery, brain, lastOK>>
historyVars  == <<paged, lostSeen, okSeen>>
vars == <<now, observerVars, stateVars, pass, historyVars>>

Snapshots == [quorum : Quorum, addr : Addrs \cup {NoAddr}, stamp : Stamps]
Losses    == [since : Times \cup {NoTime}, poll : Stamps]
Counts    == [polls : 0 .. RecoveryPolls - 1, last : Stamps]
Episodes  == [since : Times \cup {NoTime}, poll : Stamps,
              confirmed : Times \cup {NoTime}, expired : Stamps]
Passes    == [stamp : Stamps, sustained : Times, failover : BOOLEAN]

Placeholder == [quorum |-> "Unknown", addr |-> NoAddr, stamp |-> 0]
NoLoss      == [since |-> NoTime, poll |-> 0]
NoRecovery  == [polls |-> 0, last |-> 0]
NoEpisode   == [since |-> NoTime, poll |-> 0, confirmed |-> NoTime, expired |-> 0]
NoPass      == [stamp |-> 0, sustained |-> 0, failover |-> FALSE]

TypeOK ==
    /\ now \in Times /\ polls \in Stamps /\ snap \in Snapshots
    /\ active \in BOOLEAN /\ loss \in Losses /\ recovery \in Counts
    /\ brain \in Episodes /\ lastOK \in Addrs \cup {NoAddr}
    /\ pass \in Passes
    /\ paged \in Seq(Stamps)
    /\ lostSeen \subseteq Stamps \X Times /\ okSeen \subseteq Stamps

Init ==
    /\ now = 0 /\ polls = 0 /\ snap = Placeholder
    /\ active = FALSE /\ loss = NoLoss /\ recovery = NoRecovery
    /\ brain = NoEpisode /\ lastOK = NoAddr
    /\ pass = NoPass
    /\ paged = <<>> /\ lostSeen = {} /\ okSeen = {}

-----------------------------------------------------------------------------
(* The observer. *)

QuorumThreshold(n) == IF n <= 2 THEN n ELSE n \div 2 + 1

Votes(r, a) == {s \in Sentinels : r[s].reached /\ r[s].addr = a}

\* Mutant: CKQUORUM counted from whichever sentinel reports it.
AgreeingAnywhere(r, a) == {s \in Sentinels : Votes(r, a) # {} /\ r[s].ckquorum}

Agreeing(r, a) == {s \in Votes(r, a) : r[s].ckquorum}

Leaders(r) == {a \in Addrs :
    /\ Votes(r, a) # {}
    /\ \A b \in Addrs : Cardinality(Votes(r, b)) <= Cardinality(Votes(r, a))}

\* The address with the most votes; of several, the one published before, else the
\* smallest.
Winner(r, prev) ==
    IF Leaders(r) = {} THEN NoAddr
    ELSE IF prev \in Leaders(r) THEN prev
    ELSE CHOOSE a \in Leaders(r) : \A b \in Leaders(r) : a <= b

\* What a poll with these answers publishes after the address prev.
Tally(r, prev) ==
    LET threshold == QuorumThreshold(Cardinality(Sentinels))
        reachable == {s \in Sentinels : r[s].reached}
        winner    == Winner(r, prev)
    IN  IF Cardinality(reachable) < threshold
        THEN [quorum |-> "Unknown", addr |-> prev]
        ELSE IF winner \in Addrs /\ Cardinality(Agreeing(r, winner)) >= threshold
        THEN [quorum |-> "OK", addr |-> winner]
        ELSE [quorum |-> "Lost", addr |-> prev]

\* Everything a poll can publish after each address.
Tallies == [prev \in Addrs \cup {NoAddr} |->
               {Tally(r, prev) : r \in [Sentinels -> Readings]}]

\* A poll stamps the reading; stamps only grow.
pollOnce ==
    /\ polls < MaxPolls
    /\ polls' = polls + 1
    /\ \E t \in Tallies[snap.addr] :
          snap' = [quorum |-> t.quorum, addr |-> t.addr, stamp |-> polls + 1]
    /\ UNCHANGED <<now, stateVars, pass, historyVars>>

\* A pub/sub frame moves the address; quorum and stamp are carried over.
dispatch ==
    /\ \E a \in Addrs : snap' = [snap EXCEPT !.addr = a]
    /\ UNCHANGED <<now, polls, stateVars, pass, historyVars>>

\* Ensure replaces the observer when its endpoints change.
Ensure ==
    /\ snap' = Placeholder
    /\ UNCHANGED <<now, polls, stateVars, pass, historyVars>>

-----------------------------------------------------------------------------
(* The pass: updateQuorumSuppressionGate. *)

After(p, q) == p > q

\* Mutant: every pass confirms the episode.
ConfirmEveryPass(b) ==
    [since |-> b.since, poll |-> snap.stamp, confirmed |-> now, expired |-> b.expired]

\* advanceSplitBrainConfirmation: only a newer poll confirms the episode.
advanceSplitBrainConfirmation(b) ==
    IF After(snap.stamp, b.poll)
    THEN [since |-> b.since, poll |-> snap.stamp, confirmed |-> now, expired |-> b.expired]
    ELSE b

\* splitBrainEpisodeExpired: an episode no poll confirmed for too long is dropped.
splitBrainEpisodeExpired(b) ==
    IF now - b.confirmed > Staleness
    THEN [since |-> NoTime, poll |-> 0, confirmed |-> NoTime, expired |-> b.poll]
    ELSE b

\* Mutant: the expired poll opens an episode again.
MayOpenAgain(b) == TRUE

\* After an expiry only a newer poll opens an episode.
MayOpen(b) == b.expired = 0 \/ After(snap.stamp, b.expired)

\* updateSplitBrainSustained.
updateSplitBrainSustained(b) ==
    IF snap.quorum = "OK" THEN NoEpisode
    ELSE IF b.since # NoTime
    THEN splitBrainEpisodeExpired(advanceSplitBrainConfirmation(b))
    ELSE IF snap.quorum = "Lost" /\ MayOpen(b)
    THEN [since |-> now, poll |-> snap.stamp, confirmed |-> now, expired |-> b.expired]
    ELSE b

Sustained(b) == IF b.since = NoTime THEN 0 ELSE b.confirmed - b.since

\* observeFailoverIfAddrChanged, on the episode as the tracker leaves it.
observeFailoverIfAddrChanged(b) ==
    /\ snap.quorum = "OK" /\ b.since # NoTime
    /\ lastOK \notin {NoAddr, snap.addr}

\* updateQuorumSuppression on an OK reading: only a poll not yet counted counts.
Counted == active /\ After(snap.stamp, recovery.last)

Recovered == recovery.polls + 1 >= RecoveryPolls

SeeOK ==
    /\ snap.quorum = "OK"
    /\ loss' = NoLoss
    /\ \/ ~Counted /\ UNCHANGED <<active, recovery>>
       \/ Counted /\ Recovered /\ active' = FALSE /\ recovery' = NoRecovery
       \/ /\ Counted /\ ~Recovered /\ UNCHANGED active
          /\ recovery' = [polls |-> recovery.polls + 1, last |-> snap.stamp]

\* Mutant: the loss may age on one frozen poll.
CrossesFrozen == now - loss.since >= LossThreshold

Crosses == now - loss.since >= LossThreshold /\ After(snap.stamp, loss.poll)

\* ... and on a Lost reading.
SeeLost ==
    /\ snap.quorum = "Lost"
    /\ recovery' = NoRecovery
    /\ \/ active /\ UNCHANGED <<active, loss>>
       \/ /\ ~active /\ loss.since = NoTime /\ UNCHANGED active
          /\ loss' = [since |-> now, poll |-> snap.stamp]
       \/ ~active /\ loss.since # NoTime /\ active' = Crosses /\ UNCHANGED loss

updateQuorumSuppression ==
    \/ snap.quorum = "Unknown" /\ UNCHANGED <<active, loss, recovery>>
    \/ SeeOK
    \/ SeeLost

\* History: the readings of the current run of Lost and of OK.
SeenBy(q) ==
    \/ q = "Unknown" /\ UNCHANGED <<lostSeen, okSeen>>
    \/ q = "OK" /\ lostSeen' = {} /\ okSeen' = okSeen \cup {snap.stamp}
    \/ q = "Lost" /\ lostSeen' = lostSeen \cup {<<snap.stamp, now>>} /\ okSeen' = {}

updateQuorumSuppressionGate ==
    /\ brain' = updateSplitBrainSustained(brain)
    /\ pass' = [stamp |-> snap.stamp, sustained |-> Sustained(brain'),
                failover |-> observeFailoverIfAddrChanged(brain')]
    /\ lastOK' = IF snap.quorum = "OK" THEN snap.addr ELSE lastOK
    /\ updateQuorumSuppression
    /\ paged' = IF brain.since = NoTime /\ brain'.since # NoTime
                THEN Append(paged, snap.stamp) ELSE paged
    /\ SeenBy(snap.quorum)
    /\ UNCHANGED <<now, observerVars>>

-----------------------------------------------------------------------------
(* The environment. *)

Tick ==
    /\ now < MaxTime
    /\ now' = now + 1
    /\ UNCHANGED <<observerVars, stateVars, pass, historyVars>>

\* The operator restarts: its memory and its observer start from nothing.
Crash ==
    /\ snap' = Placeholder
    /\ active' = FALSE /\ loss' = NoLoss /\ recovery' = NoRecovery
    /\ brain' = NoEpisode /\ lastOK' = NoAddr
    /\ pass' = NoPass
    /\ lostSeen' = {} /\ okSeen' = {}
    /\ UNCHANGED <<now, polls, paged>>

Next ==
    \/ pollOnce \/ dispatch \/ Ensure
    \/ updateQuorumSuppressionGate
    \/ Tick \/ Crash

Spec == Init /\ [][Next]_vars

-----------------------------------------------------------------------------
(* Properties. *)

Abstract == INSTANCE HysteresisGate WITH
    lost <- lostSeen, ok <- okSeen

\* Whether every poll that follows this address is exact.
ExactAfter ==
    [prev \in Addrs \cup {NoAddr} |->
        \A r \in [Sentinels -> Readings], a \in Addrs :
           Tally(r, prev) = [quorum |-> "OK", addr |-> a]
           <=> Cardinality(Agreeing(r, a)) >= QuorumThreshold(Cardinality(Sentinels))]

\* Whatever the sentinels answer next, the poll claims quorum for an address exactly
\* when a threshold-sized set of them both names it and reports CKQUORUM: neither two
\* different sets nor a tie between addresses makes one up or hides one (pollOnce,
\* breakAddrTie).
TallyExact == ExactAfter[snap.addr]

\* The counters and stamps of updateQuorumSuppression implement the gate stated over
\* whole histories: passes that read one poll again, frames, replaced observers and
\* undecided polls neither arm nor lift it.
GateHysteresis == Abstract!Spec

\* SplitBrainDetected fires for ever newer polls, so never twice for one poll, also
\* across expiry, replaced observers and restarts (updateSplitBrainSustained).
EpisodeOnce == \A i, j \in DOMAIN paged : i < j => paged[i] < paged[j]

\* The sustained gauge grows only in a pass that reads a newer poll than the pass
\* before it (advanceSplitBrainConfirmation): churn over one frozen poll cannot page.
GaugeBacked == [][pass'.sustained > pass.sustained => pass'.stamp > pass.stamp]_vars
=============================================================================
