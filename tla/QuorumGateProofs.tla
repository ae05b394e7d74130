-------------------------- MODULE QuorumGateProofs --------------------------
(***************************************************************************)
(* Proofs about QuorumGate, for any number of sentinels, addresses, polls  *)
(* and ticks, and any thresholds.                                          *)
(***************************************************************************)
EXTENDS QuorumGate, FiniteSetTheorems, TLAPS

LEMMA ConstantTypes ==
    /\ Placeholder \in Snapshots /\ NoLoss \in Losses /\ NoRecovery \in Counts /\ NoEpisode \in Episodes
    /\ NoPass \in Passes
    /\ 0 \in Stamps /\ 0 \in Times /\ NoTime \notin Times
  BY GateAssumption DEF Placeholder, Snapshots, Quorum, NoLoss, Losses, NoRecovery, Counts,
     NoEpisode, Episodes, NoPass, Passes, Stamps, Times, NoTime, NoAddr, Addrs

-----------------------------------------------------------------------------
(* The poll. *)

LEMMA Voters ==
    ASSUME NEW r, NEW a
    PROVE  /\ IsFiniteSet(Votes(r, a)) /\ IsFiniteSet(Agreeing(r, a))
           /\ Cardinality(Votes(r, a)) \in Nat /\ Cardinality(Agreeing(r, a)) \in Nat
           /\ Cardinality(Agreeing(r, a)) <= Cardinality(Votes(r, a))
           /\ Votes(r, a) \subseteq Sentinels
           /\ Cardinality(Sentinels) \in Nat
  <1>1. Votes(r, a) \in SUBSET Sentinels /\ Agreeing(r, a) \in SUBSET Votes(r, a)
    BY Zenon DEF Votes, Agreeing
  <1>2. IsFiniteSet(Votes(r, a))
    BY Zenon, <1>1, GateAssumption, FS_Subset
  <1>3. IsFiniteSet(Agreeing(r, a)) /\ Cardinality(Agreeing(r, a)) <= Cardinality(Votes(r, a))
    BY Zenon, <1>1, <1>2, FS_Subset
  <1> QED
    BY Zenon, <1>1, <1>2, <1>3, GateAssumption, FS_CardinalityType

(* The threshold is a majority: nobody else has as many votes as an address that      *)
(* reaches it.                                                                        *)
LEMMA MajorityLeads ==
    ASSUME NEW r, NEW a, NEW b, a # b,
           Cardinality(Votes(r, a)) >= QuorumThreshold(Cardinality(Sentinels))
    PROVE  Cardinality(Votes(r, b)) < Cardinality(Votes(r, a))
  <1>1. Votes(r, a) \cap Votes(r, b) = {}
    BY Zenon DEF Votes
  <1>2. Cardinality(Votes(r, a)) + Cardinality(Votes(r, b)) <= Cardinality(Sentinels)
    BY <1>1, Voters, GateAssumption, FS_MajoritiesIntersect
  <1>3. Cardinality(Sentinels) > 0
    BY GateAssumption, FS_EmptySet, FS_CardinalityType
  <1> DEFINE n == Cardinality(Sentinels)
  <1>4. n \in Nat /\ 2 * QuorumThreshold(n) > n
    BY <1>3, Voters DEF QuorumThreshold
  <1>5. QuorumThreshold(n) \in Nat
    BY Voters DEF QuorumThreshold
  <1> HIDE DEF n
  <1> QED
    BY <1>2, <1>4, <1>5, Voters DEF n

LEMMA MajorityWins ==
    ASSUME NEW r, NEW a \in Addrs, NEW prev,
           Cardinality(Votes(r, a)) >= QuorumThreshold(Cardinality(Sentinels))
    PROVE  Winner(r, prev) = a
  <1>1. Votes(r, a) # {}
    <2>1. QuorumThreshold(Cardinality(Sentinels)) > 0
      BY Voters, GateAssumption, FS_EmptySet DEF QuorumThreshold
    <2>2. QuorumThreshold(Cardinality(Sentinels)) \in Nat
      BY Voters DEF QuorumThreshold
    <2> QED
      BY <2>1, <2>2, FS_EmptySet
  <1>2. \A b \in Addrs : b # a => Cardinality(Votes(r, b)) < Cardinality(Votes(r, a))
    BY Zenon, MajorityLeads
  <1>3. \A b \in Addrs : Cardinality(Votes(r, b)) \in Nat
    BY Zenon, Voters
  <1>4. Leaders(r) = {a}
    BY <1>1, <1>2, <1>3, Voters DEF Leaders
  <1>6. (CHOOSE c \in {a} : \A b \in {a} : c <= b) = a
    BY DEF Addrs
  <1>7. CASE prev = a
    BY Zenon, <1>4, <1>7 DEF Winner
  <1>8. CASE prev # a
    BY Zenon, <1>4, <1>6, <1>8 DEF Winner
  <1> QED
    BY Zenon, <1>7, <1>8

LEMMA PollExact ==
    ASSUME NEW r \in [Sentinels -> Readings], NEW prev \in Addrs \cup {NoAddr},
           NEW a \in Addrs
    PROVE  Tally(r, prev) = [quorum |-> "OK", addr |-> a]
           <=> Cardinality(Agreeing(r, a)) >= QuorumThreshold(Cardinality(Sentinels))
  <1> DEFINE T == QuorumThreshold(Cardinality(Sentinels))
             reachable == {s \in Sentinels : r[s].reached}
             w == Winner(r, prev)
  <1>0. T \in Nat
    BY Voters DEF QuorumThreshold
  <1>1. Cardinality(reachable) \in Nat /\ Cardinality(Votes(r, a)) <= Cardinality(reachable)
    <2>1. reachable \in SUBSET Sentinels /\ Votes(r, a) \in SUBSET reachable
      BY Zenon DEF Votes
    <2>2. IsFiniteSet(reachable)
      BY Zenon, <2>1, GateAssumption, FS_Subset
    <2> QED
      BY Zenon, <2>1, <2>2, FS_Subset, FS_CardinalityType
  <1>2. Tally(r, prev) =
          IF Cardinality(reachable) < T THEN [quorum |-> "Unknown", addr |-> prev]
          ELSE IF w \in Addrs /\ Cardinality(Agreeing(r, w)) >= T
          THEN [quorum |-> "OK", addr |-> w]
          ELSE [quorum |-> "Lost", addr |-> prev]
    BY Zenon DEF Tally
  <1>3. ASSUME Cardinality(Agreeing(r, a)) >= T
        PROVE  Tally(r, prev) = [quorum |-> "OK", addr |-> a]
    <2>1. Cardinality(Votes(r, a)) >= T
      BY <1>0, <1>3, Voters
    <2>2. w = a
      BY Zenon, <2>1, MajorityWins
    <2>3. Cardinality(reachable) >= T
      BY <1>0, <1>1, <2>1, Voters
    <2> HIDE DEF reachable, T, w
    <2> QED
      BY <1>0, <1>1, <1>2, <1>3, <2>2, <2>3
  <1>4. ASSUME Tally(r, prev) = [quorum |-> "OK", addr |-> a]
        PROVE  Cardinality(Agreeing(r, a)) >= T
    <2> HIDE DEF reachable, T, w
    <2> QED
      BY <1>0, <1>1, <1>2, <1>4
  <1> QED
    BY Zenon, <1>3, <1>4

-----------------------------------------------------------------------------
(* Types.  The invariant adds what ties stamps and times together: no stamp is newer  *)
(* than the last poll, a decided snapshot has a stamp, and an open episode was last   *)
(* confirmed between its start and now.                                               *)
StampInv ==
    /\ TypeOK
    /\ snap.stamp <= polls
    /\ snap.quorum # "Unknown" => snap.stamp > 0
    /\ brain.since # NoTime => /\ brain.confirmed # NoTime
                               /\ brain.since <= brain.confirmed
                               /\ brain.confirmed <= now

LEMMA TallyType ==
    ASSUME NEW prev \in Addrs \cup {NoAddr}, NEW t \in Tallies[prev]
    PROVE  t \in [quorum : Quorum, addr : Addrs \cup {NoAddr}]
  <1>1. PICK r \in [Sentinels -> Readings] : t = Tally(r, prev)
    BY Zenon DEF Tallies
  <1> QED
    BY Zenon, <1>1 DEF Tally, Quorum

LEMMA GateType ==
    ASSUME TypeOK, updateQuorumSuppression
    PROVE  active' \in BOOLEAN /\ loss' \in Losses /\ recovery' \in Counts
  <1>1. /\ snap.stamp \in Stamps /\ now \in Times /\ RecoveryPolls \in Nat \ {0}
        /\ recovery \in Counts /\ loss \in Losses /\ active \in BOOLEAN
    BY Zenon, GateAssumption DEF TypeOK, Snapshots
  <1>2. ~Recovered => [polls |-> recovery.polls + 1, last |-> snap.stamp] \in Counts
    BY <1>1 DEF Recovered, Counts
  <1>3. [since |-> now, poll |-> snap.stamp] \in Losses
    BY Zenon, <1>1 DEF Losses
  <1>4. Crosses \in BOOLEAN
    BY Zenon DEF Crosses, After
  <1> QED
    BY Zenon, <1>1, <1>2, <1>3, <1>4, ConstantTypes DEF updateQuorumSuppression, SeeOK, SeeLost

LEMMA EpisodeType ==
    ASSUME StampInv, NEW b, b = updateSplitBrainSustained(brain)
    PROVE  /\ b \in Episodes
           /\ b.since # NoTime => /\ b.confirmed # NoTime
                                  /\ b.since <= b.confirmed
                                  /\ b.confirmed <= now
           /\ Sustained(b) \in Times
  <1>1. brain \in Episodes /\ snap.stamp \in Stamps /\ now \in Times
    BY Zenon DEF StampInv, TypeOK, Snapshots
  <1> DEFINE c == advanceSplitBrainConfirmation(brain)
  <1>2. c \in Episodes /\ (brain.since # NoTime => /\ c.since # NoTime /\ c.confirmed # NoTime
                                                  /\ c.since <= c.confirmed
                                                  /\ c.confirmed <= now)
    BY <1>1, GateAssumption
       DEF advanceSplitBrainConfirmation, Episodes, StampInv, Times, NoTime
  <1> HIDE DEF c
  <1>3. b \in Episodes
    BY Zenon, <1>1, <1>2, ConstantTypes
       DEF c, updateSplitBrainSustained, splitBrainEpisodeExpired, Episodes
  <1>4. b.since # NoTime => /\ b.confirmed # NoTime
                            /\ b.since <= b.confirmed
                            /\ b.confirmed <= now
    BY <1>1, <1>2, ConstantTypes
       DEF c, updateSplitBrainSustained, splitBrainEpisodeExpired, NoEpisode, Episodes, Times,
           NoTime
  <1>5. Sustained(b) \in Times
    BY <1>1, <1>3, <1>4, GateAssumption DEF Sustained, Episodes, Times, NoTime
  <1> QED
    BY Zenon, <1>3, <1>4, <1>5

LEMMA RestTypes ==
    /\ Placeholder.stamp = 0 /\ Placeholder.quorum = "Unknown" /\ NoEpisode.since = NoTime
    /\ <<>> \in Seq(Stamps) /\ \A p \in Stamps : 0 <= p
  BY DEF Placeholder, NoEpisode, Stamps

LEMMA InitStampInv == Init => StampInv
  <1> HAVE Init
  <1>1. TypeOK
    BY Zenon, ConstantTypes, RestTypes DEF Init, TypeOK
  <1> QED
    BY <1>1, RestTypes DEF Init, StampInv

LEMMA NextStampInv ==
    ASSUME StampInv, [Next]_vars PROVE StampInv'
  <1> USE DEF observerVars, stateVars, historyVars
  <1>1. CASE pollOnce
    <2>1. PICK t \in Tallies[snap.addr] :
             snap' = [quorum |-> t.quorum, addr |-> t.addr, stamp |-> polls + 1]
      BY Zenon, <1>1 DEF pollOnce
    <2>2. t \in [quorum : Quorum, addr : Addrs \cup {NoAddr}]
      BY Zenon, <2>1, TallyType DEF StampInv, TypeOK, Snapshots
    <2>3. polls' = polls + 1 /\ polls' \in Stamps
      BY <1>1, GateAssumption DEF pollOnce, StampInv, TypeOK, Stamps
    <2>4. snap' \in Snapshots /\ snap'.stamp = polls' /\ snap'.stamp > 0
      BY <2>1, <2>2, <2>3 DEF Snapshots, StampInv, TypeOK, Stamps
    <2> QED
      BY <1>1, <2>3, <2>4 DEF pollOnce, StampInv, TypeOK, Stamps
  <1>2. CASE dispatch
    BY Zenon, <1>2 DEF dispatch, StampInv, TypeOK, Snapshots
  <1>3. CASE Ensure
    BY <1>3, ConstantTypes DEF Ensure, Placeholder, StampInv, TypeOK, Stamps
  <1>4. CASE updateQuorumSuppressionGate
    <2>1. active' \in BOOLEAN /\ loss' \in Losses /\ recovery' \in Counts
      BY Zenon, <1>4, GateType DEF updateQuorumSuppressionGate, StampInv
    <2>2. /\ brain' \in Episodes /\ Sustained(brain') \in Times
          /\ brain'.since # NoTime => /\ brain'.confirmed # NoTime
                                      /\ brain'.since <= brain'.confirmed
                                      /\ brain'.confirmed <= now
      BY Zenon, <1>4, EpisodeType DEF updateQuorumSuppressionGate
    <2>3. snap \in Snapshots /\ snap.stamp \in Stamps /\ snap.addr \in Addrs \cup {NoAddr}
      BY Zenon DEF StampInv, TypeOK, Snapshots
    <2>4. pass' \in Passes
      BY Zenon, <1>4, <2>2, <2>3
         DEF updateQuorumSuppressionGate, Passes, observeFailoverIfAddrChanged
    <2>5. paged' \in Seq(Stamps) /\ lastOK' \in Addrs \cup {NoAddr}
      BY <1>4, <2>3 DEF updateQuorumSuppressionGate, StampInv, TypeOK
    <2>6. lostSeen' \subseteq Stamps \X Times /\ okSeen' \subseteq Stamps
      BY <1>4, <2>3 DEF updateQuorumSuppressionGate, SeenBy, StampInv, TypeOK
    <2> QED
      BY Zenon, <1>4, <2>1, <2>2, <2>4, <2>5, <2>6 DEF updateQuorumSuppressionGate, StampInv, TypeOK
  <1>5. CASE Tick
    <2>1. now' \in Times /\ now' = now + 1
      BY <1>5, GateAssumption DEF Tick, StampInv, TypeOK, Times
    <2>2. brain.since # NoTime => brain.confirmed <= now'
      BY <2>1 DEF StampInv, TypeOK, Episodes, Times, NoTime
    <2> QED
      BY Zenon, <1>5, <2>1, <2>2 DEF Tick, StampInv, TypeOK
  <1>6. CASE Crash
    <2>1. TypeOK'
      BY Zenon, <1>6, ConstantTypes, RestTypes DEF Crash, StampInv, TypeOK
    <2> QED
      BY Zenon, <1>6, <2>1, RestTypes DEF Crash, StampInv, TypeOK
  <1>7. CASE UNCHANGED vars
    BY Zenon, <1>7 DEF vars, StampInv, TypeOK
  <1> QED
    BY Zenon, <1>1, <1>2, <1>3, <1>4, <1>5, <1>6, <1>7 DEF Next

LEMMA Stamped == Spec => []StampInv
  BY InitStampInv, NextStampInv, PTL DEF Spec

(* Every reachable state is well typed (crQuorumState and the observer snapshot), in   *)
(* particular the recovery count never reaches RecoveryPolls.                          *)
THEOREM GateTypeCorrect == Spec => []TypeOK
  <1>1. StampInv => TypeOK
    BY Zenon DEF StampInv
  <1> QED
    BY <1>1, Stamped, PTL

(* A poll claims quorum for an address exactly when a threshold-sized set of           *)
(* sentinels names it and reports CKQUORUM (pollOnce), for any number of sentinels and *)
(* addresses.                                                                          *)
THEOREM PollTally == Spec => []TallyExact
  <1>1. ASSUME NEW prev \in Addrs \cup {NoAddr} PROVE ExactAfter[prev]
    BY Zenon, PollExact DEF ExactAfter
  <1>2. TypeOK => TallyExact
    BY Zenon, <1>1 DEF TypeOK, Snapshots, TallyExact
  <1> QED
    BY <1>2, GateTypeCorrect, PTL

-----------------------------------------------------------------------------
(* The split-brain episode.  SplitBrainDetected has fired for polls older than an OK   *)
(* snapshot, and older than a Lost one that may open an episode.                       *)
EpisodeInv ==
    /\ EpisodeOnce
    /\ \A i \in DOMAIN paged : paged[i] <= polls
    /\ snap.quorum = "OK" => \A i \in DOMAIN paged : paged[i] < snap.stamp
    /\ snap.quorum = "Lost" /\ brain.since = NoTime /\ MayOpen(brain)
          => \A i \in DOMAIN paged : paged[i] < snap.stamp

(* A Lost snapshot that the pass leaves without an episode may not open one later:     *)
(* either it could not before, or the episode expired on this very poll or a newer one. *)
LEMMA LostLeftClosed ==
    ASSUME StampInv, snap.quorum = "Lost", NEW b, b = updateSplitBrainSustained(brain),
           b.since = NoTime
    PROVE  ~MayOpen(b)
  <1>1. brain \in Episodes /\ snap.stamp \in Stamps /\ now \in Times /\ snap.stamp > 0
    BY Zenon DEF StampInv, TypeOK, Snapshots
  <1>2. now # NoTime
    BY Zenon, <1>1, ConstantTypes
  <1> DEFINE c == advanceSplitBrainConfirmation(brain)
  <1>3. CASE brain.since = NoTime
    <2>1. b = IF MayOpen(brain)
              THEN [since |-> now, poll |-> snap.stamp, confirmed |-> now,
                    expired |-> brain.expired]
              ELSE brain
      BY Zenon, <1>3 DEF updateSplitBrainSustained
    <2> QED
      BY <1>2, <2>1
  <1>4. CASE brain.since # NoTime
    <2>1. c \in Episodes /\ c.since = brain.since /\ c.poll >= snap.stamp
      BY <1>1 DEF advanceSplitBrainConfirmation, After, Episodes, Stamps
    <2>2. b = splitBrainEpisodeExpired(c)
      BY Zenon, <1>4 DEF updateSplitBrainSustained
    <2> HIDE DEF c
    <2>3. b.expired = c.poll
      BY <1>4, <2>1, <2>2 DEF splitBrainEpisodeExpired
    <2> QED
      BY <1>1, <2>1, <2>3 DEF MayOpen, After, Episodes, Stamps
  <1> QED
    BY Zenon, <1>3, <1>4

LEMMA OpensOnlyWhenDue ==
    ASSUME StampInv, NEW b, b = updateSplitBrainSustained(brain), brain.since = NoTime,
           b.since # NoTime
    PROVE  snap.quorum = "Lost" /\ MayOpen(brain)
  BY Zenon DEF updateSplitBrainSustained, NoEpisode

LEMMA NextEpisodeInv ==
    ASSUME StampInv, EpisodeInv, [Next]_vars PROVE EpisodeInv'
  <1> USE DEF observerVars, stateVars, historyVars
  <1>0. /\ paged \in Seq(Stamps) /\ snap.stamp \in Stamps /\ polls \in Stamps
        /\ \A i \in DOMAIN paged : paged[i] \in Stamps
    BY DEF StampInv, TypeOK, Snapshots
  <1>1. CASE pollOnce
    <2>1. polls' = polls + 1 /\ snap'.stamp = polls + 1 /\ UNCHANGED <<brain, paged>>
      BY <1>1 DEF pollOnce
    <2> QED
      BY <1>0, <2>1 DEF EpisodeInv, EpisodeOnce, Stamps
  <1>2. CASE dispatch
    <2>1. /\ snap'.quorum = snap.quorum /\ snap'.stamp = snap.stamp
          /\ UNCHANGED <<polls, brain, paged>>
      BY Zenon, <1>2 DEF dispatch, StampInv, TypeOK, Snapshots
    <2> QED
      BY Zenon, <2>1 DEF EpisodeInv, EpisodeOnce, MayOpen, After
  <1>3. CASE Ensure \/ Crash
    <2>1. snap'.quorum = "Unknown" /\ UNCHANGED <<polls, paged>>
      BY <1>3 DEF Ensure, Crash, Placeholder
    <2> QED
      BY Zenon, <2>1 DEF EpisodeInv, EpisodeOnce
  <1>4. CASE updateQuorumSuppressionGate
    <2>1. brain' = updateSplitBrainSustained(brain) /\ UNCHANGED <<snap, polls>>
      BY Zenon, <1>4 DEF updateQuorumSuppressionGate
    <2>2. snap'.quorum = "Lost" /\ brain'.since = NoTime => ~MayOpen(brain)'
      BY Zenon, <2>1, LostLeftClosed DEF MayOpen, After
    <2>3. CASE brain.since = NoTime /\ brain'.since # NoTime
      <3>1. snap.quorum = "Lost" /\ paged' = Append(paged, snap.stamp)
        BY <1>4, <2>1, <2>3, OpensOnlyWhenDue DEF updateQuorumSuppressionGate
      <3>2. \A i \in DOMAIN paged : paged[i] < snap.stamp
        BY Zenon, <2>1, <2>3, <3>1, OpensOnlyWhenDue DEF EpisodeInv
      <3>3. EpisodeOnce'
        BY <1>0, <3>1, <3>2 DEF EpisodeInv, EpisodeOnce, Stamps
      <3>4. \A i \in DOMAIN paged' : paged'[i] <= polls'
        BY <1>0, <2>1, <3>1 DEF EpisodeInv, StampInv, Stamps
      <3> QED
        BY Zenon, <2>1, <2>3, <3>1, <3>3, <3>4 DEF EpisodeInv
    <2>4. CASE ~(brain.since = NoTime /\ brain'.since # NoTime)
      <3>1. paged' = paged
        BY Zenon, <1>4, <2>4 DEF updateQuorumSuppressionGate
      <3> QED
        BY Zenon, <2>1, <2>2, <3>1 DEF EpisodeInv, EpisodeOnce
    <2> QED
      BY Zenon, <2>3, <2>4
  <1>5. CASE Tick
    BY Zenon, <1>5 DEF Tick, EpisodeInv, EpisodeOnce, MayOpen, After
  <1>6. CASE UNCHANGED vars
    BY Zenon, <1>6 DEF vars, EpisodeInv, EpisodeOnce, MayOpen, After
  <1> QED
    BY Zenon, <1>1, <1>2, <1>3, <1>4, <1>5, <1>6 DEF Next

(* SplitBrainDetected never fires twice for one poll, through expiry, replaced         *)
(* observers and restarts (updateSplitBrainSustained).                                 *)
THEOREM OnePagePerPoll == Spec => []EpisodeOnce
  <1>1. Init => EpisodeInv
    BY DEF Init, EpisodeInv, EpisodeOnce, Placeholder
  <1>2. StampInv /\ EpisodeInv /\ [Next]_vars => EpisodeInv'
    BY Zenon, NextEpisodeInv
  <1>3. EpisodeInv => EpisodeOnce
    BY Zenon DEF EpisodeInv
  <1> QED
    BY <1>1, <1>2, <1>3, Stamped, PTL DEF Spec

-----------------------------------------------------------------------------
(* The gauge.  It shows the episode the last pass left, and that pass read no newer    *)
(* poll than the episode has folded in.                                                *)
GaugeInv ==
    /\ pass.sustained = Sustained(brain)
    /\ brain.since # NoTime => pass.stamp <= brain.poll

LEMMA PassGauge ==
    ASSUME StampInv, GaugeInv, updateQuorumSuppressionGate
    PROVE  /\ GaugeInv'
           /\ pass'.sustained > pass.sustained => pass'.stamp > pass.stamp
  <1>1. /\ brain \in Episodes /\ snap.stamp \in Stamps /\ now \in Times
        /\ pass.stamp \in Stamps /\ pass.sustained \in Times
    BY Zenon DEF StampInv, TypeOK, Snapshots, Passes
  <1>2. /\ brain' = updateSplitBrainSustained(brain)
        /\ pass'.stamp = snap.stamp /\ pass'.sustained = Sustained(brain')
    BY Zenon DEF updateQuorumSuppressionGate
  <1> DEFINE c == advanceSplitBrainConfirmation(brain)
  <1>3. CASE snap.quorum # "OK" /\ brain.since # NoTime
    <2>1. /\ c \in Episodes /\ c.since = brain.since /\ c.poll >= snap.stamp
          /\ c.confirmed = brain.confirmed \/ snap.stamp > brain.poll
      BY <1>1 DEF advanceSplitBrainConfirmation, After, Episodes, Stamps
    <2>2. brain' = splitBrainEpisodeExpired(c)
      BY Zenon, <1>2, <1>3 DEF updateSplitBrainSustained
    <2> HIDE DEF c
    <2>3. CASE brain' = c
      <3>1. GaugeInv'
        BY Zenon, <1>1, <1>2, <2>1, <2>3 DEF GaugeInv, Sustained, Episodes, Stamps
      <3>2. CASE c.confirmed = brain.confirmed
        <4>1. Sustained(brain') = Sustained(brain)
          BY Zenon, <2>1, <2>3, <3>2 DEF Sustained
        <4> QED
          BY <1>1, <1>2, <3>1, <4>1 DEF GaugeInv, Times
      <3>3. CASE snap.stamp > brain.poll
        BY <1>1, <1>2, <1>3, <3>1, <3>3 DEF GaugeInv, Episodes, Stamps
      <3> QED
        BY Zenon, <2>1, <3>1, <3>2, <3>3
    <2>4. CASE brain'.since = NoTime
      BY <1>1, <1>2, <2>4 DEF GaugeInv, Sustained, Times
    <2> QED
      BY Zenon, <2>2, <2>3, <2>4 DEF splitBrainEpisodeExpired
  <1>4. CASE ~(snap.quorum # "OK" /\ brain.since # NoTime)
    <2>1. \/ brain'.since = NoTime
          \/ brain'.since = now /\ brain'.confirmed = now /\ brain'.poll = snap.stamp
      BY Zenon, <1>2, <1>4 DEF updateSplitBrainSustained, NoEpisode
    <2>2. Sustained(brain') = 0
      BY <1>1, <2>1 DEF Sustained, Times
    <2> QED
      BY <1>1, <1>2, <2>1, <2>2 DEF GaugeInv, Stamps, Times
  <1> QED
    BY Zenon, <1>3, <1>4

LEMMA NextGauge ==
    ASSUME StampInv, GaugeInv, [Next]_vars
    PROVE  /\ GaugeInv'
           /\ pass'.sustained > pass.sustained => pass'.stamp > pass.stamp
  <1> USE DEF observerVars, stateVars, historyVars
  <1>0. pass.sustained \in Times
    BY Zenon DEF StampInv, TypeOK, Passes
  <1>1. CASE updateQuorumSuppressionGate
    BY Zenon, <1>1, PassGauge
  <1>2. CASE Crash
    <2>1. pass'.sustained = 0 /\ brain'.since = NoTime
      BY Zenon, <1>2 DEF Crash, NoPass, NoEpisode
    <2> QED
      BY <1>0, <2>1 DEF GaugeInv, Sustained, Times
  <1>3. CASE pollOnce \/ dispatch \/ Ensure \/ Tick \/ UNCHANGED vars
    <2>1. UNCHANGED <<pass, brain>>
      BY Zenon, <1>3 DEF pollOnce, dispatch, Ensure, Tick, vars
    <2> QED
      BY <1>0, <2>1 DEF GaugeInv, Sustained, Times
  <1> QED
    BY Zenon, <1>1, <1>2, <1>3 DEF Next

(* The sustained split-brain reading grows only when a pass reads a newer poll than    *)
(* the pass before it (advanceSplitBrainConfirmation).                                 *)
THEOREM GaugeNeedsPolls == Spec => GaugeBacked
  <1>1. Init => GaugeInv
    BY DEF Init, GaugeInv, NoPass, NoEpisode, Sustained
  <1>2. StampInv /\ GaugeInv /\ [Next]_vars
           => GaugeInv' /\ [pass'.sustained > pass.sustained => pass'.stamp > pass.stamp]_vars
    BY Zenon, NextGauge
  <1> QED
    BY <1>1, <1>2, Stamped, PTL DEF Spec, GaugeBacked

-----------------------------------------------------------------------------
(* The gate.  The counter counts the distinct OK polls seen since the last Lost, the   *)
(* stamp it keeps is the newest of them, and the loss onset is the oldest Lost reading *)
(* seen since the last OK.                                                             *)
GateInv ==
    /\ \A s \in okSeen : s > 0 /\ s <= polls
    /\ \A x \in lostSeen : x[1] <= polls /\ x[2] <= now
    /\ snap.quorum # "Unknown" => /\ \A s \in okSeen : s <= snap.stamp
                                  /\ \A x \in lostSeen : x[1] <= snap.stamp
    /\ active => /\ recovery.polls = Cardinality(okSeen)
                 /\ \A s \in okSeen : s <= recovery.last
                 /\ recovery.last \in okSeen \cup {0}
    /\ ~active => /\ loss.since = NoTime => lostSeen = {}
                  /\ loss.since # NoTime => <<loss.poll, loss.since>> \in lostSeen
                  /\ \A x \in lostSeen : loss.poll <= x[1] /\ loss.since <= x[2]

LEMMA SameCardinality == \A S : Abstract!Cardinality(S) = Cardinality(S)
  BY Zenon DEF Abstract!Cardinality, Cardinality

LEMMA OkPass ==
    ASSUME StampInv, GateInv, SeeOK, SeenBy("OK"), UNCHANGED <<now, polls, snap>>
    PROVE  GateInv' /\ Abstract!SeeOK(snap.stamp)
  <1>1. /\ snap.stamp \in Stamps /\ snap.stamp > 0 /\ polls \in Stamps
        /\ snap.stamp <= polls /\ okSeen \subseteq Stamps /\ active \in BOOLEAN
        /\ recovery \in Counts /\ snap.quorum = "OK"
        /\ RecoveryPolls \in Nat \ {0} /\ MaxPolls \in Nat
    BY Zenon, GateAssumption DEF StampInv, TypeOK, Snapshots, SeeOK
  <1>2. lostSeen' = {} /\ okSeen' = okSeen \cup {snap.stamp} /\ loss'.since = NoTime
    BY Zenon DEF SeenBy, SeeOK, NoLoss
  <1>3. IsFiniteSet(okSeen) /\ Cardinality(okSeen) \in Nat
    <2>1. IsFiniteSet(Stamps)
      BY <1>1, FS_Interval DEF Stamps
    <2> QED
      BY Zenon, <1>1, <2>1, FS_Subset, FS_CardinalityType
  <1>4. /\ \A s \in okSeen' : s > 0 /\ s <= polls
        /\ \A s \in okSeen' : s <= snap.stamp
    BY <1>1, <1>2 DEF GateInv, Stamps
  <1>5. CASE ~active
    <2>1. active' = active
      BY Zenon, <1>5 DEF SeeOK, Counted
    <2>2. GateInv'
      BY Zenon, <1>1, <1>2, <1>4, <1>5, <2>1 DEF GateInv
    <2>3. Abstract!SeeOK(snap.stamp)
      BY Zenon, <1>1, <1>2, <1>4, <1>5, <2>1, SameCardinality DEF Abstract!SeeOK
    <2> QED
      BY Zenon, <2>2, <2>3
  <1>6. CASE active /\ ~Counted
    <2>1. active' = active /\ recovery' = recovery
      BY Zenon, <1>6 DEF SeeOK
    <2>2. snap.stamp <= recovery.last
      BY <1>1, <1>6 DEF Counted, After, Counts, Stamps
    <2>3. snap.stamp \in okSeen
      BY <1>1, <1>6, <2>2 DEF GateInv, Counts, Stamps
    <2>4. okSeen' = okSeen
      BY Zenon, <1>2, <2>3
    <2>5. Cardinality(okSeen') < RecoveryPolls
      BY <1>1, <1>6, <2>4 DEF GateInv, Counts
    <2>6. GateInv'
      BY Zenon, <1>1, <1>2, <1>4, <1>6, <2>1, <2>4, <2>5 DEF GateInv
    <2>7. Abstract!SeeOK(snap.stamp)
      BY Zenon, <1>1, <1>2, <1>4, <1>6, <2>1, <2>4, <2>5, SameCardinality DEF Abstract!SeeOK
    <2> QED
      BY <2>6, <2>7
  <1>7. CASE active /\ Counted
    <2>1. snap.stamp > recovery.last
      BY Zenon, <1>7 DEF Counted, After
    <2>2. snap.stamp \notin okSeen
      BY <1>1, <1>7, <2>1 DEF GateInv, Counts, Stamps
    <2>3. Cardinality(okSeen') = recovery.polls + 1
      BY Zenon, <1>2, <1>3, <1>7, <2>2, FS_AddElement DEF GateInv
    <2>4. CASE Recovered
      <3>1. active' = FALSE
        BY Zenon, <1>7, <2>4 DEF SeeOK
      <3>2. ~(Cardinality(okSeen') < RecoveryPolls)
        BY <1>1, <2>3, <2>4 DEF Recovered, Counts
      <3>3. GateInv'
        BY Zenon, <1>1, <1>2, <1>4, <1>7, <3>1, <3>2 DEF GateInv
      <3>4. Abstract!SeeOK(snap.stamp)
        BY Zenon, <1>1, <1>2, <1>4, <1>7, <3>1, <3>2, SameCardinality DEF Abstract!SeeOK
      <3> QED
        BY <3>3, <3>4
    <2>5. CASE ~Recovered
      <3>1. active' = active /\ recovery' = [polls |-> recovery.polls + 1, last |-> snap.stamp]
        BY Zenon, <1>7, <2>5 DEF SeeOK
      <3>2. Cardinality(okSeen') < RecoveryPolls
        BY <1>1, <2>3, <2>5 DEF Recovered, Counts
      <3>3. GateInv'
        BY Zenon, <1>1, <1>2, <1>4, <1>7, <2>3, <3>1, <3>2 DEF GateInv, Stamps, Counts
      <3>4. Abstract!SeeOK(snap.stamp)
        BY Zenon, <1>1, <1>2, <1>4, <1>7, <2>3, <3>1, <3>2, SameCardinality DEF Abstract!SeeOK
      <3> QED
        BY <3>3, <3>4
    <2> QED
      BY Zenon, <2>4, <2>5
  <1> QED
    BY Zenon, <1>1, <1>5, <1>6, <1>7

LEMMA LostPass ==
    ASSUME StampInv, GateInv, SeeLost, SeenBy("Lost"), UNCHANGED <<now, polls, snap>>
    PROVE  GateInv' /\ Abstract!SeeLost(snap.stamp)
  <1>1. /\ snap.stamp \in Stamps /\ polls \in Stamps /\ now \in Times
        /\ snap.stamp <= polls /\ active \in BOOLEAN /\ loss \in Losses
        /\ lostSeen \subseteq Stamps \X Times /\ snap.quorum = "Lost"
        /\ LossThreshold \in Nat /\ now # NoTime
    BY Zenon, GateAssumption, ConstantTypes DEF StampInv, TypeOK, Snapshots, SeeLost
  <1>2. /\ lostSeen' = lostSeen \cup {<<snap.stamp, now>>} /\ okSeen' = {}
        /\ recovery'.polls = 0 /\ recovery'.last = 0
    BY Zenon DEF SeenBy, SeeLost, NoRecovery
  <1>3. Cardinality(okSeen') = 0
    BY Zenon, <1>2, FS_EmptySet
  <1>4. /\ \A x \in lostSeen' : x[1] <= polls /\ x[2] <= now
        /\ \A x \in lostSeen' : x[1] <= snap.stamp
    BY <1>1, <1>2 DEF GateInv, Stamps, Times
  <1>5. CASE active
    <2>1. active' = active
      BY Zenon, <1>5 DEF SeeLost
    <2> QED
      BY Zenon, <1>2, <1>3, <1>4, <1>5, <2>1 DEF GateInv, Abstract!SeeLost
  <1>6. CASE ~active /\ loss.since = NoTime
    <2>1. active' = active /\ loss' = [since |-> now, poll |-> snap.stamp] /\ lostSeen = {}
      BY Zenon, <1>6 DEF SeeLost, GateInv
    <2>2. GateInv'
      BY <1>1, <1>2, <1>3, <1>4, <1>6, <2>1 DEF GateInv, Stamps, Times
    <2>3. Abstract!SeeLost(snap.stamp)
      BY Zenon, <1>1, <1>2, <1>3, <1>4, <1>6, <2>1 DEF Abstract!SeeLost
    <2> QED
      BY Zenon, <2>2, <2>3
  <1>7. CASE ~active /\ loss.since # NoTime
    <2>1. active' = Crosses /\ loss' = loss
      BY Zenon, <1>7 DEF SeeLost
    <2>2. loss.since \in Times /\ loss.poll \in Stamps
      BY Zenon, <1>1, <1>7 DEF Losses
    <2>3. Crosses <=> \E x \in lostSeen : x[1] < snap.stamp /\ now - x[2] >= LossThreshold
      BY <1>1, <1>7, <2>2 DEF Crosses, After, GateInv, Stamps, Times
    <2>4. \A x \in lostSeen' : loss.poll <= x[1] /\ loss.since <= x[2]
      BY <1>1, <1>2, <1>7, <2>2 DEF GateInv, Stamps, Times
    <2>5. GateInv'
      BY Zenon, <1>2, <1>3, <1>4, <1>7, <2>1, <2>4 DEF GateInv
    <2>6. Abstract!SeeLost(snap.stamp)
      BY Zenon, <1>2, <1>7, <2>1, <2>3 DEF Abstract!SeeLost, Crosses, After
    <2> QED
      BY <2>5, <2>6
  <1> QED
    BY Zenon, <1>1, <1>5, <1>6, <1>7

LEMMA NextGate ==
    ASSUME StampInv, GateInv, [Next]_vars
    PROVE  GateInv' /\ [Abstract!Next]_(Abstract!absVars)
  <1> USE DEF observerVars, stateVars, historyVars
  <1>0. /\ snap.stamp \in Stamps /\ polls \in Stamps /\ now \in Times
        /\ okSeen \subseteq Stamps /\ lostSeen \subseteq Stamps \X Times
    BY Zenon DEF StampInv, TypeOK, Snapshots
  <1>1. CASE updateQuorumSuppressionGate
    <2>1. UNCHANGED <<now, polls, snap>> /\ updateQuorumSuppression /\ SeenBy(snap.quorum)
      BY Zenon, <1>1 DEF updateQuorumSuppressionGate
    <2>2. CASE SeeOK
      BY Zenon, <1>0, <2>1, <2>2, OkPass DEF SeeOK, Abstract!Next
    <2>3. CASE SeeLost
      BY Zenon, <1>0, <2>1, <2>3, LostPass DEF SeeLost, Abstract!Next
    <2>4. CASE snap.quorum = "Unknown" /\ UNCHANGED <<active, loss, recovery>>
      BY Zenon, <2>1, <2>4 DEF SeenBy, GateInv, Abstract!absVars
    <2> QED
      BY Zenon, <2>1, <2>2, <2>3, <2>4 DEF updateQuorumSuppression
  <1>2. CASE pollOnce
    <2>1. /\ polls' = polls + 1 /\ snap'.stamp = polls + 1
          /\ UNCHANGED <<now, active, loss, recovery, lostSeen, okSeen>>
      BY <1>2 DEF pollOnce
    <2> QED
      BY <1>0, <2>1 DEF GateInv, Stamps, Abstract!absVars
  <1>3. CASE dispatch
    <2>1. /\ snap'.quorum = snap.quorum /\ snap'.stamp = snap.stamp
          /\ UNCHANGED <<now, polls, active, loss, recovery, lostSeen, okSeen>>
      BY Zenon, <1>3 DEF dispatch, StampInv, TypeOK, Snapshots
    <2> QED
      BY Zenon, <2>1 DEF GateInv, Abstract!absVars
  <1>4. CASE Ensure
    <2>1. /\ snap'.quorum = "Unknown"
          /\ UNCHANGED <<now, polls, active, loss, recovery, lostSeen, okSeen>>
      BY Zenon, <1>4 DEF Ensure, Placeholder
    <2> QED
      BY Zenon, <2>1 DEF GateInv, Abstract!absVars
  <1>5. CASE Tick
    <2>1. /\ now' = now + 1
          /\ UNCHANGED <<polls, snap, active, loss, recovery, lostSeen, okSeen>>
      BY Zenon, <1>5 DEF Tick
    <2>2. \A x \in lostSeen : x[2] <= now'
      BY <1>0, <2>1 DEF GateInv, Times
    <2>3. GateInv'
      BY Zenon, <2>1, <2>2 DEF GateInv
    <2>4. Abstract!Advance
      BY <1>0, <2>1 DEF Abstract!Advance, Times
    <2> QED
      BY Zenon, <2>3, <2>4 DEF Abstract!Next
  <1>6. CASE Crash
    BY Zenon, <1>6 DEF Crash, Placeholder, NoLoss, GateInv, Abstract!Next, Abstract!Restart
  <1>7. CASE UNCHANGED vars
    BY Zenon, <1>7 DEF vars, GateInv, Abstract!absVars
  <1> QED
    BY Zenon, <1>1, <1>2, <1>3, <1>4, <1>5, <1>6, <1>7 DEF Next

(* updateQuorumSuppression with its counters and stamps implements the gate stated     *)
(* over the readings seen: suppression starts and ends exactly when it has been earned *)
(* by distinct polls, whatever the thresholds.                                         *)
THEOREM GateRefines == Spec => GateHysteresis
  <1>1. Init => GateInv /\ Abstract!Init
    BY DEF Init, GateInv, Placeholder, NoLoss, Abstract!Init
  <1>2. StampInv /\ GateInv /\ [Next]_vars => GateInv' /\ [Abstract!Next]_(Abstract!absVars)
    BY Zenon, NextGate
  <1> QED
    BY <1>1, <1>2, Stamped, PTL DEF Spec, GateHysteresis, Abstract!Spec
=============================================================================
