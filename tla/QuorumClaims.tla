---------------------------- MODULE QuorumClaims ----------------------------
(***************************************************************************)
(* What a comment of the quorum tracker claims and the code does not keep. *)
(***************************************************************************)
EXTENDS QuorumGate

\* "Failover observation: detects the !QuorumOK -> QuorumOK with changed Addr transition
\* that marks a completed failover" (updateQuorumSuppressionGate): a pass that finds an
\* open episode, quorum back and another address than the last agreed one reports a
\* failover.
FailoverCounted ==
    [][/\ updateQuorumSuppressionGate
       /\ brain.since # NoTime /\ snap.quorum = "OK" /\ lastOK \notin {NoAddr, snap.addr}
       => pass'.failover]_vars
=============================================================================
