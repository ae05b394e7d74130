---------------------------- MODULE MCQuorumGate ----------------------------
EXTENDS QuorumGate
=============================================================================
