------------------------- MODULE MCPrimaryRollout --------------------------
EXTENDS PrimaryRollout
=============================================================================
