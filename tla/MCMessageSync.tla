--------------------------- MODULE MCMessageSync ---------------------------
EXTENDS MessageSync
CONSTANTS b, c
=============================================================================
