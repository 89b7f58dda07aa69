------------------------- MODULE MCSessionEventLog -------------------------
EXTENDS SessionEventLog
=============================================================================
