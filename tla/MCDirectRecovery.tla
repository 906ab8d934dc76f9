------------------------- MODULE MCDirectRecovery -------------------------
EXTENDS DirectRecovery
===========================================================================
