--------------------------- MODULE MCHostLifecycle ---------------------------
EXTENDS HostLifecycle
=============================================================================
