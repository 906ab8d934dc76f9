------------------------ MODULE MCNamespaceOwnership ------------------------
EXTENDS NamespaceOwnership
=============================================================================
