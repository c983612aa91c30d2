--------------------------- MODULE MCConnectionLoop ---------------------------
EXTENDS ConnectionLoop
=============================================================================
