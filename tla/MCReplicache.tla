----------------------------- MODULE MCReplicache -----------------------------
EXTENDS Replicache
=============================================================================
