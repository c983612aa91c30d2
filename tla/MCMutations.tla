--------------------------- MODULE MCMutations ---------------------------
EXTENDS Mutations
=============================================================================
