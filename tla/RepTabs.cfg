\* A tab mutates and both pull; either may be closed, or frozen for so long that its
\* client is collected.
SPECIFICATION FairSpec
CONSTANTS
  Clients = {c1, c2}
  Writers = {c1}
  MaxMutations = 1
  MaxCookie = 1
  Environment = {"pull", "close", "freeze"}
  None = None

INVARIANTS ChainsContiguous ChunksKept
PROPERTIES TabForward GroupForward TabsConverge
\* The server reaches MaxCookie and all tabs are closed.
CHECK_DEADLOCK FALSE
