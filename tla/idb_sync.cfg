SPECIFICATION FairSpec
CONSTANTS
  MaxPath = 2
  Parent <- MCParent
  Ids = {s1, s2}
  None = None
  MaxTime = 1
INVARIANTS CallbacksCounted
PROPERTIES SuccessMeansSynced SyncEnds
CHECK_DEADLOCK FALSE
