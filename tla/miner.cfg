SPECIFICATION Spec
CONSTANTS
  Threads = {t1, t2}
  Sockets = {s1, s2}
  Jobs = {j1, j2}
  Modes = {"ifExclusiveTab", "forceExclusiveTab", "forceMultiTab"}
  MaxTimers = 2
  MaxRequests = 1
  NoSocket = NoSocket
  NoJob = NoJob
CHECK_DEADLOCK FALSE
INVARIANTS
  OneRoundAtATime
  ResultFindsAJob
  ThreadsFollowTheJob
  SingleSocket
  NeverStranded
PROPERTIES
  StallsOnlyBeforeOpen
  ConnectsAgain
  JobIsMined
