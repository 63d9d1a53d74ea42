\* Expects a violation: the map of proxies is written without the lock.
SPECIFICATION Spec
CONSTANTS
  Workers = {w1, w2}
  Proxies = {x1, x2, x3}
  NoWorker = NoWorker
  NoProxy = NoProxy
  MaxWorkers = 1
  MaxEnding = 1
CHECK_DEADLOCK FALSE
INVARIANT
  MapNeverRaces
