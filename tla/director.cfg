\* Two connections, proxies of one place each, one proxy ending at a time.
\* No symmetry: the run checks liveness.
SPECIFICATION FairSpec
CONSTANTS
  Workers = {w1, w2}
  Proxies = {x1, x2, x3}
  NoWorker = NoWorker
  NoProxy = NoProxy
  MaxWorkers = 1
  MaxEnding = 1
CHECK_DEADLOCK FALSE
INVARIANTS
  NoWorkerAbandoned
PROPERTIES
  OnlyWhenNeeded
  NextProxyReturns
  AddedOrEnded
  UsesService
