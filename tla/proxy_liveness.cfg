\* Progress under the fairness of Go's select: one worker, one submit of a good
\* or malformed share, one job per server, jobs delivered in any order.  No
\* symmetry.
SPECIFICATION DFairSpec
CONSTANTS
  Workers = {w1}
  Requests = {r1}
  PoolJobs = {p1}
  DonorJobs = {d1}
  NoJob = NoJob
  BadJobs = {}
  BadLogins = {}
  Nonces = {n1}
  BadNonces = {b1}
  NotifyBuffer = 1
  MaxWorkers = 1
  DonateLevel = 2
  ShareValidation = 2
CHECK_DEADLOCK FALSE
INVARIANT
  MinesTheSource
PROPERTIES
  SubmitAnswered
  LostPoolEndsProxy
  DonationEnds
  HandshakesEnd
  WorkersComeBack
