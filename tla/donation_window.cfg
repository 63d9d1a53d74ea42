\* Expects a violation: NextJob() inside donate(), all jobs well formed.
SPECIFICATION Spec
CONSTANTS
  Workers = {w1}
  Requests = {}
  PoolJobs = {p1}
  DonorJobs = {d1}
  NoJob = NoJob
  BadJobs = {}
  BadLogins = {}
  Nonces = {n1}
  BadNonces = {}
  NotifyBuffer = 1
  MaxWorkers = 1
  DonateLevel = 2
  ShareValidation = 2
CHECK_DEADLOCK FALSE
INVARIANT
  NextJobHasAJob
