\* Job distribution: two workers, two jobs per server, no shares.
SPECIFICATION Spec
CONSTANTS
  Workers = {w1, w2}
  Requests = {}
  PoolJobs = {p1, p2}
  DonorJobs = {d1, d2}
  NoJob = NoJob
  BadJobs = {"undecodable", "truncated"}
  BadLogins = {}
  Nonces = {}
  BadNonces = {}
  NotifyBuffer = 1
  MaxWorkers = 2
  DonateLevel = 99
  ShareValidation = 2
SYMMETRY Symmetry
CHECK_DEADLOCK FALSE
INVARIANTS
  BroadcastNeverWaits
  CountMatches
  EmptyJobOnlyInWindow
PROPERTY
  CloseSparesLiveDonation
  ImplementsService
