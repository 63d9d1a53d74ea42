\* Share forwarding: one worker, two concurrent submits of well-formed shares,
\* and login replies whose job cannot be decoded.  Malformed shares are in
\* proxy_liveness.cfg.
SPECIFICATION Spec
CONSTANTS
  Workers = {w1}
  Requests = {r1, r2}
  PoolJobs = {p1, p2}
  DonorJobs = {d1, d2}
  NoJob = NoJob
  BadJobs = {}
  BadLogins = {"undecodable"}
  Nonces = {n1}
  BadNonces = {}
  NotifyBuffer = 1
  MaxWorkers = 1
  DonateLevel = 2
  ShareValidation = 2
SYMMETRY Symmetry
CHECK_DEADLOCK FALSE
INVARIANTS
  RoutedToIssuer
  NoStaleForwarded
