SPECIFICATION CheckpointSpec
CONSTANTS
  Services = {s1, s2}
  Apis = {s1}
  Txns = {t1, t2, w1}
  Webhooks = {w1}
  Nobody = Nobody
  Missing = Missing
  Retries = 2
  MaxFaults = 3
INVARIANTS AckedIsCheckpointed BundleIsOneCommit
PROPERTY FailClosed
CHECK_DEADLOCK FALSE
