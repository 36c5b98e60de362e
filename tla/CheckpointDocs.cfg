SPECIFICATION CheckpointSpec
CONSTANTS
  Services = {s1, s2}
  Apis = {s1}
  Txns = {t1, w1}
  Webhooks = {w1}
  Nobody = Nobody
  Missing = Missing
  Retries = 1
  MaxFaults = 1
PROPERTY MismatchFailsClosed
CHECK_DEADLOCK FALSE
