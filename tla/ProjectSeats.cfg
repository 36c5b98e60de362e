SPECIFICATION FairSpec
CONSTANTS
  Projects = {p1, p2, p3}
  Requests = {r1, r2}
  NoProject = NoProject
  Nobody = Nobody
  Limit = 1
  MaxRev = 2
INVARIANTS
  SeatsRespected
PROPERTIES
  NoLostUpdate
  EveryRequestEnds
CHECK_DEADLOCK FALSE
