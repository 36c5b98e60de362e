SPECIFICATION FairSpec
CONSTANTS
  Orders = {o1}
  Workers = {w1, w2}
  NoOrder = NoOrder
  NoWorker = NoWorker
  MaxAttempts = 2
  MaxFaults = 2
INVARIANTS
  CreateAtMostOnce
  NoForgottenLicense
  RevocationIsJustified
  IssuedIsBacked
PROPERTIES
  CancelledNeverCrosses
  FencedWorkerIsHarmless
  RowIsNeverStranded
CHECK_DEADLOCK FALSE
