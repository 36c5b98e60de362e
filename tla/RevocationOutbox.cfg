SPECIFICATION Spec
CONSTANTS
  Orders = {o1}
  Workers = {w1, w2}
  NoOrder = NoOrder
  NoWorker = NoWorker
  MaxAttempts = 3
  Generations = 2
  MaxFaults = 3
INVARIANT DeliveredIsProven
PROPERTIES LostLeaseIsHarmless ImplementsDelivery
CHECK_DEADLOCK FALSE
