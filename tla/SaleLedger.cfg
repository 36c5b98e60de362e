SPECIFICATION Spec
CONSTANTS
  Orders = {o1, o2}
  PayPalTx = {t1}
  Events = {e1}
  NoTx = NoTx
  NoOrder = NoOrder
  EarlyLimit = 1
  MaxAttempts = 2
  MaxCrashes = 1
INVARIANT EarlyPlaces PaymentBacked
PROPERTY SaleOnlyAdvances SettledIsKept
CHECK_DEADLOCK FALSE
