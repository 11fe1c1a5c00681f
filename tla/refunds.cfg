SPECIFICATION GrantingSpec
CONSTANTS
  Orders = {o1, o2}
  Workers = {w1, w2}
  Running = {w1}
  NoOrder = none
  VendorDirect = {o2}
  Mispriced = {}
  MaxAttempts = 2
  Provider = "stub"
  Notices = {"returned", "declined"}
  Reach = {"DISPATCHED", "DISPATCH_FAILED", "ACKNOWLEDGED", "REJECTED"}
  MaxCrashes = 1
CHECK_DEADLOCK FALSE
INVARIANTS OneRefundPerOrder NoFoodAndMoney RefundedIsReturned PendingRefundIsScheduled
PROPERTIES OwedRefundIsOpened RefundIsSettled
