SPECIFICATION LiveSpec
CONSTANTS
  i1 = i1  none = none
  a1 = a1  w1 = w1
  Intents = {i1}
  NoIntent = none
  ApiTasks = {a1}
  WorkerTasks = {w1}
  SplitTiming = "ON_ACKNOWLEDGED"
  Provider = "stub"
  AmbiguousStatus = FALSE
  CrashingTasks = {a1}
  MaxCrashes = 1
  NoticeKinds = {"PAYMENT_EXPIRED", "PAYMENT_CAPTURED"}
  MaxNotices = 1
  KitchenReach = {"DISPATCHED", "DISPATCH_FAILED", "ACKNOWLEDGED", "PREPARING", "READY", "COLLECTED", "REJECTED"}
CHECK_DEADLOCK FALSE
PROPERTIES PaidOrderStopsWaiting ReferencedMoneyIsCaptured
