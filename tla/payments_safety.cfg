SPECIFICATION Spec
CONSTANTS
  i1 = i1  i2 = i2  none = none
  t1 = t1  t2 = t2
  Intents = {i1, i2}
  NoIntent = none
  ApiTasks = {t1, t2}
  WorkerTasks = {t1, t2}
  SplitTiming = "ON_CAPTURE"
  Provider = "stub"
  AmbiguousStatus = FALSE
  CrashingTasks = {}
  MaxCrashes = 0
  NoticeKinds = {"PAYMENT_FAILED"}
  MaxNotices = 1
  KitchenReach = {}
SYMMETRY Symmetry
CHECK_DEADLOCK FALSE
INVARIANTS ConfirmedOnlyOnMoney AtMostOneCharge WatchedWhilePayable FinishedMoneyMovesOrder
PROPERTIES ImplementsCheckout
