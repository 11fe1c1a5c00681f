SPECIFICATION WorkerLiveSpec
CONSTANTS
  o1 = o1  w1 = w1  w2 = w2
  Orders = {o1}
  Workers = {w1, w2}
  NoOrder = NoOrder
  Phoneless = {}
  OnCall = TRUE
  ReadyLimit = 2
  CustomerTiers <- MCCustomerTiers
  Prompt = TRUE
  MaxFaults = 1
CHECK_DEADLOCK FALSE
INVARIANTS OncePerTier
PROPERTIES ReadyIsTold AlertedIsPaged
