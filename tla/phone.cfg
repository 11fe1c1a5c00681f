SPECIFICATION PhoneLiveSpec
CONSTANTS
  d1 = d1  d2 = d2
  Diners = {d1, d2}
  Mask <- MCMask
  QrSessions = {q1}
  q1 = q1
  Stalls = {v1}
  v1 = v1
  CounterMode = TRUE
  Impatient = FALSE
  MaxOrders = 2
  MaxTaps = 2
  MaxLines = 1
  MaxTurns = 4
CHECK_DEADLOCK FALSE
INVARIANTS NoSecondOrder
PROPERTIES PaidScreenMovesOn
