SPECIFICATION LiveSpec
CONSTANTS
  t1 = t1
  Tills = {t1}
  Obedient = TRUE
  MaxIntents = 2
  MaxPresses = 3
  Tablets = {k1, k2}
  Names = {dal, naan}
  Ids = {x1}
  MustTryLimit = 1
  Granted = 1
  MaxDishes = 3
  MaxRequests = 3
  MinutesADay = 3
  MaxWindows = 2
CHECK_DEADLOCK FALSE
INVARIANTS OneCharge CapsHold OpensWhenSaid
PROPERTIES ChargedStopsWaiting ImportIsTheFile
