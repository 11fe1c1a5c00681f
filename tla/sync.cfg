SPECIFICATION Spec
CONSTANTS
  Orders <- MCOrders
  Reach <- MCReach
  Placed = {1}
  Rows = {item}
  Cycles = {loop, button}
  CloudAhead = 0
  CloudSweeps = TRUE
  MaxBatch = 1
  MaxOpen = 1
  MaxChanges = 2
  MaxCycles = 2
  MaxCrashes = 1
INVARIANT NothingLeftBehind
 
SYMMETRY MCSymmetry
CHECK_DEADLOCK FALSE
