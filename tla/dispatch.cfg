SPECIFICATION LiveSpec
CONSTANTS
  o1 = o1  o2 = o2  v1 = v1  w1 = w1  w2 = w2
  Orders = {o1, o2}
  Vendors = {v1}
  VendorOf <- OneStall
  Workers = {w1}
  NoRow = NoRow
  MaxAttempts = 2
  MaxCrashes = 1
CHECK_DEADLOCK FALSE
INVARIANTS DispatchedIsWatched OneTicket
PROPERTIES TicketIsAnswered BlockIsLifted
