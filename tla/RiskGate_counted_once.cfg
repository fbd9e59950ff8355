SPECIFICATION Spec

CONSTANTS
  Callers = {c1, c2}
  MaxDailyTrades = 2
  MaxDailyLoss = 1
  Losses = {1}
  Orders <- RaceOrders
  LastDay = 0
  MaxSends = 2
  MaxBooked = 1

INVARIANT
  EveryApprovalCounted
