SPECIFICATION Spec

SYMMETRY CallerSymmetry

CONSTANTS
  Callers = {c1, c2}
  MaxDailyTrades = 1
  MaxDailyLoss = 2
  Losses = {0, 1, 2}
  Orders <- MCOrders
  LastDay = 1
  MaxSends = 2
  MaxBooked = 2

INVARIANTS
  TypeOK
  LossIsVisible
  BreachedDayAdmitsNothing
  QuotaHeld
  StoreIsExact
  CacheNeverAhead

PROPERTY
  NoSendPastBreach
