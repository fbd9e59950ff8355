SPECIFICATION Spec

SYMMETRY TrailSymmetry

CONSTANTS
  Agents = {a1, a2}
  Ids = {d1, d2, d3}
  NoId = NoId
  ParamChoices <- MCParams
  Sizes = {2}
  Confidences <- MCConfidences
  Entries = {2}
  Fills = {1, 3}
  PRICE_SCALE = 2
  MAX_TRADES = 2
  LastDay = 2

INVARIANTS
  TypeOK
  TrailConsistent
  QuotaPerDay

PROPERTIES
  NoDecisionPastLoss
  LedgerKept
