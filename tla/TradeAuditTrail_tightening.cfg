SPECIFICATION Spec

CONSTANTS
  Agents = {a1}
  Ids = {d1, d2}
  NoId = NoId
  ParamChoices <- CapParams
  Sizes = {1, 2}
  Confidences = {1}
  Entries = {2}
  Fills = {1, 3}
  PRICE_SCALE = 2
  MAX_TRADES = 2
  LastDay = 2

INVARIANT
  NeverLoosened
