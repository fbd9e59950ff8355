SPECIFICATION FairSpec

CONSTANTS
  t1 = t1
  t2 = t2
  log1 = log1
  log2 = log2
  record1 = record1
  record2 = record2
  halt = halt
  clear = clear
  attest = attest
  Trades = {t1, t2}
  Calls <- MCCalls
  Kind <- MCKind
  DecisionOf <- MCDecisionOf
  NoCall = NoCall
  LogOf <- MCLogOf
  RecordOf <- MCRecordOf
  Markets <- MCMarkets
  NoMarket = NoMarket
  Instruments <- MCInstruments
  EnableMomentum = TRUE
  Allowed = {}
  FloorBps = 6000
  MinConfidenceBps = 6000
  MultiplierBps = 10000
  KellyBps = 5000
  MaxPosition = 5000
  Equities = {1, 2, 3, 4}
  FirstEquity = 3
  LossLimit = 2
  LastDay = 1
  MaxMishaps = 2
  Budget = 2

INVARIANTS
  TypeOK
  AnswersAreTrue
  NoncesApart
  HaltStands
  OrdersAreLogged
  ListedIsOnTrail
  LiftedOnChain
  NetLossTripped
  EvidenceIsIndependent
  OrderWithinDecision

PROPERTIES
  LogRefined
  ChainIsLedger
  CallsReturn
  CyclesEnd

CHECK_DEADLOCK FALSE
