SPECIFICATION Spec

SYMMETRY UserSymmetry

CONSTANTS
  Users = {u1, u2}
  Agents = {a1}
  FirstAgent = a1
  Candidates = {}
  None = None
  MIN_DEPOSIT = 2
  MAX_TVL = 10
  ATTEST_TIMELOCK = 1
  MAX_ATTESTATION_DELTA_BPS = 9000
  VIRTUAL_ASSETS = 2
  VIRTUAL_SHARES = 2
  AGENT_TRANSFER_TIMELOCK = 1
  AGENT_ROTATION_TIMELOCK = 9
  WITHDRAWAL_DEADLINE = 1
  WITHDRAWAL_RATE_LIMIT = 1
  Amounts = {1, 2}
  Valuations = {1, 4, 6}
  Genesis = 1
  EndOfTime = 3
  MaxRequests = 2
  MaxTransfers = 1
  MaxCash = 4

INVARIANTS
  TypeOK
  BooksBalance

PROPERTIES
  WithdrawalsSettleOnce
  SharePriceKept
  ReserveStaysCovered
