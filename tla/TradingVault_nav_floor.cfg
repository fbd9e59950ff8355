SPECIFICATION Spec

CONSTANTS
  Users = {u1}
  Agents = {a1}
  FirstAgent = a1
  Candidates = {}
  None = None
  MIN_DEPOSIT = 2
  MAX_TVL = 1000
  ATTEST_TIMELOCK = 1
  MAX_ATTESTATION_DELTA_BPS = 1000
  VIRTUAL_ASSETS = 20
  VIRTUAL_SHARES = 20
  AGENT_TRANSFER_TIMELOCK = 1
  AGENT_ROTATION_TIMELOCK = 9
  WITHDRAWAL_DEADLINE = 1
  WITHDRAWAL_RATE_LIMIT = 1
  Amounts = {100}
  Valuations = {90, 110}
  Genesis = 1
  EndOfTime = 3
  MaxRequests = 2
  MaxTransfers = 0
  MaxCash = 200

INVARIANT
  ReserveWithinNav
