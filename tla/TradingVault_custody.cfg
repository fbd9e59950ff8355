SPECIFICATION FairSpec

CONSTANTS
  Users = {u1}
  Agents = {a1, a2}
  FirstAgent = a1
  Candidates = {a1, a2}
  None = None
  MIN_DEPOSIT = 2
  MAX_TVL = 6
  ATTEST_TIMELOCK = 1
  MAX_ATTESTATION_DELTA_BPS = 9000
  VIRTUAL_ASSETS = 2
  VIRTUAL_SHARES = 2
  AGENT_TRANSFER_TIMELOCK = 1
  AGENT_ROTATION_TIMELOCK = 2
  WITHDRAWAL_DEADLINE = 1
  WITHDRAWAL_RATE_LIMIT = 1
  Amounts = {3}
  Valuations = {1, 3}
  Genesis = 1
  EndOfTime = 4
  MaxRequests = 2
  MaxTransfers = 0
  MaxCash = 3

PROPERTIES
  RotationAnnounced
  NoRequestBricked
