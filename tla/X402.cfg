CONSTANTS
  Requests = {r1, r2}
  c1 = c1
  c2 = c2
  Calls = {c1, c2}
  Quote <- Quotes
  Signed = 101
  Tolerance = 1
  Nobody = nobody
  MaxFaults = 1
  Retrying = {r1}
SPECIFICATION SideSpec
INVARIANTS PayloadOnce SettlementTold
PROPERTIES LandedIsRecorded HoldsEnd
CHECK_DEADLOCK FALSE
