CONSTANTS
  onBase = onBase
  onSolana = onSolana
  Requests = {r1, r2}
  Keys = {k1}
  Hashes = {onBase, onSolana}
  Network <- Networks
  TopUps = {t1}
  Opening = 1
  Stock = 1
  Credit = 1
  MaxNonce = 2
  MaxFlips = 1
  MaxFaults = 1
  Nobody = nobody
  V1 = {a1}
  V2 = {b1}
  Prints = {v1, v2}
  MaxChanges = 2
  MaxPolls = 2
SPECIFICATION SideSpec
INVARIANTS PayerSound UpiPaidOnce UpiReports
PROPERTY SwitchHolds
SYMMETRY Symmetry
CHECK_DEADLOCK FALSE
