CONSTANTS
  Requests = {r1, r2}
  Jobs = {j1}
  Pollers = {payer, cron}
  Payer = payer
  Routes = {"relay", "held", "bridge", "tempo"}
  PerDay = 1
  MaxFaults = 1
  Nobody = nobody
  MaxCodes = 2
  MaxOps = 2
  TopUp = 2
  MaxAsks = 2
  MaxAdmin = 1
SPECIFICATION SideSpec
INVARIANTS ChargeSettled ChargeLimits CouponsBacked CouponsOnce
SYMMETRY Symmetry
CHECK_DEADLOCK FALSE
