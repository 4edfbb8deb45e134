CONSTANTS
  Accounts = {a1}
  Intents = {i1, i2}
  CallIds = {c1}
  Payments = {p1, p2}
  Sessions = {s1, s2}
  None = None
  Callers = {q1, q2}
  Amounts = {2}
  Prices = {1}
  DayCap = 2
  GlobalCap = 3
  RatePerHour = 2
  MaxOpen = 2
  IntentTTL = 1
  Lease = 2
  SessionTTL = 1
  RenewalCap = 2
  HourLength = 1
  DayLength = 2
  MaxTime = 3
  HealthyCalls = TRUE
SPECIFICATION Spec
INVARIANTS SpendLimited CreditedOnce ChargedOnlyIfPaid LedgerSane
SYMMETRY Symmetry
CHECK_DEADLOCK FALSE
