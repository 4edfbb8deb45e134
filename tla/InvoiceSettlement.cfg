SPECIFICATION SideSpec
CONSTANTS
  Orders = {o1, o2}
  Procs = {p1, p2}
  MaxEvents = 2
  MaxReplays = 1
  MaxClears = 1
  MaxFaults = 1
  StripeInvoices = {"i1"}
  StripeSiblings = {"s1"}
  StripeHandlers = {h1, h2}
  DailyCap = 2
  MaxAutoRetries = 1
  GoneEscalate = 1
  MaxAdminRetries = 1
  MaxThrows = 1
SYMMETRY Symmetry
INVARIANTS PaidByOne RefusedStaysIndexed StripePermit StripeBooks
CHECK_DEADLOCK FALSE
