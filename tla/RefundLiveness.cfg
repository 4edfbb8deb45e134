CONSTANTS
  Payments = {p1}
  NoLease = NoLease
  NoTx = NoTx
  LeaseIds = {l1, l2}
  Signer = signer
  Executors = {}
  MaxLag = 1
  Retention = 3
  FirstTime = 3
  MaxTime = 7
  MaxSeq = 2
  Grace = 1
  Validity = 1
  MaxSkew = 0
  MaxUnparks = 0
  FatalOnlyWhenAbsent = TRUE
  ProxyFaults = FALSE
  PromptStore = FALSE
SPECIFICATION SignerFairSpec
PROPERTY SubmittedIsLeftWhileRemembered
