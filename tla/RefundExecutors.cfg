CONSTANTS
  Payments = {p1}
  NoLease = NoLease
  NoTx = NoTx
  LeaseIds = {l1, l2}
  Signer = signer
  Executors = {}
  MaxLag = 1
  Retention = 3
  FirstTime = 3
  MaxTime = 8
  MaxSeq = 3
  Grace = 1
  Validity = 1
  MaxSkew = 0
  MaxUnparks = 1
  FatalOnlyWhenAbsent = TRUE
  ProxyFaults = TRUE
  PromptStore = FALSE
SPECIFICATION SideSpec
INVARIANTS NoDoubleRefund LiveEnvelopeOnRecord ScriptSafe
PROPERTIES ConfirmedIsFinal KeepsPromise
SYMMETRY Symmetry
