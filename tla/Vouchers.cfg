CONSTANTS
  Requests = {r1, r2}
  Challenges = {c1, c2}
  Finishers = {f1, f2}
  Amounts = {1, 2}
  NoOne = NoOne
  MaxFaults = 1
  Cron = Cron
  Nobody = Nobody
  PlayDeposit = 2
  Threshold = 1
  MaxCalls = 2
  OldDeposit = 1
  NewDeposit = 2
  TopUp = 2
  Low = 2
SPECIFICATION SideSpec
INVARIANTS WatermarkExact TruthfulAnswers SessionPays SessionMoves ChannelPays ChannelLoss
PROPERTY OneEnd
SYMMETRY Symmetry
CHECK_DEADLOCK FALSE
