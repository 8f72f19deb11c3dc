SPECIFICATION FairSpec
CONSTANTS
  c1 = c1
  c2 = c2
  Candidates = {c1, c2}
  None = None
  LeaseDuration = 8
  RenewDeadline = 4
  RetryPeriod = 2
  MaxDelay = 1
  MaxFaults = 2
INVARIANTS TypeOK OneLeader
PROPERTIES ImplementsMastership StableLeader LeaderKnows
