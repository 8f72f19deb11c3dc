SPECIFICATION Spec
CONSTANTS
  p1 = p1
  p2 = p2
  p3 = p3
  None = None
  PRs <- TwoPRs
  Order <- InOrder
  InitLabels <- ReadyLabels
  ToggledLabels = {"retest-not-required"}
  Disruptions = {"push", "ci", "api", "slow", "jobs", "stop", "label", "conflict"}
  MaxHead = 1
  MaxDisruptions = 2
  MaxBatches = 0
  MaxBatchSize = 2
  GateApproved = FALSE
  RetestRequired = TRUE
INVARIANTS TypeOK RetestOnTestedBase QueueAccounting RunningIsUnderTest
