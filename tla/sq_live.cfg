SPECIFICATION FairSpec
CONSTANTS
  p1 = p1
  p2 = p2
  p3 = p3
  None = None
  PRs <- TwoPRs
  Order <- InOrder
  InitLabels <- ReadyLabels
  ToggledLabels = {}
  Disruptions = {"jobs", "hand"}
  MaxHead = 0
  MaxDisruptions = 2
  MaxBatches = 0
  MaxBatchSize = 2
  GateApproved = FALSE
  RetestRequired = TRUE
PROPERTIES EventuallyMerged MergedLeavesQueue
