SPECIFICATION Spec
CONSTANTS
  p1 = p1
  p2 = p2
  p3 = p3
  None = None
  PRs <- TwoPRs
  Order <- InOrder
  InitLabels <- ReadyLabels
  ToggledLabels = {}
  Disruptions = {"push"}
  MaxHead = 1
  MaxDisruptions = 1
  MaxBatches = 0
  MaxBatchSize = 2
  GateApproved = FALSE
  RetestRequired = TRUE
INVARIANTS ReviewedAtMerge
