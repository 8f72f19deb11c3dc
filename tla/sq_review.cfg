SPECIFICATION Spec
CONSTANTS
  p1 = p1
  p2 = p2
  p3 = p3
  None = None
  PRs <- TwoPRs
  Order <- InOrder
  InitLabels <- ReadyLabels
  ToggledLabels = {"lgtm"}
  Disruptions = {"push", "label", "conflict"}
  MaxHead = 1
  MaxDisruptions = 2
  MaxBatches = 1
  MaxBatchSize = 2
  GateApproved = FALSE
  RetestRequired = FALSE
INVARIANTS BatchIsReviewed CommitsReadAreReviewed
