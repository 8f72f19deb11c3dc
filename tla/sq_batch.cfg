SPECIFICATION Spec
CONSTANTS
  p1 = p1
  p2 = p2
  p3 = p3
  None = None
  PRs <- ThreePRs
  Order <- InOrder
  InitLabels <- ReadyLabels
  ToggledLabels = {}
  Disruptions = {"api"}
  MaxHead = 0
  MaxDisruptions = 1
  MaxBatches = 1
  MaxBatchSize = 2
  GateApproved = FALSE
  RetestRequired = FALSE
INVARIANTS LockIsHeldByOwner BatchOnTestedBase
