SPECIFICATION FairSpec
CONSTANTS
  n1 = n1
  n2 = n2
  n3 = n3
  p1 = p1
  p2 = p2
  p3 = p3
  g1 = g1
  NoGroup = NoGroup
  Nodes = {n1, n2}
  Groups = {g1}
  GroupOf <- OneGroup
  MinSize <- OneEach
  MaxSize <- ThreeEach
  MaxNodesTotal = 2
  MaxEmptyBulkDelete = 2
  Capacity = 1
  Threshold = 2
  UnneededTime = 0
  ScaleDownDelay = 1
  TrialInterval = 1
  maxUsageRecorded = 2
  Expander = "random"
  Pods = {p1, p2, p3}
  Standalone = {}
  InitNodes <- OneNode
  InitPod <- OnlyFirst
  Disruptions = {"api", "create", "crash", "finish", "slow"}
  MaxDisruptions = 2
INVARIANTS SizesInBounds TotalInBounds
PROPERTIES GrowOnlyWhenComplete TaintReleased PodsGetNodes
