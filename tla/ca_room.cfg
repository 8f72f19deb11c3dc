SPECIFICATION Spec
CONSTANTS
  n1 = n1
  n2 = n2
  n3 = n3
  p1 = p1
  p2 = p2
  p3 = p3
  g1 = g1
  NoGroup = NoGroup
  Nodes <- ThreeNodes
  Groups = {g1}
  GroupOf <- OneGroup
  MinSize <- OneEach
  MaxSize <- ThreeEach
  MaxNodesTotal = 0
  MaxEmptyBulkDelete = 2
  Capacity = 2
  Threshold = 2
  UnneededTime = 1
  ScaleDownDelay = 1
  TrialInterval = 1
  maxUsageRecorded = 1
  Expander = "most-pods"
  Pods = {p1, p2, p3}
  Standalone = {p3}
  InitNodes <- ThreeNodes
  InitPod <- Spread
  Disruptions = {"api", "crash"}
  MaxDisruptions = 1
INVARIANTS TypeOK UsesAreCovered
PROPERTIES RoomNotPromisedTwice
