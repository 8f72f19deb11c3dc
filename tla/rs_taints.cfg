SPECIFICATION FairSpec
CONSTANTS
  p1 = p1
  p2 = p2
  n1 = n1
  Critical = {p1, p2}
  Nodes = {n1}
  Slots <- SmallSlots
  None = None
  MaxFaults = 3
INVARIANTS TypeOK RoomIsMade
PROPERTIES CriticalScheduled TaintsReleased
