SPECIFICATION Spec
CONSTANTS
  i1 = i1
  p1 = p1
  p2 = p2
  i2 = i2
  s1 = s1
  n1 = n1
  n2 = n2
  z1 = z1
  z2 = z2
  Ingresses = {i1, i2}
  Services = {s1}
  Rules <- SharedService
  Ports = {p1, p2}
  Default = Default
  Nodes = {n1, n2}
  Zones = {z1, z2}
  ZoneOf <- OneEach
  None = None
  InitIngresses = {i1}
  InitPort <- FirstPort
  MaxChanges = 2
  MaxFaults = 1
INVARIANTS TypeOK Tracked
PROPERTIES Served Collected
CHECK_DEADLOCK FALSE
