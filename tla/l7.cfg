SPECIFICATION Spec
CONSTANTS
  c1 = c1
  c2 = c2
  e1 = e1
  e2 = e2
  e3 = e3
  Certs = {c1, c2}
  Ephemeral = {e1, e2, e3}
  UserIP = UserIP
  None = None
  MaxChanges = 3
  MaxFails = 1
  MaxForgets = 1
INVARIANTS TypeOK RightOrder
PROPERTIES KeepsTrack HttpServed HttpsServed CleanedUp
CHECK_DEADLOCK FALSE
