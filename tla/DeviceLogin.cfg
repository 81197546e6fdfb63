SPECIFICATION LoginFairSpec
CONSTANTS
  c1 = c1
  c2 = c2
  d1 = d1
  d2 = d2
  u1 = u1
  u2 = u2
  p1 = p1
  p2 = p2
  Nothing = Nothing
  Codes = {c1}
  Devices = {d1, d2}
  People = {u1, u2}
  Calls = {p1, p2}
  MaxProofs = 1
INVARIANTS
  SessionWasApproved
PROPERTIES
  WaitingDeviceIsTicket
  ApprovedDeviceSignsIn
