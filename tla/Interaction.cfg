SPECIFICATION MCSpec
CONSTANTS
  i1 = i1
  i2 = i2
  u1 = u1
  u2 = u2
  p1 = p1
  p2 = p2
  openid = openid
  email = email
  None = None
  Interactions = {i1, i2}
  Users = {u1, u2}
  Procs = {p1, p2}
  Scopes = {openid, email}
  OpenID = openid
  Clients <- BothClients
  AllowedUsers = {u1, u2}
  Provers = {u1, u2}
SYMMETRY Symmetry
INVARIANTS
  GrantedOnce
  ScreensHonoured
  GrantWithinApproval
CHECK_DEADLOCK FALSE
