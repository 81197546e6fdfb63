SPECIFICATION FairSpec
CONSTANTS
  i1 = i1
  i2 = i2
  u1 = u1
  u2 = u2
  p1 = p1
  p2 = p2
  openid = openid
  email = email
  None = None
  Interactions = {i1}
  Users = {u1}
  Procs = {p1}
  Scopes = {openid, email}
  OpenID = openid
  Clients <- StrictClient
  AllowedUsers = {u1}
  Provers = {u1}
PROPERTIES
  InteractionEnds
CHECK_DEADLOCK FALSE
