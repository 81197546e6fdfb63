SPECIFICATION FairSpec
CONSTANTS
  r1 = r1
  u1 = u1
  u2 = u2
  p1 = p1
  p2 = p2
  p3 = p3
  openid = openid
  email = email
  None = None
  Requests = {r1}
  Users = {u1, u2}
  Procs = {p1, p2, p3}
  Scopes = {openid, email}
  OpenID = openid
  RequiresReauthentication = TRUE
INVARIANTS
  TokensFollowApproval
PROPERTIES
  DeviceCodeIsTicket
  ApprovedDeviceGetsTokens
