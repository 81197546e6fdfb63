SPECIFICATION Spec
CONSTANTS
  r1 = r1
  r2 = r2
  t1 = t1
  t2 = t2
  t3 = t3
  t4 = t4
  p1 = p1
  p2 = p2
  u1 = u1
  c1 = c1
  None = None
  Requests = {r1}
  Tokens = {t1, t2, t3}
  Procs = {p1, p2}
  Users = {u1}
  Clients = {c1}
  UserOf <- OneUser
  ClientOf <- OneClient
  RefreshClients = {c1}
  Grace = 1
  CodeLife = 1
  AccessLife = 1
  RefreshLife = 1
  MaxTime = 1
SYMMETRY Symmetry
INVARIANTS
  RevokedClientHasNoAccess
