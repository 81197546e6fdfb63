SPECIFICATION CredentialsSpec
CONSTANTS
  None = None
  Tokens = {t1, t2}
  Users = {u1}
  Procs = {p1, p2}
  Browsers = {b1, b2}
  Lifetimes = {1, 2}
  MaxTime = 2
  Person = {u1}
  Passkey = {k1}
  Owner <- OwnedByOne
  Ceremony = {e1, e2, e3}
  Worker = {w1}
  Timeout = 1
  FreshLogin = 1
  ProofLifetime = 3
  MaxClock = 4
  Token = {v1, v2, v3}
  Renewal = {r1, r2}
  Window = 1
  Validity = {2}
  MaxDay = 3
  NoRow = NoRow
  Absent = Absent
  SignupTokens = {old, new}
  Migrated = {old}
  Signups = {s1, s2}
  Limits = {2}
  SignupLifetimes = {1}
  MaxAccounts = 2
  Horizon = 1
INVARIANTS
  FailureKeepsToken
  PasskeysAreNeeded
  RenewalIsComplete
  AccountsAreEarned
PROPERTIES
  LoginCodeIsTicket
