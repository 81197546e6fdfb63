SPECIFICATION SignupSpec
CONSTANTS
  Absent = Absent
  SignupTokens = {old}
  Migrated = {old}
  Signups = {s1}
  Limits = {1}
  SignupLifetimes = {2}
  MaxAccounts = 2
  Horizon = 1
INVARIANTS
  DeletedTokenStaysDeleted
