SPECIFICATION MCSpec
CONSTANTS
  u1 = u1
  u2 = u2
  g1 = g1
  g2 = g2
  n1 = n1
  n2 = n2
  e1 = e1
  User = {u1, u2}
  Group = {g1, g2}
  Name = {n1, n2}
  Entry = {e1}
  NoEntry = NoEntry
  NoUser = NoUser
  NoGroup = NoGroup
  NoName = NoName
  NoCopy = NoCopy
  LdapGroup = g1
  DefaultGroups = {g2}
  MaxEdits <- Edits
  SoftDelete = {TRUE, FALSE}
  AbortsOnClash = FALSE
  MaxFetched = 1
  deliveryMaxAttempts = 2
  MaxFaults = 1
  InitUsers <- StartUsers
  InitGroups <- StartMembers
  InitDirectory <- StartDirectory
PROPERTIES
  DirectoryPrevails
  ProviderConverges
INVARIANTS
  LostAccessIsTold
  SkipIsSafe
