SPECIFICATION MCSpec
CONSTANTS
  Nothing = Nothing
  Emails = {a, b}
  Links = {l1, l2}
  Requests = {r1, r2}
SYMMETRY Symmetry
INVARIANTS
  LinksKeepTheirWord
  VerifiedIsProven
PROPERTIES
  OnlyStaleSavesUnverify
CHECK_DEADLOCK FALSE
