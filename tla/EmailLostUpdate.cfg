SPECIFICATION EmailSpec
CONSTANTS
  Nothing = Nothing
  Emails = {a}
  Links = {l1}
  Requests = {r1, r2}
PROPERTY ClearedDeadlineStaysAway
CHECK_DEADLOCK FALSE
