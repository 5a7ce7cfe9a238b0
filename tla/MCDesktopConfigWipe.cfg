CONSTANTS
  q1 = q1
  q2 = q2
  Requests = {q1, q2}
  a = a
  b = b
  t1 = t1
  t2 = t2
  Servers = {a, b}
  Tokens = {t1, t2}
  Users = {u}
  Keys = {k}
  Empty = Empty
  MaxEdits = 3
  MaxFaults = 1
  None = None
  MaxTokens = 4
  MaxPrompts = 2
  MaxTokenFaults = 2
SYMMETRY MCSymmetry
SPECIFICATION MCSpec
PROPERTY ServersLeaveOnlyWhenDeleted
CHECK_DEADLOCK FALSE
