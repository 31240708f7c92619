SPECIFICATION Spec
CONSTANTS
  Requests = {q1, q2, q3}
  Chats = {x1, x2}
  Links = {"", "invite", "old"}
  Types = {"group", "channel"}
  Hashes = {"", "h"}
  Stored = {old}
  StoredRows <- MCStoredRows
  Hours = {0, 24, 200}
  MaxFaults = 1
  MaxAdmin = 1
  None = None
  q1 = q1
  q2 = q2
  q3 = q3
  old = old
  x1 = x1
  x2 = x2
SYMMETRY Same
INVARIANT TypeOK
INVARIANT RegistersBySchema
CHECK_DEADLOCK FALSE
