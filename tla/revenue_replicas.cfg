SPECIFICATION Spec
CONSTANTS
  Instances = {i1, i2}
  Triggers = {}
  Serves <- MCServes
  RevIds = {r1, r2}
  Registered = {c1}
  Campaigns = {k1}
  Totals = {7}
  Types = {"group", "channel"}
  Scores = {40, 80}
  Members = {m1, m2}
  ActivityScores = {0, 85}
  ChatIdColumn = TRUE
  MongoConnected = TRUE
  MaxEvents = 1
  MaxTriggers = 0
  MaxFaults = 1
  MaxCrashes = 1
  NoId = NoId
  c1 = c1
  i1 = i1
  i2 = i2
  k1 = k1
  m1 = m1
  m2 = m2
  r1 = r1
  r2 = r2
SYMMETRY Rows
INVARIANT PaidAtMostOnce
INVARIANT PaidWithOneScore
INVARIANT WithinTotal
INVARIANT RecordsWereSent
PROPERTY NothingAfterDistributed
PROPERTY KeepsLedger
CHECK_DEADLOCK FALSE
