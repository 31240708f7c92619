SPECIFICATION Spec
CONSTANTS
  Instances = {i1}
  Triggers = {t1}
  Serves <- MCServes
  RevIds = {r1}
  Registered = {c1}
  Campaigns = {k1}
  Totals = {0, 3}
  Types = {"group", "channel"}
  Scores = {50}
  Members = {}
  ActivityScores = {0}
  ChatIdColumn = FALSE
  MongoConnected = FALSE
  MaxEvents = 1
  MaxTriggers = 1
  MaxFaults = 0
  MaxCrashes = 0
  NoId = NoId
  c1 = c1
  i1 = i1
  k1 = k1
  r1 = r1
  t1 = t1
SYMMETRY Rows
INVARIANT PaidAtMostOnce
CHECK_DEADLOCK FALSE
