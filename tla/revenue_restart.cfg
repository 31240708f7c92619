SPECIFICATION FairSpec
CONSTANTS
  Instances = {i1}
  Triggers = {}
  Serves <- MCServes
  RevIds = {r1}
  Registered = {c1}
  Campaigns = {k1}
  Totals = {0, 3}
  Types = {"group", "channel"}
  Scores = {50}
  Members = {}
  ActivityScores = {0}
  ChatIdColumn = FALSE
  MongoConnected = FALSE
  MaxEvents = 1
  MaxTriggers = 0
  MaxFaults = 0
  MaxCrashes = 1
  NoId = NoId
  c1 = c1
  i1 = i1
  k1 = k1
  r1 = r1
PROPERTY RevenueIsDivided
CHECK_DEADLOCK FALSE
