SPECIFICATION FairSpec
CONSTANTS
  Instances = {i1}
  Triggers = {t1}
  Serves <- MCServes
  RevIds = {r1, r2}
  Registered = {c1, c2}
  Campaigns = {k1}
  Totals = {0, 3}
  Types = {"group"}
  Scores = {50}
  Members = {}
  ActivityScores = {0}
  ChatIdColumn = FALSE
  MongoConnected = FALSE
  MaxEvents = 2
  MaxTriggers = 2
  MaxFaults = 0
  MaxCrashes = 1
  NoId = NoId
  c1 = c1
  c2 = c2
  i1 = i1
  k1 = k1
  r1 = r1
  r2 = r2
  t1 = t1
INVARIANT TypeOK
INVARIANT UniqueRevenue
INVARIANT OrphansUnpaid
INVARIANT OwnerPaidFirst
PROPERTY MessageIsPaid
CHECK_DEADLOCK FALSE
