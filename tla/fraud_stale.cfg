SPECIFICATION FairSpec
CONSTANTS
  Users = {u1}
  Communities = {c1}
  JoinSubs = {joined}
  LeaveSubs = {left}
  Recalcs = {}
  Strides = {}
  MaxArrivals = 2
  MaxMessages = 4
  MaxRecalcs = 0
  MaxFaults = 0
  MaxDay = 0
  NoOne = NoOne
  u1 = u1
  c1 = c1
  joined = joined
  left = left
PROPERTY StaleScoreIsRecalculated
CHECK_DEADLOCK FALSE
