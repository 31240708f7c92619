SPECIFICATION FlowSpec
CONSTANTS
  Users = {u1}
  Communities = {c1}
  JoinSubs = {joined}
  LeaveSubs = {left}
  Recalcs = {}
  Strides = {}
  MaxArrivals = 2
  MaxMessages = 2
  MaxRecalcs = 0
  MaxFaults = 1
  MaxDay = 0
  NoOne = NoOne
  Instances = {e1, e2}
  Callers = {bot}
  ChatIdColumn = TRUE
  MaxLost = 1
  MaxAttempts = 2
  u1 = u1
  c1 = c1
  joined = joined
  left = left
  e1 = e1
  e2 = e2
  bot = bot
SYMMETRY Same
INVARIANT FlowTypeOK
INVARIANT PaidAsTold
INVARIANT AnswersWhatWasTold
CHECK_DEADLOCK FALSE
