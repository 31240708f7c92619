SPECIFICATION Spec
CONSTANTS
  Users = {u1}
  Communities = {c1}
  JoinSubs = {joined, event_join}
  LeaveSubs = {left}
  Recalcs = {admin}
  Strides = {6, 7}
  MaxArrivals = 3
  MaxMessages = 3
  MaxRecalcs = 1
  MaxFaults = 1
  MaxDay = 7
  NoOne = NoOne
  u1 = u1
  c1 = c1
  joined = joined
  event_join = event_join
  left = left
  admin = admin
SYMMETRY Same
INVARIANT TypeOK
INVARIANT CountersAgree
INVARIANT RejoinsAreCounted
INVARIANT LoopIsReported
CHECK_DEADLOCK FALSE
