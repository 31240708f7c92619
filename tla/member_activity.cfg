SPECIFICATION Spec
CONSTANTS
  Members = {m1, m2, m3}
  Batches <- MCBatches
  Pools <- MCPools
  MaxBatches = 3
  MaxDay = 46
  Strides = {15, 16}
  m1 = m1
  m2 = m2
  m3 = m3
SYMMETRY Users
INVARIANT TypeOK
INVARIANT PoolIsSpent
INVARIANT MoreActivityMorePay
PROPERTY QuietMembersMakeRoom
CHECK_DEADLOCK FALSE
