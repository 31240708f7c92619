SPECIFICATION FairSpec
CONSTANTS
  Users = {1, 2, 3}
  Movers = {1}
  Communities = {c1}
  Names = {"", "n"}
  Imported <- MCImported
  Holders <- MCHolders
  Past <- MCPast
  Renamings <- MCRenamings
  FirstDay = 60
  JoinSubs = {joined}
  LeaveSubs = {left}
  ActivitySubs = {talked}
  ProfileSubs = {renamed}
  CampaignSubs = {completed}
  Batch = Batch
  Recalcs = {admin}
  BatchSize = 2
  Strides = {45}
  MaxEvents = 2
  MaxDay = 105
  MaxBusy = 2
  NoJob = NoJob
  c1 = c1
  joined = joined
  left = left
  talked = talked
  renamed = renamed
  completed = completed
  admin = admin
INVARIANT TypeOK
INVARIANT BatchVisitsEachOnce
PROPERTY LeavingNeverHelps
PROPERTY StayingIsTrusted
PROPERTY TrustCatchesUp
CHECK_DEADLOCK FALSE
