SPECIFICATION FairSpec
CONSTANTS
  Instances = {i1, i2}
  Registered = {c1}
  Campaigns = {k1}
  Users = {u1}
  NoId = NoId
  Windows = {1, 2}
  DefaultWindow = 2
  InitialStatuses = {"pending"}
  ChatIdColumn = TRUE
  ApiListeners = TRUE
  MaxMessages = 2
  MaxAdmin = 2
  MaxFaults = 1
  MaxCrashes = 1
  c1 = c1
  i1 = i1
  i2 = i2
  k1 = k1
  u1 = u1
INVARIANT TypeOK
INVARIANT MembersAreBacked
INVARIANT OneTimerPerParticipant
INVARIANT RecordedWhereApproved
INVARIANT CheckedAfterWindow
PROPERTY EveryParticipantIsSettled
PROPERTY JoinsAreRecorded
