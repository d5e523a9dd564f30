SPECIFICATION FairEventsSpec
CONSTANTS
  j1 = j1
  u1 = u1
  User = {u1}
  NoUser = NoUser
  SystemUser = SystemUser
  JobOwner = u1
  Job = {j1}
  Stream = {s1, s2}
  JobOf <- OneJob
  NoEvent = NoEvent
  MaxVersion = 3
  MaxInbox = 2
CHECK_DEADLOCK FALSE
INVARIANTS
  EventsTypeOK
  PushKept
PROPERTIES
  UpdatesShown
