SPECIFICATION Spec
CONSTANTS
  j1 = j1
  j2 = j2
  u1 = u1
  Job = {j1, j2}
  Worker = {w1, w2}
  User = {u1}
  NoUser = NoUser
  SystemUser = SystemUser
  NoJob = NoJob
  TypeOf <- TwoTypes
  MaxAttempts <- RetryFirst
  Owner <- OwnBoth
  Faults = {}
  MaxCrashes = 0
  MaxReposts = 0
CHECK_DEADLOCK FALSE
INVARIANTS
  CancelIsFinal
