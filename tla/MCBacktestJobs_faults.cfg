SPECIFICATION Spec
CONSTANTS
  j1 = j1
  j2 = j2
  u1 = u1
  Job = {j1, j2}
  Worker = {w1, w2}
  User = {u1}
  NoUser = NoUser
  SystemUser = SystemUser
  NoJob = NoJob
  TypeOf <- SameType
  MaxAttempts <- RetryFirst
  Owner <- OwnBoth
  Faults = {"crash", "rollback", "store_error", "probe_error", "long_op"}
  MaxCrashes = 1
  MaxReposts = 1
CHECK_DEADLOCK FALSE
SYMMETRY Workers
INVARIANTS
  DispatchBalanced
  CompletedHasResults
  CancelIsFinalWithoutRetry
