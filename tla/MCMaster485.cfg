\* Late answers and messages between and inside the exchanges.
SPECIFICATION MasterFairSpec
CONSTANTS
  Writer = {w1}
  Msg = {"start", "config2", "sync", "badsync"}
  Value = {5}
  MaxMsg = 2
  Resend = 2
  SyncFail = 3
  Points = 2
  MaxLate = 1
INVARIANT SyncStands
PROPERTIES SyncServed JobsEnd
