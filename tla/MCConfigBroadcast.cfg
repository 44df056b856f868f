\* Two writers, a dedicated and a shared queue of two messages each.
SPECIFICATION BroadcastFairSpec
CONSTANTS
  Writer = {w1, w2}
  Consumer = {"tcp_client", "rtu_client"}
  Shared = {"rtu_client"}
  Blocking = {"tcp_client"}
  Register <- MCRegister
  Reads <- MCReads
  SendOrder <- OrderMixed
  MaxMsg = 2
  MaxVer = 1
INVARIANT NoLostConfig
PROPERTIES ImplementsNotification EventuallyApplied
