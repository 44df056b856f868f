\* Three addresses for the two registers, a queue of two, three timeouts.
SPECIFICATION ClientFairSpec
CONSTANTS
  Addr = {a, b, c}
  MaxOrders = 2
  MaxIdle = 3
INVARIANTS WatchesConnection AddressCurrent
PROPERTIES GivenUpWhenSilent DeadPeerDropped BothTried
