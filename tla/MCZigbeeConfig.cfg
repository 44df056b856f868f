\* Two sets of parameters, two settings, two tries; the orders take one reply.
SPECIFICATION FairSpec
CONSTANTS
  Param = {p, q}
  Setting <- MCSetting
  Resend = 2
  MaxMsg = 2
  Taken = 1
  MaxRx = 2
  MaxEvent = 1
INVARIANTS NestingBounded Acknowledged
PROPERTIES CallsEnd TakenUp
