\* Number 0 is in use, 1 is the queue, 2 to 4 are for sockets.
SPECIFICATION FairSpec
CONSTANTS
  MaxFd = 4
  QueueFd = 1
  Port = {p1, p2}
  MaxMsg = 2
INVARIANTS FdmaxCovers RefsetExact NeverWaits
PROPERTY RequestsServed
