\* Two ports, intervals below and above the least ones.
SPECIFICATION FairSpec
CONSTANTS
  Setting <- MCSetting
  MinShort = 1
  MinLong = 2
  MaxMsg = 1
  MaxRx = 1
  MaxWait = 3
  MaxSince = 7
  MaxSet = 2
  MaxEvent = 1
INVARIANT BeatInTime
PROPERTIES Served TakenUp
