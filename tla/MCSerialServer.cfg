\* The RS485 slave with two disturbances or messages.
SPECIFICATION FairSpec
CONSTANTS
  Code = {p, invalid}
  Invalid = invalid
  Conf = p
  Default = d
  Own = {"read", "write"}
  Alien = {"answer", "mask"}
  Shape <- MCShape
  MaxAdu = 20
  MaxMsg = 2
  MaxRx = 3
  MaxEvent = 2
INVARIANT NoOverrun
PROPERTIES Answered TakenUp
