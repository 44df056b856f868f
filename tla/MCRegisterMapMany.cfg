\* Two wells, a relay, requests for several registers, and the reset button.
SPECIFICATION Spec
CONSTANTS
  Well = {1, 2}
  Reg <- ManyReg
  WELL_TYPE = "type"
  DO0 = "do"
  Addr <- ManyAddr
  Value = {0, 1, 2}
  Blank = 65535
  Map1 <- ManyMap1
  Map00 <- ManyMap00
  Server = {s1}
  Button = {b}
  Requests <- ManyRequests
  MaxFail = 1
INVARIANT WritableRequestLands
