\* One well and two servers, power losses and a failing msync.
SPECIFICATION Spec
CONSTANTS
  Well = {1}
  Reg <- SettingsReg
  WELL_TYPE = "type"
  DO0 = "do"
  Addr <- SettingsAddr
  Value = {0, 1, 2}
  Blank = 65535
  Map1 <- SettingsMap1
  Map00 <- SettingsMap00
  Server = {s1, s2}
  Button = {}
  Requests <- SettingsRequests
  MaxFail = 1
INVARIANTS TypeOK Durable NeverErased SettingsSurvive
