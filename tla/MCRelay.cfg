\* Two servers that write the relay, with power losses.
SPECIFICATION FairSpec
CONSTANTS
  Server = {s1, s2}
  Main = m
  Value = {0, 1, 2}
INVARIANTS CoilsRest RelayFollows
PROPERTY CoilsReleased
