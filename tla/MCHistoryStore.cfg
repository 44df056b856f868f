\* Two turns, or two units of the clock, between snapshots; a deletion of two
\* rows after the third; two units to a minute.
SPECIFICATION FairSpec
CONSTANTS
  Interval = 2
  MaxRows = 2
  DelRows = 2
  MaxMsg = 1
  PerMinute = 2
  MaxTime = 2
  MaxFail = 1
INVARIANTS TableBounded RecentKept FirstIsOldest
PROPERTIES StoresGoOn Answered
