\* The clock stops at MaxTime, and with it the run: no deadlock of the system.
SPECIFICATION Spec
CONSTANTS
    N = 2
    Kind <- MCKind
    Registers <- MCRegisters
    MaxSleep = 3
    Minute = 2
    MaxMinutes = 1
    Minutes = 1
    Word = 8
    Cnt = 2
    Period = 1
    Day = 3
    Jumps <- MCJumps
    Grace = 0
    MaxTime = 13
    MaxEvent = 2
CHECK_DEADLOCK FALSE
INVARIANT ClearedInTime
PROPERTY LiveKept
