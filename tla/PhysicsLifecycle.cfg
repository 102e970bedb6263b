\* All modes, three WaitReady requests, and the crash timer armed.
CONSTANTS
    Modes = {"inert", "non_interacting", "sim"}
    CrashAfter = TRUE
    MaxWaits = 3
SPECIFICATION Spec
INVARIANTS TickerUsesLiveObjects OneTicker FlagMeansTicking OrderlyExit
PROPERTIES ShutdownCompletes TicksAfterWaitReady
CHECK_DEADLOCK FALSE
