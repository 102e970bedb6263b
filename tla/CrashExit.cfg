\* The crash timer fires while a ticker thread runs.
CONSTANTS
    Modes = {"inert", "non_interacting", "sim"}
    CrashAfter = TRUE
    MaxWaits = 3
SPECIFICATION Spec
INVARIANT CrashExitCode
CHECK_DEADLOCK FALSE
