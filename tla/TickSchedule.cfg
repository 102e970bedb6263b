\* Period 3: a tick can end early in its period, just at its end, or several
\* periods late.
CONSTANTS
    Period = 3
    MaxNow = 12
SPECIFICATION ScheduleSpec
INVARIANTS PhaseAligned NoBurst SkipsOnlyMissed
PROPERTIES StopIsSeen KeepsTicking
CHECK_DEADLOCK FALSE
