\* Command lines of up to three arguments, built with and without FluxGraph.
\* A process that has exited, or has reached the run loop, takes no more steps.
CONSTANTS
    CommandLines <- MCCommandLines
    Configs <- MCConfigs
    Builds = {TRUE, FALSE}
    PathOwners = {"d1", "d2", "elsewhere"}
    Absent = Absent
    Bad = Bad
SPECIFICATION Spec
INVARIANTS ServesOnlyWhatStarted AcceptsWhatIsDocumented
CHECK_DEADLOCK FALSE
