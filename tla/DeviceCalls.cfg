\* Two registered devices and chaos_control; one command from the engine in the
\* middle of a sequence of three requests.  DeviceCallsLive.cfg has the arguments
\* that chaos_control rejects.
CONSTANTS
    Devices = {chaos, d1, d2}
    Registered = {d1, d2}
    EngineTargets = {d1, d2}
    Chaos = chaos
    Signals = {s1}
    DeviceFunctions = {1}
    FunctionStrings <- MCFunctionStrings
    DurationArgs = {2}
    LatencyArgs = {1}
    Malformed = {4}
    TicksPerMs = 1
    HalfRange = 32
    MaxRequests = 3
    MaxCommands = 1
    MaxNow = 2
    NoFault = NoFault
SYMMETRY RegisteredSymmetry
SPECIFICATION Spec
INVARIANTS AdmittedStaysAvailable GateHolds CleanRequestUntouched ListingIsHonest ListedIsDescribable
CHECK_DEADLOCK FALSE
