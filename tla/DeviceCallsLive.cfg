\* A registered device, an unknown one and chaos_control; one command from the
\* engine in the middle of a sequence of two requests.
CONSTANTS
    Devices = {chaos, dev, ghost}
    Registered = {dev}
    EngineTargets = {dev}
    Chaos = chaos
    Signals = {s1}
    DeviceFunctions = {1}
    FunctionStrings <- MCFunctionStrings
    DurationArgs = {0, 2}
    LatencyArgs <- MCLatencyArgs
    Malformed = {1, 2, 3, 4, 6}
    TicksPerMs = 1
    HalfRange = 32
    MaxRequests = 2
    MaxCommands = 1
    MaxNow = 2
    NoFault = NoFault
SPECIFICATION Spec
PROPERTY EveryJobFinishes
CHECK_DEADLOCK FALSE
