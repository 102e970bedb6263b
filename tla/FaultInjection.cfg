\* One device with two signals: every order of injecting, re-injecting with a
\* longer or a shorter duration, asking, clearing and expiring.
CONSTANTS
    Devices = {d1}
    Signals = {s1, s2}
    FunctionStrings = {f1}
    Durations = {1, 2}
    Latencies = {1}
    TicksPerMs = 1
    HalfRange = 8
    LastTick = 2
    NoFault = NoFault
SYMMETRY Symmetry
SPECIFICATION InjectionSpec
PROPERTY ImplementsContract
