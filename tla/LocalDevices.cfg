\* A sensor beside a relayio with a following and an inverting input, two motors,
\* and the relayio alone in every mode.  Ticks up to twice the cap late and
\* thresholds of two and four caps; max_speed below, at and above both ends of
\* its range, not configured and not a number; levels around 0.5.
CONSTANTS
    Deployments = {{"analogsensor", "relayio"}, {"motorctl"}, {"relayio"}}
    Cap = 2
    NoisyAfter = 4
    FaultAfter = 8
    MaxGap = 4
    Horizon = 12
    MaxSpeeds = {0, 1, 3, 4, Absent, NaN, Inf}
    DefaultRpm = 2
    RpmLimit = 3
    DutySteps = 2
    Absent = Absent
    NaN = NaN
    Inf = Inf
    Channels = {1, 2}
    Modes = {"inert", "non_interacting", "sim"}
    Levels = {49, 50}
    NoValue = NoValue
SPECIFICATION LocalSpec
INVARIANTS GoodIsAccurate DegradesNoEarlier InputsAsDocumented
PROPERTIES NoiseEndsInFault SpeedSettles
