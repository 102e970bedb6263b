\* Both engines, driven and undriven, every request between any two steps.
CONSTANTS
    Temps <- MCTemps
    InitialTemps <- MCInitialTemps
    SetpointArgs <- MCSetpointArgs
    Engines = {"local", "remote"}
    NoValue = NoValue
SPECIFICATION Spec
INVARIANTS ClosedPairIsCoherent
PROPERTIES OpenModeIsManual ImplementsThermostat ClosedLoopSettles
