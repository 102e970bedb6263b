\* Every function of every device type with every kind of argument.
CONSTANTS
    DeviceTypes = {"tempctl", "motorctl", "relayio", "analogsensor", "chaos_control"}
    Ints <- MCInts
    Doubles <- MCDoubles
    Texts = {"open", "closed", "other", "0", "2"}
    NumericTexts = {"0", "2"}
SPECIFICATION Spec
INVARIANTS DeclaredIsEnforced RefusalNamesTheDefect
