\* One device that copies its state, one that keeps its mutex; every choice of
\* driven paths.
CONSTANTS
    SnapshotDevices = {temp}
    HoldingDevices = {analog}
    Engines = {"local", "remote"}
    MaxChanges = 2
    None = None
SPECIFICATION Spec
INVARIANTS NoCircularWait ReadsAreFresh NotFedBack
