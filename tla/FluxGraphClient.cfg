\* Two sensor paths: one can be read before a session is lost and one after.
CONSTANT Paths = {p1, p2}
SPECIFICATION Spec
INVARIANTS TickResultIsFresh SessionCoherent RpcBudget
PROPERTIES ImplementsEngineContract RecoversWhileRegistered TickReturns
CHECK_DEADLOCK FALSE
