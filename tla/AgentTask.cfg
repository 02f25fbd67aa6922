SPECIFICATION Spec
CONSTANTS
    N = 2
    Options <- AllOptions
INVARIANTS EngineIsConsistent
PROPERTIES StopOnlyDuringFirstSubTask ImplementsLifecycle Terminates
CHECK_DEADLOCK FALSE
