SPECIFICATION Spec
CONSTANTS
    N = 2
    Options <- AllOptions
INVARIANTS NoOverlap UnconfirmedFreezes SavedIsTrue UndoneCompletely
PROPERTIES CancelIsHonoured ImplementsLifecycle Terminates
CHECK_DEADLOCK FALSE
