SPECIFICATION Spec
CONSTANTS
    Tasks = {t1}
    Engines = {e1, e2}
    MaxCrashes = 2
INVARIANTS ExecutingIsTrue
PROPERTIES OutcomeIsKept NoZombie
