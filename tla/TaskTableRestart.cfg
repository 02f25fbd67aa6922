SPECIFICATION Spec
CONSTANTS
    Tasks = {t1, t2}
    Engines = {e1}
    MaxCrashes = 1
INVARIANTS FailedByRestartIsTrue
