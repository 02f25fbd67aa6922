SPECIFICATION Spec
CONSTANTS
    Tokens = {t1}
    Bodies = {b1}
    UpdateOps = {"mark_routed"}
    EventBytes = 1
    BodyBytes = 2
    MaxBytes = 4
    QuarantineAt = 2
    DeferredBegin = TRUE
    MaxEvents = 2
    MaxFaults = 1
PROPERTIES Drains
