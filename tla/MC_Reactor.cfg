\* A pipe of one byte, so EAGAIN happens.
CONSTANTS
    e1 = e1
    e2 = e2
    Events <- MCEvents
    PipeCap = 1
SPECIFICATION Spec
INVARIANTS TypeOK NoLostWakeup
PROPERTIES PingedApplied TermSignalStops
\* The process exits after chassis_free.
CHECK_DEADLOCK FALSE
