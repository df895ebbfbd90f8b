CONSTANTS
    Addresses = {a1, a2}
    StartTime <- MCStartTime
    MaxTime <- MCShortMaxTime
SPECIFICATION Spec
INVARIANT TypeOK
PROPERTY IndexStable
