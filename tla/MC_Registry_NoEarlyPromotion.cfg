CONSTANTS
    Addresses = {a1, a2}
    StartTime <- MCStartTime
    MaxTime <- MCMaxTime
SPECIFICATION Spec
PROPERTY NoEarlyPromotion
