CONSTANTS
    Tables <- MCTables
    MaxArray = 2
    PathStrings <- MCPathStrings
SPECIFICATION Spec
INVARIANT TypeOK
INVARIANT FilenamesAbsolute
INVARIANT ParentOfSound
CHECK_DEADLOCK FALSE
