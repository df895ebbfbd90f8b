CONSTANTS
    Users = {u1, u2}
    Keys = {k1, k2}
    Sockets = {s1, s2, s3}
    NoUser = NoUser
    NoConns = NoConns
    NoSock = NoSock
    MidIdle <- MCMidIdle
    MinIdle <- MCMinIdle

SPECIFICATION Spec

INVARIANT TypeOK
PROPERTY IdlePoolRefined
