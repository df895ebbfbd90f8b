CONSTANTS
    u1 = u1
    u2 = u2
    s1 = s1
    s2 = s2
    s3 = s3
    NoUser = NoUser
    NoConns = NoConns
    NoSock = NoSock
    Users <- MCUsers
    Sockets <- MCSockets
    Values <- MCValues
    StartTime = 5
    MaxTime = 7
SPECIFICATION Spec
PROPERTIES WarmupEndsOnlyPastMid
SYMMETRY MCSymmetry
