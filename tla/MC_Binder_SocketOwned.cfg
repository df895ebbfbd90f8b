CONSTANTS
    c1 = c1
    c2 = c2
    u1 = u1
    Sockets = {s1, s2, s3}
    NoUser = NoUser
    NoConns = NoConns
    NoSock = NoSock
    Backends <- MCBackends
    BackendType <- MCBackendType
    Sessions <- MCSessions
    SessionUser <- MCSessionUser
    MaxPrep <- MCMaxPrep
    GuintBits <- MCGuintBits
    MaxConnected <- MCMaxConnected
SPECIFICATION Spec
INVARIANT SocketOwned
SYMMETRY MCSymmetry
CHECK_DEADLOCK FALSE
