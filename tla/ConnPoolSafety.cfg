SPECIFICATION PoolSpec
CONSTANTS
    s1 = s1
    s2 = s2
    s3 = s3
    t1 = t1
    t2 = t2
    c1 = c1
    c2 = c2
    c3 = c3
    c4 = c4
    sftp = sftp
    other = other
    NoConn = NoConn
    NoSession = NoSession
    Hosts <- MCHosts
    AllowedHosts <- MCAllowedHosts
    Callers <- MCCallers
    InsecureHostKey = TRUE
    MaxConnections = 1
    IdleTimeout = 1
    Sessions <- MCSessions
    Conns <- MCConns
SYMMETRY MCSymmetry
INVARIANTS
    PoolTypeOK
    OwnedOnce
    NoLeak
    OwnSession
    CeilingOvershoot
