SPECIFICATION Spec
CONSTANTS
    s1 = s1
    s2 = s2
    s3 = s3
    r1 = r1
    r2 = r2
    k1 = k1
    k2 = k2
    c1 = c1
    c2 = c2
    c3 = c3
    sftp = sftp
    other = other
    NoConn = NoConn
    NoSession = NoSession
    Sweeper = Sweeper
    Hosts <- MCHosts
    AllowedHosts <- MCAllowedHosts
    Requests <- MCRequests
    Callers <- MCCallers
    InsecureHostKey = TRUE
    MaxConnections = 1
    IdleTimeout = 1
    Ttl = 1
    MayStop = FALSE
    SkipLogin = FALSE
    Clients <- OneClient
    Sessions <- TwoSessions
    Conns <- TwoConns
SYMMETRY MCSymmetry
INVARIANT BusyNotEvicted
