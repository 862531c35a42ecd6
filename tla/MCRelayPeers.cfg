SPECIFICATION Spec
CONSTANTS
    Tokens = {t1}
    Handlers = {r1, r2}
    PeerIDs = {a, b}
    Udp = {u1, u2}
    Ws = {}
    NoPeer = NoPeer
    NoToken = NoToken
    NoEndpoint = NoEndpoint
    HeaderSize = 1
    ControlSize = 1
    MaxDatagram = 1
    DisableForwarding = FALSE
    MaxBytesPerSession = 1
    MaxBytesPerDay = 0
    Day = 10
    sessionIdleTimeout = 1
    TombstoneTTL = 1
    cookieLifetime = 3
    nudgeInterval = 1
    MaxLag = 1
    MaxTime = 3
SYMMETRY HandlerSymmetry
INVARIANTS OneToOne CutStaysCut
PROPERTY ActiveKept
