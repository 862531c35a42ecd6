SPECIFICATION Spec
CONSTANTS
    Tokens = {t1}
    Handlers = {r1, r2}
    PeerIDs = {a, b}
    Udp = {}
    Ws = {w1, w2}
    NoPeer = NoPeer
    NoToken = NoToken
    NoEndpoint = NoEndpoint
    HeaderSize = 1
    ControlSize = 1
    MaxDatagram = 2
    DisableForwarding = FALSE
    MaxBytesPerSession = 3
    MaxBytesPerDay = 2
    Day = 1
    sessionIdleTimeout = 1
    TombstoneTTL = 1
    cookieLifetime = 1
    nudgeInterval = 1
    MaxLag = 1
    MaxTime = 1
SYMMETRY HandlerSymmetry
INVARIANTS CarriedWithinCap EachByteOnce 
