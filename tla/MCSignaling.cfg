SPECIFICATION FairSpec
CONSTANTS
    h1 = h1  h2 = h2  k1 = k1  k2 = k2
    Hosts = {h1, h2}
    RateKeys = {k1, k2}
    Sites = {}
    NoSite = NoSite
    RateKey <- OneKeyEach
    Site <- V4Only
    MaxNewSessionsPerMin = 0
    v6SiteFactor = 4
    Minute = 1
    MaxTime = 3
    Slots = {s1}
    Ids = {i1, i2}
    Polls = {p1}
    NoHost = NoHost
    NoId = NoId
    NoSlot = NoSlot
    MaxSessionsPerIP = 1
    UnpairedTTL = 2
    AbandonedTTL = 1
    PairedTTL = 1
    consumedTTL = 1
    LongPollTimeout = 1
INVARIANTS TypeOK TableConsistent CountsMatch CloseOnce OwnPeer ConsumedStaysClosed PolledNotAbandoned
PROPERTIES ClaimedOnce CapPassedOnlyByRestore PollAnswered
