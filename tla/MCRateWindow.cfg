SPECIFICATION WSpec
CONSTANTS
    v4 = v4  a1 = a1  a2 = a2  a3 = a3
    k4 = k4  ka = ka  kb = kb  site = site
    Hosts = {v4, a1, a2, a3}
    RateKeys = {k4, ka, kb}
    Sites = {site}
    NoSite = NoSite
    RateKey <- FourHosts
    Site <- OneSite
    MaxNewSessionsPerMin = 2
    v6SiteFactor = 1
    Minute = 2
    MaxTime = 3
INVARIANTS WithinWindow
