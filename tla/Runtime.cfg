CONSTANTS
    k1 = k1
    k2 = k2
    k3 = k3
    k4 = k4
    k5 = k5
    NoThread = NoThread
    Keys <- MCKeys
    Sizes = {1, 2, 3, 5}
    MaxBytes = 4
    MaxEntries = 2
    Threads = {t1, t2}
    MaxReads = 2
    Generation <- MCGeneration
    SizeOf <- MCSizeOf
    MaxCalls = 6
    Workers = {w1, w2}
    Bindings <- MCBindings
    Offers <- MCOffers
    Ttls = {1, 2}
    MaxIssues = 3
    MaxTime = 2
    Documents <- MCDocuments
    Credentials <- MCCredentials
    Asks <- MCAsks
    AllowedHosts <- MCAllowedHosts
    AllowedOrigins = {"bound"}
    None = None
    MaxRewrites = 2
    Projects = {1, 2}
    Reports <- MCReports
    MaxGenerations = 2
    Heads <- MCHeads
    Baselines <- MCHeads
SPECIFICATION RuntimeSpec
INVARIANT CachesAreSound
INVARIANT CursorKeepsItsRequest
INVARIANT ServedAsBound
INVARIANT HiddenLooksAbsent
INVARIANT StatusIsHonest
INVARIANT ChangesAreExact
CHECK_DEADLOCK FALSE
