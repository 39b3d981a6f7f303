CONSTANTS
    s1 = s1
    k1 = k1
    w1 = w1
    Sources <- MCSources
    Keepers <- MCKeepers
    Publishers <- MCPublishers
    Backends = {"flock", "LockFileEx"}
    MaxAttempts = 2
    MaxPolls = 1
    MaxFaults = 2
SPECIFICATION FairSpec
INVARIANT PublisherExcludesReaders
INVARIANT ClosedCallLeavesNoLock
PROPERTY GateDrains
PROPERTY ImplementsContract
PROPERTY CallTerminates
