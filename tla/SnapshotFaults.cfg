CONSTANTS
    r1 = r1
    d1 = d1
    Readers <- MCReader
    Writers <- MCWriters
    Tools = {"query", "status", "recover"}
    Projects <- MCProject
    Shards <- MCTwoShards
    MaxGen = 2
    MaxRetained = 1
    MaxTamper = 1
    MaxAttempts = 2
SPECIFICATION RecoverySpec
INVARIANT ServedBytesIntact
INVARIANT DropNeedsCause
INVARIANT AbsenceIsExplained
PROPERTY EveryCallEnds
