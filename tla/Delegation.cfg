CONSTANTS
    c1 = c1
    c2 = c2
    old = old
    Calls = {c1, c2}
    Solutions <- S
    Registered = {"alpha", "beta"}
    OldJobs = {old}
    OwnerOf <- MCOwnerOf
    Requests <- MCRequests
    Refusals <- MCRefusals
    NoJob = NoJob
    MaxAttempts = 2
SPECIFICATION LiveSpec
INVARIANT OnlyAuthorized
INVARIANT NoOrphans
INVARIANT AnswersMatchWork
PROPERTY EveryCallEnds
CHECK_DEADLOCK FALSE
