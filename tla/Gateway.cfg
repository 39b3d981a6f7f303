CONSTANTS
    l1 = l1
    l2 = l2
    a1 = a1
    o1 = o1
    q1 = q1
    NoOne = NoOne
    Launches <- MCLaunches
    Starts <- MCStarts
    Stops <- MCStops
    Statuses <- MCStatuses
    Configs <- MCConfigs
    MaxPolls = 2
    MaxInflight = 1
SPECIFICATION FairSpec
INVARIANT OwnerRecordStands
INVARIANT ReportsAreTrue
PROPERTY StopIsObeyed
PROPERTY CommandEnds
CHECK_DEADLOCK FALSE
