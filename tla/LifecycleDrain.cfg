CONSTANTS
    q1 = q1
    q2 = q2
    h1 = h1
    h2 = h2
    NoOne = NoOne
    Queries <- MCQueries
    Handlers <- MCHandlers
    MaxAdmitted = 3
    Streams <- MCStreams
    MaxSignals = 2
    Servers = {s1}
    Opens = {o1, o2}
    NoServer = NoServer
    Probes = {r1}
    Projects <- MCProjects
    MaxChanges = 1
SPECIFICATION EndSpec
INVARIANT DrainIsSound
INVARIANT EndsClean
INVARIANT ReadyIsEarned
PROPERTY InterruptEnds
CHECK_DEADLOCK FALSE
