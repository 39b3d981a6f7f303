CONSTANTS
    Nodes <- N
    Edges <- E
    NoNode = 0
    Graphs <- MCGraphs
    Asks <- MCAsks
    Facts <- MCFacts
    MaxDepth = 2
SPECIFICATION ImpactSpec
INVARIANT WalkIsHonest
INVARIANT AnswerIsBall
INVARIANT ClaimsAreTrue
CHECK_DEADLOCK FALSE
