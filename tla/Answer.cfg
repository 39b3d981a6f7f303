CONSTANTS
    Nodes <- N
    Edges <- E
    NoNode = 0
    Graphs <- MCGraphs
    Asks = {}
    Facts = {}
    MaxDepth = 0
    PathAsks <- MCAsks
    Goals = {1, 4}
    PathFacts <- MCFacts
    Symbols <- MCSymbols
    Scopes <- MCScopes
    Searches <- MCSearches
    Documents <- MCDocuments
    Caps <- MCCaps
    TextSize <- MCTextSize
    AnswerCaps <- MCAnswerCaps
    Size <- MCSize
SPECIFICATION AnswerSpec
INVARIANT RouteIsShortest
INVARIANT SilenceIsTrue
INVARIANT PackedIsBest
PROPERTY EveryQueryEnds
CHECK_DEADLOCK FALSE
