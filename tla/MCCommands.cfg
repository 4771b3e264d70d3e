SPECIFICATION Spec
CHECK_DEADLOCK FALSE
CONSTANTS
    MaxRepeat = 2
    Timeouts = {0, 2}
    Samples = {1, 2}
    Spots = {s1}
    s1 = s1
    Flows <- Families
    Required = 2
    Height = 5
    Size = 3
    Reach = 5
    MinStep = 1
    CoveredStep = 1
    MaxLooks = 3
    Plans <- Searches
    Slips <- Slipping
    Optional = 1
    Registry <- Support
    FileTrees <- Trees
    Savings <- Saved
    Selections <- Callers
    MaxEdits = 1
    MaxErrors = 4
    MaxTraversalDepth = 3
INVARIANTS
    EveryBatchIsAimedAnew
    PassIsObserved
    ProgramIsWhole
    WorstCauseWins
PROPERTIES
    ScrollKeepsSight
    CommandsEnd
