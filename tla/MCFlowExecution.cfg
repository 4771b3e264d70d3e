SPECIFICATION FairSpec
CHECK_DEADLOCK FALSE
CONSTANTS
    Commands <- MCCommands
    Flows <- MCFlows
    Apps = {"shop", "bank"}
    Command <- MCCommand
    Flow <- MCFlow
    Roots = {"main", "loop"}
    NoFlow = NoFlow
    NoApp = NoApp
    MaxSpans = 17
INVARIANTS
    ScopesNested
    RootReportsWorst
    ResultsStandOnce
PROPERTIES
    CompletionHooksRun
    CancellationReported
    RunEnds
