SPECIFICATION Spec
CONSTANTS
    Sources <- FewSources
    Tasks <- AllTasks
    Windows = {0, 2}
    Ks = {0, 2}
    AutoKs = {2, 3}
    AutoTaus = {3}
    TauDefault = 4
    Budgets = {0, 2}
    Overlap = 2
    MaxLine = 5
    MaxChunks = 3
    MaxDepth = 2
    MaxInput = 11
    Bodies <- TwoLines
    MoreBodies <- More
    Completions <- Answers
    MaxContinuations = 2
    MaxBuffer = 8
    MaxEvents = 2
\* An analysis, and a request, is over at some point.
CHECK_DEADLOCK FALSE
INVARIANTS
    EveryLineAsked
    ChunkingInvisible
    WholeOrRefused
