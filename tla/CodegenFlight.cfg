SPECIFICATION FairSpec
CONSTANTS
    a = a
    b = b
    NoCall = NoCall
    Calls <- TwoCalls
    SetUps <- ThreeSetUps
    Limits <- ThreeLimits
    Units = 2
    Permits = 1
INVARIANTS
    TypeOK
    NothingLeftRunning
    GuardsAccounted
    OneGenerator
PROPERTIES
    EveryCallReturns
