SPECIFICATION FairSpec
CONSTANTS
    Tree <- MatchModes
    MaxBalls = 5
    Loaded = 3
INVARIANTS
    TypeOK
    AwaitedIsNotCut
    InOrder
PROPERTIES
    BeginsPrepared
    ModeEnds
