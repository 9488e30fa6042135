SPECIFICATION FairSpec
CONSTANTS
    Far = 1
    MaxBalls = 1
    Jobs = {"Receive", "Emit", "PrepareToEmit", "PrepareToReceive", "Eject", "SetBalls", "Stop"}
    Preset = {}
    MayDisable = TRUE
INVARIANTS
    LockIsCurrent
    NoShotWithoutLock
PROPERTIES
    VolleyIsAimed
    SteadyAimIsReady
