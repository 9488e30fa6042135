SPECIFICATION Spec
CONSTANTS
    Far = 1
    MaxBalls = 1
    Jobs = {"Receive", "Emit", "PrepareToEmit", "PrepareToReceive", "Eject", "SetBalls", "Stop"}
    Preset = {}
    MayDisable = FALSE
INVARIANTS
    SampleIsUpToDate
