SPECIFICATION Spec
CONSTANTS
    MaxBalls = 5
    Jobs = {"Receive", "Emit", "PrepareToEmit", "PrepareToReceive", "Eject", "SetBalls", "Stop"}
    Preset = {}
    MayDisable = FALSE
INVARIANT
    ShootIsQueued
