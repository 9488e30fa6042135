SPECIFICATION FairSpec
CONSTANTS
    MaxBalls = 5
    Jobs = {"Receive", "Emit", "PrepareToEmit", "PrepareToReceive", "Eject", "SetBalls", "Stop"}
    Preset = {}
    MayDisable = TRUE
INVARIANTS
    TypeOK
    ReceiveOnlyWhenCollecting
    NoOrphanShot
PROPERTIES
    EmitIsNotLost
    NoShotWhileIntakeOut
    IntakeComesBack
