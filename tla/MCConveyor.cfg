SPECIFICATION FairSpec
CONSTANT Preset = {3}
INVARIANTS
    TypeOK
    CountsFit
    CountedWhileStaged
    StagedBallHeld
    NeverWaitsInVain
PROPERTIES
    ClockIsFresh
    EndsStopped
    KeepsLedger
    BeltsComeToRest
