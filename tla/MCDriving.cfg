SPECIFICATION FairSpec
CONSTANTS
    Powers = {0, 1, 2, 4}
    Tolerance = 1
    MaxDouble = 9
    Settings = {s1, s2, s3}
    Runnable = {s1, s2}
    NoSetting = NoSetting
    TakeOver = TRUE
INVARIANTS
    TypeOK
    PowerHasAnOwner
    StickIsFollowed
    TakeoverLeavesNothing
PROPERTIES
    ProgramIsFresh
    TimedDrivesEnd
