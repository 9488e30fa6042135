SPECIFICATION FairSpec
CONSTANTS
    ClimbHeight = 2
    MaxHeight = 3
    Top = 5
    FieldModes = {TRUE, FALSE}
    MayDisable = TRUE
    MayCrowd = TRUE
INVARIANTS
    TypeOK
    WithinTravel
    DrivenOnlyWhileAsked
    OneDriver
PROPERTIES
    DeployCompletes
