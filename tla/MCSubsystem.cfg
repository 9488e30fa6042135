SPECIFICATION FairSpec
CONSTANTS
    parent = parent
    child = child
    p1 = p1
    pd = pd
    c1 = c1
    c2 = c2
    cd = cd
    Null = Null
    Subs <- MCSubs
    Above <- MCAbove
    RunOrder <- MCRunOrder
    Act <- MCAct
    Home <- MCHome
    AsAction <- MCAsAction
    AsDefault <- MCAsDefault
    CancelSetsDone <- MCCancelSetsDone
    Kept <- MCKept
    Limited = {child}
INVARIANTS
    TypeOK
    WorkingIsStarted
PROPERTIES
    DropsOnlyForDefault
    TakeoverClearsBelow
    DefaultComesBack
