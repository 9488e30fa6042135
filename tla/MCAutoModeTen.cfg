SPECIFICATION Spec
CONSTANTS
    Tree <- TenOnly
    MaxBalls = 5
    Loaded = 3
PROPERTIES
    BeginsPrepared
