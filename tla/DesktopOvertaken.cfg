CONSTANTS
    Starter = {"ui"}
    Engine = {1, 2}
    NoEngine = 99
    MaxSaves = 1
    NetstatFinds = TRUE

SPECIFICATION DesktopSpec
CHECK_DEADLOCK FALSE

INVARIANT
    SavedIsServed
