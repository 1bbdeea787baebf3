SPECIFICATION Spec
CONSTANTS
    VTs <- MCVTs
    DefaultVT = 12
    SysRqValues <- MCSysRq
    Backlights = {panel}
    MaxBacklights = 4
    MaxBrightness = 60
    Levels <- MCDark
    MaxSignals = 1
INVARIANT ScreenComesBack
