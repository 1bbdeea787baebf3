SPECIFICATION FairSpec
CONSTANTS
    VTs <- MCVTs
    DefaultVT = 12
    SysRqValues <- MCSysRq
    Backlights = {panel}
    MaxBacklights = 4
    MaxBrightness = 60
    Levels <- MCDark
    MaxSignals = 2
INVARIANT EmergencyReturns
INVARIANT NoDeadConsole
PROPERTY GivenBack
PROPERTY ScreenStaysLit
PROPERTY LeavingCompletes
