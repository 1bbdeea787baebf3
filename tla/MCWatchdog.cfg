SPECIFICATION FairSpec
CONSTANTS
    CtrlKeys = {lctrl}
    Alt = alt
    Del = del
    EvdevBuffer = 2
    force_path = FALSE
    Lockers <- MCAllLockers
INVARIANT NoBypass
INVARIANT NoOrphan
INVARIANT FallbackRemoved
INVARIANT RealUnlessLost
PROPERTY InterruptStops
PROPERTY Reconnects
