SPECIFICATION FairSpec
CONSTANTS
    Pids = {p1, p2}
    NoShell = NoShell
    NeedsPassword = TRUE
    MaxKeys = 2
INVARIANT IndicatorTruthful
INVARIANT ClosedTerminalGone
INVARIANT RootOnlyAuthorized
PROPERTY StaleEnterHarmless
PROPERTY DialogIsModal
PROPERTY ShellEndNoticed
PROPERTY LoopEnds
