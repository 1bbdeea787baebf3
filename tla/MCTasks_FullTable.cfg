SPECIFICATION Spec
CONSTANTS
    Pids = {1, 3, 4}
    HistSize = 2
    TopProcs = 2
    PerTick = 2
    Deltas = {1, 2}
    Cores = 2
    MaxTicks = 1
    MaxFresh = 1
PROPERTY FullShowsNothing
