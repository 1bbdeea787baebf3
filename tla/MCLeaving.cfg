SPECIFICATION FairSpec
CONSTANTS
    Polls = 2
    MaxProcs = 3
INVARIANT MasterFree
PROPERTY KeyboardComesBack
PROPERTY SignOutHappens
PROPERTY PowerHappens
