SPECIFICATION FairSpec
CONSTANTS
    Polls = 2
    MaxProcs = 3
PROPERTY FailsafeOnlyLast
