SPECIFICATION InputSpec
CONSTANTS
    MaxReads = 2
    IdleLimit = 5
    Cooldown = 3
    QueueLen = 4
    MaxEvents = 3
    InputMax = 3
    MaxLen = 4
INVARIANT OneClickPerPress
INVARIANT TypeOK
INVARIANT ShiftComesUp
INVARIANT StoredAsTyped
PROPERTY ButtonComesUp
