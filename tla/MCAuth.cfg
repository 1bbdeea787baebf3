SPECIFICATION FairSpec
INVARIANT AcceptedByAuthority
INVARIANT RightPasswordAccepted
INVARIANT ChangedMeansStored
INVARIANT ReapingRestored
PROPERTY AnswerComes
PROPERTY ZombieReaped
