\* Two agents, one restart of either, one snapshot; leadership moves with a restart.
SPECIFICATION RecoverySpec
CONSTANTS
    Node = {n1, n2}
    Task = {t1}
    TargetConsensus = 2
    MaxRounds = 1
    EventCap = 1
    MaxTerm = 1
    MaxLag = 1
    MaxFires = 0
    SnapshotThreshold = 5
    MaxRestarts = 1
    MaxSnapshots = 1
    MaxLog = 9
SYMMETRY NodeSymmetry
CONSTRAINT BoundedLog
ACTION_CONSTRAINT LeadershipMovesByRestart
CHECK_DEADLOCK FALSE
INVARIANTS
    RecoveryTypeOK
    DoneHasAcceptors
    VotesSinceStart
    RestoredAgreement
    OneAnswerPerStart
