\* Leadership moves once; no symmetry, timers that expire without limit.
SPECIFICATION OneLeaderSpec
CONSTANTS
    Node = {n1, n2}
    FirstLeader = n1
    Task = {t1}
    TargetConsensus = 2
    MaxRounds = 1
    EventCap = 20
    MaxTerm = 1
    MaxLag = 1
    MaxFires <- NoLimit
CHECK_DEADLOCK FALSE
PROPERTY Terminates
