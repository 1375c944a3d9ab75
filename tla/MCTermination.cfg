\* Two agents, one leader, timers that expire without limit; no symmetry.
SPECIFICATION OneLeaderSpec
CONSTANTS
    Node = {n1, n2}
    FirstLeader = n1
    Task = {t1}
    TargetConsensus = 2
    MaxRounds = 1
    EventCap = 20
    MaxTerm = 0
    MaxLag = 1
    MaxFires <- NoLimit
CHECK_DEADLOCK FALSE
PROPERTY Terminates
