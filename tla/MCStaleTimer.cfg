\* A timer that fired just before the task was done.
SPECIFICATION Spec
CONSTANTS
    Node = {n1, n2}
    Task = {t1}
    TargetConsensus = 2
    MaxRounds = 1
    EventCap = 20
    MaxTerm = 0
    MaxLag = 1
    MaxFires = 1
SYMMETRY NodeSymmetry
CHECK_DEADLOCK FALSE
INVARIANTS
    TimeoutSparesDoneTasks
