\* Three agents deciding by majority, a one-place event channel, two entries of lag.
SPECIFICATION Spec
CONSTANTS
    Node = {n1, n2, n3}
    Task = {t1}
    TargetConsensus = 1
    MaxRounds = 1
    EventCap = 1
    MaxTerm = 0
    MaxLag = 2
    MaxFires = 0
SYMMETRY NodeSymmetry
CHECK_DEADLOCK FALSE
INVARIANTS
    DoneHasQuorum
    FinalOverwrittenOnlyByTimeout
