\* A deposed leader votes on the proposal only it has.
SPECIFICATION Spec
CONSTANTS
    Node = {n1, n2}
    Task = {t1}
    TargetConsensus = 2
    MaxRounds = 2
    EventCap = 20
    MaxTerm = 1
    MaxLag = 1
    MaxFires = 0
SYMMETRY NodeSymmetry
CHECK_DEADLOCK FALSE
INVARIANTS
    ResultIsAcceptedText
