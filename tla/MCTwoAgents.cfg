\* Two agents, the default target of 3, one leader, two rounds, one timeout.
SPECIFICATION Spec
CONSTANTS
    Node = {n1, n2}
    Task = {t1}
    TargetConsensus = 3
    MaxRounds = 2
    EventCap = 20
    MaxTerm = 0
    MaxLag = 2
    MaxFires = 1
SYMMETRY NodeSymmetry
CHECK_DEADLOCK FALSE
INVARIANTS
    TypeOK
    RoundsInOrder
    ResultIsAcceptedText
    FinalOverwrittenOnlyByTimeout
    LiveTaskIsTimed
    QuiescentAgreement
    Reigning
PROPERTIES
    ImplementsDeliberation
