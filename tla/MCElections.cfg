\* The default target of 3, two rounds, a one-place event channel; leadership moves once, one timeout.
SPECIFICATION Spec
CONSTANTS
    Node = {n1, n2}
    Task = {t1}
    TargetConsensus = 3
    MaxRounds = 2
    EventCap = 1
    MaxTerm = 1
    MaxLag = 1
    MaxFires = 1
    MaxLog = 9
SYMMETRY NodeSymmetry
CONSTRAINT BoundedLog
CHECK_DEADLOCK FALSE
INVARIANTS
    VotesApplied
    DoneHasQuorum
    ProposalHasQuorumAnswers
    RewardedOnce
