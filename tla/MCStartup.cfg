\* Three agents, the retry limits of the code.
SPECIFICATION Spec
CONSTANTS
    Node = {n1, n2, n3}
    Nobody = none
    MaxWaits = 20
    MaxPublish = 5
    LoggerSet = FALSE
CHECK_DEADLOCK FALSE
PROPERTY ElectsLeader
