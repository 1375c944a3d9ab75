\* A snapshot that contains the end of the task.
SPECIFICATION FairSpec
CONSTANTS
    Request = {r1}
    MaxUpdates = 2
    MaxRestores = 1
CHECK_DEADLOCK FALSE
PROPERTY DoneIsAlwaysAnswered
