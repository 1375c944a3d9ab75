\* One request, two servers, one election, updates of its task, one snapshot.
SPECIFICATION FairSubmissionSpec
CONSTANTS
    Request = {r1}
    MaxUpdates = 3
    MaxRestores = 1
    Server = {s1, s2}
    Home = s1
    Nobody = none
    MaxTerm = 1
CHECK_DEADLOCK FALSE
INVARIANTS
    SubmissionTypeOK
    SubscribersOpen
    BlockedIsRegistered
    BlockedIsUpToDate
    AdmittedOnce
    HopsNeedElections
    ListenersSentOnce
PROPERTIES
    VersionsIncrease
    DoneIsAnswered
    CallsReturn
    ImplementsRequests
