\* Three rows, two restarts, one database error, two concurrent callers.
SPECIFICATION FairSpec
CONSTANTS
    MaxJobs = 3
    MaxStamps = 3
    MaxStops = 2
    MaxDbErrors = 1
    KeepRecent = 2
    Callers = {c1, c2}
    ToggleKeys = {toggle}
    TaskKeys = {house_keeping}
    HouseKeepingKey = house_keeping
    NoKey = no_key
INVARIANTS
    TypeOK
    WorkersOwnRunning
    AtMostOneAttempt
    NewestTogglePending
PROPERTIES
    ImplementsOneShotJobs
    QueuedJobLeavesQueue
