SPECIFICATION FairSpec
CONSTANTS
    Char = {"a", "b", "p", "-", "_"}
    DBPrefix <- MCPrefix
    Databases <- MCDatabases
    Hosts = {1, 2}
    RetryInterval = 500
    CollectorTimeout = 1000
    CollectInterval = 1
    InstanceRefreshInterval = 2
    MaxRetries = 2
    Overrun = 500
    Step = 500
INVARIANTS
    TypeOK
    DetailsAreOwn
    GivesUpInTime
PROPERTIES
    NoEarlyGiveUp
    StaleDetailsReplaced
    DeletedLosesWorker
