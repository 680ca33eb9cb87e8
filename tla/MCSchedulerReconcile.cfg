SPECIFICATION ListingFairSpec
CONSTANTS
    pg = pg
    my = my
    postgres = postgres
    cloudwatch = cloudwatch
    GUID = {pg}
    Driver = {postgres, cloudwatch}
    TypeOf <- MCTypeOf
    SupportedTypes <- MCSupportedTypes
    maxRetries = 1
    Requests = {}
    Slot = {s1}
    NoSlot = NoSlot
    NoID = NoID
PROPERTIES
    ListedInstanceHasWorker
    UnlistedInstanceLosesWorker
    FailingWorkerGivesUp
    StableInstanceNotCancelled
