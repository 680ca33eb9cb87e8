SPECIFICATION Spec
CONSTANTS
    pg = pg
    my = my
    postgres = postgres
    cloudwatch = cloudwatch
    GUID = {pg}
    Driver = {postgres, cloudwatch}
    TypeOf <- MCTypeOf
    SupportedTypes <- MCSupportedTypes
    maxRetries = 1
    Requests = {"signal", "stop"}
    Slot = {s1, s2}
    NoSlot = NoSlot
    NoID = NoID
INVARIANTS
    TypeOK
    OneWorkerPerID
    WorkersRunningExact
    CollectorsClosed
    ReportIsNotStale
    RunReturnsClean
PROPERTY
    ImplementsService
