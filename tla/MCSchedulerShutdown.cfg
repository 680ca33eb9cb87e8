SPECIFICATION FairSpec
CONSTANTS
    pg = pg
    my = my
    postgres = postgres
    cloudwatch = cloudwatch
    GUID = {pg}
    Driver = {postgres, cloudwatch}
    TypeOf <- MCTypeOf
    SupportedTypes <- MCSupportedTypes
    maxRetries = 0
    Requests = {"signal", "stop"}
    Slot = {s1}
    NoSlot = NoSlot
    NoID = NoID
PROPERTIES
    ShutdownCompletes
    StopTerminates
