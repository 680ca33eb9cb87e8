SPECIFICATION Spec
CONSTANTS
    pg = pg
    my = my
    postgres = postgres
    cloudwatch = cloudwatch
    GUID = {pg}
    Driver = {postgres}
    TypeOf <- MCTypeOf
    SupportedTypes <- MCSupportedTypes
    maxRetries = 0
    Requests = {"stop"}
    Slot = {s1}
    NoSlot = NoSlot
    NoID = NoID
INVARIANT
    NoWorkersAfterStop
