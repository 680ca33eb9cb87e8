SPECIFICATION Spec
CONSTANTS
    Builders <- AllBuilders
    Exchanges = 2
    Steps = {1000}
    MaxTime = 8000
INVARIANTS
    CallsBounded
    PoolHasNoDeadline
    StandardConnectBounded
PROPERTIES
    NoEarlyTimeout
