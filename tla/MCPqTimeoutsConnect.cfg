SPECIFICATION Spec
CONSTANTS
    Builders <- MainBuilder
    Exchanges = 2
    Steps = {1000}
    MaxTime = 8000
INVARIANT
    ConnectBounded
