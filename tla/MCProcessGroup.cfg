SPECIFICATION FairSpec
CONSTANTS
    Process = {p1, p2}
    NoProcess = NoProcess
    Gone = Gone
    Goroutine <- MCGoroutine
INVARIANTS
    TypeOK
    CollectsUnderLock
    OneCollectorPerID
PROPERTIES
    CleanExit
    LostLockEndsProcess
    SignalEndsProcess
    SomeoneCollects
