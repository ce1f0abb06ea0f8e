CONSTANTS
    d1 = d1
    d2 = d2
    d3 = d3
    c1 = c1
    c2 = c2
    c3 = c3
    NoCallback = NoCallback
    Dispatchers <- ThreeDispatchers
    Callbacks <- ThreeCallbacks
SPECIFICATION FairSpec
INVARIANTS
    TypeOK
    SleepAccounting
    StartedMeansUp
    NoLostWakeup
    StoppedIsQuiescent
    IdleIsQuiescent
PROPERTIES
    ImplementsExecutor
    AllDispatched
    CallsReturn
