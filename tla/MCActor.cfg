CONSTANTS
    w1 = w1
    w2 = w2
    w3 = w3
    c1 = c1
    c2 = c2
    c3 = c3
    NoCallback = NoCallback
    Workers <- ThreeWorkers
    Callbacks <- ThreeCallbacks
    DerivedCalls <- NoDerivedCall
SPECIFICATION FairSpec
INVARIANTS
    TypeOK
    OnceInPriority
    NotStranded
    DestroyedAlone
PROPERTIES
    ImplementsSerial
    AllRun
    DestructorEnds
