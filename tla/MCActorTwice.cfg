CONSTANTS
    w1 = w1
    w2 = w2
    w3 = w3
    c1 = c1
    c2 = c2
    c3 = c3
    NoCallback = NoCallback
    Workers <- TwoWorkers
    Callbacks <- TwoCallbacks
    DerivedCalls <- DerivedAsDocumented
SPECIFICATION Spec
INVARIANT OnceInPriority
