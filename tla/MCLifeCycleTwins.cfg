CONSTANTS
    r = r
    c1 = c1
    c2 = c2
    g1 = g1
    g2 = g2
    kr = kr
    k1 = k1
    k2 = k2
    l1 = l1
    l2 = l2
    NoClass = NoClass
    Root = r
    Classes <- AllClasses
    Actors <- SmallTree
    Children <- SmallChildren
    ClassOf <- Twins
    Late <- NobodyLate
    Users <- RootUser
SPECIFICATION Spec
INVARIANT StartedAfterChildren
