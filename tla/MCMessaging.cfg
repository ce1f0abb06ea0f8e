CONSTANTS
    p1 = p1
    p2 = p2
    a = a
    b = b
    m1 = m1
    m2 = m2
    h1 = h1
    h2 = h2
    h3 = h3
    h4 = h4
    Main = Main
    NoMessage = NoMessage
    NoHandle = NoHandle
    Ports <- TwoPorts
    Types <- TwoTypes
    Handles <- FourHandles
    CtorHandles <- Constructors
    PortOf <- PortOfHandle
    Messages <- TwoMessages
    TypeOf <- TypeOfAll
SPECIFICATION FairSpec
INVARIANTS
    TypeOK
    TotalOrder
    ListenTakesEffect
PROPERTIES
    ImplementsBroadcast
    PublishReturns
    AllHandled
