CONSTANTS
    Keys <- LoggerKeys
    Texts <- SomeTexts
    Numbers <- SomeNumbers
    IntWidth = 4
    CallbackReturns = TRUE
    MaxEvents = 7
    MaxOpen = 3
    MaxWidth = 2
SPECIFICATION Spec
INVARIANTS
    TypeOK
    ParseFollowsGrammar
    SaidIsRead
    ReadIsSaid
    LoggerFollowsDocument
