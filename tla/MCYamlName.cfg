CONSTANTS
    Keys <- NameKeys
    Texts <- OneText
    Numbers <- SomeNumbers
    IntWidth = 4
    CallbackReturns = FALSE
    MaxEvents = 5
    MaxOpen = 2
    MaxWidth = 2
SPECIFICATION Spec
INVARIANT LoggerHasConfiguredName
