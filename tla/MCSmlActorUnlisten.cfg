SPECIFICATION FairSpec
CONSTANTS
    MaxHandles = 3
    MaxChanges = 1
    MaxChildren = 2
    UnlistensItself = TRUE
    Tables <- NoTable
INVARIANT UnlistenInCallbackIsDefined
\* the actor has nothing to do once it is stopped
CHECK_DEADLOCK FALSE
