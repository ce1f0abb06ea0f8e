SPECIFICATION FairSpec
CONSTANTS
    MaxHandles = 2
    MaxChanges = 2
    MaxChildren = 2
    UnlistensItself = FALSE
    Tables <- SomeTables
INVARIANTS TypeOK ListensAsAsked OwnCalledOnce StateInCallback MachineInOrder
PROPERTIES OwnBeforeOthers RequestConfirmed
\* the actor has nothing to do once it is stopped
CHECK_DEADLOCK FALSE
