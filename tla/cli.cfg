SPECIFICATION Spec
CONSTANTS
    Words <- MCWords
    Completes <- MCCompletes
    Atoi <- MCAtoi
    AddLike <- MCAddLike
    Lines <- MCLines
    Worlds <- MCWorlds
    MaxIndex = 5
    MaxChanges = 3
CHECK_DEADLOCK FALSE
INVARIANTS
    TypeOK
    ExitZeroMeansDone
    FailureIsExplained
    AttachNamesBridge
    AsTyped
    NullNeedsCause
