SPECIFICATION FairSpec
CONSTANTS
    BaseDelay = 5
    MaxDelay = 60
    Kinds <- MCKinds
    MaxParts = 3
    MaxStarts = 2
INVARIANTS
    TypeOK
    KeepAlivesAreFree
PROPERTIES
    QuietAfterStop
    LostOnlyToStopOrRaise
    StopCompletes
    Reconnects
    BacksOff
CHECK_DEADLOCK FALSE
