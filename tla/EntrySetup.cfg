SPECIFICATION FairSpec
CONSTANTS
    Order <- MCOrder
    Panels <- MCPanels
    Controls <- MCPanels
    Parts = {1}
    MaxErrors = 1
    MaxToggles = 1
    MaxActs = 2
    MaxRestarts = 1
INVARIANTS
    TypeOK
    ListenersAccountedFor
    HostReverted
    ViewReady
PROPERTIES
    RemovedIfRetiredOrBlind
    SetupCompletes
CHECK_DEADLOCK FALSE
