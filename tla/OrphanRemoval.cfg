SPECIFICATION FairSpec
CONSTANTS
    Order <- OnlyPanel
    Panels <- MCPanels
    Controls <- NoControls
    Parts = {1, 2}
    MaxErrors = 1
    MaxToggles = 0
    MaxActs = 1
    MaxRestarts = 0
PROPERTIES
    OnlyRetiredRemoved
CHECK_DEADLOCK FALSE
