SPECIFICATION Spec
CONSTANTS
    Callers = {c1, c2}
    Controls <- MCControls
    Kind <- MCKind
    Disabled = {"io"}
    HasMutex = {"motion", "line"}
    Excluding = {{"motion", "line"}}
    Scenes <- MCScenes
    Unknown = unknown
    MaxCalls = 2
    MaxChanges = 1
    MaxUpsets = 1
INVARIANTS
    TypeOK
    Explained
PROPERTIES
    ExclusiveByOverlap
    CallEffective
    Settles
CHECK_DEADLOCK FALSE
