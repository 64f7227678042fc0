SPECIFICATION FairSpec
CONSTANTS
    Groups <- MCGroups
    Order <- MCOrder
    PushedGroups <- MCPushed
    Interval = "unset"
    PollFast = FALSE
    Missing = Missing
    MaxChanges = 2
    MaxFailures = 1
    MaxBreaks = 1
INVARIANTS
    TypeOK
PROPERTIES
    MirrorSpec
    OlderOnlyByOverlap
    Converges
