SPECIFICATION FairSpec
CONSTANTS
    Groups <- MCGroups
    Order <- MCOrder
    PushedGroups <- MCPushed
    Interval = "zero"
    PollFast = FALSE
    Missing = Missing
    MaxChanges = 3
    MaxFailures = 0
    MaxBreaks = 0
PROPERTIES
    FollowUpCatches
