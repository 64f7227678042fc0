SPECIFICATION FairSpec
CONSTANTS
    Pollers <- TwoPollers
    Clearing <- None
    Users <- None
    Streams <- None
    Objects = {o1, o2}
    Requests = 1
    MaxReboots = 2
    MaxErrors = 0
    MaxCalls = 0
INVARIANTS
    ReauthOnlyIfWrong
