SPECIFICATION FairSpec
CONSTANTS
    Pollers <- None
    Clearing <- None
    Users <- None
    Streams <- MCStreams
    Objects = {o1, o2}
    Requests = 2
    MaxReboots = 1
    MaxErrors = 0
    MaxCalls = 0
PROPERTIES
    Recovers
