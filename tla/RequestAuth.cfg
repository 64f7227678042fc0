SPECIFICATION FairSpec
CONSTANTS
    Pollers <- MCPollers
    Clearing <- MCPollers
    Users <- MCUsers
    Streams <- None
    Objects = {o1, o2}
    Requests = 2
    MaxReboots = 1
    MaxErrors = 2
    MaxCalls = 2
INVARIANTS
    TypeOK
    ReauthExplained
PROPERTIES
    WrongIsNoticed
    Recovers
