SPECIFICATION Spec
CONSTANTS
    Order <- MCOrder
    Panels = {"panel"}
    Device <- MCDevice
    SentChannel <- MCSentChannel
    Identity <- MCIdentity
    Host <- MCHost
    Edited <- MCEdited
    Gateway = "gateway"
    MaxPosts = 1
    MaxUpsets = 2
INVARIANTS
    TypeOK
    RegistryFollows
    OneEntityPerDocument
PROPERTIES
    RightSensor
    Delivered
    Settles
CHECK_DEADLOCK FALSE
