SPECIFICATION Spec
CONSTANTS
    StreamParts <- MCStreamParts
    LengthLine <- MCLengthLine
    MaxParts = 3
    Addresses <- MCAddresses
    FirstHosts <- MCFirstHosts
    MaxSets = 3
    MaxEdits = 2
    Viewers = {v1, v2}
    Slots = {"e1", "e2"}
    FlowIds = {f1, f2}
    Serials = {"s1", "s2"}
    HostNames = {"h1", "h2"}
    FirstEntries <- MCFirstEntries
    MaxFlows = 4
    MaxSwaps = 1
    Units <- MCUnits
    TamperZones <- MCTamperZones
    FieldsOf <- MCFieldsOf
    Always = {"triggered", "tamper"}
    MaxPanel = 3
    MaxLost = 1
    CameraSerials = {"c1", "c2", "own"}
    Protocols = {"HIKVISION"}
    DigitalIds <- MCDigitalIds
    AnalogIds = {5}
    MaxListings = 2
INVARIANTS
    TypeOK
    PartsInTime
    HostReadsBack
    SnapshotHonest
    EntryKeepsDevice
    ShownIsHeard
    CamerasApart
CHECK_DEADLOCK FALSE
