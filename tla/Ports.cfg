SPECIFICATION Spec
CONSTANTS
    Tasks = {0, 1}
    Labels <- Names
    Count <- TwoPorts
    Start <- Starts
    PortStart = 5
    PortEnd = 8
    Nobody <- OfNone
INVARIANTS
    TypeOK
    DistinctPorts
    SequentialTasksNeverMeet
    HoldersRefused
    PeersAgree
