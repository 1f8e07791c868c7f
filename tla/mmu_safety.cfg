SPECIFICATION Spec
CONSTANTS
    Hosts <- SafetyHosts
    AtcEntries = 2
    MaxFrames = 2
INVARIANTS
    TypeOK
    AtcCoherent
    TablesDecide
    AccessComplete
    FrameFaithful
    HaltJustified
CHECK_DEADLOCK FALSE
