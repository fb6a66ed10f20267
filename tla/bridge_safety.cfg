SPECIFICATION BridgeSpec
CONSTANTS
    l1 = l1
    l2 = l2
    NoLink = NoLink
    Link = {l1, l2}
    Peer = {fc}
    Fc = fc
    Owner <- FcOwnsAll
    EventCap = 2
    AnnounceCap = 1
    DataCap = 1
    CloseFails = TRUE
    AirCap = 2
SYMMETRY LinkSymmetry
INVARIANTS
    BridgeTypeOK
    SessionAgreed
    WrittenInSession
PROPERTIES
    SessionOnLastAnswer
