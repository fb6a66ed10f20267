SPECIFICATION FairBridgeSpec
CONSTANTS
    l1 = l1
    l2 = l2
    NoLink = NoLink
    Link = {l1, l2}
    Peer = {fc}
    Fc = fc
    Owner <- FcOwnsAll
    EventCap = 4
    AnnounceCap = 1
    DataCap = 1
    CloseFails = FALSE
    AirCap = 1
PROPERTIES
    LinkServed
