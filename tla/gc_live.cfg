SPECIFICATION FairSpec
CONSTANTS
    l1 = l1
    l2 = l2
    l3 = l3
    other = other
    Link = {l1, l2}
    Peer = {fc, other}
    Fc = fc
    Owner <- FcTwice
    EventCap = 2
    AnnounceCap = 1
    DataCap = 1
    CloseFails = TRUE
PROPERTIES
    PendingResolves
    LostLinkReleased
