SPECIFICATION Spec
CONSTANTS
    l1 = l1
    l2 = l2
    l3 = l3
    other = other
    Link = {l1, l2, l3}
    Peer = {fc, other}
    Fc = fc
    Owner <- FcTwiceAndOther
    EventCap = 2
    AnnounceCap = 1
    DataCap = 1
    CloseFails = TRUE
SYMMETRY FcLinkSymmetry
INVARIANTS
    TypeOK
    AuthenticatedIsFc
    ServedOnlyFc
    KeyAnnounceWaits
PROPERTIES
    KeepsSessionLinkOpen
    FreshAnswer
    DeadlineKept
    SessionSpec
