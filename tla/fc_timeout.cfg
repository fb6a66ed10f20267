SPECIFICATION FairSpec
CONSTANTS
    l1 = l1
    l2 = l2
    NoLink = NoLink
    Link = {l1, l2}
    EventCap = 2
    DataCap = 1
    MaxChunks = 2
    ZeroReadLimit = 2
PROPERTIES
    RequestGivenUp
