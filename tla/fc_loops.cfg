SPECIFICATION FairSpec
CONSTANTS
    l1 = l1
    l2 = l2
    NoLink = NoLink
    Link = {l1, l2}
    EventCap = 3
    DataCap = 1
    MaxChunks = 2
    ZeroReadLimit = 2
INVARIANTS
    TypeOK
    AnswersOnOwnLink
    NoLeakedLink
    PendingLinkTimed
    AssertionsHoldUnlessDiscarded
    NoCircularWait
PROPERTIES
    ReadGoesOverOneLink
    SessionSpec
    OnlySelfWaitBlocks
    UnpluggedShutsDown
