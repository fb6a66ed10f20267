SPECIFICATION FairSpec
CONSTANTS
    Host <- Hosts
    NoHost = NoHost
    LastHost = 4
    InboxCap = 2
    MaxRestarts = 2
INVARIANTS
    TypeOK
    StationHeard
PROPERTIES
    RunningStationFound
    SilentStationGivenUp
