SPECIFICATION FairSpec
CONSTANTS
    Requests = {r1}
    NoRequest = NoRequest
    MaxBoots = 2
    MaxTroubles = 1
    MaxFaults = 2
INVARIANTS
    RestartsAreHonest
    OutagesArePaired
    EventsAreKeptOnce
PROPERTIES
    SupervisorRecovers
CHECK_DEADLOCK FALSE
