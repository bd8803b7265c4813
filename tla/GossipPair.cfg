SPECIFICATION FairSpec
CONSTANTS
    a1 = a1
    a2 = a2
    dc = dc
    None = None
    Agent = {a1, a2}
    Pullers = {a1}
    Links <- TheLinks
    Datacenter <- TheDatacenter
    Fanout <- TheFanout
    PushPull <- ThePushPull
    MaxStep <- TheMaxStep
    MaxLife <- TheMaxLife
INVARIANTS
    TypeOK
    CacheIsNewest
    AggregateConsistent
    VersionsFollowSteps
PROPERTIES
    NeighboursHear
