SPECIFICATION MCSpec
CONSTANTS
    s1 = s1
    s2 = s2
    None = None
    Signals = {s1, s2}
    Configs <- TheConfigs
    NSteps = 2
    NEpochs = 2
    NoiseMultiplier = 2
    MinNoise = 1
    MaxNoise = 3
    TotalSteps = 3
    WarmupSteps = 1
    Orders <- TheOrders
    Scale = 1000
    Subsampled <- TheSubsampled
    Conversion <- TheConversion
    Infinity = 1000000
    CheckpointEvery = 2
    MaxStep = 4
    Value = {a, b}
    NoValue = NoValue
    Capacity = 3
    MaxPos = 7
CHECK_DEADLOCK FALSE
INVARIANTS
    TypeOK
    SharedIsPrivate
    UpdatesCharged
    DivergencesAdd
    StoppedCleanly
    RingTypeOK
    NoTornRead
    SlotsDisjoint
PROPERTIES
    NoRolloutOnClosedEnv
    SignalEndsAgent
    ImplementsFifo
    PushedIsPopped
