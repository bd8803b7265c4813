SPECIFICATION Spec
CONSTANTS
    s1 = s1
    s2 = s2
    None = None
    Signals = {s1}
    Configs <- PlainConfig
    NSteps = 2
    NEpochs = 2
    NoiseMultiplier = 1
    MinNoise = 1
    MaxNoise = 3
    TotalSteps = 3
    WarmupSteps = 1
    Orders <- TheOrders
    Scale = 1000
    Subsampled <- TheSubsampled
    Conversion <- TheConversion
    Infinity = 1000000
    CheckpointEvery = 2
    MaxStep = 4
CHECK_DEADLOCK FALSE
PROPERTIES
    MergedUpdatesPolicy
